----------------------------- MODULE MCCommand -----------------------------
(***************************************************************************)
(* Small instances of Command for TLC: three entities, two of them mapped, *)
(* over registries that can and that cannot be ordered.                    *)
(***************************************************************************)
EXTENDS Command, TLC

CONSTANTS r1, r2, r3, r4, r5, r6, ledger, group, memo, ghost

DeclaredLastFirst == <<ledger, group, memo>>

\* A chain and a diamond's side against the order of declaration, a common
\* dependency; a cycle, an entity that depends on itself, a name that is not registered.
SomeGraphs == {
    (ledger :> {group, memo} @@ group :> {memo} @@ memo :> {}),
    (ledger :> {group} @@ group :> {} @@ memo :> {ledger, group}),
    (ledger :> {group} @@ group :> {ledger} @@ memo :> {}),
    (ledger :> {} @@ group :> {ghost} @@ memo :> {memo})}

\* The last one is of an entity an earlier release had.
SixEntityOf ==
    (r1 :> group @@ r2 :> ledger @@ r3 :> ledger @@ r4 :> memo @@ r5 :> memo @@ r6 :> ghost)

=============================================================================
