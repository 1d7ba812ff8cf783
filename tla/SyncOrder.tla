----------------------------- MODULE SyncOrder -----------------------------
(***************************************************************************)
(* models/registry.py, resolve_sync_order: Kahn's algorithm over the       *)
(* depends_on of the registry, pass by pass.  A pass takes every entity    *)
(* whose dependencies are resolved, in the order of declaration; a pass    *)
(* that finds none raises ValueError.                                      *)
(***************************************************************************)
EXTENDS Naturals, Sequences

CONSTANTS
    Name,          \* the entities of REGISTRY
    Declared,      \* the same, in the order of their declaration
    Graphs         \* the depends_on under consideration: functions on Name,
                   \* whose values may hold names that are not in REGISTRY

ASSUME SyncOrderAssumption ==
    /\ Declared \in Seq(Name)
    /\ \A n \in Name : \E i \in 1 .. Len(Declared) : Declared[i] = n
    /\ \A i, j \in 1 .. Len(Declared) : Declared[i] = Declared[j] => i = j
    /\ \A g \in Graphs : DOMAIN g = Name

VARIABLES
    dependsOn,     \* the registry's depends_on
    remaining,     \* not resolved yet
    ready,         \* what is left of the current pass
    resolved,      \* the order so far
    raised         \* ValueError

orderVars == <<dependsOn, remaining, ready, resolved, raised>>

Emitted == {resolved[i] : i \in 1 .. Len(resolved)}

DeclaredBefore(m, n) ==
    \E i, j \in 1 .. Len(Declared) : i < j /\ Declared[i] = m /\ Declared[j] = n

BeginOrder ==
    /\ remaining = Name
    /\ ready = {}
    /\ resolved = <<>>
    /\ raised = FALSE

OrderInit == dependsOn \in Graphs /\ BeginOrder

\* Mutant: one resolved dependency is enough.
SomeResolved(n) == dependsOn[n] = {} \/ dependsOn[n] \cap Emitted # {}

\* Mutant: < for <=, so that nothing can come first.
StrictlyResolved(n) == dependsOn[n] \subseteq Emitted /\ dependsOn[n] # Emitted

\* set(spec.depends_on) <= resolved_names
Resolvable(n) == dependsOn[n] \subseteq Emitted

\* A pass begins: ready is computed once, before anything of it is emitted.
NextPass ==
    /\ remaining # {}
    /\ ready = {}
    /\ ready' = {n \in remaining : Resolvable(n)}
    /\ ready' # {}
    /\ UNCHANGED <<dependsOn, remaining, resolved, raised>>

\* Mutant: an entity stays in remaining and is ready again in the next pass.
EmitAndKeep ==
    \E n \in ready :
        /\ \A m \in ready \ {n} : DeclaredBefore(n, m)
        /\ resolved' = Append(resolved, n)
        /\ ready' = ready \ {n}
        /\ UNCHANGED <<dependsOn, remaining, raised>>

\* The pass goes on with the entity declared first.
Emit ==
    \E n \in ready :
        /\ \A m \in ready \ {n} : DeclaredBefore(n, m)
        /\ resolved' = Append(resolved, n)
        /\ remaining' = remaining \ {n}
        /\ ready' = ready \ {n}
        /\ UNCHANGED <<dependsOn, raised>>

\* "Cyclic or unresolved dependency among entities".
Raise ==
    /\ remaining # {}
    /\ ready = {}
    /\ ~raised
    /\ \A n \in remaining : ~Resolvable(n)
    /\ raised' = TRUE
    /\ UNCHANGED <<dependsOn, remaining, ready, resolved>>

OrderStep == NextPass \/ Emit \/ Raise

OrderSpec == OrderInit /\ [][OrderStep]_orderVars

-----------------------------------------------------------------------------
\* Everything an entity depends on comes before it in the order, at every point
\* of the algorithm ("masters first, then vouchers, in dependency order").
DependenciesFirst ==
    \A i \in 1 .. Len(resolved) :
        dependsOn[resolved[i]] \subseteq {resolved[j] : j \in 1 .. i - 1}

\* No entity is in the order twice, and none is missing at the end.
EachOnce ==
    /\ \A i, j \in 1 .. Len(resolved) : resolved[i] = resolved[j] => i = j
    /\ remaining = {} => Emitted = Name

\* ValueError is raised only for entities that really wait for each other: each of
\* those left depends on another one left, on itself, or on an unknown name.
RaisedOnlyIfStuck ==
    raised => /\ remaining # {}
              /\ \A n \in remaining : \E d \in dependsOn[n] : d \in remaining \/ d \notin Name

=============================================================================
