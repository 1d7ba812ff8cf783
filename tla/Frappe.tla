------------------------------- MODULE Frappe -------------------------------
(***************************************************************************)
(* The Frappe sites the connector may be pointed at, as their REST API     *)
(* shows them: documents that are created, replaced by name and looked up  *)
(* by the mapped natural-key field.  External: modelled from the calls of  *)
(* frappe/client.py and frappe/dedup.py.  A document keeps its name when a *)
(* user deletes it; names are the positions of a site's sequence.          *)
(***************************************************************************)
EXTENDS Registry

VARIABLE docs              \* docs[t][n]: the document named n on site t

Document == [rec : Record, ver : Nat, live : BOOLEAN]

FrappeTypeOK == docs \in [Target -> Seq(Document)]

Names(t) == 1 .. Len(docs[t])

Live(t, n) == n \in Names(t) /\ docs[t][n].live

\* Mutant: the filter's field is not one Frappe knows, and it returns every document.
Unfiltered(t, r) == {n \in Names(t) : Live(t, n)}

\* GET with the filter [natural key = r]: the names of the matching documents.
Matches(t, r) == {n \in Names(t) : Live(t, n) /\ docs[t][n].rec = r}

Exists(t, r) == Matches(t, r) # {}

\* POST: a new document, whatever the site already holds for the record.
CreateDoc(t, r, v) ==
    docs' = [docs EXCEPT ![t] = Append(@, [rec |-> r, ver |-> v, live |-> TRUE])]

\* PUT by name: every mapped field is replaced, the natural key with them.
UpdateDoc(t, n, r, v) ==
    docs' = [docs EXCEPT ![t][n] = [rec |-> r, ver |-> v, live |-> TRUE]]

\* A Frappe user deletes the document.
DeleteDoc(t, n) ==
    docs' = [docs EXCEPT ![t][n].live = FALSE]

=============================================================================
