-------------------------------- MODULE Tally --------------------------------
(***************************************************************************)
(* Tally, as the connector sees it: a set of records, each with the        *)
(* company-wide AlterID of its last alteration.  A version of a record is  *)
(* identified with its AlterID, which the shipped mapping copies into the  *)
(* payload, so two versions never have the same content hash.  Tally is    *)
(* external; what an export returns is what tally/xml_builder.py asks for. *)
(***************************************************************************)
EXTENDS Registry

CONSTANT MaxAlter          \* bound: the last AlterID a user's edit may take

VARIABLES
    tally,                 \* tally[r]: AlterID of the current version, 0 if r does not exist
    lastAlter              \* the last AlterID Tally handed out

ASSUME TallyAssumption == MaxAlter \in Nat

TallyTypeOK ==
    /\ tally \in [Record -> Nat]
    /\ lastAlter \in Nat
    /\ \A r \in Record : tally[r] <= lastAlter

\* A user creates the record or alters it: it takes the next AlterID.
Edit(r) ==
    /\ lastAlter < MaxAlter
    /\ lastAlter' = lastAlter + 1
    /\ tally' = [tally EXCEPT ![r] = lastAlter + 1]

\* The records a collection request returns: those of the entity, within the
\* dates asked for (scope), with $AlterID > since.  A request without the
\* AlterID filter is a request with since = 0.
Export(e, since, scope) ==
    {r \in RecordsOf(e) \cap scope : tally[r] > since}

==============================================================================
