------------------------------- MODULE Mirror -------------------------------
(***************************************************************************)
(* What the connector is for, said without it: each site holds, of each    *)
(* record, a version that Tally has had, and goes from one to a later one. *)
(* No cycle, cache, queue or watermark: those are means.                   *)
(***************************************************************************)
EXTENDS Naturals

CONSTANTS Record, Target

VARIABLES
    source,        \* source[r]: the current version in Tally, 0 for none
    site           \* site[t][r]: the latest version site t holds, 0 for none

MirrorInit ==
    /\ source = [r \in Record |-> 0]
    /\ site = [t \in Target |-> [r \in Record |-> 0]]

\* A record is written, with a version above all others (AlterID is of the company).
Write(r) ==
    /\ \A q \in Record : source'[r] > source[q]
    /\ source' = [source EXCEPT ![r] = source'[r]]
    /\ UNCHANGED site

\* A site comes closer to Tally.
Publish(t, r) ==
    /\ site'[t][r] > site[t][r]
    /\ site'[t][r] <= source[r]
    /\ site' = [site EXCEPT ![t][r] = site'[t][r]]
    /\ UNCHANGED source

MirrorStep ==
    \E r \in Record : Write(r) \/ \E t \in Target : Publish(t, r)

MirrorSpec == MirrorInit /\ [][MirrorStep]_<<source, site>>

=============================================================================
