------------------------------ MODULE RowQueue ------------------------------
(***************************************************************************)
(* What the retry_queue table of sync/state_store.py promises to whoever   *)
(* uses it, with times reduced to "due or not": at most one row per        *)
(* record, ids that are handed out once and in order, a row that keeps its *)
(* id until it is deleted, and only a failed retry that postpones it.      *)
(***************************************************************************)
EXTENDS Naturals

CONSTANT Record

VARIABLES
    rows,          \* rows[r]: the row of record r
    next           \* above every id handed out so far

Row == [id : Nat, ver : Nat, state : {"due", "waiting"}]
NoRow == [id |-> 0, ver |-> 0, state |-> "waiting"]

Present(r) == rows[r].id # 0

\* Whatever an earlier run left in the file.
QueueInit ==
    /\ next \in Nat \ {0}
    /\ rows \in [Record -> Row]
    /\ \A r \in Record : Present(r) => rows[r].id < next
    /\ \A r, q \in Record : Present(r) /\ rows[r].id = rows[q].id => r = q

\* A failed push leaves a row that is due at once.
Put(r) ==
    /\ rows'[r].ver \in Nat
    /\ rows' = [rows EXCEPT ![r] = [id |-> IF Present(r) THEN rows[r].id ELSE next,
                                    ver |-> rows'[r].ver, state |-> "due"]]
    /\ next' = IF Present(r) THEN next ELSE next + 1

Remove(r) ==
    /\ Present(r)
    /\ rows' = [rows EXCEPT ![r] = NoRow]
    /\ UNCHANGED next

Postpone(r) ==
    /\ Present(r)
    /\ rows' = [rows EXCEPT ![r].state = "waiting"]
    /\ UNCHANGED next

\* Time passes: any of the postponed rows become due.
Elapse ==
    \E S \in SUBSET {r \in Record : Present(r) /\ rows[r].state = "waiting"} :
        /\ rows' = [r \in Record |-> IF r \in S THEN [rows[r] EXCEPT !.state = "due"]
                                                ELSE rows[r]]
        /\ UNCHANGED next

QueueStep == Elapse \/ \E r \in Record : Put(r) \/ Remove(r) \/ Postpone(r)

QueueSpec == QueueInit /\ [][QueueStep]_<<rows, next>>

=============================================================================
