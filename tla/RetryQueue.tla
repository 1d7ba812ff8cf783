----------------------------- MODULE RetryQueue -----------------------------
(***************************************************************************)
(* The retry queue with its clock: process_retry_queue of sync/engine.py   *)
(* over the retry_queue table of sync/state_store.py, in the loop of       *)
(* app.py and services/scheduler.py: a sync, a drain, and a pause of       *)
(* sync_interval_minutes.  Times are relative and in ticks: a row's wait   *)
(* is what is left until next_attempt_at.                                  *)
(***************************************************************************)
EXTENDS Naturals, Sequences, FiniteSets

CONSTANTS
    Record,
    Refused,       \* the records whose every push Frappe rejects
    Interval,      \* sync_interval_minutes
    Slow,          \* bound: the ticks a sync and a drain may take together
    Base, Cap,     \* retry_backoff_base_seconds, the 3600 of engine.py
    Limit,         \* process_retry_queue's limit
    Overflow,      \* the least n for which base * 2 ** n is no float (1024)
    MaxCount,      \* bound: attempt_count stops where doubling no longer counts
    MaxEdits,      \* bound: alterations by Tally users
    MaxFaults      \* bound: passing failures of a push, and crashes

ASSUME RetryQueueAssumption ==
    /\ IsFiniteSet(Record)
    /\ Refused \subseteq Record
    /\ Interval \in Nat \ {0} /\ Slow \in Nat /\ Limit \in Nat \ {0}
    /\ Base \in Nat \ {0} /\ Cap \in Nat /\ Overflow \in Nat
    /\ MaxCount \in Nat /\ MaxEdits \in Nat /\ MaxFaults \in Nat
    /\ Base * 2 ^ MaxCount >= Cap

\* True of every MaxCount, and said because TLAPS does not know it of 2 ^ n.
ASSUME PowersAreNumbers == \A n \in 0 .. MaxCount : 2 ^ n \in Nat

VARIABLES
    row, nextId,   \* the table; its next AUTOINCREMENT value
    pc,            \* where the service stands
    clock,         \* ticks spent on this cycle; when asleep, ticks left to sleep
    items,         \* the rows dequeued and not yet handled, as they were read
    changed,       \* records altered since they were last fetched
    fetched,       \* records of this sync not yet pushed
    batch,         \* all records of this sync
    edits, faults,
    fails, age     \* history, per record: its failures since its row was
                   \* created, and the ticks since its latest failed retry

queueVars == <<row, nextId, pc, clock, items, changed, fetched, batch,
               edits, faults, fails, age>>

TimedRow == [id : Nat, ver : Nat, attempts : 0 .. MaxCount, wait : 0 .. Cap]
NoTimedRow == [id |-> 0, ver |-> 0, attempts |-> 0, wait |-> 0]

DequeuedRow == [rec : Record, id : Nat, attempts : 0 .. MaxCount]

Smaller(m, n) == IF m < n THEN m ELSE n

Queued(r) == row[r].id # 0

TimedTypeOK ==
    /\ row \in [Record -> TimedRow]
    /\ nextId \in Nat \ {0}
    /\ pc \in {"asleep", "sync", "drain", "dead"}
    /\ clock \in Nat
    /\ items \in Seq(DequeuedRow)
    /\ changed \subseteq Record /\ fetched \subseteq batch /\ batch \subseteq Record
    /\ edits \in Nat /\ faults \in Nat
    /\ fails \in [Record -> Nat] /\ age \in [Record -> Nat]

\* The service starts with a cycle; every record is new to it.
TimedInit ==
    /\ row = [r \in Record |-> NoTimedRow] /\ nextId = 1
    /\ pc = "sync" /\ clock = 0 /\ items = <<>>
    /\ changed = {} /\ fetched = Record /\ batch = Record
    /\ edits = 0 /\ faults = 0
    /\ fails = [r \in Record |-> 0] /\ age = [r \in Record |-> 0]

-----------------------------------------------------------------------------
(* sync/state_store.py.                                                     *)

\* Mutant: a conflict inserts the row anew, at the end of the queue.
EnqueueLast(r) ==
    /\ row' = [row EXCEPT ![r] = [id |-> nextId, ver |-> edits,
                                  attempts |-> 0, wait |-> 0]]
    /\ nextId' = nextId + 1

\* enqueue_retry, whose caller gives no next_attempt_at: due now.  A conflict
\* keeps the id and counts an attempt.
Enqueue(r) ==
    /\ row' = [row EXCEPT ![r] =
           [id |-> IF Queued(r) THEN @.id ELSE nextId, ver |-> edits,
            attempts |-> IF Queued(r) THEN Smaller(@.attempts + 1, MaxCount) ELSE 0,
            wait |-> 0]]
    /\ nextId' = IF Queued(r) THEN nextId ELSE nextId + 1

\* dequeue_due_retries: the due rows, in the order of their ids, at most Limit.
DueItems ==
    LET due == {r \in Record : Queued(r) /\ row[r].wait = 0}
        place(r) == Cardinality({q \in due : row[q].id <= row[r].id})
    IN  [i \in 1 .. Smaller(Limit, Cardinality(due)) |->
            LET r == CHOOSE q \in due : place(q) = i
            IN  [rec |-> r, id |-> row[r].id, attempts |-> row[r].attempts]]

\* mark_retry_success.
Delete(item) ==
    row' = IF row[item.rec].id = item.id THEN [row EXCEPT ![item.rec] = NoTimedRow] ELSE row

\* Mutant: a retry that failed was the last one.
DeleteFailed(item, w) == Delete(item)

Postponed(old, w) ==
    [old EXCEPT !.attempts = Smaller(old.attempts + 1, MaxCount), !.wait = w]

\* mark_retry_failed, for a time w from now.
PostponeBy(item, w) ==
    row' = IF row[item.rec].id = item.id
           THEN [row EXCEPT ![item.rec] = Postponed(@, w)] ELSE row

-----------------------------------------------------------------------------
(* The service.                                                             *)

Fault == faults < MaxFaults /\ faults' = faults + 1

Service == <<pc, clock, items, fetched, batch>>

\* A user alters a record in Tally.
Alter(r) ==
    /\ edits < MaxEdits
    /\ edits' = edits + 1
    /\ changed' = changed \cup {r}
    /\ UNCHANGED <<row, nextId, Service, faults, fails, age>>

\* The sync pushes a record that it fetched.
Push(r) ==
    /\ pc = "sync"
    /\ r \in fetched \ Refused
    /\ fetched' = fetched \ {r}
    /\ UNCHANGED <<row, nextId, pc, clock, items, changed, batch, edits, faults,
                   fails, age>>

\* The push fails, for good or in passing, and the record is queued.
PushFails(r) ==
    /\ pc = "sync"
    /\ r \in fetched
    /\ IF r \in Refused THEN UNCHANGED faults ELSE Fault
    /\ Enqueue(r)
    /\ fetched' = fetched \ {r}
    /\ fails' = [fails EXCEPT ![r] = IF Queued(r) THEN Smaller(@ + 1, MaxCount) ELSE 0]
    /\ age' = [age EXCEPT ![r] = Cap]
    /\ UNCHANGED <<pc, clock, items, changed, batch, edits>>

\* The sync is done: engine.process_retry_queue().
StartDrain ==
    /\ pc = "sync"
    /\ fetched = {}
    /\ pc' = "drain"
    /\ items' = DueItems
    /\ batch' = {}
    /\ UNCHANGED <<row, nextId, clock, changed, fetched, edits, faults, fails, age>>

\* The next row: its push returns, and it is deleted.
Succeed ==
    /\ pc = "drain"
    /\ items # <<>>
    /\ Head(items).rec \notin Refused
    /\ Delete(Head(items))
    /\ items' = Tail(items)
    /\ UNCHANGED <<nextId, pc, clock, changed, fetched, batch, edits, faults, fails, age>>

\* Mutants: no exponent; one too small; no maximum.
FixedBackoff(item) == Base
HalfBackoff(item) == IF item.attempts = 0 THEN 1
                     ELSE Smaller(Base * 2 ^ (item.attempts - 1), Cap)
UncappedBackoff(item) == Base * 2 ^ item.attempts

\* min(base * 2 ** attempt_count, 3600), of the row as it was dequeued.
Backoff(item) == Smaller(Base * 2 ^ item.attempts, Cap)

\* Or its push fails, and it backs off; but the handler itself raises once
\* 2 ** attempt_count is "too large to convert to float", and nothing in the loop
\* catches OverflowError.
Fail ==
    LET item == Head(items)
    IN  /\ pc = "drain"
        /\ items # <<>>
        /\ IF item.rec \in Refused THEN UNCHANGED faults ELSE Fault
        /\ IF item.attempts < Overflow
           THEN /\ PostponeBy(item, Backoff(item))
                /\ items' = Tail(items)
                /\ fails' = [fails EXCEPT ![item.rec] = Smaller(@ + 1, MaxCount)]
                /\ age' = [age EXCEPT ![item.rec] = 0]
                /\ UNCHANGED pc
           ELSE /\ pc' = "dead"
                /\ items' = <<>>
                /\ UNCHANGED <<row, fails, age>>
        /\ UNCHANGED <<nextId, clock, changed, fetched, batch, edits>>

\* The job returns: schedule sets its next run an interval from now.
EndDrain ==
    /\ pc = "drain"
    /\ items = <<>>
    /\ pc' = "asleep"
    /\ clock' = Interval
    /\ UNCHANGED <<row, nextId, items, changed, fetched, batch, edits, faults,
                   fails, age>>

\* run_pending finds the job due.
Wake ==
    /\ pc = "asleep"
    /\ clock = 0
    /\ pc' = "sync"
    /\ fetched' = changed /\ batch' = changed
    /\ changed' = {}
    /\ UNCHANGED <<row, nextId, clock, items, edits, faults, fails, age>>

\* A crash: of what was fetched, all is fetched again but the entities whose
\* watermark was saved, and those hold nothing that is still to push.
Die ==
    /\ pc \in {"sync", "drain"}
    /\ Fault
    /\ pc' = "dead"
    /\ items' = <<>>
    /\ \E again \in SUBSET batch :
           fetched \subseteq again /\ changed' = changed \cup again
    /\ fetched' = {} /\ batch' = {}
    /\ UNCHANGED <<row, nextId, clock, edits, fails, age>>

\* Task Scheduler starts the service again: a cycle at once.
Restart ==
    /\ pc = "dead"
    /\ pc' = "sync"
    /\ clock' = 0
    /\ fetched' = changed /\ batch' = changed
    /\ changed' = {}
    /\ UNCHANGED <<row, nextId, items, edits, faults, fails, age>>

Left(wait) == IF wait = 0 THEN 0 ELSE wait - 1

\* A tick: of the pause, or of a cycle that takes time.
Tick ==
    /\ \/ pc = "asleep" /\ clock > 0 /\ clock' = clock - 1
       \/ pc \in {"sync", "drain"} /\ clock < Slow /\ clock' = clock + 1
    /\ row' = [r \in Record |-> [row[r] EXCEPT !.wait = Left(@)]]
    /\ age' = [r \in Record |-> Smaller(age[r] + 1, Cap)]
    /\ UNCHANGED <<nextId, pc, items, changed, fetched, batch, edits, faults, fails>>

Work ==
    \/ \E r \in Record : Push(r) \/ PushFails(r)
    \/ StartDrain \/ Succeed \/ Fail \/ EndDrain \/ Wake \/ Restart

TimedStep == Work \/ Tick \/ Die \/ \E r \in Record : Alter(r)

TimedSpec == TimedInit /\ [][TimedStep]_queueVars

\* The loop goes on (schedule, Task Scheduler), and time passes.
FairTimedSpec == TimedSpec /\ WF_queueVars(Work) /\ WF_queueVars(Tick)

-----------------------------------------------------------------------------
\* A row is tried again only after the full backoff for all its failures so far,
\* by a retry or by a sync, unless a sync failed on it since: attempt_count, the
\* time and what the drain remembers of the row agree.
BacksOff ==
    \A i \in 1 .. Len(items) :
        LET r == items[i].rec
        IN  fails[r] > 0 => age[r] >= Smaller(Base * 2 ^ (fails[r] - 1), Cap)

\* A record that Frappe accepts leaves the queue, in spite of those with smaller
\* ids that it never accepts, as long as they are few: see README.
GoodRowsDrain == \A r \in Record \ Refused : Queued(r) ~> ~Queued(r)

\* A record that Frappe does not accept yet is not dropped: it is tried again and
\* again ("retried with exponential backoff rather than being dropped").
RefusedRowsStay ==
    \A r \in Refused :
        <>Queued(r) => []<>(\E i \in 1 .. Len(items) : items[i].rec = r)

\* The queue without its times keeps the promises of RowQueue: no row changes its
\* id, comes due without waiting, or returns under an id already used.
Seen == [r \in Record |-> [id |-> row[r].id, ver |-> row[r].ver,
                           state |-> IF Queued(r) /\ row[r].wait = 0
                                     THEN "due" ELSE "waiting"]]

Queue == INSTANCE RowQueue WITH rows <- Seen, next <- nextId

QueueContract == Queue!QueueSpec

\* No failing record ends the service ("it never aborts the whole cycle").
FailureIsContained == pc # "dead"

=============================================================================
