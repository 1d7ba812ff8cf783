-------------------------- MODULE RetryQueueProofs --------------------------
(***************************************************************************)
(* The timed retry queue implements RowQueue and backs off, whatever the   *)
(* times, the limit and the failures: proofs for TLAPS.                    *)
(***************************************************************************)
EXTENDS RetryQueue, FiniteSetTheorems, TLAPS

\* What the mapping rests on: the shape of a row.  The times need no type.
RowInv ==
    /\ row = [r \in Record |-> row[r]]
    /\ \A r \in Record :
           /\ row[r] = [id |-> row[r].id, ver |-> row[r].ver,
                        attempts |-> row[r].attempts, wait |-> row[r].wait]
           /\ row[r].id \in Nat /\ row[r].ver \in Nat
           /\ row[r].id = 0 => row[r].ver = 0
    /\ nextId \in Nat \ {0}
    /\ edits \in Nat

LEMMA InitRow == TimedInit => RowInv /\ Queue!QueueInit
<1> SUFFICES ASSUME TimedInit PROVE RowInv /\ Queue!QueueInit
  OBVIOUS
<1>1. RowInv
  BY DEF TimedInit, RowInv, NoTimedRow
<1>2. Seen = [r \in Record |-> [id |-> 0, ver |-> 0, state |-> "waiting"]]
  BY DEF TimedInit, Seen, Queued, NoTimedRow
<1> QED
  BY <1>1, <1>2 DEF TimedInit, Queue!QueueInit, Queue!Row, Queue!Present

\* Steps that leave the table alone.
LEMMA TableUntouched ==
    ASSUME RowInv, UNCHANGED <<row, nextId>>, edits' \in Nat
    PROVE  RowInv' /\ UNCHANGED <<Seen, nextId>>
BY DEF RowInv, Seen, Queued

\* enqueue_retry.
LEMMA EnqueueMaps ==
    ASSUME RowInv, NEW q \in Record, Enqueue(q), UNCHANGED edits
    PROVE  RowInv' /\ Queue!Put(q)
<1>1. row'[q] = [id |-> IF Queued(q) THEN row[q].id ELSE nextId, ver |-> edits,
                 attempts |-> IF Queued(q) THEN Smaller(row[q].attempts + 1, MaxCount)
                                           ELSE 0,
                 wait |-> 0]
  BY DEF Enqueue, RowInv
<1>2. row' = [r \in Record |-> row'[r]] /\ \A r \in Record \ {q} : row'[r] = row[r]
  BY DEF Enqueue, RowInv
<1>3. nextId' = IF Queued(q) THEN nextId ELSE nextId + 1
  BY DEF Enqueue
<1>4. row'[q].id \in Nat \ {0} /\ row'[q].ver = edits /\ row'[q].wait = 0
  BY <1>1 DEF RowInv, Queued
<1>5. nextId' \in Nat \ {0} /\ edits' \in Nat
  BY <1>3 DEF RowInv
<1>6. RowInv'
  <2> SUFFICES ASSUME NEW r \in Record
               PROVE  /\ row'[r] = [id |-> row'[r].id, ver |-> row'[r].ver,
                                    attempts |-> row'[r].attempts, wait |-> row'[r].wait]
                      /\ row'[r].id \in Nat /\ row'[r].ver \in Nat
                      /\ row'[r].id = 0 => row'[r].ver = 0
    BY <1>2, <1>5 DEF RowInv
  <2>1. CASE r = q
    BY <1>1, <1>4, <2>1 DEF RowInv
  <2>2. CASE r # q
    BY <1>2, <2>2 DEF RowInv
  <2> QED
    BY <2>1, <2>2
<1>7. Seen' = [Seen EXCEPT ![q] = [id |-> IF Queued(q) THEN row[q].id ELSE nextId,
                                   ver |-> edits, state |-> "due"]]
  <2>1. Seen'[q] = [id |-> IF Queued(q) THEN row[q].id ELSE nextId, ver |-> edits,
                    state |-> "due"]
    BY <1>1, <1>4 DEF Seen, Queued
  <2>2. \A r \in Record \ {q} : Seen'[r] = Seen[r]
    BY <1>2 DEF Seen, Queued
  <2> QED
    BY <2>1, <2>2 DEF Seen
<1> QED
  BY <1>3, <1>6, <1>7 DEF Queue!Put, Queue!Present, Seen, Queued, RowInv

\* mark_retry_success.
LEMMA DeleteMaps ==
    ASSUME RowInv, NEW item, Delete(item), UNCHANGED <<nextId, edits>>
    PROVE  RowInv' /\ (UNCHANGED <<Seen, nextId>> \/ \E r \in Record : Queue!Remove(r))
<1>1. CASE row' = row
  BY <1>1, TableUntouched DEF RowInv
<1>2. CASE row' # row
  <2> DEFINE q == item.rec
  <2>1. q \in Record /\ row' = [row EXCEPT ![q] = NoTimedRow]
    BY <1>2 DEF Delete, RowInv
  <2>2. RowInv'
    BY <2>1 DEF RowInv, NoTimedRow
  <2>3. Seen' = [Seen EXCEPT ![q] = Queue!NoRow]
    BY <2>1 DEF RowInv, Seen, Queued, NoTimedRow, Queue!NoRow
  <2>4. CASE Queued(q)
    BY <2>1, <2>2, <2>3, <2>4 DEF Queue!Remove, Queue!Present, Seen, Queued
  <2>5. CASE ~Queued(q)
    <3>1. Seen[q] = Queue!NoRow
      BY <2>1, <2>5 DEF Seen, Queued, RowInv, Queue!NoRow
    <3> QED
      BY <2>1, <2>2, <2>3, <3>1 DEF Seen
  <2> QED
    BY <2>4, <2>5
<1> QED
  BY <1>1, <1>2

\* mark_retry_failed: the row waits; a backoff of nothing leaves it due.
LEMMA PostponeMaps ==
    ASSUME RowInv, NEW item, NEW w, PostponeBy(item, w), UNCHANGED <<nextId, edits>>
    PROVE  /\ RowInv'
           /\ \/ UNCHANGED <<Seen, nextId>>
              \/ Queue!Elapse
              \/ \E r \in Record : Queue!Postpone(r)
<1>1. CASE row' = row
  BY <1>1, TableUntouched DEF RowInv
<1>2. CASE row' # row
  <2> DEFINE q == item.rec
  <2>1. /\ q \in Record
        /\ row' = [row EXCEPT ![q] = Postponed(@, w)]
    BY <1>2 DEF PostponeBy, RowInv
  <2>2. /\ row'[q] = Postponed(row[q], w)
        /\ row' = [r \in Record |-> row'[r]]
        /\ \A r \in Record \ {q} : row'[r] = row[r]
    BY <2>1 DEF RowInv
  <2>3. row[q] = [id |-> row[q].id, ver |-> row[q].ver,
                  attempts |-> row[q].attempts, wait |-> row[q].wait]
    BY <2>1 DEF RowInv
  <2>4. row'[q] = [id |-> row[q].id, ver |-> row[q].ver,
                   attempts |-> Smaller(row[q].attempts + 1, MaxCount), wait |-> w]
    BY <2>2, <2>3 DEF Postponed
  <2>5. RowInv'
    <3> SUFFICES ASSUME NEW r \in Record
                 PROVE  /\ row'[r] = [id |-> row'[r].id, ver |-> row'[r].ver,
                                      attempts |-> row'[r].attempts, wait |-> row'[r].wait]
                        /\ row'[r].id \in Nat /\ row'[r].ver \in Nat
                        /\ row'[r].id = 0 => row'[r].ver = 0
      BY <2>2 DEF RowInv
    <3>1. CASE r = q
      BY <2>4, <3>1 DEF RowInv
    <3>2. CASE r # q
      BY <2>2, <3>2 DEF RowInv
    <3> QED
      BY <3>1, <3>2
  <2> DEFINE state == IF Queued(q) /\ w = 0 THEN "due" ELSE "waiting"
  <2>6. Seen[q] = [id |-> row[q].id, ver |-> row[q].ver,
                   state |-> IF Queued(q) /\ row[q].wait = 0 THEN "due" ELSE "waiting"]
    BY <2>1 DEF Seen
  <2>7. Seen' = [Seen EXCEPT ![q].state = state]
    <3>1. Seen'[q] = [id |-> row[q].id, ver |-> row[q].ver, state |-> state]
      BY <2>1, <2>4 DEF Seen, Queued
    <3>2. Seen'[q] = [Seen[q] EXCEPT !.state = state]
      BY <2>6, <3>1
    <3>3. \A r \in Record \ {q} : Seen'[r] = Seen[r]
      BY <2>2 DEF Seen, Queued
    <3> QED
      BY <2>1, <3>2, <3>3 DEF Seen
  <2>8. CASE ~Queued(q)
    <3>1. [Seen[q] EXCEPT !.state = state] = Seen[q]
      BY <2>8, <2>6
    <3> QED
      BY <2>1, <2>5, <2>7, <3>1 DEF Seen
  <2>9. CASE Queued(q) /\ w # 0
    BY <2>1, <2>5, <2>7, <2>9 DEF Queue!Postpone, Queue!Present, Seen, Queued
  <2>10. CASE Queued(q) /\ w = 0 /\ row[q].wait = 0
    <3>1. [Seen[q] EXCEPT !.state = state] = Seen[q]
      BY <2>10, <2>6
    <3> QED
      BY <2>1, <2>5, <2>7, <3>1 DEF Seen
  <2>11. CASE Queued(q) /\ w = 0 /\ row[q].wait # 0
    <3>1. q \in {r \in Record : Queue!Present(r) /\ Seen[r].state = "waiting"}
      BY <2>1, <2>11 DEF Seen, Queue!Present, Queued
    <3>2. Seen' = [r \in Record |-> IF r \in {q} THEN [Seen[r] EXCEPT !.state = "due"]
                                                 ELSE Seen[r]]
      BY <2>1, <2>7, <2>11 DEF Seen
    <3> QED
      BY <2>5, <3>1, <3>2 DEF Queue!Elapse
  <2> QED
    BY <2>8, <2>9, <2>10, <2>11
<1> QED
  BY <1>1, <1>2

\* A tick brings some of the rows that wait to their time.
LEMMA TickMaps ==
    ASSUME RowInv, Tick
    PROVE  RowInv' /\ Queue!Elapse
<1>1. /\ row' = [r \in Record |-> [row[r] EXCEPT !.wait = Left(@)]]
      /\ UNCHANGED <<nextId, edits>>
  BY DEF Tick
<1>2. \A r \in Record :
          row'[r] = [id |-> row[r].id, ver |-> row[r].ver, attempts |-> row[r].attempts,
                     wait |-> Left(row[r].wait)]
  <2> TAKE r \in Record
  <2>1. row'[r] = [row[r] EXCEPT !.wait = Left(row[r].wait)]
    BY <1>1
  <2>2. row[r] = [id |-> row[r].id, ver |-> row[r].ver, attempts |-> row[r].attempts,
                  wait |-> row[r].wait]
    BY DEF RowInv
  <2> QED
    BY <2>1, <2>2
<1>3. RowInv'
  BY <1>1, <1>2 DEF RowInv
<1> DEFINE S == {r \in Record : Queued(r) /\ row[r].wait # 0 /\ row[r].wait - 1 = 0}
<1>4. S \in SUBSET {r \in Record : Queue!Present(r) /\ Seen[r].state = "waiting"}
  BY DEF Seen, Queue!Present, Queued
<1>5. \A r \in Record : Seen'[r] = IF r \in S THEN [Seen[r] EXCEPT !.state = "due"]
                                              ELSE Seen[r]
  <2> TAKE r \in Record
  <2>1. row'[r] = [id |-> row[r].id, ver |-> row[r].ver, attempts |-> row[r].attempts,
                  wait |-> Left(row[r].wait)]
    BY <1>2
  <2>2. row'[r].id = row[r].id /\ row'[r].ver = row[r].ver /\ row'[r].wait = Left(row[r].wait)
    BY <2>1
  <2>3. (row'[r].wait = 0) <=> (row[r].wait = 0 \/ row[r].wait - 1 = 0)
    BY <2>2 DEF Left
  <2>4. Seen'[r] = [id |-> row[r].id, ver |-> row[r].ver,
                    state |-> IF Queued(r) /\ row'[r].wait = 0 THEN "due" ELSE "waiting"]
    BY <2>2 DEF Seen, Queued
  <2>5. Seen[r] = [id |-> row[r].id, ver |-> row[r].ver,
                   state |-> IF Queued(r) /\ row[r].wait = 0 THEN "due" ELSE "waiting"]
    BY DEF Seen
  <2>6. CASE r \in S
    BY <2>3, <2>4, <2>5, <2>6
  <2>7. CASE r \notin S
    BY <2>3, <2>4, <2>5, <2>7
  <2> QED
    BY <2>6, <2>7
<1>6. Seen' = [r \in Record |-> IF r \in S THEN [Seen[r] EXCEPT !.state = "due"] ELSE Seen[r]]
  BY <1>5 DEF Seen
<1> HIDE DEF S
<1> QED
  BY <1>1, <1>3, <1>4, <1>6 DEF Queue!Elapse

LEMMA StepMaps == RowInv /\ [TimedStep]_queueVars => RowInv' /\ [Queue!QueueStep]_<<Seen, nextId>>
<1> SUFFICES ASSUME RowInv, [TimedStep]_queueVars
             PROVE  RowInv' /\ [Queue!QueueStep]_<<Seen, nextId>>
  OBVIOUS
<1>1. ASSUME NEW r \in Record, Push(r) PROVE UNCHANGED <<row, nextId, edits>>
  BY <1>1 DEF Push
<1>2. CASE StartDrain \/ EndDrain \/ Wake \/ Restart \/ Die
  BY <1>2, TableUntouched DEF StartDrain, EndDrain, Wake, Restart, Die, RowInv
<1>3. ASSUME NEW r \in Record, PushFails(r)
      PROVE  RowInv' /\ [Queue!QueueStep]_<<Seen, nextId>>
  BY <1>3, EnqueueMaps DEF PushFails, Queue!QueueStep
<1>4. CASE Succeed
  BY <1>4, DeleteMaps DEF Succeed, Queue!QueueStep
<1>5. CASE Fail
  <2>1. CASE Head(items).attempts < Overflow
    BY <1>5, <2>1, PostponeMaps DEF Fail, Queue!QueueStep
  <2>2. CASE ~(Head(items).attempts < Overflow)
    BY <1>5, <2>2, TableUntouched DEF Fail, RowInv
  <2> QED
    BY <2>1, <2>2
<1>6. CASE Tick
  BY <1>6, TickMaps DEF Queue!QueueStep
<1>7. ASSUME NEW r \in Record, Alter(r)
      PROVE  RowInv' /\ [Queue!QueueStep]_<<Seen, nextId>>
  BY <1>7, TableUntouched DEF Alter, RowInv
<1>8. CASE UNCHANGED queueVars
  BY <1>8, TableUntouched DEF queueVars, RowInv
<1>9. ASSUME NEW r \in Record, Push(r)
      PROVE  RowInv' /\ [Queue!QueueStep]_<<Seen, nextId>>
  BY <1>1, <1>9, TableUntouched DEF RowInv
<1> QED
  BY <1>2, <1>3, <1>4, <1>5, <1>6, <1>7, <1>8, <1>9 DEF TimedStep, Work

\* For every interval, backoff, limit and number of records: the retry queue with
\* its clock is a RowQueue (sync/state_store.py).
THEOREM TimedQueueIsRowQueue == TimedSpec => QueueContract
BY InitRow, StepMaps, PTL DEF TimedSpec, QueueContract, Queue!QueueSpec

-----------------------------------------------------------------------------
(* The rows of a drain.                                                     *)

\* Of a finite set with different numbers, one has the ith smallest.
LEMMA Ranked ==
    ASSUME NEW D, IsFiniteSet(D), NEW id, \A q \in D : id[q] \in Nat,
           \A q, r \in D : id[q] = id[r] => q = r,
           NEW i \in 1 .. Cardinality(D)
    PROVE  \E q \in D : Cardinality({p \in D : id[p] <= id[q]}) = i
<1> DEFINE below(q) == {p \in D : id[p] <= id[q]}
           place == [q \in D |-> Cardinality(below(q))]
           n == Cardinality(D)
<1>1. n \in Nat
  BY FS_CardinalityType
<1>2. \A q \in D : /\ IsFiniteSet(below(q)) /\ Cardinality(below(q)) \in 1 .. n
  <2> TAKE q \in D
  <2>1. below(q) \in SUBSET D /\ q \in below(q)
    OBVIOUS
  <2>2. IsFiniteSet(below(q)) /\ Cardinality(below(q)) <= n
    BY <2>1, FS_Subset
  <2>3. Cardinality(below(q)) \in Nat /\ Cardinality(below(q)) # 0
    BY <2>1, <2>2, FS_CardinalityType, FS_EmptySet
  <2> QED
    BY <1>1, <2>2, <2>3
<1>3. ASSUME NEW q \in D, NEW r \in D, place[q] = place[r], id[q] <= id[r]
      PROVE  q = r
  <2>1. below(q) \in SUBSET below(r)
    BY <1>3
  <2>2. below(q) = below(r)
    BY <1>2, <1>3, <2>1, FS_Subset
  <2>3. r \in below(q)
    BY <2>2
  <2> QED
    BY <1>3, <2>3
<1>4. \A q, r \in D : place[q] = place[r] => q = r
  <2> SUFFICES ASSUME NEW q \in D, NEW r \in D, place[q] = place[r] PROVE q = r
    OBVIOUS
  <2>1. id[q] <= id[r] \/ id[r] <= id[q]
    OBVIOUS
  <2> QED
    BY <1>3, <2>1
<1>5. place \in [D -> 1 .. n]
  BY <1>2
<1>6. place \in Injection(D, 1 .. n)
  <2> HIDE DEF place
  <2> QED
    BY <1>4, <1>5 DEF Injection, IsInjective
<1>7. IsFiniteSet(1 .. n) /\ Cardinality(1 .. n) = n
  BY <1>1, FS_Interval
<1>8. place \in Surjection(D, 1 .. n)
  BY <1>6, <1>7, FS_Injection
<1>9. \E q \in D : place[q] = i
  BY <1>8 DEF Surjection
<1> QED
  BY <1>9

LEMMA SmallerIs ==
    ASSUME NEW m \in Nat, NEW n \in Nat
    PROVE  Smaller(m, n) \in 0 .. n /\ Smaller(m, n) <= m
BY DEF Smaller

\* Each row has an id of its own, below the next one.
TableInv ==
    /\ \A r \in Record : row[r].id < nextId
    /\ \A q, r \in Record : Queued(q) /\ row[q].id = row[r].id => q = r

\* dequeue_due_retries reads rows that are due, each once.
LEMMA DueItemsAreDue ==
    ASSUME TimedTypeOK, TableInv
    PROVE  /\ DueItems \in Seq(DequeuedRow)
           /\ \A i \in 1 .. Len(DueItems) :
                  LET r == DueItems[i].rec
                  IN  /\ r \in Record /\ Queued(r) /\ row[r].wait = 0
                      /\ DueItems[i].id = row[r].id /\ DueItems[i].attempts = row[r].attempts
           /\ \A i, j \in 1 .. Len(DueItems) : DueItems[i].rec = DueItems[j].rec => i = j
<1> DEFINE due == {r \in Record : Queued(r) /\ row[r].wait = 0}
           place(r) == Cardinality({q \in due : row[q].id <= row[r].id})
           n == Smaller(Limit, Cardinality(due))
           rec(i) == CHOOSE q \in due : place(q) = i
           item(i) == [rec |-> rec(i), id |-> row[rec(i)].id,
                       attempts |-> row[rec(i)].attempts]
<1>1. IsFiniteSet(due) /\ Cardinality(due) \in Nat
  BY RetryQueueAssumption, FS_Subset, FS_CardinalityType
<1>2. n \in Nat /\ n <= Cardinality(due)
  BY <1>1, RetryQueueAssumption, SmallerIs
<1>3. \A i \in 1 .. n : rec(i) \in due /\ place(rec(i)) = i
  <2> TAKE i \in 1 .. n
  <2> DEFINE id == [r \in Record |-> row[r].id]
  <2>1. i \in 1 .. Cardinality(due)
    BY <1>1, <1>2
  <2>2. /\ \A q \in due : id[q] \in Nat
        /\ \A q, r \in due : id[q] = id[r] => q = r
    BY DEF TimedTypeOK, TimedRow, TableInv
  <2>3. \E q \in due : Cardinality({p \in due : id[p] <= id[q]}) = i
    <3> HIDE DEF due, id
    <3> QED
      BY <1>1, <2>1, <2>2, Ranked
  <2>4. \A q \in due : {p \in due : id[p] <= id[q]} = {p \in due : row[p].id <= row[q].id}
    OBVIOUS
  <2>5. \E q \in due : place(q) = i
    BY <2>3, <2>4
  <2> QED
    BY <2>5
<1>4. DueItems = [i \in 1 .. n |-> item(i)]
  BY DEF DueItems
<1>5. \A i \in 1 .. n : item(i) \in DequeuedRow
  BY <1>3 DEF TimedTypeOK, TimedRow, DequeuedRow
<1>6. ASSUME NEW i \in 1 .. n, NEW j \in 1 .. n, rec(i) = rec(j)
      PROVE  i = j
  <2>1. place(rec(i)) = i /\ place(rec(j)) = j
    BY <1>3
  <2>2. place(rec(i)) = place(rec(j))
    BY <1>6
  <2> QED
    BY <2>1, <2>2
<1>7. \A i \in 1 .. n : rec(i) \in Record /\ Queued(rec(i)) /\ row[rec(i)].wait = 0
  BY <1>3
<1>8. DueItems \in Seq(DequeuedRow) /\ Len(DueItems) = n
  <2> HIDE DEF n, item
  <2> QED
    BY <1>2, <1>4, <1>5
<1>9. \A i \in 1 .. n : /\ DueItems[i].rec = rec(i) /\ DueItems[i].id = row[rec(i)].id
                        /\ DueItems[i].attempts = row[rec(i)].attempts
  BY <1>4
<1> HIDE DEF n, rec, due, item
<1> QED
  BY <1>6, <1>7, <1>8, <1>9

-----------------------------------------------------------------------------
(* Types and the table.                                                     *)

LEMMA BackoffIsANumber ==
    ASSUME NEW item, item.attempts \in 0 .. MaxCount
    PROVE  Backoff(item) \in 0 .. Cap
<1>1. 2 ^ item.attempts \in Nat
  BY PowersAreNumbers
<1> DEFINE x == 2 ^ item.attempts
<1> HIDE DEF x
<1>2. x \in Nat => Smaller(Base * x, Cap) \in 0 .. Cap
  BY RetryQueueAssumption DEF Smaller
<1> QED
  BY <1>1, <1>2 DEF Backoff, x

\* The head of what is being drained is a dequeued row, and the rest are, too.
LEMMA HeadAndTail ==
    ASSUME NEW S, NEW q \in Seq(S), q # <<>>
    PROVE  /\ Len(q) \in Nat \ {0} /\ Head(q) = q[1] /\ Head(q) \in S
           /\ Tail(q) \in Seq(S) /\ Len(Tail(q)) = Len(q) - 1
           /\ \A i \in 1 .. Len(Tail(q)) : Tail(q)[i] = q[i + 1] /\ i + 1 \in 1 .. Len(q)
OBVIOUS

\* The steps on a row keep it a row.
LEMMA RowStaysARow ==
    ASSUME NEW t \in TimedRow, NEW w \in 0 .. Cap, NEW i \in Nat, NEW v \in Nat
    PROVE  /\ NoTimedRow \in TimedRow
           /\ Postponed(t, w) \in TimedRow
           /\ Postponed(t, w).id = t.id /\ Postponed(t, w).wait = w
           /\ Postponed(t, w).attempts = Smaller(t.attempts + 1, MaxCount)
           /\ [t EXCEPT !.wait = Left(t.wait)] \in TimedRow
           /\ [id |-> i, ver |-> v, attempts |-> 0, wait |-> 0] \in TimedRow
           /\ [id |-> i, ver |-> v, attempts |-> Smaller(t.attempts + 1, MaxCount),
               wait |-> 0] \in TimedRow
<1>1. t.id \in Nat /\ t.ver \in Nat /\ t.attempts \in 0 .. MaxCount /\ t.wait \in 0 .. Cap
  BY DEF TimedRow
<1>2. Smaller(t.attempts + 1, MaxCount) \in 0 .. MaxCount
  BY <1>1, RetryQueueAssumption DEF Smaller
<1>3. Left(t.wait) \in 0 .. Cap
  BY <1>1, RetryQueueAssumption DEF Left
<1> DEFINE a == Smaller(t.attempts + 1, MaxCount)
<1>4. Postponed(t, w) = [id |-> t.id, ver |-> t.ver, attempts |-> a, wait |-> w]
  <2>1. t = [id |-> t.id, ver |-> t.ver, attempts |-> t.attempts, wait |-> t.wait]
    BY DEF TimedRow
  <2>2. Postponed(t, w) = [t EXCEPT !.attempts = a, !.wait = w]
    BY DEF Postponed
  <2> HIDE DEF a
  <2> QED
    BY <2>1, <2>2
<1>5. [t EXCEPT !.wait = Left(t.wait)] \in TimedRow
  BY <1>3 DEF TimedRow
<1> QED
  BY <1>1, <1>2, <1>4, <1>5, RetryQueueAssumption DEF NoTimedRow, TimedRow

LEMMA InitTimed == TimedInit => TimedTypeOK /\ TableInv
<1> SUFFICES ASSUME TimedInit PROVE TimedTypeOK /\ TableInv
  OBVIOUS
<1>1. NoTimedRow \in TimedRow
  BY RetryQueueAssumption DEF NoTimedRow, TimedRow
<1>2. /\ row = [r \in Record |-> NoTimedRow] /\ nextId = 1
      /\ pc = "sync" /\ clock = 0 /\ items = <<>>
  BY DEF TimedInit
<1>3. TableInv
  BY <1>2 DEF TableInv, NoTimedRow, Queued
<1> QED
  BY <1>1, <1>2, <1>3 DEF TimedInit, TimedTypeOK

\* Each step keeps the types.
LEMMA TypeKeeps ==
    ASSUME TimedTypeOK, TableInv, [TimedStep]_queueVars
    PROVE  TimedTypeOK'
<1>1. ASSUME NEW r \in Record, Push(r) \/ Alter(r)
      PROVE  TimedTypeOK'
  BY <1>1 DEF Push, Alter, Service, TimedTypeOK
<1>2. ASSUME NEW r \in Record, PushFails(r)
      PROVE  TimedTypeOK'
  <2>1. row[r] \in TimedRow /\ nextId \in Nat /\ edits \in Nat /\ row[r].id \in Nat
    BY DEF TimedTypeOK, TimedRow
  <2>2. 0 \in 0 .. Cap
    BY RetryQueueAssumption
  <2>3. row' \in [Record -> TimedRow]
    <3>1. CASE Queued(r)
      <4>1. row' = [row EXCEPT ![r] = [id |-> row[r].id, ver |-> edits,
                                       attempts |-> Smaller(row[r].attempts + 1, MaxCount),
                                       wait |-> 0]]
        BY <1>2, <3>1 DEF PushFails, Enqueue
      <4> QED
        BY <2>1, <2>2, <4>1, RowStaysARow DEF TimedTypeOK
    <3>2. CASE ~Queued(r)
      <4>1. row' = [row EXCEPT ![r] = [id |-> nextId, ver |-> edits, attempts |-> 0,
                                       wait |-> 0]]
        BY <1>2, <3>2 DEF PushFails, Enqueue
      <4> QED
        BY <2>1, <2>2, <4>1, RowStaysARow DEF TimedTypeOK
    <3> QED
      BY <3>1, <3>2
  <2>4. fails' \in [Record -> Nat] /\ age' \in [Record -> Nat]
    BY <1>2, RetryQueueAssumption DEF PushFails, TimedTypeOK, Smaller
  <2>5. nextId' \in Nat \ {0} /\ faults' \in Nat
    BY <1>2 DEF PushFails, Enqueue, Fault, TimedTypeOK
  <2> QED
    BY <1>2, <2>3, <2>4, <2>5 DEF PushFails, TimedTypeOK
<1>3. CASE StartDrain
  BY <1>3, DueItemsAreDue DEF StartDrain, TimedTypeOK
<1>4. CASE Succeed
  <2>1. Head(items) \in DequeuedRow /\ items' \in Seq(DequeuedRow)
    BY <1>4, HeadAndTail DEF Succeed, TimedTypeOK
  <2>2. row' \in [Record -> TimedRow]
    <3>1. NoTimedRow \in TimedRow
      BY RetryQueueAssumption DEF NoTimedRow, TimedRow
    <3> QED
      BY <1>4, <2>1, <3>1 DEF Succeed, Delete, TimedTypeOK
  <2> QED
    BY <1>4, <2>1, <2>2 DEF Succeed, TimedTypeOK
<1>5. CASE Fail
  <2> DEFINE item == Head(items)
  <2>1. item \in DequeuedRow /\ Tail(items) \in Seq(DequeuedRow)
    BY <1>5, HeadAndTail DEF Fail, TimedTypeOK
  <2>2. item.rec \in Record /\ Backoff(item) \in 0 .. Cap
    BY <2>1, BackoffIsANumber DEF DequeuedRow
  <2>3. faults' \in Nat
    BY <1>5 DEF Fail, Fault, TimedTypeOK
  <2>4. CASE PostponeBy(item, Backoff(item)) /\ items' = Tail(items)
             /\ fails' = [fails EXCEPT ![item.rec] = Smaller(@ + 1, MaxCount)]
             /\ age' = [age EXCEPT ![item.rec] = 0] /\ UNCHANGED pc
    <3>1. row[item.rec] \in TimedRow
      BY <2>2 DEF TimedTypeOK
    <3>2. Postponed(row[item.rec], Backoff(item)) \in TimedRow
      <4>1. 0 \in Nat
        OBVIOUS
      <4> QED
        BY <2>2, <3>1, <4>1, RowStaysARow
    <3>3. row' = row \/ row' = [row EXCEPT ![item.rec] =
                                    Postponed(row[item.rec], Backoff(item))]
      BY <2>4 DEF PostponeBy
    <3>4. row' \in [Record -> TimedRow]
      BY <3>2, <3>3 DEF TimedTypeOK
    <3>5. fails' \in [Record -> Nat] /\ age' \in [Record -> Nat]
      <4>1. fails[item.rec] \in Nat
        BY <2>2 DEF TimedTypeOK
      <4>2. Smaller(fails[item.rec] + 1, MaxCount) \in Nat
        BY <4>1, RetryQueueAssumption DEF Smaller
      <4> QED
        BY <2>4, <4>2 DEF TimedTypeOK
    <3> QED
      BY <1>5, <2>1, <2>3, <2>4, <3>4, <3>5 DEF Fail, TimedTypeOK
  <2>5. CASE pc' = "dead" /\ items' = <<>> /\ UNCHANGED <<row, fails, age>>
    BY <1>5, <2>3, <2>5 DEF Fail, TimedTypeOK
  <2> QED
    BY <1>5, <2>4, <2>5 DEF Fail
<1>6. CASE EndDrain \/ Wake \/ Restart
  BY <1>6, RetryQueueAssumption DEF EndDrain, Wake, Restart, TimedTypeOK
<1>7. CASE Die
  BY <1>7 DEF Die, Fault, TimedTypeOK
<1>8. CASE Tick
  <2>1. \A r \in Record : [row[r] EXCEPT !.wait = Left(row[r].wait)] \in TimedRow
    <3> TAKE r \in Record
    <3>1. row[r] \in TimedRow /\ 0 \in 0 .. Cap /\ 0 \in Nat
      BY RetryQueueAssumption DEF TimedTypeOK
    <3> QED
      BY <3>1, RowStaysARow
  <2>2. row' \in [Record -> TimedRow]
    BY <1>8, <2>1 DEF Tick
  <2>3. age' \in [Record -> Nat]
    <3>1. \A r \in Record : Smaller(age[r] + 1, Cap) \in Nat
      BY RetryQueueAssumption DEF TimedTypeOK, Smaller
    <3> QED
      BY <1>8, <3>1 DEF Tick
  <2>4. clock' \in Nat
    BY <1>8 DEF Tick, TimedTypeOK
  <2> QED
    BY <1>8, <2>2, <2>3, <2>4 DEF Tick, TimedTypeOK
<1>9. CASE UNCHANGED queueVars
  BY <1>9 DEF queueVars, TimedTypeOK
<1> QED
  BY <1>1, <1>2, <1>3, <1>4, <1>5, <1>6, <1>7, <1>8, <1>9 DEF TimedStep, Work

-----------------------------------------------------------------------------
(* The backoff.                                                             *)

\* The time after n failures.
Due(n) == Smaller(Base * 2 ^ (n - 1), Cap)

\* While a drain holds rows, they stay as it read them, and due.
HeldInv ==
    /\ pc # "drain" => items = <<>>
    /\ \A i, j \in 1 .. Len(items) : items[i].rec = items[j].rec => i = j
    /\ \A i \in 1 .. Len(items) :
           LET r == items[i].rec
           IN  /\ Queued(r) /\ row[r].id = items[i].id /\ row[r].attempts = items[i].attempts
               /\ row[r].wait = 0

\* What a row has waited and what it will wait make the backoff for its failures.
BackoffInv ==
    \A r \in Record : Queued(r) =>
        /\ row[r].attempts = fails[r]
        /\ fails[r] > 0 => row[r].wait + age[r] >= Due(fails[r])

TimedInv == TimedTypeOK /\ TableInv /\ HeldInv /\ BackoffInv

LEMMA ItemsAreRows ==
    ASSUME TimedTypeOK
    PROVE  \A i \in 1 .. Len(items) :
               items[i].rec \in Record /\ items[i].attempts \in 0 .. MaxCount
<1>1. \A i \in 1 .. Len(items) : items[i] \in DequeuedRow
  BY DEF TimedTypeOK
<1> QED
  BY <1>1 DEF DequeuedRow

\* The row that is handled next.
LEMMA FirstItem ==
    ASSUME TimedInv, items # <<>>
    PROVE  LET item == Head(items)
               q == item.rec
           IN  /\ q \in Record /\ item.attempts \in 0 .. MaxCount
               /\ Queued(q) /\ row[q].id = item.id /\ row[q].attempts = item.attempts
<1>1. Head(items) = items[1] /\ 1 \in 1 .. Len(items)
  BY HeadAndTail DEF TimedInv, TimedTypeOK
<1> QED
  BY <1>1, ItemsAreRows DEF TimedInv, HeldInv

LEMMA DueIsBounded ==
    ASSUME NEW n \in 1 .. MaxCount
    PROVE  Due(n) \in 0 .. Cap
<1>1. n - 1 \in 0 .. MaxCount
  BY RetryQueueAssumption
<1> DEFINE x == 2 ^ (n - 1)
<1>2. x \in Nat
  BY <1>1, PowersAreNumbers
<1>3. Due(n) = Smaller(Base * x, Cap)
  BY DEF Due
<1> HIDE DEF x
<1> QED
  BY <1>2, <1>3, RetryQueueAssumption DEF Smaller

\* min(base * 2 ** attempt_count, 3600), with the count at its bound, too.
LEMMA BackoffIsDue ==
    ASSUME NEW item, item.attempts \in 0 .. MaxCount, Base * 2 ^ MaxCount >= Cap
    PROVE  LET n == Smaller(item.attempts + 1, MaxCount)
           IN  n > 0 => Backoff(item) >= Due(n)
<1> DEFINE a == item.attempts
           n == Smaller(a + 1, MaxCount)
<1> SUFFICES ASSUME n > 0 PROVE Backoff(item) >= Due(n)
  OBVIOUS
<1>1. MaxCount \in Nat /\ a \in Nat /\ Base \in Nat /\ Cap \in Nat
  BY RetryQueueAssumption
<1>2. CASE a + 1 <= MaxCount
  <2>1. n = a + 1 /\ n - 1 = a
    BY <1>1, <1>2 DEF Smaller
  <2>2. Backoff(item) = Due(n)
    BY <2>1 DEF Backoff, Due
  <2>3. Backoff(item) \in 0 .. Cap
    BY BackoffIsANumber
  <2> QED
    BY <1>1, <2>2, <2>3
<1>3. CASE ~(a + 1 <= MaxCount)
  <2>1. a = MaxCount /\ n = MaxCount
    BY <1>1, <1>3 DEF Smaller
  <2> DEFINE x == 2 ^ MaxCount
  <2>2. x \in Nat /\ Base * x >= Cap
    BY <1>1, PowersAreNumbers
  <2>3. Backoff(item) = Smaller(Base * x, Cap)
    BY <2>1 DEF Backoff
  <2> HIDE DEF x
  <2>4. Backoff(item) = Cap
    BY <1>1, <2>2, <2>3 DEF Smaller
  <2>5. Due(n) \in 0 .. Cap
    BY <1>1, <2>1, DueIsBounded
  <2> QED
    BY <1>1, <2>4, <2>5
<1> QED
  BY <1>2, <1>3

\* A row that stays as it is, with its history, keeps its part.
LEMMA PushFailsKeeps ==
    ASSUME TimedInv, TimedTypeOK', NEW q \in Record, PushFails(q)
    PROVE  TableInv' /\ HeldInv' /\ BackoffInv'
<1>1. items = <<>> /\ items' = <<>> /\ pc' = pc
  BY DEF PushFails, TimedInv, HeldInv
<1>2. HeldInv'
  BY <1>1 DEF HeldInv
<1>3. row'[q] = [id |-> IF Queued(q) THEN row[q].id ELSE nextId, ver |-> edits,
                 attempts |-> IF Queued(q) THEN Smaller(row[q].attempts + 1, MaxCount)
                                           ELSE 0,
                 wait |-> 0]
  BY DEF PushFails, Enqueue, TimedInv, TimedTypeOK
<1>4. \A r \in Record \ {q} : row'[r] = row[r] /\ fails'[r] = fails[r] /\ age'[r] = age[r]
  BY DEF PushFails, Enqueue, TimedInv, TimedTypeOK
<1>5. fails'[q] = (IF Queued(q) THEN Smaller(fails[q] + 1, MaxCount) ELSE 0) /\ age'[q] = Cap
  BY DEF PushFails, TimedInv, TimedTypeOK
<1>6. nextId' = IF Queued(q) THEN nextId ELSE nextId + 1
  BY DEF PushFails, Enqueue
<1>7. nextId \in Nat \ {0} /\ \A r \in Record : row[r].id \in Nat
  BY DEF TimedInv, TimedTypeOK, TimedRow
<1>8. TableInv'
  <2>1. \A r \in Record : row[r].id < nextId
    BY DEF TimedInv, TableInv
  <2>2. \A r \in Record \ {q} : row'[r].id = row[r].id
    BY <1>4
  <2>3. row'[q].id = IF Queued(q) THEN row[q].id ELSE nextId
    BY <1>3
  <2>4. \A r \in Record : row'[r].id < nextId'
    BY <1>6, <1>7, <2>1, <2>2, <2>3
  <2>5. \A p, r \in Record : row'[p].id # 0 /\ row'[p].id = row'[r].id => p = r
    BY <1>7, <2>1, <2>2, <2>3 DEF TimedInv, TableInv, Queued
  <2> QED
    BY <2>4, <2>5 DEF TableInv, Queued
<1>9. BackoffInv'
  <2> SUFFICES ASSUME NEW r \in Record, Queued(r)'
               PROVE  /\ row'[r].attempts = fails'[r]
                      /\ fails'[r] > 0 => row'[r].wait + age'[r] >= Due(fails'[r])
    BY DEF BackoffInv, Due
  <2>1. CASE r = q
    <3>1. row'[q].attempts = fails'[q]
      BY <1>3, <1>5 DEF TimedInv, BackoffInv
    <3>2. row'[q].attempts \in 0 .. MaxCount
      BY DEF TimedTypeOK, TimedRow
    <3>3. fails'[q] > 0 => Due(fails'[q]) \in 0 .. Cap
      BY <3>1, <3>2, DueIsBounded, RetryQueueAssumption
    <3>4. row'[q].wait + age'[q] = Cap
      BY <1>3, <1>5, RetryQueueAssumption
    <3> QED
      BY <2>1, <3>1, <3>3, <3>4, RetryQueueAssumption
  <2>2. CASE r # q
    BY <1>4, <2>2 DEF TimedInv, BackoffInv, Queued
  <2> QED
    BY <2>1, <2>2
<1> QED
  BY <1>2, <1>8, <1>9

\* The rows that a drain still holds after one is handled.
LEMMA HeldTail ==
    ASSUME TimedInv, items # <<>>, pc = "drain", items' = Tail(items), pc' = pc,
           \A r \in Record \ {Head(items).rec} : row'[r] = row[r]
    PROVE  HeldInv'
<1>1. /\ Len(items) \in Nat \ {0} /\ Head(items) = items[1]
      /\ Len(items') = Len(items) - 1
      /\ \A i \in 1 .. Len(items') : items'[i] = items[i + 1] /\ i + 1 \in 1 .. Len(items)
  BY HeadAndTail DEF TimedInv, TimedTypeOK
<1>2. \A i \in 1 .. Len(items') : items'[i].rec \in Record \ {Head(items).rec}
  <2> TAKE i \in 1 .. Len(items')
  <2>1. items[i + 1].rec \in Record
    BY <1>1, ItemsAreRows DEF TimedInv
  <2>2. items[i + 1].rec # items[1].rec
    BY <1>1 DEF TimedInv, HeldInv
  <2> QED
    BY <1>1, <2>1, <2>2
<1>3. \A i, j \in 1 .. Len(items') : items'[i].rec = items'[j].rec => i = j
  <2> SUFFICES ASSUME NEW i \in 1 .. Len(items'), NEW j \in 1 .. Len(items'),
                      items'[i].rec = items'[j].rec
               PROVE  i = j
    OBVIOUS
  <2>1. i + 1 = j + 1
    BY <1>1 DEF TimedInv, HeldInv
  <2> QED
    BY <2>1
<1>4. \A i \in 1 .. Len(items') :
          LET r == items'[i].rec
          IN  /\ row'[r].id # 0 /\ row'[r].id = items'[i].id
              /\ row'[r].attempts = items'[i].attempts /\ row'[r].wait = 0
  BY <1>1, <1>2 DEF TimedInv, HeldInv, Queued
<1> QED
  BY <1>3, <1>4 DEF HeldInv, Queued

LEMMA SucceedKeeps ==
    ASSUME TimedInv, Succeed
    PROVE  TableInv' /\ HeldInv' /\ BackoffInv'
<1> DEFINE q == Head(items).rec
<1>1. q \in Record /\ items # <<>> /\ pc = "drain" /\ items' = Tail(items) /\ pc' = pc
  BY FirstItem DEF Succeed
<1>2. UNCHANGED <<nextId, fails, age>> /\ nextId \in Nat \ {0}
  BY DEF Succeed, TimedInv, TimedTypeOK
<1>3. row' = row \/ row' = [row EXCEPT ![q] = NoTimedRow]
  BY DEF Succeed, Delete
<1>4. \A r \in Record \ {q} : row'[r] = row[r]
  BY <1>3 DEF TimedInv, TimedTypeOK
<1>5. row'[q] = row[q] \/ row'[q].id = 0
  BY <1>1, <1>3 DEF TimedInv, TimedTypeOK, NoTimedRow
<1>6. HeldInv'
  BY <1>1, <1>4, HeldTail
<1>7. TableInv'
  BY <1>2, <1>4, <1>5 DEF TimedInv, TableInv, Queued
<1>8. BackoffInv'
  BY <1>2, <1>4, <1>5 DEF TimedInv, BackoffInv, Queued, Due
<1> QED
  BY <1>6, <1>7, <1>8

LEMMA FailKeeps ==
    ASSUME TimedInv, Fail
    PROVE  TableInv' /\ HeldInv' /\ BackoffInv'
<1> DEFINE item == Head(items)
           q == item.rec
<1>1. /\ item.attempts \in 0 .. MaxCount /\ q \in Record /\ items # <<>> /\ pc = "drain"
      /\ nextId' = nextId /\ nextId \in Nat \ {0}
  BY FirstItem DEF Fail, TimedInv, TimedTypeOK
<1>2. /\ Queued(q) /\ row[q].id = item.id /\ row[q].attempts = item.attempts
  BY <1>1, FirstItem
<1>3. CASE pc' = "dead" /\ items' = <<>> /\ UNCHANGED <<row, fails, age>>
  <2>1. TableInv' /\ BackoffInv'
    BY <1>1, <1>3 DEF TimedInv, TableInv, BackoffInv, Queued, Due
  <2>2. HeldInv'
    BY <1>3 DEF HeldInv
  <2> QED
    BY <2>1, <2>2
<1>4. CASE PostponeBy(item, Backoff(item)) /\ items' = Tail(items) /\ UNCHANGED pc
           /\ fails' = [fails EXCEPT ![q] = Smaller(@ + 1, MaxCount)]
           /\ age' = [age EXCEPT ![q] = 0]
  <2> DEFINE w == Backoff(item)
  <2>1. row' = [row EXCEPT ![q] = Postponed(row[q], w)]
    BY <1>2, <1>4 DEF PostponeBy
  <2>2. w \in 0 .. Cap /\ item.attempts \in 0 .. MaxCount
    BY <1>1, BackoffIsANumber
  <2>3. row[q] \in TimedRow
    BY <1>1 DEF TimedInv, TimedTypeOK
  <2>4. \A r \in Record \ {q} : row'[r] = row[r] /\ fails'[r] = fails[r] /\ age'[r] = age[r]
    BY <1>4, <2>1 DEF TimedInv, TimedTypeOK
  <2>5. /\ row'[q].id = row[q].id /\ row'[q].wait = w
        /\ row'[q].attempts = Smaller(row[q].attempts + 1, MaxCount)
    <3>1. row'[q] = Postponed(row[q], w)
      BY <1>1, <2>1 DEF TimedInv, TimedTypeOK
    <3>2. /\ Postponed(row[q], w).id = row[q].id /\ Postponed(row[q], w).wait = w
          /\ Postponed(row[q], w).attempts = Smaller(row[q].attempts + 1, MaxCount)
      <4> HIDE DEF w, q
      <4>1. 0 \in Nat
        OBVIOUS
      <4> QED
        BY <2>2, <2>3, <4>1, RowStaysARow
    <3> QED
      BY <3>1, <3>2
  <2>6. fails'[q] = Smaller(fails[q] + 1, MaxCount) /\ age'[q] = 0 /\ fails[q] = item.attempts
    BY <1>1, <1>2, <1>4 DEF TimedInv, TimedTypeOK, BackoffInv
  <2>7. HeldInv'
    BY <1>1, <1>4, <2>4, HeldTail
  <2>8. TableInv'
    BY <1>1, <2>4, <2>5 DEF TimedInv, TableInv, Queued
  <2>9. fails'[q] > 0 => w >= Due(fails'[q])
    BY <2>2, <2>6, BackoffIsDue, RetryQueueAssumption
  <2>10. row'[q].attempts = fails'[q]
    BY <1>2, <2>5, <2>6
  <2>11. row'[q].wait + age'[q] = w
    BY <2>2, <2>5, <2>6
  <2> HIDE DEF w
  <2>12. BackoffInv'
    BY <2>4, <2>9, <2>10, <2>11 DEF TimedInv, BackoffInv, Queued, Due
  <2> QED
    BY <2>7, <2>8, <2>12
<1> QED
  BY <1>3, <1>4 DEF Fail

LEMMA TickKeeps ==
    ASSUME TimedInv, Tick
    PROVE  TableInv' /\ HeldInv' /\ BackoffInv'
<1>1. UNCHANGED <<nextId, pc, items, fails>>
  BY DEF Tick
<1>2. \A r \in Record :
          /\ row'[r].id = row[r].id /\ row'[r].attempts = row[r].attempts
          /\ row'[r].wait = Left(row[r].wait) /\ age'[r] = Smaller(age[r] + 1, Cap)
  <2> TAKE r \in Record
  <2>1. row'[r] = [row[r] EXCEPT !.wait = Left(@)] /\ age'[r] = Smaller(age[r] + 1, Cap)
    BY DEF Tick
  <2>2. row[r] \in TimedRow
    BY DEF TimedInv, TimedTypeOK
  <2> QED
    BY <2>1, <2>2 DEF TimedRow
<1>3. TableInv'
  BY <1>1, <1>2 DEF TimedInv, TableInv, Queued
<1>4. HeldInv'
  <2>1. \A i \in 1 .. Len(items) : items[i].rec \in Record
    BY ItemsAreRows DEF TimedInv
  <2> QED
    BY <1>1, <1>2, <2>1 DEF TimedInv, HeldInv, Queued, Left
<1>5. BackoffInv'
  <2> SUFFICES ASSUME NEW r \in Record, Queued(r)', fails[r] > 0
               PROVE  row'[r].wait + age'[r] >= Due(fails[r])
    BY <1>1, <1>2 DEF TimedInv, BackoffInv, Queued, Due
  <2>1. row[r].wait \in 0 .. Cap /\ age[r] \in Nat /\ row[r].attempts \in 0 .. MaxCount
    BY DEF TimedInv, TimedTypeOK, TimedRow
  <2>2. row[r].attempts = fails[r] /\ row[r].wait + age[r] >= Due(fails[r])
    BY <1>2 DEF TimedInv, BackoffInv, Queued
  <2>3. Due(fails[r]) \in 0 .. Cap
    BY <2>1, <2>2, DueIsBounded, RetryQueueAssumption
  <2> DEFINE w == row[r].wait
             a == age[r]
             d == Due(fails[r])
  <2>4. w \in Nat /\ a \in Nat /\ d \in 0 .. Cap /\ Cap \in Nat /\ w + a >= d
    BY <2>1, <2>2, <2>3, RetryQueueAssumption
  <2>5. row'[r].wait = Left(w) /\ age'[r] = Smaller(a + 1, Cap)
    BY <1>2
  <2> HIDE DEF w, a, d
  <2>6. Left(w) + Smaller(a + 1, Cap) >= d
    BY <2>4 DEF Left, Smaller
  <2> QED
    BY <2>5, <2>6 DEF d
<1> QED
  BY <1>3, <1>4, <1>5

\* Steps that touch neither the rows nor their history.
LEMMA RowsUntouched ==
    ASSUME TimedInv, UNCHANGED <<row, nextId, fails, age>>
    PROVE  /\ TableInv' /\ BackoffInv'
           /\ items' = <<>> \/ UNCHANGED <<items, pc>> => HeldInv'
<1>1. TableInv' /\ BackoffInv'
  BY DEF TimedInv, TableInv, BackoffInv, Queued, Due
<1>2. items' = <<>> => HeldInv'
  BY DEF HeldInv
<1>3. UNCHANGED <<items, pc>> => HeldInv'
  BY DEF TimedInv, HeldInv, Queued
<1> QED
  BY <1>1, <1>2, <1>3

LEMMA TimedKeeps == TimedInv /\ [TimedStep]_queueVars => TimedInv'
<1> SUFFICES ASSUME TimedInv, [TimedStep]_queueVars PROVE TimedInv'
  OBVIOUS
<1>1. TimedTypeOK'
  BY TypeKeeps DEF TimedInv
<1> SUFFICES TableInv' /\ HeldInv' /\ BackoffInv'
  BY <1>1 DEF TimedInv
<1>2. ASSUME NEW r \in Record, Push(r) \/ Alter(r)
      PROVE  TableInv' /\ HeldInv' /\ BackoffInv'
  BY <1>2, RowsUntouched DEF Push, Alter, Service
<1>3. ASSUME NEW r \in Record, PushFails(r)
      PROVE  TableInv' /\ HeldInv' /\ BackoffInv'
  BY <1>1, <1>3, PushFailsKeeps
<1>4. CASE StartDrain
  <2>1. UNCHANGED <<row, nextId, fails, age>> /\ items' = DueItems /\ pc' = "drain"
    BY <1>4 DEF StartDrain
  <2>2. HeldInv'
    BY <2>1, DueItemsAreDue DEF TimedInv, HeldInv, Queued
  <2> QED
    BY <2>1, <2>2, RowsUntouched
<1>5. CASE Succeed
  BY <1>5, SucceedKeeps
<1>6. CASE Fail
  BY <1>6, FailKeeps
<1>7. CASE EndDrain \/ Wake \/ Restart \/ Die
  <2>1. items' = <<>> /\ UNCHANGED <<row, nextId, fails, age>>
    BY <1>7 DEF EndDrain, Wake, Restart, Die, TimedInv, HeldInv
  <2> QED
    BY <2>1, RowsUntouched
<1>8. CASE Tick
  BY <1>8, TickKeeps
<1>9. CASE UNCHANGED queueVars
  BY <1>9, RowsUntouched DEF queueVars
<1> QED
  BY <1>1, <1>2, <1>3, <1>4, <1>5, <1>6, <1>7, <1>8, <1>9 DEF TimedStep, Work

LEMMA TimedInvariant == TimedSpec => []TimedInv
<1>1. TimedInit => TimedInv
  <2>1. TimedInit => HeldInv /\ BackoffInv
    BY DEF TimedInit, HeldInv, BackoffInv, NoTimedRow, Queued
  <2> QED
    BY <2>1, InitTimed DEF TimedInv
<1> QED
  BY <1>1, TimedKeeps, PTL DEF TimedSpec

\* For every interval, backoff, limit and number of records: what a drain reads is
\* a row, and a wait is never longer than the maximum (dequeue_due_retries).
THEOREM TimedTypeCorrect == TimedSpec => []TimedTypeOK
<1>1. TimedInv => TimedTypeOK
  BY DEF TimedInv
<1> QED
  BY <1>1, TimedInvariant, PTL

\* For every interval, backoff, limit and number of records: no row is tried again
\* before the backoff for its failures is over, where one process syncs and drains in
\* turn (mark_retry_failed, dequeue_due_retries, enqueue_retry between two drains).
THEOREM AlwaysBacksOff == TimedSpec => []BacksOff
<1>1. TimedInv => BacksOff
  <2> SUFFICES ASSUME TimedInv, NEW i \in 1 .. Len(items), fails[items[i].rec] > 0
               PROVE  age[items[i].rec] >= Due(fails[items[i].rec])
    BY DEF BacksOff, Due
  <2> DEFINE r == items[i].rec
  <2>1. r \in Record
    BY ItemsAreRows DEF TimedInv
  <2>2. Queued(r) /\ row[r].wait = 0
    BY DEF TimedInv, HeldInv
  <2>3. row[r].wait + age[r] >= Due(fails[r]) /\ age[r] \in Nat
    BY <2>1, <2>2 DEF TimedInv, TimedTypeOK, BackoffInv
  <2> QED
    BY <2>2, <2>3
<1> QED
  BY <1>1, TimedInvariant, PTL

=============================================================================
