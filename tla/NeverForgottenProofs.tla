------------------------- MODULE NeverForgottenProofs -------------------------
(***************************************************************************)
(* Any number of processes on one state file forget no record: proofs for  *)
(* TLAPS.                                                                  *)
(***************************************************************************)
EXTENDS NothingLostProofs

\* What the theorem is for: one site whose users delete no documents, and no resync
\* of a date range.
Lasting ==
    /\ "delete" \notin Faults
    /\ \E t \in Target : Target = {t}
    /\ \A p \in Proc : "range" \notin Jobs[p]

Written(r) == \E t \in Target : Exists(t, r)
Known(r) == Queued(r) \/ Written(r)

\* A sync still has r at hand, need not care, or will not raise the watermark past it.
Owed(s, r) == tally[r] = 0 \/ s.work[r].ver # 0 \/ Known(r) \/ Newer(s, r)

\* What process p still has to do, whatever the others do meanwhile.
DebtInv(p) ==
    LET s == proc[p]
    IN  /\ s.high <= lastAlter
        /\ s.pc \in {"entity", "fetch"} => s.scope = Record
        /\ s.pc = "fetch" =>
              \A r \in RecordsOf(Head(s.left)) :
                  Pushable(r) /\ tally[r] \in 1 .. s.high => Known(r)
        /\ Busy(s) /\ ~Retrying(s) =>
              /\ s.scope = Record
              /\ \A r \in Record : s.work[r].ver <= lastAlter
              /\ \A r \in RecordsOf(Head(s.left)) : Pushable(r) => Owed(s, r)
        /\ s.pc \in {"remember", "resolve"} => Written(s.cur)

\* The state file and the site.
FileInv ==
    /\ \A e \in Entity : lastSync[e] <= lastAlter
    /\ \A r \in Record :
           Pushable(r) /\ tally[r] \in 1 .. lastSync[EntityOf[r]] => Known(r)
    /\ \A t \in Target : \A n \in 1 .. Len(docs[t]) : docs[t][n].live

ForgetInv == OwnInv /\ Lasting /\ FileInv /\ \A p \in Proc : DebtInv(p)

LEMMA InitForget == Init /\ Lasting => ForgetInv
<1> SUFFICES ASSUME Init, Lasting PROVE ForgetInv
  OBVIOUS
<1>1. OwnInv
  BY InitOwn
<1>2. lastAlter \in Nat
  BY <1>1 DEF OwnInv, TypeInv, TypeOK, TallyTypeOK
<1>3. FileInv
  BY <1>2, RegistryAssumption DEF Init, StoreInit, FileInv
<1>4. ASSUME NEW p \in Proc PROVE DebtInv(p)
  BY <1>2 DEF Init, AtRest, DebtInv, Busy, Pushing
<1> QED
  BY <1>1, <1>3, <1>4 DEF ForgetInv

\* The types a step's arithmetic needs.
LEMMA ForgetTypes ==
    ASSUME ForgetInv, NEW p \in Proc
    PROVE  /\ proc[p] \in LocalState /\ proc[p] \in ProcState
           /\ target[p] \in Target /\ proc[p].cur \in Record
           /\ proc[p].high \in Nat
           /\ \A r \in Record : proc[p].work[r] \in Item /\ proc[p].work[r].ver \in Nat
BY ProcStateType DEF ForgetInv, OwnInv, Item

LEMMA FileTypes ==
    ASSUME ForgetInv
    PROVE  /\ lastAlter \in Nat
           /\ \A r \in Record : /\ tally[r] \in Nat /\ tally[r] <= lastAlter
                                /\ EntityOf[r] \in Entity
           /\ \A e \in Entity : lastSync[e] \in Nat
BY RegistryAssumption
DEF ForgetInv, OwnInv, TypeInv, TypeOK, TallyTypeOK, StoreTypeOK

-----------------------------------------------------------------------------
(* What no step of any process takes away.                                  *)

\* A record stays as it is in Tally, or becomes newer than all there was.
LEMMA TallyMoves ==
    ASSUME ForgetInv, [Next]_vars
    PROVE  /\ lastAlter' \in Nat /\ lastAlter' >= lastAlter
           /\ \A r \in Record : tally'[r] = tally[r] \/ tally'[r] > lastAlter
<1>1. UNCHANGED tallyVars \/ UserEdits
  <2>1. CASE \E p \in Proc : Step(p) \/ Fault(p)
    BY <2>1, ProcessTouches
  <2>2. CASE UserDeletes \/ (\E r \in Record : TimePasses(r)) \/ UNCHANGED vars
    BY <2>2 DEF UserDeletes, TimePasses, tallyVars, vars
  <2> QED
    BY <2>1, <2>2 DEF Next
<1>2. CASE UNCHANGED tallyVars
  BY <1>2, FileTypes DEF tallyVars
<1>3. CASE UserEdits
  BY <1>3, FileTypes DEF UserEdits, Edit, ForgetInv, OwnInv, TypeInv, TypeOK, TallyTypeOK
<1> QED
  BY <1>1, <1>2, <1>3

\* Nobody deletes: every document is there.
LEMMA LiveStays ==
    ASSUME ForgetInv, [Next]_vars
    PROVE  \A t \in Target : \A n \in 1 .. Len(docs'[t]) : docs'[t][n].live
<1>1. FrappeTypeOK /\ \A t \in Target : docs[t] \in Seq(Document)
  BY DEF ForgetInv, OwnInv, TypeInv, TypeOK, FrappeTypeOK
<1>2. CASE UNCHANGED docs
  BY <1>2 DEF ForgetInv, FileInv
<1>3. CASE UserDeletes
  BY <1>3 DEF UserDeletes, Disturb, ForgetInv, Lasting
<1>4. CASE \E p \in Proc : Effect(p)
  <2>1. PICK p \in Proc : Effect(p)
    BY <1>4
  <2> DEFINE t == target[p]
             d == [rec |-> proc[p].cur, ver |-> Version(proc[p]), live |-> TRUE]
  <2>2. t \in Target /\ d \in Document
    BY ProcStateType DEF ForgetInv, OwnInv, Document
  <2>3. d.live
    OBVIOUS
  <2>4. \/ docs' = [docs EXCEPT ![t] = Append(docs[t], d)]
        \/ \E n \in 1 .. Len(docs[t]) : docs' = [docs EXCEPT ![t][n] = d]
    BY <2>1 DEF Effect, CreateDoc, UpdateDoc, Live, Names
  <2> HIDE DEF t, d
  <2>5. \A n \in 1 .. Len(docs[t]) : docs[t][n].live
    BY <2>2 DEF ForgetInv, FileInv
  <2>6. CASE docs' = [docs EXCEPT ![t] = Append(docs[t], d)]
    <3>1. /\ Len(Append(docs[t], d)) = Len(docs[t]) + 1
          /\ Append(docs[t], d)[Len(docs[t]) + 1] = d
          /\ \A n \in 1 .. Len(docs[t]) : Append(docs[t], d)[n] = docs[t][n]
          /\ Len(docs[t]) \in Nat
      BY <1>1, <2>2
    <3>2. docs'[t] = Append(docs[t], d) /\ \A v \in Target \ {t} : docs'[v] = docs[v]
      BY <2>2, <2>6, <1>1 DEF FrappeTypeOK
    <3>3. \A n \in 1 .. Len(docs'[t]) : docs'[t][n].live
      BY <2>3, <2>5, <3>1, <3>2
    <3> QED
      BY <3>2, <3>3 DEF ForgetInv, FileInv
  <2>7. CASE \E n \in 1 .. Len(docs[t]) : docs' = [docs EXCEPT ![t][n] = d]
    <3>1. PICK n \in 1 .. Len(docs[t]) : docs' = [docs EXCEPT ![t][n] = d]
      BY <2>7
    <3>2. /\ docs'[t] = [docs[t] EXCEPT ![n] = d]
          /\ \A v \in Target \ {t} : docs'[v] = docs[v]
      BY <1>1, <2>2, <3>1 DEF FrappeTypeOK
    <3>3. Len(docs'[t]) = Len(docs[t])
      BY <1>1, <2>2, <3>1, <3>2
    <3>4. \A m \in 1 .. Len(docs[t]) : docs'[t][m] = IF m = n THEN d ELSE docs[t][m]
      BY <1>1, <2>2, <3>1, <3>2
    <3>5. \A m \in 1 .. Len(docs'[t]) : docs'[t][m].live
      BY <2>3, <2>5, <3>3, <3>4
    <3> QED
      BY <3>2, <3>5 DEF ForgetInv, FileInv
  <2> QED
    BY <2>4, <2>6, <2>7
<1> QED
  BY <1>2, <1>3, <1>4, DocsMove

\* A name that a lookup found is that of a document.
LEMMA OwnIsWritten ==
    ASSUME ForgetInv, NEW t \in Target, NEW r \in Record, NEW n, n # 0, Own(docs, t, r, n)
    PROVE  Written(r)
BY DEF Own, Written, Exists, Matches, Names, Live, ForgetInv, FileInv

LEMMA WrittenStays ==
    ASSUME ForgetInv, [Next]_vars, NEW r \in Record, Written(r)
    PROVE  Written(r)'
<1>0. PICK t \in Target : Exists(t, r)
  BY DEF Written
<1>1. PICK n \in 1 .. Len(docs[t]) : docs[t][n].rec = r
  BY <1>0 DEF Exists, Matches, Names
<1>2. n \in 1 .. Len(docs'[t]) /\ docs'[t][n].rec = r
  BY <1>1, NextKeeps DEF Kept, ForgetInv
<1>3. docs'[t][n].live
  BY <1>2, LiveStays
<1> QED
  BY <1>2, <1>3 DEF Written, Exists, Matches, Names, Live

\* A row is deleted only when its record is in Frappe or can never be.
LEMMA QueuedStays ==
    ASSUME ForgetInv, [Next]_vars, NEW r \in Record, Queued(r), Pushable(r), ~Written(r)
    PROVE  Queued(r)'
<1>1. queue \in [Record -> Row] /\ nextId \in Nat \ {0}
  BY DEF ForgetInv, OwnInv, TypeInv, TypeOK, StoreTypeOK
<1>2. CASE UNCHANGED queue
  BY <1>2 DEF Queued
<1>3. ASSUME NEW p \in Proc, DropRow(p) PROVE Queued(r)'
  <2>1. PICK q \in Record : ~Pushable(q) /\ MarkRetrySuccess(q, proc[p].work[q].id)
    BY <1>3 DEF DropRow, Hopeless, NextUp, Pending
  <2> QED
    BY <1>1, <2>1 DEF MarkRetrySuccess, Queued
<1>4. ASSUME NEW p \in Proc, Resolve(p) PROVE Queued(r)'
  <2>1. Written(proc[p].cur)
    BY <1>4 DEF Resolve, ForgetInv, DebtInv
  <2> QED
    BY <1>1, <1>4, <2>1 DEF Resolve, MarkRetrySuccess, Queued
<1>5. ASSUME NEW p \in Proc, Enqueue(p) PROVE Queued(r)'
  BY <1>1, <1>5 DEF Enqueue, EnqueueRetry, Queued
<1>6. ASSUME NEW p \in Proc, Reschedule(p) PROVE Queued(r)'
  BY <1>1, <1>6 DEF Reschedule, MarkRetryFailed, Queued, Row
<1>7. ASSUME NEW q \in Record, TimePasses(q) PROVE Queued(r)'
  BY <1>1, <1>7 DEF TimePasses, BackoffElapses, Queued, Row
<1>8. \/ UNCHANGED queue
      \/ \E p \in Proc : DropRow(p) \/ Resolve(p) \/ Enqueue(p) \/ Reschedule(p)
      \/ \E q \in Record : TimePasses(q)
  <2>1. CASE \E p \in Proc : Step(p) \/ Fault(p)
    BY <2>1, ProcessTouches
  <2>2. CASE UserEdits \/ UserDeletes \/ UNCHANGED vars
    BY <2>2 DEF UserEdits, UserDeletes, storeVars, vars
  <2> QED
    BY <2>1, <2>2 DEF Next
<1> QED
  BY <1>2, <1>3, <1>4, <1>5, <1>6, <1>7, <1>8

LEMMA KnownStays ==
    ASSUME ForgetInv, [Next]_vars, NEW r \in Record, Pushable(r), Known(r)
    PROVE  Known(r)'
BY WrittenStays, QueuedStays DEF Known

\* What a process that does nothing still owes, it can still do.
LEMMA OthersOwe ==
    ASSUME ForgetInv, [Next]_vars, NEW q \in Proc, proc'[q] = proc[q]
    PROVE  DebtInv(q)'
<1> DEFINE s == proc[q]
<1>1. s.high <= lastAlter'
  BY TallyMoves, FileTypes, ForgetTypes DEF ForgetInv, DebtInv
<1>2. ASSUME s.pc = "fetch", NEW r \in RecordsOf(Head(s.left)), Pushable(r),
             tally'[r] \in 1 .. s.high
      PROVE  Known(r)'
  <2>1. r \in Record
    BY DEF RecordsOf
  <2>2. tally'[r] = tally[r]
    BY <1>2, <2>1, TallyMoves, FileTypes, ForgetTypes DEF ForgetInv, DebtInv
  <2> QED
    BY <1>2, <2>1, <2>2, KnownStays DEF ForgetInv, DebtInv
<1>3. ASSUME Busy(s), ~Retrying(s)
      PROVE  /\ \A r \in Record : s.work[r].ver <= lastAlter'
             /\ \A r \in RecordsOf(Head(s.left)) : Pushable(r) => Owed(s, r)'
  <2>1. \A r \in Record : s.work[r].ver <= lastAlter
    BY <1>3 DEF ForgetInv, DebtInv
  <2>2. \A r \in Record : s.work[r].ver <= lastAlter'
    BY <2>1, TallyMoves, FileTypes, ForgetTypes
  <2>3. ASSUME NEW r \in RecordsOf(Head(s.left)), Pushable(r)
        PROVE  Owed(s, r)'
    <3>1. r \in Record /\ Owed(s, r)
      BY <1>3, <2>3 DEF RecordsOf, ForgetInv, DebtInv
    <3>2. CASE s.work[r].ver # 0
      BY <3>2 DEF Owed
    <3>3. CASE Known(r)
      BY <2>3, <3>1, <3>3, KnownStays DEF Owed
    <3>4. CASE tally'[r] = tally[r] /\ (tally[r] = 0 \/ Newer(s, r))
      BY <3>4 DEF Owed, Newer
    <3>5. CASE tally'[r] > lastAlter
      <4>1. s.high <= lastAlter /\ s.high \in Nat
        BY ForgetTypes DEF ForgetInv, DebtInv
      <4>2. tally'[r] \in Nat
        BY <3>1, NextType DEF ForgetInv, OwnInv, TypeInv, TypeOK, TallyTypeOK
      <4> QED
        BY <2>1, <3>5, <4>1, <4>2, FileTypes, ForgetTypes DEF Owed, Newer
    <3> QED
      BY <3>1, <3>2, <3>3, <3>4, <3>5, TallyMoves DEF Owed
  <2> QED
    BY <2>2, <2>3
<1>4. ASSUME s.pc \in {"remember", "resolve"} PROVE Written(s.cur)'
  <2>1. PICK r \in Record : r = s.cur
    BY ForgetTypes
  <2>2. Written(r)
    BY <1>4, <2>1 DEF ForgetInv, DebtInv
  <2> QED
    BY <2>1, <2>2, WrittenStays DEF Written
<1> QED
  BY <1>1, <1>2, <1>3, <1>4 DEF ForgetInv, DebtInv, RecordsOf

\* While the watermarks stay, so does what they promise.
LEMMA FileKeeps ==
    ASSUME ForgetInv, [Next]_vars, UNCHANGED lastSync
    PROVE  FileInv'
<1>1. \A e \in Entity : lastSync'[e] <= lastAlter'
  BY TallyMoves, FileTypes DEF ForgetInv, FileInv
<1>2. ASSUME NEW r \in Record, Pushable(r), tally'[r] \in 1 .. lastSync'[EntityOf[r]]
      PROVE  Known(r)'
  <2>1. tally'[r] = tally[r]
    BY <1>2, TallyMoves, FileTypes DEF ForgetInv, FileInv
  <2> QED
    BY <1>2, <2>1, KnownStays DEF ForgetInv, FileInv
<1> QED
  BY <1>1, <1>2, LiveStays DEF FileInv

-----------------------------------------------------------------------------
(* What a process does itself.                                              *)

\* One process acts; the others keep what they owe.
LEMMA ActorOwes ==
    ASSUME ForgetInv, [Next]_vars, NEW p \in Proc, Become(p, proc'[p]),
           FileInv', DebtInv(p)'
    PROVE  ForgetInv'
<1>1. \A q \in Proc \ {p} : proc'[q] = proc[q]
  BY DEF Become, ForgetInv, OwnInv, TypeInv
<1>2. \A q \in Proc : DebtInv(q)'
  BY <1>1, OthersOwe
<1>3. OwnInv'
  BY NextOwn DEF ForgetInv
<1>4. Lasting'
  BY DEF ForgetInv, Lasting
<1> QED
  BY <1>2, <1>3, <1>4 DEF ForgetInv

\* A process that starts, ends or dies owes nothing.
LEMMA RestOwes ==
    ASSUME ForgetInv, [Next]_vars, NEW p \in Proc,
           \/ RunSync(p) \/ ResyncEntity(p) \/ ProcessRetryQueue(p) \/ Restart(p)
           \/ Crash(p) \/ EndSync(p) \/ UnknownEntity(p) \/ EndRetries(p) \/ Dequeue(p)
    PROVE  ForgetInv'
<1>1. UNCHANGED lastSync /\ Become(p, proc'[p])
  BY DEF RunSync, ResyncEntity, ProcessRetryQueue, Restart, Crash, EndSync,
         UnknownEntity, EndRetries, Dequeue, Become, storeVars, ForgetInv, OwnInv, TypeInv
<1>2. /\ \/ proc'[p].pc \in {"idle", "down", "entity", "dequeue"}
         \/ proc'[p].pc = "each" /\ proc'[p].job = "retry"
      /\ proc'[p].high = 0
      /\ proc'[p].pc = "entity" => proc'[p].scope = Record
  <2> USE DEF ForgetInv, OwnInv, TypeInv, Become
  <2>1. CASE RunSync(p)
    <3>1. PICK kind : proc'[p] = [AtRest("entity") EXCEPT !.job = kind, !.left = Order,
                                                        !.scope = Record]
      BY <2>1 DEF RunSync
    <3> QED
      BY <3>1 DEF AtRest
  <2>2. CASE ResyncEntity(p)
    <3>1. "range" \notin Jobs[p]
      BY DEF Lasting
    <3>2. PICK kind \in Jobs[p] \cap {"resync", "range"}, e \in Registered :
              \E scope \in IF kind = "range" /\ e \in Voucher
                           THEN SUBSET RecordsOf(e) ELSE {Record} :
                 Become(p, [AtRest("entity") EXCEPT !.job = kind, !.left = <<e>>,
                                                    !.scope = scope])
      BY <2>2, Zenon DEF ResyncEntity
    <3>3. proc'[p] = [AtRest("entity") EXCEPT !.job = kind, !.left = <<e>>,
                                              !.scope = Record]
      BY <3>1, <3>2
    <3> QED
      BY <3>3 DEF AtRest
  <2>3. CASE ProcessRetryQueue(p) \/ Restart(p) \/ Crash(p) \/ EndSync(p)
    BY <2>3 DEF ProcessRetryQueue, Restart, Crash, EndSync, AtRest
  <2>4. CASE UnknownEntity(p) \/ EndRetries(p)
    BY <2>4 DEF UnknownEntity, EndRetries, AtRest
  <2>5. CASE Dequeue(p)
    <3>1. PICK work : proc'[p] = [AtRest("each") EXCEPT !.job = "retry", !.work = work]
      BY <2>5 DEF Dequeue
    <3> QED
      BY <3>1 DEF AtRest
  <2> QED
    BY <2>1, <2>2, <2>3, <2>4, <2>5
<1>3. DebtInv(p)'
  BY <1>2, TallyMoves DEF DebtInv, Busy, Pushing, Retrying
<1> QED
  BY <1>1, <1>3, FileKeeps, ActorOwes

LEMMA BeginEntityOwes ==
    ASSUME ForgetInv, [Next]_vars, NEW p \in Proc, BeginEntity(p)
    PROVE  ForgetInv'
<1> DEFINE s == proc[p]
           h == IF s.job \in {"cycle", "incremental"} THEN lastSync[Head(s.left)] ELSE 0
<1>1. /\ UNCHANGED <<tally, lastAlter, lastSync, queue, docs>>
      /\ Become(p, proc'[p]) /\ s.pc = "entity"
  BY DEF BeginEntity, Outside, storeVars, Become, ForgetInv, OwnInv, TypeInv
<1>2. proc'[p] = [s EXCEPT !.pc = "fetch", !.high = h]
  BY DEF BeginEntity, Become, ForgetInv, OwnInv, TypeInv
<1>3. Head(s.left) \in Entity
  BY ForgetTypes DEF BeginEntity, ProcState
<1>4. h <= lastSync[Head(s.left)] /\ h <= lastAlter /\ h \in Nat
  BY <1>3, FileTypes DEF ForgetInv, FileInv
<1>5. /\ proc'[p].pc = "fetch" /\ proc'[p].high = h
      /\ proc'[p].scope = s.scope /\ proc'[p].left = s.left
  <2> HIDE DEF h
  <2> QED
    BY <1>2, ForgetTypes DEF ProcState
<1> HIDE DEF h
<1>6. ASSUME NEW r \in RecordsOf(Head(s.left)), Pushable(r), tally[r] \in 1 .. h
      PROVE  Known(r)
  <2>1. r \in Record /\ EntityOf[r] = Head(s.left)
    BY DEF RecordsOf
  <2>2. tally[r] \in 1 .. lastSync[EntityOf[r]]
    BY <1>3, <1>4, <1>6, <2>1, FileTypes
  <2> QED
    BY <1>6, <2>1, <2>2 DEF ForgetInv, FileInv
<1>7. \A r \in Record : Known(r)' <=> Known(r)
  BY <1>1 DEF Known, Written, Exists, Matches, Names, Live, Queued
<1>8. \A r \in RecordsOf(Head(s.left)) : Pushable(r) /\ tally'[r] \in 1 .. h => Known(r)'
  BY <1>1, <1>6, <1>7 DEF RecordsOf
<1>9. DebtInv(p)'
  BY <1>1, <1>4, <1>5, <1>8 DEF ForgetInv, DebtInv, Busy, Pushing
<1> QED
  BY <1>1, <1>9, FileKeeps, ActorOwes

LEMMA FetchOwes ==
    ASSUME ForgetInv, [Next]_vars, NEW p \in Proc, Fetch(p)
    PROVE  ForgetInv'
<1> DEFINE s == proc[p]
           got == Export(Head(s.left), s.high, s.scope)
           work == [r \in Record |-> IF r \in got THEN [id |-> 0, ver |-> tally[r]]
                                                  ELSE NoItem]
<1>1. /\ UNCHANGED <<tally, lastAlter, lastSync, queue, docs>>
      /\ Become(p, proc'[p]) /\ s.pc = "fetch" /\ s.scope = Record
  BY DEF Fetch, Outside, storeVars, Become, ForgetInv, OwnInv, TypeInv, DebtInv
<1>2. proc'[p] = [s EXCEPT !.pc = "each", !.work = work]
  BY DEF Fetch, Become, ForgetInv, OwnInv, TypeInv
<1>3. /\ proc'[p].pc = "each" /\ proc'[p].work = work /\ proc'[p].high = s.high
      /\ proc'[p].scope = s.scope /\ proc'[p].left = s.left
  <2> HIDE DEF work
  <2> QED
    BY <1>2, ForgetTypes DEF ProcState
<1>4. \A r \in Record : work[r].ver = IF r \in got THEN tally[r] ELSE 0
  BY DEF NoItem
<1>5. ASSUME NEW r \in RecordsOf(Head(s.left)), Pushable(r)
      PROVE  tally[r] = 0 \/ work[r].ver # 0 \/ Known(r)
  <2>1. r \in Record
    BY DEF RecordsOf
  <2>2. CASE tally[r] > s.high
    BY <1>1, <1>4, <2>1, <2>2, FileTypes, ForgetTypes DEF Export
  <2>3. CASE tally[r] \in 1 .. s.high
    BY <1>1, <1>5, <2>3 DEF ForgetInv, DebtInv
  <2> QED
    BY <2>1, <2>2, <2>3, FileTypes, ForgetTypes
<1>6. \A r \in Record : Known(r)' <=> Known(r)
  BY <1>1 DEF Known, Written, Exists, Matches, Names, Live, Queued
<1>7. \A r \in Record : work[r].ver <= lastAlter
  BY <1>4, FileTypes
<1> HIDE DEF work
<1>8. \A r \in RecordsOf(Head(s.left)) : Pushable(r) => Owed(s, r)'
  BY <1>1, <1>3, <1>5, <1>6 DEF Owed, RecordsOf
<1>9. DebtInv(p)'
  BY <1>1, <1>3, <1>7, <1>8 DEF ForgetInv, DebtInv, Busy, Pushing
<1> QED
  BY <1>1, <1>9, FileKeeps, ActorOwes

\* The watermark passes only what is known.
LEMMA SaveOwes ==
    ASSUME ForgetInv, [Next]_vars, NEW p \in Proc, Save(p) \/ FetchFails(p)
    PROVE  ForgetInv'
<1> DEFINE s == proc[p]
           e == Head(s.left)
<1>1. /\ UNCHANGED <<tally, lastAlter, queue, docs>> /\ Become(p, proc'[p])
  BY DEF Save, FetchFails, Outside, Become, ForgetInv, OwnInv, TypeInv
<1>2. proc'[p] = [s EXCEPT !.pc = "entity", !.left = Tail(s.left)]
  BY DEF Save, FetchFails, Become, ForgetInv, OwnInv, TypeInv
<1>3. proc'[p].pc = "entity" /\ proc'[p].high = s.high /\ proc'[p].scope = s.scope
  BY <1>2, ForgetTypes DEF ProcState
<1>4. s.scope = Record /\ s.high <= lastAlter
  BY DEF Save, FetchFails, ForgetInv, DebtInv, Busy
<1>5. s.left # <<>> /\ s.left \in Seq(Entity) /\ ~Retrying(s)
  BY ForgetTypes DEF Save, FetchFails, LocalState, ProcState, Retrying
<1>6. /\ lastSync'[e] = s.high
      /\ \A d \in Entity \ {e} : lastSync'[d] = lastSync[d]
  BY <1>5 DEF Save, FetchFails, UpdateLastSync, ForgetInv, OwnInv, TypeInv, TypeOK,
              StoreTypeOK
<1>7. ASSUME NEW r \in Record, Pushable(r), EntityOf[r] = e, tally[r] \in 1 .. s.high
      PROVE  Known(r)
  <2>1. r \in RecordsOf(e)
    BY <1>7 DEF RecordsOf
  <2>2. CASE Save(p)
    <3>1. Owed(s, r)
      BY <1>5, <1>7, <2>1, <2>2 DEF Save, ForgetInv, DebtInv, Busy
    <3>2. s.work[r].ver = 0
      BY <2>2 DEF Save, Pending
    <3> QED
      BY <1>7, <3>1, <3>2, ForgetTypes DEF Owed, Newer
  <2>3. CASE FetchFails(p)
    BY <1>7, <2>1, <2>3 DEF FetchFails, ForgetInv, DebtInv
  <2> QED
    BY <2>2, <2>3
<1>8. \A r \in Record : Known(r)' <=> Known(r)
  BY <1>1 DEF Known, Written, Exists, Matches, Names, Live, Queued
<1>9. FileInv'
  <2>1. \A d \in Entity : lastSync'[d] <= lastAlter'
    BY <1>1, <1>4, <1>6 DEF ForgetInv, FileInv
  <2>2. ASSUME NEW r \in Record, Pushable(r), tally'[r] \in 1 .. lastSync'[EntityOf[r]]
        PROVE  Known(r)'
    BY <1>1, <1>6, <1>7, <1>8, <2>2, RegistryAssumption DEF ForgetInv, FileInv
  <2> QED
    BY <2>1, <2>2, LiveStays DEF FileInv
<1>10. DebtInv(p)'
  BY <1>1, <1>3, <1>4 DEF DebtInv, Busy, Pushing
<1> QED
  BY <1>1, <1>9, <1>10, ActorOwes

\* A process goes on with what it has at hand.
LEMMA GoingOnOwes ==
    ASSUME ForgetInv, [Next]_vars, NEW p \in Proc, Become(p, proc'[p]), UNCHANGED lastSync,
           Busy(proc[p]), Busy(proc'[p]),
           /\ proc'[p].work = proc[p].work /\ proc'[p].job = proc[p].job
           /\ proc'[p].left = proc[p].left /\ proc'[p].scope = proc[p].scope,
           \/ proc'[p].high = proc[p].high
           \/ ~Retrying(proc[p]) /\ \E r \in Record : proc'[p].high = Raised(proc[p], r),
           proc'[p].pc \in {"remember", "resolve"} => Written(proc[p].cur)',
           proc'[p].pc \in {"remember", "resolve"} => proc'[p].cur = proc[p].cur
    PROVE  ForgetInv'
<1> DEFINE s == proc[p]
           u == proc'[p]
<1>1. Retrying(u) <=> Retrying(s)
  BY DEF Retrying
<1>2. u.high \in Nat /\ u.high <= lastAlter
  BY ForgetTypes DEF Raised, ForgetInv, DebtInv
<1>3. u.high <= lastAlter'
  BY <1>2, TallyMoves, FileTypes
<1>4. ASSUME ~Retrying(s), NEW r \in RecordsOf(Head(s.left)), Pushable(r)
      PROVE  Owed(s, r)'
  <2>1. r \in Record /\ Owed(s, r) /\ \A q \in Record : s.work[q].ver <= lastAlter
    BY <1>4 DEF RecordsOf, ForgetInv, DebtInv
  <2>2. CASE s.work[r].ver # 0
    BY <2>2 DEF Owed
  <2>3. CASE Known(r)
    BY <1>4, <2>1, <2>3, KnownStays DEF Owed
  <2>4. CASE tally'[r] = tally[r] /\ (tally[r] = 0 \/ Newer(s, r))
    BY <2>1, <2>4, ForgetTypes DEF Owed, Newer, Raised
  <2>5. CASE tally'[r] > lastAlter
    <3>1. tally'[r] \in Nat
      BY <2>1, NextType DEF ForgetInv, OwnInv, TypeInv, TypeOK, TallyTypeOK
    <3> QED
      BY <1>2, <2>1, <2>5, <3>1, FileTypes, ForgetTypes DEF Owed, Newer
  <2> QED
    BY <2>1, <2>2, <2>3, <2>4, <2>5, TallyMoves DEF Owed
<1>5. ~Retrying(s) => \A r \in Record : u.work[r].ver <= lastAlter'
  BY TallyMoves, FileTypes, ForgetTypes DEF ForgetInv, DebtInv
<1>6. DebtInv(p)'
  BY <1>1, <1>3, <1>4, <1>5 DEF ForgetInv, DebtInv, Busy, Pushing, Written
<1> QED
  BY <1>6, FileKeeps, ActorOwes

\* A process is done with record r, which is known if it can be pushed.
LEMMA DoneOwes ==
    ASSUME ForgetInv, [Next]_vars, NEW p \in Proc, NEW r \in Record,
           Become(p, proc'[p]), UNCHANGED lastSync, Busy(proc[p]),
           /\ proc'[p].pc = "each" /\ proc'[p].job = proc[p].job
           /\ proc'[p].left = proc[p].left /\ proc'[p].scope = proc[p].scope
           /\ proc'[p].work = [proc[p].work EXCEPT ![r] = NoItem],
           \/ proc'[p].high = proc[p].high
           \/ ~Retrying(proc[p]) /\ proc'[p].high = Raised(proc[p], r),
           Pushable(r) /\ ~Retrying(proc[p]) => Known(r)'
    PROVE  ForgetInv'
<1> DEFINE s == proc[p]
           u == proc'[p]
<1>1. Retrying(u) <=> Retrying(s)
  BY DEF Retrying
<1>2. u.high \in Nat /\ u.high <= lastAlter /\ (u.high = s.high \/ u.high = s.work[r].ver)
  BY ForgetTypes DEF Raised, ForgetInv, DebtInv
<1>3. u.high <= lastAlter'
  BY <1>2, TallyMoves, FileTypes
<1>4. u.work[r].ver = 0 /\ \A q \in Record \ {r} : u.work[q] = s.work[q]
  BY ForgetTypes DEF NoItem, ProcState
<1>5. ASSUME ~Retrying(s), NEW q \in RecordsOf(Head(s.left)), Pushable(q)
      PROVE  Owed(s, q)'
  <2>1. q \in Record /\ Owed(s, q) /\ \A o \in Record : s.work[o].ver <= lastAlter
    BY <1>5 DEF RecordsOf, ForgetInv, DebtInv
  <2>2. CASE q = r
    BY <1>5, <2>2 DEF Owed
  <2>3. CASE q # r /\ s.work[q].ver # 0
    BY <1>4, <2>1, <2>3 DEF Owed
  <2>4. CASE Known(q)
    BY <1>5, <2>1, <2>4, KnownStays DEF Owed
  <2>5. CASE tally'[q] = tally[q] /\ (tally[q] = 0 \/ Newer(s, q))
    BY <1>2, <1>4, <2>1, <2>5, ForgetTypes, FileTypes DEF Owed, Newer
  <2>6. CASE tally'[q] > lastAlter
    <3>1. tally'[q] \in Nat
      BY <2>1, NextType DEF ForgetInv, OwnInv, TypeInv, TypeOK, TallyTypeOK
    <3>2. \A o \in Record : u.work[o].ver <= lastAlter /\ u.work[o].ver \in Nat
      BY <1>4, <2>1, FileTypes, ForgetTypes
    <3> QED
      BY <1>2, <2>6, <3>1, <3>2, FileTypes DEF Owed, Newer
  <2> QED
    BY <2>1, <2>2, <2>3, <2>4, <2>5, <2>6, TallyMoves DEF Owed
<1>6. ~Retrying(s) => \A q \in Record : u.work[q].ver <= lastAlter'
  BY <1>4, TallyMoves, FileTypes, ForgetTypes DEF ForgetInv, DebtInv
<1>7. DebtInv(p)'
  BY <1>1, <1>3, <1>5, <1>6 DEF ForgetInv, DebtInv, Busy, Pushing
<1> QED
  BY <1>7, FileKeeps, ActorOwes

\* A record is taken up, or a request goes on or fails.
LEMMA PushOwes ==
    ASSUME ForgetInv, [Next]_vars, NEW p \in Proc,
           \/ BeginPush(p) \/ Get(p) \/ Fill(p) \/ Missing(p) \/ AckLost(p)
           \/ Unreachable(p) \/ Rejected(p)
    PROVE  ForgetInv'
<1> DEFINE s == proc[p]
<1>1. UNCHANGED lastSync /\ Become(p, proc'[p]) /\ Busy(s)
  BY DEF BeginPush, Get, Fill, Missing, AckLost, Effect, Unreachable, Rejected, storeVars,
         Become, Busy, Pushing, ForgetInv, OwnInv, TypeInv
<1>2. /\ proc'[p].pc \in {"get", "fill", "compare", "put", "post", "failed"}
      /\ proc'[p].work = s.work /\ proc'[p].job = s.job
      /\ proc'[p].left = s.left /\ proc'[p].scope = s.scope
      /\ \/ proc'[p].high = s.high
         \/ ~Retrying(s) /\ \E r \in Record : proc'[p].high = Raised(s, r)
  <2> USE ForgetTypes DEF ProcState, ForgetInv, OwnInv, TypeInv, Become
  <2>1. CASE BeginPush(p)
    <3>1. PICK r \in NextUp(s) :
              proc'[p] = [s EXCEPT
                  !.pc = AfterLookup(cache[target[p]][r].name),
                  !.high = IF Retrying(s) THEN s.high ELSE Raised(s, r),
                  !.cur = r, !.found = cache[target[p]][r].name, !.tries = 0]
      BY <2>1 DEF BeginPush
    <3>2. r \in Record
      BY DEF NextUp, Pending
    <3> DEFINE h == IF Retrying(s) THEN s.high ELSE Raised(s, r)
               name == cache[target[p]][r].name
    <3>3. AfterLookup(name) \in {"compare", "get"}
      BY DEF AfterLookup
    <3>4. h = s.high \/ (~Retrying(s) /\ h = Raised(s, r))
      OBVIOUS
    <3> HIDE DEF h, name
    <3>5. proc'[p] = [s EXCEPT !.pc = AfterLookup(name), !.high = h,
                               !.cur = r, !.found = name, !.tries = 0]
      BY <3>1 DEF h, name
    <3> QED
      BY <3>2, <3>3, <3>4, <3>5
  <2>2. CASE Get(p)
    <3>1. PICK pc \in {"compare", "fill"}, n \in {0} \cup Matches(target[p], s.cur) :
              proc'[p] = [s EXCEPT !.pc = pc, !.found = n, !.tries = 0]
      BY <2>2 DEF Get
    <3> QED
      BY <3>1
  <2>3. CASE Missing(p) \/ Rejected(p) \/ Fill(p)
    BY <2>3 DEF Missing, Rejected, Fill
  <2>4. CASE AckLost(p) \/ Unreachable(p)
    <3>1. /\ proc'[p] \in {Unanswered(s), [s EXCEPT !.pc = "failed"]}
          /\ s.pc \in {"get", "put", "post"}
      BY <2>4 DEF AckLost, Unreachable, Effect
    <3> QED
      BY <3>1 DEF Unanswered
  <2> QED
    BY <2>1, <2>2, <2>3, <2>4
<1>3. Busy(proc'[p])
  BY <1>2 DEF Busy, Pushing
<1> QED
  BY <1>1, <1>2, <1>3, GoingOnOwes

\* A confirmed push has made its document.
LEMMA AcknowledgedOwes ==
    ASSUME ForgetInv, [Next]_vars, NEW p \in Proc, Acknowledged(p)
    PROVE  ForgetInv'
<1> DEFINE s == proc[p]
           t == target[p]
           name == IF s.pc = "post" THEN Len(docs[t]) + 1 ELSE s.found
<1>1. /\ UNCHANGED <<lastSync, target>> /\ Become(p, proc'[p]) /\ Busy(s)
  BY DEF Acknowledged, Effect, storeVars, Outside, Become, Busy, Pushing, ForgetInv, OwnInv,
         TypeInv
<1>2. name # 0
  BY ForgetTypes DEF Acknowledged, Effect, Live, Names, ForgetInv, OwnInv, TypeInv, TypeOK,
                     FrappeTypeOK
<1>3. proc'[p] = [s EXCEPT !.pc = "remember", !.found = name]
  BY DEF Acknowledged, Become, ForgetInv, OwnInv, TypeInv
<1> HIDE DEF name
<1>4. /\ proc'[p].pc = "remember" /\ proc'[p].found = name /\ proc'[p].cur = s.cur
      /\ proc'[p].work = s.work /\ proc'[p].job = s.job /\ proc'[p].high = s.high
      /\ proc'[p].left = s.left /\ proc'[p].scope = s.scope
  BY <1>3, ForgetTypes DEF ProcState
<1>5. Own(docs', t, s.cur, name)
  BY <1>1, <1>4, NextOwn DEF ForgetInv, OwnInv, LookedUp
<1>6. t \in Target /\ name \in 1 .. Len(docs'[t]) /\ docs'[t][name].rec = s.cur
  BY <1>2, <1>5, ForgetTypes DEF Own
<1>7. docs'[t][name].live
  BY <1>6, LiveStays
<1>8. PICK r \in Record : r = s.cur
  BY ForgetTypes
<1>9. Written(r)'
  BY <1>6, <1>7, <1>8 DEF Written, Exists, Matches, Names, Live
<1>10. Written(s.cur)'
  BY <1>4, <1>8, <1>9 DEF Written
<1>11. Busy(proc'[p])
  BY <1>4 DEF Busy, Pushing
<1> QED
  BY <1>1, <1>4, <1>10, <1>11, GoingOnOwes

\* A push that returned has its document on the site.
LEMMA ReturnedOwes ==
    ASSUME ForgetInv, [Next]_vars, NEW p \in Proc, Become(p, Returned(proc[p])),
           UNCHANGED lastSync, Pushing(proc[p]), Written(proc[p].cur)
    PROVE  ForgetInv'
<1> DEFINE s == proc[p]
<1>1. proc'[p] = Returned(s) /\ Become(p, proc'[p]) /\ Busy(s) /\ s \in ProcState
  BY ForgetTypes DEF Become, Busy, ForgetInv, OwnInv, TypeInv
<1>2. PICK r \in Record : r = s.cur
  BY ForgetTypes
<1>3. Written(r)'
  BY <1>2, WrittenStays
<1>4. CASE Retrying(s)
  <2>1. proc'[p] = [s EXCEPT !.pc = "resolve"]
    BY <1>1, <1>4 DEF Returned
  <2>2. /\ proc'[p].pc = "resolve" /\ proc'[p].cur = s.cur
        /\ proc'[p].work = s.work /\ proc'[p].job = s.job /\ proc'[p].high = s.high
        /\ proc'[p].left = s.left /\ proc'[p].scope = s.scope
    BY <1>1, <2>1 DEF ProcState
  <2>3. Written(s.cur)'
    BY <1>2, <1>3, <2>2 DEF Written
  <2> QED
    BY <1>1, <2>2, <2>3, GoingOnOwes DEF Busy, Pushing
<1>5. CASE ~Retrying(s)
  <2>1. proc'[p] = Without(s, r)
    BY <1>1, <1>2, <1>5 DEF Returned
  <2>2. /\ proc'[p].pc = "each" /\ proc'[p].work = [s.work EXCEPT ![r] = NoItem]
        /\ proc'[p].job = s.job /\ proc'[p].high = s.high
        /\ proc'[p].left = s.left /\ proc'[p].scope = s.scope
    BY <1>1, <2>1 DEF ProcState, Without
  <2> QED
    BY <1>1, <1>3, <2>2, DoneOwes DEF Known
<1> QED
  BY <1>4, <1>5

LEMMA CompareOwes ==
    ASSUME ForgetInv, [Next]_vars, NEW p \in Proc, Compare(p) \/ Remember(p)
    PROVE  ForgetInv'
<1> DEFINE s == proc[p]
<1>1. UNCHANGED lastSync /\ Pushing(s)
  BY DEF Compare, Remember, storeVars, Pushing
<1>2. CASE Remember(p)
  BY <1>1, <1>2, ReturnedOwes DEF Remember, ForgetInv, DebtInv
<1>3. CASE Compare(p) /\ Become(p, Returned(s)) /\ s.found # 0
  <2>1. Own(docs, target[p], s.cur, s.found)
    BY <1>3 DEF Compare, LookedUp, ForgetInv, OwnInv
  <2>2. Written(s.cur)
    BY <1>3, <2>1, OwnIsWritten, ForgetTypes
  <2> QED
    BY <1>1, <1>3, <2>2, ReturnedOwes
<1>4. CASE \E pc \in {"put", "post"} : Become(p, [s EXCEPT !.pc = pc])
  <2>1. PICK pc \in {"put", "post"} : Become(p, [s EXCEPT !.pc = pc])
    BY <1>4
  <2>2. proc'[p] = [s EXCEPT !.pc = pc] /\ Become(p, proc'[p])
    BY <2>1 DEF Become, ForgetInv, OwnInv, TypeInv
  <2>3. /\ proc'[p].pc \in {"put", "post"}
        /\ proc'[p].work = s.work /\ proc'[p].job = s.job /\ proc'[p].high = s.high
        /\ proc'[p].left = s.left /\ proc'[p].scope = s.scope
    BY <2>2, ForgetTypes DEF ProcState
  <2> QED
    BY <1>1, <2>2, <2>3, GoingOnOwes DEF Busy, Pushing
<1> QED
  BY <1>2, <1>3, <1>4 DEF Compare

\* A record is done with: pushed, queued, or never to be pushed.
LEMMA DropOwes ==
    ASSUME ForgetInv, [Next]_vars, NEW p \in Proc,
           SkipRecord(p) \/ DropRow(p) \/ Resolve(p) \/ Enqueue(p) \/ Reschedule(p)
    PROVE  ForgetInv'
<1> DEFINE s == proc[p]
<1>1. UNCHANGED lastSync /\ Become(p, proc'[p]) /\ Busy(s) /\ s \in ProcState
  BY ForgetTypes DEF SkipRecord, DropRow, Resolve, Enqueue, Reschedule, storeVars, Become,
                     Busy, Pushing, ForgetInv, OwnInv, TypeInv
<1>2. PICK r \in Record :
          /\ \E h \in {s.high, Raised(s, r)} :
                 /\ proc'[p] = [Without(s, r) EXCEPT !.high = h]
                 /\ h = s.high \/ ~Retrying(s)
          /\ Pushable(r) /\ ~Retrying(s) => Known(r)'
  <2>1. CASE SkipRecord(p)
    BY <2>1 DEF SkipRecord, NextUp, Pending, Become, ForgetInv, OwnInv, TypeInv
  <2>2. \A r \in Record : Without(s, r) = [Without(s, r) EXCEPT !.high = s.high]
    BY <1>1 DEF Without, ProcState
  <2>3. CASE DropRow(p)
    <3>1. PICK r \in Record : ~Pushable(r) /\ proc'[p] = Without(s, r)
      BY <2>3 DEF DropRow, Hopeless, NextUp, Pending, Become, ForgetInv, OwnInv, TypeInv
    <3> QED
      BY <2>2, <3>1
  <2>4. CASE Resolve(p) \/ Reschedule(p) \/ Enqueue(p)
    <3>1. PICK r \in Record : r = s.cur
      BY ForgetTypes
    <3>2. proc'[p] = Without(s, r)
      BY <2>4, <3>1 DEF Resolve, Reschedule, Enqueue, Become, ForgetInv, OwnInv, TypeInv
    <3>3. ~Retrying(s) => Known(r)'
      <4>1. CASE Resolve(p)
        <5>1. Written(r)
          BY <3>1, <4>1 DEF Resolve, ForgetInv, DebtInv
        <5> QED
          BY <5>1, WrittenStays DEF Known
      <4>2. CASE Reschedule(p)
        BY <4>2 DEF Reschedule
      <4>3. CASE Enqueue(p)
        BY <3>1, <4>3
        DEF Enqueue, EnqueueRetry, Known, Queued, ForgetInv, OwnInv, TypeInv, TypeOK,
            StoreTypeOK
      <4> QED
        BY <2>4, <4>1, <4>2, <4>3
    <3> QED
      BY <2>2, <3>2, <3>3
  <2> QED
    BY <2>1, <2>3, <2>4
<1>3. PICK h \in {s.high, Raised(s, r)} :
          /\ proc'[p] = [Without(s, r) EXCEPT !.high = h]
          /\ h = s.high \/ ~Retrying(s)
  BY <1>2
<1>4. /\ proc'[p].pc = "each" /\ proc'[p].work = [s.work EXCEPT ![r] = NoItem]
      /\ proc'[p].high = h /\ proc'[p].job = s.job
      /\ proc'[p].left = s.left /\ proc'[p].scope = s.scope
  BY <1>1, <1>3 DEF Without, ProcState
<1> QED
  BY <1>1, <1>2, <1>3, <1>4, DoneOwes

LEMMA NextForget == ForgetInv /\ [Next]_vars => ForgetInv'
<1> SUFFICES ASSUME ForgetInv, [Next]_vars PROVE ForgetInv'
  OBVIOUS
<1>1. ASSUME NEW p \in Proc, Step(p) PROVE ForgetInv'
  BY <1>1, RestOwes, BeginEntityOwes, FetchOwes, SaveOwes, PushOwes, AcknowledgedOwes,
     CompareOwes, DropOwes DEF Step
<1>2. ASSUME NEW p \in Proc, Fault(p) PROVE ForgetInv'
  <2>1. ~SwitchTarget(p)
    BY ForgetTypes DEF SwitchTarget, ForgetInv, Lasting
  <2> QED
    BY <1>2, <2>1, SaveOwes, PushOwes, RestOwes DEF Fault
<1>3. CASE UserEdits \/ UserDeletes \/ (\E r \in Record : TimePasses(r)) \/ UNCHANGED vars
  <2>1. UNCHANGED <<proc, lastSync>>
    BY <1>3 DEF UserEdits, UserDeletes, TimePasses, vars, storeVars
  <2>2. \A q \in Proc : DebtInv(q)'
    BY <2>1, OthersOwe
  <2>3. OwnInv' /\ Lasting'
    BY NextOwn DEF ForgetInv, Lasting
  <2> QED
    BY <2>1, <2>2, <2>3, FileKeeps DEF ForgetInv
<1> QED
  BY <1>1, <1>2, <1>3 DEF Next

\* Any number of processes, on one site whose documents nobody deletes and without
\* date ranges: whatever fails, is lost or dies, and however their steps interleave,
\* a record the watermark has passed has a document or a row that will make one
\* (_sync_entity beside process_retry_queue on one state file).
THEOREM NobodyForgets == Lasting => (Spec => []NeverForgotten)
<1> SUFFICES ASSUME Lasting PROVE Spec => []NeverForgotten
  OBVIOUS
<1>1. Init => ForgetInv
  BY InitForget
<1>2. ForgetInv => NeverForgotten
  BY DEF ForgetInv, FileInv, Lasting, NeverForgotten, Passed, Known, Written
<1> QED
  BY <1>1, <1>2, NextForget, PTL DEF Spec

=============================================================================
