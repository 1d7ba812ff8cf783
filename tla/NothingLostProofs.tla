-------------------------- MODULE NothingLostProofs --------------------------
(***************************************************************************)
(* One process on one site loses nothing: proofs for TLAPS.                *)
(***************************************************************************)
EXTENDS SyncEngineProofs

\* What the theorem is for: one process at a time on the state file, one site, and
\* no resync of a date range (RangeGap and OvertakenRow show why).
Alone ==
    /\ \E p \in Proc : Proc = {p} /\ "range" \notin Jobs[p]
    /\ \E t \in Target : Target = {t}

\* The current version of r is confirmed or queued.
Safe(t, r) == acked[t][r] >= tally[r] \/ queue[r].ver >= tally[r]

\* Altered after the fetch: s will not raise the watermark past it.
Newer(s, r) == tally[r] > s.high /\ \A q \in Record : tally[r] > s.work[q].ver

\* A sync owes nothing for r that it will not still do.
Covered(t, s, r) == s.work[r].ver = tally[r] \/ Safe(t, r) \/ Newer(s, r)

Pushing(s) ==
    s.pc \in {"get", "fill", "compare", "put", "post", "remember", "resolve", "failed"}
Busy(s) == s.pc = "each" \/ Pushing(s)

\* What process p remembers of the versions it has seen.
LocalInv(p) ==
    LET s == proc[p]
        t == target[p]
    IN  /\ s.high <= lastAlter
        /\ \A r \in Record : s.work[r].ver <= tally[r]
        /\ s.pc \in {"entity", "fetch"} => s.scope = Record
        /\ s.pc = "fetch" => s.high <= lastSync[Head(s.left)]
        /\ Busy(s) =>
              /\ \A r \in Record : s.work[r].ver # 0 => queue[r].ver <= s.work[r].ver
              /\ ~Retrying(s) => s.scope = Record
              /\ ~Retrying(s) => \A r \in RecordsOf(Head(s.left)) :
                                    Pushable(r) => Covered(t, s, r)
        /\ Pushing(s) => s.work[s.cur].ver # 0
        /\ s.pc \in {"remember", "resolve"} => acked[t][s.cur] >= s.work[s.cur].ver

\* The state file and the sites.
SharedInv ==
    /\ \A r \in Record : queue[r].ver <= tally[r]
    /\ \A e \in Entity : lastSync[e] <= lastAlter
    /\ \A t \in Target, r \in Record : cache[t][r].hash <= acked[t][r]
    /\ \A t \in Target, r \in Record :
           Pushable(r) /\ tally[r] \in 1 .. lastSync[EntityOf[r]] => Safe(t, r)

LossInv == TypeInv /\ Alone /\ SharedInv /\ \A p \in Proc : LocalInv(p)

-----------------------------------------------------------------------------
(* The initial state, and what every step may rely on.                      *)

LEMMA InitLoss == Init /\ Alone => LossInv
<1> SUFFICES ASSUME Init, Alone PROVE LossInv
  OBVIOUS
<1>1. TypeInv
  BY InitType
<1>2. \A r \in Record : queue[r].ver = tally[r] /\ tally[r] \in Nat
  BY <1>1 DEF Init, StoreInit, TypeInv, TypeOK, TallyTypeOK
<1>3. SharedInv
  BY <1>1, <1>2, RegistryAssumption
  DEF Init, StoreInit, NoCacheRow, SharedInv, TypeInv, TypeOK, TallyTypeOK
<1>4. ASSUME NEW p \in Proc PROVE LocalInv(p)
  <2>1. /\ proc[p].pc = "idle" /\ proc[p].high = 0
        /\ \A r \in Record : proc[p].work[r].ver = 0
    BY DEF Init, AtRest, NoWork, NoItem
  <2> QED
    BY <1>1, <1>2, <2>1 DEF LocalInv, Busy, Pushing, TypeInv, TypeOK, TallyTypeOK
<1> QED
  BY <1>1, <1>3, <1>4 DEF LossInv

\* The types a step's arithmetic needs.
LEMMA LossTypes ==
    ASSUME LossInv, NEW p \in Proc
    PROVE  /\ proc[p] \in LocalState /\ proc[p] \in ProcState
           /\ target[p] \in Target /\ proc[p].cur \in Record
           /\ lastAlter \in Nat /\ proc[p].high \in Nat
           /\ \A r \in Record : /\ tally[r] \in Nat /\ tally[r] <= lastAlter
                                /\ queue[r].id \in Nat /\ queue[r].ver \in Nat
                                /\ proc[p].work[r] \in Item
                                /\ proc[p].work[r].ver \in Nat
                                /\ EntityOf[r] \in Entity
           /\ \A e \in Entity : lastSync[e] \in Nat
           /\ \A t \in Target, r \in Record : acked[t][r] \in Nat /\ cache[t][r].hash \in Nat
<1>1. TypeInv
  BY DEF LossInv
<1>2. /\ proc[p] \in LocalState /\ proc[p] \in ProcState
      /\ target[p] \in Target /\ proc[p].cur \in Record
      /\ proc[p].high \in Nat
      /\ \A r \in Record : proc[p].work[r] \in Item
  BY <1>1, ProcStateType
<1>3. /\ \A r \in Record : queue[r] \in Row
      /\ \A t \in Target, r \in Record : cache[t][r] \in CacheRow
      /\ \A t \in Target, r \in Record : acked[t][r] \in Nat
      /\ \A e \in Entity : lastSync[e] \in Nat
  BY <1>1 DEF TypeInv, TypeOK, StoreTypeOK
<1>4. lastAlter \in Nat /\ \A r \in Record : tally[r] \in Nat /\ tally[r] <= lastAlter
  BY <1>1 DEF TypeInv, TypeOK, TallyTypeOK
<1>5. \A r \in Record : EntityOf[r] \in Entity
  BY RegistryAssumption
<1> QED
  BY <1>2, <1>3, <1>4, <1>5 DEF Row, CacheRow, Item

\* What a push may rely on, before it and while it lasts.
LEMMA AtHand ==
    ASSUME LossInv, NEW p \in Proc
    PROVE  /\ \A t \in Target, r \in Record :
                  acked[t][r] >= acked[t][r] /\ cache[t][r].hash <= acked[t][r]
           /\ Pushing(proc[p]) => proc[p].work[proc[p].cur].ver # 0
BY LossTypes DEF LossInv, SharedInv, LocalInv

\* There is no other process.
LEMMA TheProcess ==
    ASSUME LossInv, TypeInv', NEW p \in Proc, SharedInv', LocalInv(p)'
    PROVE  LossInv'
<1>1. \A q \in Proc : q = p
  BY DEF LossInv, Alone
<1>2. Alone'
  BY DEF LossInv, Alone
<1> QED
  BY <1>1, <1>2 DEF LossInv

-----------------------------------------------------------------------------
(* Three kinds of steps: a process comes to rest, goes on, or is done with a
   record.                                                                   *)

\* All but the local states and the documents is as it was.
Still == UNCHANGED <<tally, lastAlter, lastSync, queue, cache, acked, target>>

\* A process starts, ends or dies: it has nothing at hand.
LEMMA Rests ==
    ASSUME LossInv, TypeInv', NEW p \in Proc, Still,
           proc'[p].pc \in {"idle", "down", "entity", "dequeue"},
           proc'[p].high = 0 \/ proc'[p].high = proc[p].high,
           proc'[p].work = NoWork,
           proc'[p].pc = "entity" => proc'[p].scope = Record
    PROVE  LossInv'
<1>1. \A r \in Record : proc'[p].work[r].ver = 0
  BY DEF NoWork, NoItem
<1>2. LocalInv(p)'
  BY <1>1, LossTypes DEF LossInv, LocalInv, Still, Busy, Pushing
<1>3. SharedInv'
  BY DEF LossInv, SharedInv, Still, Safe
<1> QED
  BY <1>2, <1>3, TheProcess

\* A process goes on with the records it has at hand, and takes one up or goes on
\* with the one it took up.
LEMMA GoesOn ==
    ASSUME LossInv, TypeInv', NEW p \in Proc,
           UNCHANGED <<tally, lastAlter, lastSync, queue, target>>,
           Busy(proc[p]), Busy(proc'[p]),
           /\ proc'[p].work = proc[p].work /\ proc'[p].job = proc[p].job
           /\ proc'[p].left = proc[p].left /\ proc'[p].scope = proc[p].scope,
           \/ proc'[p].high = proc[p].high
           \/ \E r \in Record : proc'[p].high = Raised(proc[p], r),
           Pushing(proc'[p]) => proc[p].work[proc'[p].cur].ver # 0,
           \A t \in Target, r \in Record :
               acked'[t][r] >= acked[t][r] /\ cache'[t][r].hash <= acked'[t][r],
           proc'[p].pc \in {"remember", "resolve"}
               => acked'[target[p]][proc'[p].cur] >= proc[p].work[proc'[p].cur].ver
    PROVE  LossInv'
<1> DEFINE s == proc[p]
           t == target[p]
           u == proc'[p]
<1>1. \A v \in Target, r \in Record : acked'[v][r] \in Nat
  BY DEF TypeInv, TypeOK
<1>2. \A v \in Target, r \in Record : Safe(v, r) => Safe(v, r)'
  BY <1>1, LossTypes DEF Safe
<1>3. SharedInv'
  BY <1>2, RegistryAssumption DEF LossInv, SharedInv
<1>4. u.high = s.high \/ \E r \in Record : u.high = s.work[r].ver
  BY DEF Raised
<1>5. u.high \in Nat /\ u.high <= lastAlter
  BY <1>4, LossTypes DEF LossInv, LocalInv
<1>6. \A r \in Record : Newer(s, r) => Newer(s, r)'
  BY <1>4 DEF Newer
<1>7. \A r \in Record : Covered(t, s, r) => Covered(t, s, r)'
  BY <1>2, <1>6, LossTypes DEF Covered
<1>8. ~Retrying(u) => \A r \in RecordsOf(Head(u.left)) : Pushable(r) => Covered(t, s, r)'
  <2>1. ~Retrying(u) => ~Retrying(s)
    BY DEF Retrying
  <2>2. \A r \in RecordsOf(Head(u.left)) : r \in Record
    BY DEF RecordsOf
  <2> QED
    BY <1>7, <2>1, <2>2 DEF LossInv, LocalInv
<1>9. LocalInv(p)'
  BY <1>5, <1>8, LossTypes DEF LossInv, LocalInv, Busy, Pushing, Retrying
<1> QED
  BY <1>3, <1>9, TheProcess

\* A process is done with record r: nothing is lost by it.
LEMMA IsDone ==
    ASSUME LossInv, TypeInv', NEW p \in Proc, NEW r \in Record,
           UNCHANGED <<tally, lastAlter, lastSync, target, acked>>,
           Busy(proc[p]),
           /\ proc'[p].pc = "each" /\ proc'[p].job = proc[p].job
           /\ proc'[p].left = proc[p].left /\ proc'[p].scope = proc[p].scope
           /\ proc'[p].work = [proc[p].work EXCEPT ![r] = NoItem],
           proc'[p].high = proc[p].high \/ proc'[p].high = Raised(proc[p], r),
           \A v \in Target, q \in Record : cache'[v][q].hash <= acked[v][q],
           \A q \in Record \ {r} : queue'[q] = queue[q],
           queue'[r].ver <= tally[r],
           Pushable(r) =>
               \A v \in Target :
                   /\ Safe(v, r) => Safe(v, r)'
                   /\ proc[p].work[r].ver = tally[r] /\ ~Retrying(proc[p]) => Safe(v, r)'
    PROVE  LossInv'
<1> DEFINE s == proc[p]
           t == target[p]
           u == proc'[p]
<1>1. /\ u.work[r].ver = 0
      /\ \A q \in Record \ {r} : u.work[q] = s.work[q]
  BY LossTypes DEF NoItem, ProcState
<1>2. \A v \in Target, q \in Record : Pushable(q) /\ Safe(v, q) => Safe(v, q)'
  BY DEF Safe
<1>3. SharedInv'
  <2>1. \A q \in Record : queue'[q].ver <= tally'[q]
    BY DEF LossInv, SharedInv
  <2> QED
    BY <1>2, <2>1 DEF LossInv, SharedInv
<1>4. u.high = s.high \/ u.high = s.work[r].ver
  BY DEF Raised
<1>5. \A q \in Record : Newer(s, q) => Newer(s, q)'
  BY <1>1, <1>4, LossTypes DEF Newer
<1>6. ASSUME NEW q \in Record, Pushable(q), Covered(t, s, q), ~Retrying(s)
      PROVE  Covered(t, s, q)'
  <2>1. t \in Target
    BY LossTypes
  <2>2. CASE Safe(t, q) \/ Newer(s, q)
    BY <1>2, <1>5, <1>6, <2>1, <2>2 DEF Covered
  <2>3. CASE s.work[q].ver = tally[q] /\ q = r
    BY <1>6, <2>1, <2>3 DEF Covered
  <2>4. CASE s.work[q].ver = tally[q] /\ q # r
    BY <1>1, <2>4 DEF Covered
  <2> QED
    BY <1>6, <2>2, <2>3, <2>4 DEF Covered
<1>7. ~Retrying(u) => \A q \in RecordsOf(Head(u.left)) : Pushable(q) => Covered(t, s, q)'
  BY <1>6 DEF LossInv, LocalInv, Retrying, RecordsOf
<1>8. u.high <= lastAlter /\ \A q \in Record : u.work[q].ver <= tally[q]
  BY <1>1, <1>4, LossTypes DEF LossInv, LocalInv
<1>9. \A q \in Record : u.work[q].ver # 0 => queue'[q].ver <= u.work[q].ver
  BY <1>1 DEF LossInv, LocalInv
<1>10. LocalInv(p)'
  BY <1>7, <1>8, <1>9 DEF LossInv, LocalInv, Busy, Pushing, Retrying
<1> QED
  BY <1>3, <1>10, TheProcess

-----------------------------------------------------------------------------
(* The steps.                                                               *)

\* Jobs begin and end, and the process dies, with nothing at hand.
LEMMA ComesToRest ==
    ASSUME LossInv, NEW p \in Proc,
           \/ RunSync(p) \/ ResyncEntity(p) \/ ProcessRetryQueue(p) \/ Restart(p)
           \/ Crash(p) \/ EndSync(p) \/ UnknownEntity(p) \/ EndRetries(p)
    PROVE  /\ Still /\ UNCHANGED docs
           /\ proc'[p].pc \in {"idle", "down", "entity", "dequeue"}
           /\ proc'[p].high = 0
           /\ proc'[p].work = NoWork
           /\ proc'[p].pc = "entity" => proc'[p].scope = Record
<1>1. Still /\ UNCHANGED docs
  BY DEF RunSync, ResyncEntity, ProcessRetryQueue, Restart, Crash, EndSync,
         UnknownEntity, EndRetries, Still, Outside, storeVars
<1>2. /\ proc'[p].pc \in {"idle", "down", "entity", "dequeue"}
      /\ proc'[p].high = 0
      /\ proc'[p].work = NoWork
      /\ proc'[p].pc = "entity" => proc'[p].scope = Record
  <2> USE DEF LossInv, TypeInv, Become
  <2>1. CASE RunSync(p)
    <3>1. PICK kind : proc'[p] = [AtRest("entity") EXCEPT !.job = kind, !.left = Order,
                                                        !.scope = Record]
      BY <2>1 DEF RunSync
    <3> QED
      BY <3>1 DEF AtRest
  <2>2. CASE ResyncEntity(p)
    <3>1. "range" \notin Jobs[p]
      BY DEF Alone
    <3>2. PICK kind \in Jobs[p] \cap {"resync", "range"}, e \in Registered :
              \E scope \in IF kind = "range" /\ e \in Voucher
                           THEN SUBSET RecordsOf(e) ELSE {Record} :
                 Become(p, [AtRest("entity") EXCEPT !.job = kind, !.left = <<e>>,
                                                    !.scope = scope])
      BY <2>2, Zenon DEF ResyncEntity
    <3>3. proc'[p] = [AtRest("entity") EXCEPT !.job = kind, !.left = <<e>>,
                                              !.scope = Record]
      BY <3>1, <3>2
    <3> QED
      BY <3>3 DEF AtRest
  <2>3. CASE ProcessRetryQueue(p) \/ Restart(p) \/ Crash(p) \/ EndSync(p)
    BY <2>3 DEF ProcessRetryQueue, Restart, Crash, EndSync, AtRest
  <2>4. CASE UnknownEntity(p) \/ EndRetries(p)
    BY <2>4 DEF UnknownEntity, EndRetries, AtRest
  <2> QED
    BY <2>1, <2>2, <2>3, <2>4
<1> QED
  BY <1>1, <1>2

LEMMA RestLoss ==
    ASSUME LossInv, TypeInv', NEW p \in Proc,
           \/ RunSync(p) \/ ResyncEntity(p) \/ ProcessRetryQueue(p) \/ Restart(p)
           \/ Crash(p) \/ EndSync(p) \/ UnknownEntity(p) \/ EndRetries(p)
    PROVE  LossInv'
BY ComesToRest, Rests

\* The request for an entity's records is built from its watermark, or from 0.
LEMMA BeginEntityLoss ==
    ASSUME LossInv, TypeInv', NEW p \in Proc, BeginEntity(p)
    PROVE  LossInv'
<1> DEFINE s == proc[p]
           h == IF s.job \in {"cycle", "incremental"} THEN lastSync[Head(s.left)] ELSE 0
<1>1. Still
  BY DEF BeginEntity, Still, Outside, storeVars
<1>2. proc'[p] = [s EXCEPT !.pc = "fetch", !.high = h]
  BY DEF BeginEntity, Become, LossInv, TypeInv
<1>3. Head(s.left) \in Entity
  BY LossTypes DEF BeginEntity, ProcState
<1>4. h <= lastSync[Head(s.left)] /\ h <= lastAlter
  BY <1>3, LossTypes DEF LossInv, SharedInv
<1>5. /\ proc'[p].pc = "fetch" /\ proc'[p].high = h /\ proc'[p].work = s.work
      /\ proc'[p].scope = s.scope /\ proc'[p].left = s.left
  <2> HIDE DEF h
  <2> QED
    BY <1>2, LossTypes DEF ProcState
<1>6. s.pc = "entity"
  BY DEF BeginEntity
<1>7. LocalInv(p)'
  <2> HIDE DEF h
  <2> QED
    BY <1>1, <1>4, <1>5, <1>6 DEF LossInv, LocalInv, Still, Busy, Pushing
<1>8. SharedInv'
  BY <1>1 DEF LossInv, SharedInv, Still, Safe
<1> QED
  BY <1>7, <1>8, TheProcess

\* What the export leaves out is not above the watermark, hence safe already.
LEMMA FetchLoss ==
    ASSUME LossInv, TypeInv', NEW p \in Proc, Fetch(p)
    PROVE  LossInv'
<1> DEFINE s == proc[p]
           got == Export(Head(s.left), s.high, s.scope)
           work == [r \in Record |-> IF r \in got THEN [id |-> 0, ver |-> tally[r]]
                                                  ELSE NoItem]
<1>1. Still
  BY DEF Fetch, Still, Outside, storeVars
<1>2. proc'[p] = [s EXCEPT !.pc = "each", !.work = work]
  BY DEF Fetch, Become, LossInv, TypeInv
<1>3. /\ proc'[p].pc = "each" /\ proc'[p].work = work /\ proc'[p].high = s.high
      /\ proc'[p].scope = s.scope /\ proc'[p].left = s.left
  <2> HIDE DEF work
  <2> QED
    BY <1>2, LossTypes DEF ProcState
<1>4. \A r \in Record : work[r].ver = IF r \in got THEN tally[r] ELSE 0
  BY DEF NoItem
<1>5. s.pc = "fetch" /\ s.scope = Record /\ s.high <= lastSync[Head(s.left)]
  BY DEF Fetch, LossInv, LocalInv
<1>6. ASSUME NEW r \in RecordsOf(Head(s.left)), Pushable(r)
      PROVE  work[r].ver = tally[r] \/ Safe(target[p], r)
  <2>1. r \in Record /\ EntityOf[r] = Head(s.left)
    BY DEF RecordsOf
  <2>2. CASE tally[r] > s.high
    BY <1>4, <1>5, <2>1, <2>2 DEF Export, RecordsOf
  <2>3. CASE tally[r] <= s.high /\ tally[r] # 0
    <3>1. tally[r] \in 1 .. lastSync[EntityOf[r]]
      BY <1>5, <2>1, <2>3, LossTypes
    <3> QED
      BY <1>6, <2>1, <3>1, LossTypes DEF LossInv, SharedInv
  <2>4. CASE tally[r] = 0
    BY <1>4, <2>1, <2>4
  <2> QED
    BY <2>1, <2>2, <2>3, <2>4, LossTypes
<1>7. \A r \in RecordsOf(Head(s.left)) : Pushable(r) => Covered(target[p], s, r)'
  <2> HIDE DEF work
  <2> QED
    BY <1>1, <1>3, <1>6 DEF Covered, Safe, Still
<1>8. \A r \in Record : work[r].ver <= tally[r] /\ (work[r].ver # 0 => queue[r].ver <= work[r].ver)
  BY <1>4, LossTypes DEF LossInv, SharedInv
<1>9. LocalInv(p)'
  <2> HIDE DEF work
  <2> QED
    BY <1>1, <1>3, <1>5, <1>7, <1>8 DEF LossInv, LocalInv, Still, Busy, Pushing
<1>10. SharedInv'
  BY <1>1 DEF LossInv, SharedInv, Still, Safe
<1> QED
  BY <1>9, <1>10, TheProcess

\* The due rows are taken up in the versions they hold.
LEMMA DequeueLoss ==
    ASSUME LossInv, TypeInv', NEW p \in Proc, Dequeue(p)
    PROVE  LossInv'
<1> DEFINE due == DueRows(Limit)
           work == [r \in Record |-> IF r \in due
                                     THEN [id |-> queue[r].id, ver |-> queue[r].ver]
                                     ELSE NoItem]
<1>1. Still
  BY DEF Dequeue, Still, Outside, storeVars
<1>2. proc'[p] = [AtRest("each") EXCEPT !.job = "retry", !.work = work]
  BY DEF Dequeue, Become, LossInv, TypeInv
<1>3. /\ proc'[p].pc = "each" /\ proc'[p].work = work /\ proc'[p].high = 0
      /\ proc'[p].job = "retry"
  <2> HIDE DEF work
  <2> QED
    BY <1>2 DEF AtRest
<1>4. \A r \in Record : work[r].ver <= queue[r].ver /\ work[r].ver \in {0, queue[r].ver}
  BY LossTypes DEF NoItem
<1>5. LocalInv(p)'
  <2> HIDE DEF work
  <2>1. \A r \in Record : /\ proc'[p].work[r].ver <= tally'[r]
                          /\ proc'[p].work[r].ver # 0 => queue'[r].ver <= proc'[p].work[r].ver
    BY <1>1, <1>3, <1>4, LossTypes DEF LossInv, SharedInv, Still
  <2> QED
    BY <1>1, <1>3, <2>1, LossTypes DEF LocalInv, Busy, Pushing, Retrying, Still
<1>6. SharedInv'
  BY <1>1 DEF LossInv, SharedInv, Still, Safe
<1> QED
  BY <1>5, <1>6, TheProcess

\* The watermark is saved when nothing is at hand: what it passes is safe, what
\* is not safe is newer.  After a failed fetch it does not rise.
LEMMA SaveLoss ==
    ASSUME LossInv, TypeInv', NEW p \in Proc, Save(p) \/ FetchFails(p)
    PROVE  LossInv'
<1> DEFINE s == proc[p]
           e == Head(s.left)
<1>1. UNCHANGED <<tally, lastAlter, queue, cache, acked, target>>
  BY DEF Save, FetchFails, Outside
<1>2. proc'[p] = [s EXCEPT !.pc = "entity", !.left = Tail(s.left)]
  BY DEF Save, FetchFails, Become, LossInv, TypeInv
<1>3. /\ proc'[p].pc = "entity" /\ proc'[p].work = s.work /\ proc'[p].high = s.high
      /\ proc'[p].scope = s.scope
  BY <1>2, LossTypes DEF ProcState
<1>4. s.scope = Record
  BY DEF Save, FetchFails, LossInv, LocalInv, Busy
<1>5. s.left # <<>> /\ s.left \in Seq(Entity) /\ ~Retrying(s)
  BY LossTypes DEF Save, FetchFails, LocalState, ProcState, Retrying
<1>6. /\ lastSync'[e] = s.high
      /\ \A d \in Entity \ {e} : lastSync'[d] = lastSync[d]
  BY <1>5 DEF Save, FetchFails, UpdateLastSync, LossInv, TypeInv, TypeOK, StoreTypeOK
<1>7. ASSUME NEW t \in Target, NEW r \in Record, Pushable(r), EntityOf[r] = e,
             tally[r] \in 1 .. s.high
      PROVE  Safe(t, r)
  <2>1. CASE Save(p)
    <3>1. r \in RecordsOf(e) /\ t = target[p]
      BY <1>7, LossTypes DEF RecordsOf, LossInv, Alone
    <3>2. Covered(t, s, r)
      BY <1>5, <1>7, <2>1, <3>1 DEF Save, LossInv, LocalInv, Busy
    <3>3. s.work[r].ver = 0
      BY <2>1 DEF Save, Pending
    <3> QED
      BY <1>7, <3>2, <3>3, LossTypes DEF Covered, Newer
  <2>2. CASE FetchFails(p)
    <3>1. e \in Entity /\ s.high <= lastSync[e]
      BY <1>5, <2>2 DEF FetchFails, LossInv, LocalInv
    <3>2. tally[r] \in 1 .. lastSync[EntityOf[r]]
      BY <1>7, <3>1, LossTypes
    <3> QED
      BY <1>7, <3>2 DEF LossInv, SharedInv
  <2> QED
    BY <2>1, <2>2
<1>8. SharedInv'
  <2>1. \A d \in Entity : lastSync'[d] <= lastAlter'
    BY <1>1, <1>6 DEF LossInv, LocalInv, SharedInv
  <2>2. ASSUME NEW t \in Target, NEW r \in Record, Pushable(r),
               tally'[r] \in 1 .. lastSync'[EntityOf[r]]
        PROVE  Safe(t, r)'
    <3>1. Safe(t, r)
      BY <1>1, <1>6, <1>7, <2>2, RegistryAssumption DEF LossInv, SharedInv
    <3> QED
      BY <1>1, <3>1 DEF Safe
  <2> QED
    BY <1>1, <2>1, <2>2 DEF LossInv, SharedInv
<1>9. LocalInv(p)'
  BY <1>1, <1>3, <1>4 DEF LossInv, LocalInv, Busy, Pushing
<1> QED
  BY <1>8, <1>9, TheProcess

\* A record is taken up.
LEMMA BeginPushLoss ==
    ASSUME LossInv, TypeInv', NEW p \in Proc, BeginPush(p)
    PROVE  LossInv'
<1> DEFINE s == proc[p]
<1>1. PICK r \in NextUp(s) :
          Become(p, [s EXCEPT
              !.pc = AfterLookup(cache[target[p]][r].name),
              !.high = IF Retrying(s) THEN s.high ELSE Raised(s, r),
              !.cur = r, !.found = cache[target[p]][r].name, !.tries = 0])
  BY DEF BeginPush
<1>2. r \in Record /\ s.work[r].ver # 0
  BY DEF NextUp, Pending
<1> DEFINE h == IF Retrying(s) THEN s.high ELSE Raised(s, r)
           name == cache[target[p]][r].name
<1>3. AfterLookup(name) \in {"compare", "get"}
  BY DEF AfterLookup
<1>4. /\ proc'[p].pc \in {"compare", "get"} /\ proc'[p].cur = r /\ proc'[p].high = h
      /\ proc'[p].work = s.work /\ proc'[p].job = s.job
      /\ proc'[p].left = s.left /\ proc'[p].scope = s.scope
  <2>1. proc'[p] = [s EXCEPT !.pc = AfterLookup(name), !.high = h,
                             !.cur = r, !.found = name, !.tries = 0]
    BY <1>1 DEF Become, LossInv, TypeInv
  <2> HIDE DEF h, name
  <2> QED
    BY <1>3, <2>1, LossTypes DEF ProcState
<1>5. UNCHANGED <<tally, lastAlter, lastSync, queue, cache, acked, target>> /\ s.pc = "each"
  BY DEF BeginPush, Outside, storeVars
<1> QED
  BY <1>2, <1>4, <1>5, GoesOn, AtHand DEF Busy, Pushing

\* A push goes on, or comes to its end without an answer of the site.
LEMMA PushLoss ==
    ASSUME LossInv, TypeInv', NEW p \in Proc,
           \/ Get(p) \/ Missing(p) \/ AckLost(p) \/ Unreachable(p) \/ Rejected(p)
    PROVE  LossInv'
<1> DEFINE s == proc[p]
<1>1. /\ UNCHANGED <<tally, lastAlter, lastSync, queue, cache, acked, target>>
      /\ s.pc \in {"get", "put", "post"}
  BY DEF Get, Missing, AckLost, Effect, Unreachable, Rejected, Outside, storeVars
<1>2. /\ proc'[p].pc \in {"get", "put", "post", "fill", "compare", "failed"}
      /\ proc'[p].work = s.work /\ proc'[p].job = s.job /\ proc'[p].high = s.high
      /\ proc'[p].left = s.left /\ proc'[p].scope = s.scope /\ proc'[p].cur = s.cur
  <2> USE LossTypes DEF ProcState, LossInv, TypeInv, Become
  <2>1. CASE Get(p)
    <3>1. PICK pc \in {"compare", "fill"}, n \in {0} \cup Matches(target[p], s.cur) :
              proc'[p] = [s EXCEPT !.pc = pc, !.found = n, !.tries = 0]
      BY <2>1 DEF Get
    <3> QED
      BY <3>1
  <2>2. CASE Missing(p) \/ Rejected(p)
    BY <2>2 DEF Missing, Rejected
  <2>3. CASE AckLost(p) \/ Unreachable(p)
    <3>1. proc'[p] \in {Unanswered(s), [s EXCEPT !.pc = "failed"]}
      BY <2>3 DEF AckLost, Unreachable
    <3> QED
      BY <1>1, <3>1 DEF Unanswered
  <2> QED
    BY <2>1, <2>2, <2>3
<1> QED
  BY <1>1, <1>2, GoesOn, AtHand DEF Busy, Pushing

\* What a GET found is cached with the empty hash.
LEMMA FillLoss ==
    ASSUME LossInv, TypeInv', NEW p \in Proc, Fill(p)
    PROVE  LossInv'
<1> DEFINE s == proc[p]
<1>1. /\ UNCHANGED <<tally, lastAlter, lastSync, queue, acked, target>> /\ s.pc = "fill"
  BY DEF Fill, Outside
<1>2. /\ proc'[p].pc = "compare"
      /\ proc'[p].work = s.work /\ proc'[p].job = s.job /\ proc'[p].high = s.high
      /\ proc'[p].left = s.left /\ proc'[p].scope = s.scope /\ proc'[p].cur = s.cur
  BY LossTypes DEF Fill, Become, ProcState, LossInv, TypeInv
<1>3. \A t \in Target, r \in Record : cache'[t][r].hash <= acked[t][r]
  BY LossTypes DEF Fill, HashOfFound, UpsertCache, LossInv, SharedInv, TypeInv, TypeOK,
                   StoreTypeOK
<1> QED
  BY <1>1, <1>2, <1>3, GoesOn, AtHand DEF Busy, Pushing

\* The site confirms the version at hand.
LEMMA AcknowledgedLoss ==
    ASSUME LossInv, TypeInv', NEW p \in Proc, Acknowledged(p)
    PROVE  LossInv'
<1> DEFINE s == proc[p]
           t == target[p]
<1>1. /\ UNCHANGED <<tally, lastAlter, lastSync, queue, cache, target>>
      /\ s.pc \in {"put", "post"}
  BY DEF Acknowledged, Effect, Outside, storeVars
<1>2. PICK name : proc'[p] = [s EXCEPT !.pc = "remember", !.found = name]
  BY DEF Acknowledged, Become, LossInv, TypeInv
<1>3. /\ proc'[p].pc = "remember"
      /\ proc'[p].work = s.work /\ proc'[p].job = s.job /\ proc'[p].high = s.high
      /\ proc'[p].left = s.left /\ proc'[p].scope = s.scope /\ proc'[p].cur = s.cur
  BY <1>2, LossTypes DEF ProcState
<1>4. Version(s) = s.work[s.cur].ver /\ Version(s) \in Nat
  BY LossTypes DEF Version
<1>5. acked' = [acked EXCEPT ![t][s.cur] =
                   IF Version(s) > acked[t][s.cur] THEN Version(s) ELSE acked[t][s.cur]]
  BY DEF Acknowledged
<1>6. /\ \A v \in Target, r \in Record : acked'[v][r] >= acked[v][r]
      /\ acked'[t][s.cur] >= Version(s)
  <2> HIDE DEF s, t
  <2>1. s.cur \in Record /\ t \in Target
    BY LossTypes DEF s, t
  <2> QED
    BY <1>4, <1>5, <2>1, LossTypes DEF LossInv, TypeInv, TypeOK
<1>7. \A v \in Target, r \in Record : cache'[v][r].hash <= acked'[v][r]
  <2>1. \A v \in Target, r \in Record : acked'[v][r] \in Nat
    BY DEF TypeInv, TypeOK
  <2> QED
    BY <1>1, <1>6, <2>1, LossTypes DEF LossInv, SharedInv
<1>8. acked'[t][s.cur] >= s.work[s.cur].ver
  BY <1>4, <1>6
<1> QED
  BY <1>1, <1>3, <1>6, <1>7, <1>8, GoesOn, AtHand DEF Busy, Pushing

\* A push has returned: its version is confirmed, and the record done or, in a
\* drain, its row to be deleted.
LEMMA ReturnedLoss ==
    ASSUME LossInv, TypeInv', NEW p \in Proc,
           UNCHANGED <<tally, lastAlter, lastSync, queue, acked, target>>,
           Pushing(proc[p]), proc'[p] = Returned(proc[p]),
           \A t \in Target, r \in Record : cache'[t][r].hash <= acked[t][r],
           acked[target[p]][proc[p].cur] >= proc[p].work[proc[p].cur].ver
    PROVE  LossInv'
<1> DEFINE s == proc[p]
<1>1. s \in ProcState /\ s.cur \in Record
  BY LossTypes
<1>2. CASE Retrying(s)
  <2>1. proc'[p] = [s EXCEPT !.pc = "resolve"]
    BY <1>2 DEF Returned
  <2>2. /\ proc'[p].pc = "resolve"
        /\ proc'[p].work = s.work /\ proc'[p].job = s.job /\ proc'[p].high = s.high
        /\ proc'[p].left = s.left /\ proc'[p].scope = s.scope /\ proc'[p].cur = s.cur
    BY <1>1, <2>1 DEF ProcState
  <2>3. \A t \in Target, r \in Record :
            acked'[t][r] >= acked[t][r] /\ cache'[t][r].hash <= acked'[t][r]
    BY AtHand
  <2> QED
    BY <2>2, <2>3, GoesOn, AtHand DEF Busy, Pushing
<1>3. CASE ~Retrying(s)
  <2>1. proc'[p] = Without(s, s.cur)
    BY <1>3 DEF Returned
  <2>2. /\ proc'[p].pc = "each" /\ proc'[p].work = [s.work EXCEPT ![s.cur] = NoItem]
        /\ proc'[p].job = s.job /\ proc'[p].high = s.high
        /\ proc'[p].left = s.left /\ proc'[p].scope = s.scope
    BY <1>1, <2>1 DEF ProcState, Without
  <2>3. \A v \in Target : v = target[p]
    BY LossTypes DEF LossInv, Alone
  <2>4. PICK r \in Record : r = s.cur
    BY <1>1
  <2>5. \A v \in Target : /\ Safe(v, r) => Safe(v, r)'
                          /\ s.work[r].ver = tally[r] => Safe(v, r)'
    BY <2>3, <2>4 DEF Safe
  <2> QED
    BY <1>1, <2>2, <2>4, <2>5, IsDone, LossTypes DEF Busy, LossInv, SharedInv
<1> QED
  BY <1>2, <1>3

\* A record that is unchanged is one whose version the site has confirmed.
LEMMA CompareLoss ==
    ASSUME LossInv, TypeInv', NEW p \in Proc, Compare(p)
    PROVE  LossInv'
<1> DEFINE s == proc[p]
<1>1. /\ UNCHANGED <<tally, lastAlter, lastSync, queue, cache, acked, target>>
      /\ s.pc = "compare"
  BY DEF Compare, Outside, storeVars
<1>2. CASE s.found # 0 /\ SameContent(cache[target[p]][s.cur], Version(s))
  <2>1. proc'[p] = Returned(s)
    BY <1>2 DEF Compare, Become, LossInv, TypeInv
  <2>2. acked[target[p]][s.cur] >= s.work[s.cur].ver
    BY <1>2, LossTypes DEF SameContent, Version, LossInv, SharedInv
  <2> QED
    BY <1>1, <2>1, <2>2, ReturnedLoss DEF Pushing, LossInv, SharedInv
<1>3. CASE ~(s.found # 0 /\ SameContent(cache[target[p]][s.cur], Version(s)))
  <2>1. PICK pc \in {"put", "post"} : proc'[p] = [s EXCEPT !.pc = pc]
    BY <1>3 DEF Compare, Become, LossInv, TypeInv
  <2>2. /\ proc'[p].pc \in {"put", "post"}
        /\ proc'[p].work = s.work /\ proc'[p].job = s.job /\ proc'[p].high = s.high
        /\ proc'[p].left = s.left /\ proc'[p].scope = s.scope /\ proc'[p].cur = s.cur
    BY <2>1, LossTypes DEF ProcState
  <2> QED
    BY <1>1, <2>2, GoesOn, AtHand DEF Busy, Pushing
<1> QED
  BY <1>2, <1>3

\* The hash of a confirmed version is cached.
LEMMA RememberLoss ==
    ASSUME LossInv, TypeInv', NEW p \in Proc, Remember(p)
    PROVE  LossInv'
<1> DEFINE s == proc[p]
<1>1. UNCHANGED <<tally, lastAlter, lastSync, queue, acked, target>> /\ s.pc = "remember"
  BY DEF Remember, Outside
<1>2. proc'[p] = Returned(s)
  BY DEF Remember, Become, LossInv, TypeInv
<1>3. acked[target[p]][s.cur] >= s.work[s.cur].ver
  BY <1>1 DEF LossInv, LocalInv
<1>4. \A t \in Target, r \in Record : cache'[t][r].hash <= acked[t][r]
  BY <1>3, LossTypes DEF Remember, UpsertCache, Version, LossInv, SharedInv, TypeInv, TypeOK,
                         StoreTypeOK
<1> QED
  BY <1>1, <1>2, <1>3, <1>4, ReturnedLoss DEF Pushing

\* A record that is not pushed is skipped, or its row is deleted.
LEMMA SkipLoss ==
    ASSUME LossInv, TypeInv', NEW p \in Proc, SkipRecord(p) \/ DropRow(p)
    PROVE  LossInv'
<1> DEFINE s == proc[p]
<1>1. /\ UNCHANGED <<tally, lastAlter, lastSync, cache, acked, target>> /\ s.pc = "each"
  BY DEF SkipRecord, DropRow, Outside, storeVars
<1>2. PICK r \in Record :
          /\ ~Pushable(r)
          /\ queue' = queue \/ MarkRetrySuccess(r, s.work[r].id)
          /\ \E h \in {s.high, Raised(s, r)} : proc'[p] = [Without(s, r) EXCEPT !.high = h]
  <2>1. CASE SkipRecord(p)
    BY <2>1 DEF SkipRecord, NextUp, Pending, storeVars, Become, LossInv, TypeInv
  <2>2. CASE DropRow(p)
    <3>1. PICK r \in Record : /\ ~Pushable(r) /\ MarkRetrySuccess(r, s.work[r].id)
                              /\ proc'[p] = Without(s, r)
      BY <2>2 DEF DropRow, Hopeless, NextUp, Pending, Become, LossInv, TypeInv
    <3>2. Without(s, r) = [Without(s, r) EXCEPT !.high = s.high]
      BY LossTypes DEF Without, ProcState
    <3> QED
      BY <3>1, <3>2
  <2> QED
    BY <2>1, <2>2
<1>3. /\ proc'[p].pc = "each" /\ proc'[p].work = [s.work EXCEPT ![r] = NoItem]
      /\ proc'[p].high \in {s.high, Raised(s, r)} /\ proc'[p].job = s.job
      /\ proc'[p].left = s.left /\ proc'[p].scope = s.scope
  BY <1>2, LossTypes DEF Without, ProcState
<1>4. /\ \A q \in Record \ {r} : queue'[q] = queue[q]
      /\ queue'[r].ver <= tally[r]
  BY <1>2, LossTypes DEF MarkRetrySuccess, NoRow, LossInv, SharedInv, TypeInv, TypeOK,
                         StoreTypeOK
<1> QED
  BY <1>1, <1>2, <1>3, <1>4, IsDone DEF Busy, LossInv, SharedInv

\* The row of a push that returned goes: what it held is confirmed.
LEMMA ResolveLoss ==
    ASSUME LossInv, TypeInv', NEW p \in Proc, Resolve(p)
    PROVE  LossInv'
<1> DEFINE s == proc[p]
<1>1. /\ UNCHANGED <<tally, lastAlter, lastSync, cache, acked, target>> /\ s.pc = "resolve"
  BY DEF Resolve, Outside
<1>2. PICK r \in Record : r = s.cur
  BY LossTypes
<1>3. acked[target[p]][r] >= s.work[r].ver /\ queue[r].ver <= s.work[r].ver
  BY <1>1, <1>2 DEF LossInv, LocalInv, Busy, Pushing
<1>4. MarkRetrySuccess(r, s.work[r].id) /\ proc'[p] = Without(s, r)
  BY <1>2 DEF Resolve, Become, LossInv, TypeInv
<1>5. /\ proc'[p].pc = "each" /\ proc'[p].work = [s.work EXCEPT ![r] = NoItem]
      /\ proc'[p].high = s.high /\ proc'[p].job = s.job
      /\ proc'[p].left = s.left /\ proc'[p].scope = s.scope
  BY <1>4, LossTypes DEF Without, ProcState
<1>6. /\ \A q \in Record \ {r} : queue'[q] = queue[q]
      /\ queue'[r].ver <= tally[r]
  BY <1>4, LossTypes DEF MarkRetrySuccess, NoRow, LossInv, SharedInv, TypeInv, TypeOK,
                         StoreTypeOK
<1>7. \A v \in Target : v = target[p]
  BY LossTypes DEF LossInv, Alone
<1>8. \A v \in Target : /\ Safe(v, r) => Safe(v, r)'
                        /\ s.work[r].ver = tally[r] => Safe(v, r)'
  BY <1>1, <1>3, <1>7, LossTypes DEF Safe
<1> QED
  BY <1>1, <1>5, <1>6, <1>8, IsDone DEF Busy, Pushing, LossInv, SharedInv

\* A failed push of a sync queues the version at hand, which is not older than the
\* row's.
LEMMA EnqueueLoss ==
    ASSUME LossInv, TypeInv', NEW p \in Proc, Enqueue(p)
    PROVE  LossInv'
<1> DEFINE s == proc[p]
<1>1. /\ UNCHANGED <<tally, lastAlter, lastSync, cache, acked, target>> /\ s.pc = "failed"
  BY DEF Enqueue, Outside
<1>2. PICK r \in Record : r = s.cur
  BY LossTypes
<1>3. s.work[r].ver <= tally[r] /\ queue[r].ver <= s.work[r].ver
  BY <1>1, <1>2 DEF LossInv, LocalInv, Busy, Pushing
<1>4. EnqueueRetry(r, s.work[r].ver) /\ proc'[p] = Without(s, r)
  BY <1>2 DEF Enqueue, Version, Become, LossInv, TypeInv
<1>5. /\ proc'[p].pc = "each" /\ proc'[p].work = [s.work EXCEPT ![r] = NoItem]
      /\ proc'[p].high = s.high /\ proc'[p].job = s.job
      /\ proc'[p].left = s.left /\ proc'[p].scope = s.scope
  BY <1>4, LossTypes DEF Without, ProcState
<1>6. /\ \A q \in Record \ {r} : queue'[q] = queue[q]
      /\ queue'[r].ver = s.work[r].ver
  BY <1>4, LossTypes DEF EnqueueRetry, LossInv, TypeInv, TypeOK, StoreTypeOK
<1>7. \A v \in Target : /\ Safe(v, r) => Safe(v, r)'
                        /\ s.work[r].ver = tally[r] => Safe(v, r)'
  BY <1>1, <1>3, <1>6, LossTypes DEF Safe
<1> QED
  BY <1>1, <1>3, <1>5, <1>6, <1>7, IsDone DEF Busy, Pushing, LossInv, SharedInv

\* A failed push of a drain leaves its row with what it holds.
LEMMA RescheduleLoss ==
    ASSUME LossInv, TypeInv', NEW p \in Proc, Reschedule(p)
    PROVE  LossInv'
<1> DEFINE s == proc[p]
<1>1. /\ UNCHANGED <<tally, lastAlter, lastSync, cache, acked, target>>
      /\ s.pc = "failed" /\ Retrying(s)
  BY DEF Reschedule, Outside
<1>2. PICK r \in Record : r = s.cur
  BY LossTypes
<1>3. MarkRetryFailed(r, s.work[r].id) /\ proc'[p] = Without(s, r)
  BY <1>2 DEF Reschedule, Become, LossInv, TypeInv
<1>4. /\ proc'[p].pc = "each" /\ proc'[p].work = [s.work EXCEPT ![r] = NoItem]
      /\ proc'[p].high = s.high /\ proc'[p].job = s.job
      /\ proc'[p].left = s.left /\ proc'[p].scope = s.scope
  BY <1>3, LossTypes DEF Without, ProcState
<1>5. /\ \A q \in Record \ {r} : queue'[q] = queue[q]
      /\ queue'[r].ver = queue[r].ver
  BY <1>3 DEF MarkRetryFailed, LossInv, TypeInv, TypeOK, StoreTypeOK, Row
<1>6. \A v \in Target : Safe(v, r) => Safe(v, r)'
  BY <1>1, <1>5 DEF Safe
<1> QED
  BY <1>1, <1>4, <1>5, <1>6, IsDone DEF Busy, Pushing, LossInv, SharedInv

\* An edit makes the record newer than all that has been seen.
LEMMA UserEditsLoss ==
    ASSUME LossInv, TypeInv', UserEdits
    PROVE  LossInv'
<1>1. PICK r \in Record : Edit(r)
  BY DEF UserEdits
<1>2. /\ lastAlter' = lastAlter + 1 /\ tally'[r] = lastAlter + 1
      /\ \A q \in Record \ {r} : tally'[q] = tally[q]
  BY <1>1 DEF Edit, LossInv, TypeInv, TypeOK, TallyTypeOK
<1>3. UNCHANGED <<lastSync, queue, cache, acked, proc, target>>
  BY DEF UserEdits, storeVars
<1>4. PICK p \in Proc : \A q \in Proc : q = p
  BY DEF LossInv, Alone
<1>5. \A q \in Record : tally'[q] >= tally[q] /\ tally'[q] \in Nat
  BY <1>2, <1>4, LossTypes
<1>6. SharedInv'
  <2>1. \A q \in Record : queue'[q].ver <= tally'[q]
    BY <1>3, <1>4, <1>5, LossTypes DEF LossInv, SharedInv
  <2>2. \A e \in Entity : lastSync'[e] <= lastAlter'
    BY <1>2, <1>3, <1>4, LossTypes DEF LossInv, SharedInv
  <2>3. ASSUME NEW t \in Target, NEW q \in Record, Pushable(q),
               tally'[q] \in 1 .. lastSync'[EntityOf[q]]
        PROVE  Safe(t, q)'
    <3>1. q # r
      BY <1>2, <1>3, <1>4, <2>3, LossTypes DEF LossInv, SharedInv
    <3> QED
      BY <1>2, <1>3, <2>3, <3>1 DEF LossInv, SharedInv, Safe
  <2> QED
    BY <1>3, <2>1, <2>2, <2>3 DEF LossInv, SharedInv
<1>7. LocalInv(p)'
  <2> DEFINE s == proc[p]
             t == target[p]
  <2>1. s.high <= lastAlter' /\ \A q \in Record : s.work[q].ver <= tally'[q]
    BY <1>2, <1>4, <1>5, LossTypes DEF LossInv, LocalInv
  <2>2. Newer(s, r)'
    <3>1. \A q \in Record : s.work[q].ver <= lastAlter
      BY LossTypes DEF LossInv, LocalInv
    <3>2. s.high < lastAlter + 1 /\ \A q \in Record : s.work[q].ver < lastAlter + 1
      BY <3>1, LossTypes DEF LossInv, LocalInv
    <3> QED
      BY <1>2, <1>3, <3>2, LossTypes DEF Newer
  <2>3. \A q \in Record : Covered(t, s, q) => Covered(t, s, q)'
    <3>1. \A q \in Record \ {r} : Covered(t, s, q) => Covered(t, s, q)'
      BY <1>2, <1>3 DEF Covered, Newer, Safe
    <3> QED
      BY <2>2, <3>1 DEF Covered
  <2> QED
    BY <1>3, <2>1, <2>3 DEF LossInv, LocalInv, RecordsOf
<1> QED
  BY <1>4, <1>6, <1>7, TheProcess

\* Time, deletions and steps that stutter take nothing away.
LEMMA OutsideLoss ==
    ASSUME LossInv, TypeInv',
           UserDeletes \/ (\E r \in Record : TimePasses(r)) \/ UNCHANGED vars
    PROVE  LossInv'
<1>1. UNCHANGED <<tally, lastAlter, lastSync, cache, acked, proc, target>>
  BY DEF UserDeletes, TimePasses, vars, storeVars, tallyVars
<1>2. \A q \in Record : queue'[q].ver = queue[q].ver
  <2>1. CASE \E r \in Record : TimePasses(r)
    BY <2>1 DEF TimePasses, BackoffElapses, LossInv, TypeInv, TypeOK, StoreTypeOK, Row
  <2>2. CASE UserDeletes \/ UNCHANGED vars
    BY <2>2 DEF UserDeletes, vars, storeVars
  <2> QED
    BY <2>1, <2>2
<1>3. \A t \in Target, q \in Record : Safe(t, q)' <=> Safe(t, q)
  BY <1>1, <1>2 DEF Safe
<1>4. SharedInv'
  BY <1>1, <1>2, <1>3 DEF LossInv, SharedInv
<1>5. PICK p \in Proc : \A q \in Proc : q = p
  BY DEF LossInv, Alone
<1>6. LocalInv(p)'
  <2>1. \A q \in Record : Covered(target[p], proc[p], q)'
                             <=> Covered(target[p], proc[p], q)
    BY <1>1, <1>3, <1>5, LossTypes DEF Covered, Newer
  <2> QED
    BY <1>1, <1>2, <2>1 DEF LossInv, LocalInv, RecordsOf
<1> QED
  BY <1>4, <1>5, <1>6, TheProcess

LEMMA NextLoss == LossInv /\ [Next]_vars => LossInv'
<1> SUFFICES ASSUME LossInv, [Next]_vars PROVE LossInv'
  OBVIOUS
<1>1. TypeInv'
  BY NextType DEF LossInv
<1>2. ASSUME NEW p \in Proc, Step(p) PROVE LossInv'
  BY <1>1, <1>2, RestLoss, BeginEntityLoss, FetchLoss, DequeueLoss, SaveLoss,
     BeginPushLoss, PushLoss, FillLoss, AcknowledgedLoss, CompareLoss, RememberLoss,
     SkipLoss, ResolveLoss, EnqueueLoss, RescheduleLoss DEF Step
<1>3. ASSUME NEW p \in Proc, Fault(p) PROVE LossInv'
  <2>1. ~SwitchTarget(p)
    BY LossTypes DEF SwitchTarget, LossInv, Alone
  <2> QED
    BY <1>1, <1>3, <2>1, SaveLoss, PushLoss, RestLoss DEF Fault
<1> QED
  BY <1>1, <1>2, <1>3, UserEditsLoss, OutsideLoss DEF Next

\* One process on one site, without date ranges: whatever fails, is lost or dies,
\* at any point, the watermark never passes a version that the site has not
\* confirmed and the retry queue does not hold (_sync_entity, process_retry_queue).
THEOREM AloneNothingIsLost == Alone => (Spec => []NothingLost)
<1> SUFFICES ASSUME Alone PROVE Spec => []NothingLost
  OBVIOUS
<1>1. Init => LossInv
  BY InitLoss
<1>2. LossInv => NothingLost
  BY DEF LossInv, SharedInv, NothingLost, Passed, Safe
<1> QED
  BY <1>1, <1>2, NextLoss, PTL DEF Spec

=============================================================================
