-------------------------- MODULE SyncEngineProofs --------------------------
(***************************************************************************)
(* Theorems about SyncEngine for any number of processes, records, sites   *)
(* and disturbances, checked by TLAPS.                                     *)
(***************************************************************************)
EXTENDS SyncProperties, TLAPS

-----------------------------------------------------------------------------
(* The type invariant, strengthened: a process past "entity" in a sync has an
   entity to sync, so Head and Tail of s.left mean something.                *)

LocalState ==
    {s \in ProcState :
        /\ s.pc \in {"entity", "fetch"} => ~Retrying(s)
        /\ s.pc \notin {"idle", "down", "entity", "dequeue"} /\ ~Retrying(s) => s.left # <<>>}

TypeInv ==
    /\ TypeOK
    /\ proc \in [Proc -> LocalState]

\* A row an earlier release left has an id and a version up to the length of
\* LegacyQueue (StateStore's initial retry_queue).
LEMMA LegacyRowType ==
    ASSUME NEW r \in Record
    PROVE  LegacyRow(r) \in Row /\ LegacyRow(r).ver <= Len(LegacyQueue)
<1>1. LegacyQueue \in Seq(Record)
  BY StateStoreAssumption
<1>2. CASE \E i \in DOMAIN LegacyQueue : LegacyQueue[i] = r
  <2>1. PICK i \in DOMAIN LegacyQueue :
            i = CHOOSE j \in DOMAIN LegacyQueue : LegacyQueue[j] = r
    BY <1>2
  <2>2. i \in Nat /\ i <= Len(LegacyQueue)
    BY <1>1, <2>1
  <2>3. LegacyRow(r) = [id |-> i, ver |-> i, due |-> TRUE]
    BY <1>2, <2>1 DEF LegacyRow
  <2> QED
    BY <2>2, <2>3 DEF Row
<1>3. CASE ~ \E i \in DOMAIN LegacyQueue : LegacyQueue[i] = r
  BY <1>1, <1>3 DEF LegacyRow, NoRow, Row
<1> QED
  BY <1>2, <1>3

\* A process at rest has a well-formed state (the locals of a job that has not
\* begun).
LEMMA AtRestType ==
    ASSUME NEW pc \in Control
    PROVE  /\ AtRest(pc) \in ProcState
           /\ pc \in {"idle", "down", "entity", "dequeue"} => AtRest(pc) \in LocalState
<1>1. (CHOOSE r \in Record : TRUE) \in Record
  BY RegistryAssumption
<1>2. NoWork \in [Record -> Item]
  BY DEF NoWork, NoItem, Item
<1> QED
  BY <1>1, <1>2 DEF AtRest, ProcState, JobKind, LocalState, Control, Retrying

\* Taking a record off the work keeps a busy process's state well-formed.
LEMMA WithoutType ==
    ASSUME NEW s \in LocalState, NEW r \in Record,
           s.pc \notin {"idle", "down", "entity", "dequeue"}
    PROVE  /\ Without(s, r) \in LocalState
           /\ Without(s, r).pc = "each"
BY DEF Without, ProcState, Control, NoItem, Item, LocalState, Retrying

\* So does a push's return.
LEMMA ReturnedType ==
    ASSUME NEW s \in LocalState, s.pc \notin {"idle", "down", "entity", "dequeue"}
    PROVE  Returned(s) \in LocalState
<1>1. [s EXCEPT !.pc = "resolve"] \in LocalState
  BY DEF ProcState, Control, LocalState, Retrying
<1> QED
  BY <1>1, WithoutType DEF Returned, ProcState, LocalState

\* So does a request without an answer.
LEMMA UnansweredType ==
    ASSUME NEW s \in LocalState, s.pc \notin {"idle", "down", "entity", "dequeue"}
    PROVE  Unanswered(s) \in LocalState /\ [s EXCEPT !.pc = "failed"] \in LocalState
<1>1. [s EXCEPT !.pc = "failed"] \in LocalState
  BY DEF ProcState, Control, LocalState, Retrying
<1>2. \A n \in Nat : [s EXCEPT !.tries = n] \in LocalState
  BY DEF ProcState, LocalState, Retrying
<1>3. s.tries + 1 \in Nat
  BY DEF ProcState, LocalState
<1> QED
  BY <1>1, <1>2, <1>3 DEF Unanswered

\* A process that becomes a well-formed state leaves all of them well-formed.
LEMMA BecomeType ==
    ASSUME TypeInv, NEW p \in Proc, NEW s \in LocalState, Become(p, s)
    PROVE  proc' \in [Proc -> LocalState] /\ proc' \in [Proc -> ProcState]
BY DEF TypeInv, Become, LocalState

LEMMA InitType == Init => TypeInv
<1> SUFFICES ASSUME Init PROVE TypeInv
  OBVIOUS
<1>1. TallyTypeOK
  BY LegacyRowType, StateStoreAssumption DEF Init, TallyTypeOK, Row
<1>2. FrappeTypeOK
  BY DEF Init, FrappeTypeOK
<1>3. StoreTypeOK
  BY LegacyRowType, StateStoreAssumption
  DEF Init, StoreInit, StoreTypeOK, CacheRow, NoCacheRow
<1>4. proc \in [Proc -> LocalState] /\ proc \in [Proc -> ProcState]
  BY AtRestType DEF Init, LocalState, Control
<1>5. faults \in 0 .. MaxFaults
  BY SyncEngineAssumption DEF Init
<1> QED
  BY <1>1, <1>2, <1>3, <1>4, <1>5 DEF Init, TypeOK, TypeInv


-----------------------------------------------------------------------------
(* Type correctness is kept by every operation of the store and of Frappe.  *)

LEMMA UpdateLastSyncType ==
    ASSUME StoreTypeOK, NEW e \in Entity, NEW n \in Nat, UpdateLastSync(e, n)
    PROVE  lastSync' \in [Entity -> Nat]
BY DEF StoreTypeOK, UpdateLastSync

LEMMA EnqueueRetryType ==
    ASSUME StoreTypeOK, NEW r \in Record, NEW v \in Nat, EnqueueRetry(r, v)
    PROVE  queue' \in [Record -> Row] /\ nextId' \in Nat \ {0}
BY DEF StoreTypeOK, EnqueueRetry, Row

LEMMA MarkRetrySuccessType ==
    ASSUME StoreTypeOK, NEW r \in Record, NEW id \in Nat, MarkRetrySuccess(r, id)
    PROVE  queue' \in [Record -> Row]
BY DEF StoreTypeOK, MarkRetrySuccess, NoRow, Row

LEMMA MarkRetryFailedType ==
    ASSUME StoreTypeOK, NEW r \in Record, NEW id \in Nat, MarkRetryFailed(r, id)
    PROVE  queue' \in [Record -> Row]
BY DEF StoreTypeOK, MarkRetryFailed, Row

LEMMA BackoffElapsesType ==
    ASSUME StoreTypeOK, NEW r \in Record, BackoffElapses(r)
    PROVE  queue' \in [Record -> Row]
BY DEF StoreTypeOK, BackoffElapses, Row

LEMMA UpsertCacheType ==
    ASSUME StoreTypeOK, NEW t \in Target, NEW r \in Record, NEW n \in Nat,
           NEW h \in Nat, UpsertCache(t, r, n, h)
    PROVE  cache' \in [Target -> [Record -> CacheRow]]
BY DEF StoreTypeOK, UpsertCache, CacheRow

LEMMA CreateDocType ==
    ASSUME FrappeTypeOK, NEW t \in Target, NEW r \in Record, NEW v \in Nat,
           CreateDoc(t, r, v)
    PROVE  FrappeTypeOK'
<1>1. [rec |-> r, ver |-> v, live |-> TRUE] \in Document
  BY DEF Document
<1>2. Append(docs[t], [rec |-> r, ver |-> v, live |-> TRUE]) \in Seq(Document)
  BY <1>1 DEF FrappeTypeOK
<1> QED
  BY <1>2 DEF FrappeTypeOK, CreateDoc

LEMMA UpdateDocType ==
    ASSUME FrappeTypeOK, NEW t \in Target, NEW n \in Names(t), NEW r \in Record,
           NEW v \in Nat, UpdateDoc(t, n, r, v)
    PROVE  FrappeTypeOK'
<1>1. [rec |-> r, ver |-> v, live |-> TRUE] \in Document
  BY DEF Document
<1>2. [docs[t] EXCEPT ![n] = [rec |-> r, ver |-> v, live |-> TRUE]] \in Seq(Document)
  BY <1>1 DEF FrappeTypeOK, Names
<1> QED
  BY <1>2 DEF FrappeTypeOK, UpdateDoc

LEMMA DeleteDocType ==
    ASSUME FrappeTypeOK, NEW t \in Target, NEW n \in Names(t), DeleteDoc(t, n)
    PROVE  FrappeTypeOK'
<1>1. docs[t][n] \in Document
  BY DEF FrappeTypeOK, Names
<1>2. \A d \in Document : [d EXCEPT !.live = FALSE] \in Document
  BY DEF Document
<1>3. [docs[t] EXCEPT ![n] = [docs[t][n] EXCEPT !.live = FALSE]] \in Seq(Document)
  BY <1>1, <1>2 DEF FrappeTypeOK, Names
<1> QED
  BY <1>3 DEF FrappeTypeOK, DeleteDoc

\* Disturbed or not, a step keeps the count of disturbances within its bound.
LEMMA FaultsType ==
    ASSUME TypeInv
    PROVE  /\ Undisturbed => faults' \in 0 .. MaxFaults
           /\ \A kind : Disturb(kind) => faults' \in 0 .. MaxFaults
BY SyncEngineAssumption DEF TypeInv, TypeOK, Undisturbed, Disturb

\* A process with a record at hand takes it up.
LEMMA TakenUpType ==
    ASSUME NEW s \in LocalState, s.pc = "each", NEW pc \in {"get", "compare"},
           NEW h \in Nat, NEW r \in Record, NEW n \in Nat
    PROVE  [s EXCEPT !.pc = pc, !.high = h, !.cur = r, !.found = n, !.tries = 0]
               \in LocalState
<1> DEFINE u == [s EXCEPT !.pc = pc, !.high = h, !.cur = r, !.found = n, !.tries = 0]
<1>1. s \in ProcState /\ (s.job # "retry" => s.left # <<>>)
  BY DEF LocalState, Retrying
<1>2. u \in ProcState
  BY <1>1 DEF ProcState, Control
<1>3. u.pc = pc /\ u.job = s.job /\ u.left = s.left
  BY <1>1 DEF ProcState
<1> HIDE DEF u
<1>4. u \in LocalState
  BY <1>1, <1>2, <1>3 DEF LocalState, Retrying
<1> QED
  BY <1>4 DEF u

\* The frame of a process's step: all but the local state is untouched.
LEMMA QuietType ==
    ASSUME TypeInv, NEW p \in Proc, NEW s \in LocalState, Become(p, s),
           Outside, faults' \in 0 .. MaxFaults, UNCHANGED <<docs, storeVars, acked>>
    PROVE  TypeInv'
BY BecomeType DEF TypeInv, TypeOK, Outside, TallyTypeOK, FrappeTypeOK, StoreTypeOK, storeVars


\* What a well-formed process state and its record at hand are made of.
LEMMA ProcStateType ==
    ASSUME TypeInv, NEW p \in Proc
    PROVE  /\ proc[p] \in LocalState
           /\ proc[p] \in ProcState
           /\ target[p] \in Target
           /\ proc[p].cur \in Record
           /\ proc[p].found \in Nat /\ proc[p].high \in Nat /\ proc[p].tries \in Nat
           /\ \A r \in Record : proc[p].work[r] \in Item
           /\ Version(proc[p]) \in Nat
           /\ \A r \in Record : Raised(proc[p], r) \in Nat
<1>1. proc[p] \in LocalState /\ proc[p] \in ProcState /\ target[p] \in Target
  BY DEF TypeInv, TypeOK
<1>2. \A r \in Record : proc[p].work[r] \in Item
  BY <1>1 DEF ProcState
<1> QED
  BY <1>1, <1>2 DEF ProcState, Item, Version, Raised

\* The step of a process keeps the types: starting, stopping and entity by entity.
LEMMA JobStepType ==
    ASSUME TypeInv, NEW p \in Proc,
           \/ RunSync(p) \/ ResyncEntity(p) \/ ProcessRetryQueue(p) \/ Restart(p)
           \/ BeginEntity(p) \/ EndSync(p) \/ Fetch(p) \/ SkipRecord(p) \/ Save(p)
           \/ FetchFails(p) \/ Crash(p) \/ SwitchTarget(p)
    PROVE  TypeInv'
<1> USE FaultsType, ProcStateType, RegistryAssumption
<1>1. CASE RunSync(p)
  <2>1. PICK kind \in JobKind \ {"retry"} :
            Become(p, [AtRest("entity") EXCEPT !.job = kind, !.left = Order, !.scope = Record])
    BY <1>1, SyncEngineAssumption DEF RunSync
  <2>2. [AtRest("entity") EXCEPT !.job = kind, !.left = Order, !.scope = Record] \in LocalState
    <3>1. AtRest("entity") \in LocalState
      BY AtRestType DEF Control
    <3> QED
      BY <3>1 DEF AtRest, ProcState, LocalState, Retrying
  <2> QED
    BY <1>1, <2>1, <2>2, QuietType DEF RunSync
<1>2. CASE ResyncEntity(p)
  <2>1. PICK kind \in JobKind \ {"retry"}, e \in Registered, scope \in SUBSET Record :
            Become(p, [AtRest("entity") EXCEPT !.job = kind, !.left = <<e>>, !.scope = scope])
    BY <1>2, SyncEngineAssumption DEF ResyncEntity, RecordsOf
  <2>2. e \in Entity
    BY DEF Registered
  <2>3. <<e>> \in Seq(Entity) /\ <<e>> # <<>>
    BY <2>2
  <2>4. [AtRest("entity") EXCEPT !.job = kind, !.left = <<e>>, !.scope = scope] \in LocalState
    <3>1. AtRest("entity") \in LocalState
      BY AtRestType DEF Control
    <3> QED
      BY <2>3, <3>1 DEF AtRest, ProcState, LocalState, Retrying
  <2> QED
    BY <1>2, <2>1, <2>4, QuietType DEF ResyncEntity
<1>3. CASE ProcessRetryQueue(p)
  BY <1>3, AtRestType, QuietType DEF ProcessRetryQueue, Control
<1>4. CASE Restart(p)
  BY <1>4, AtRestType, QuietType DEF Restart, Control
<1>5. CASE Crash(p)
  BY <1>5, AtRestType, QuietType DEF Crash, Control
<1>6. CASE SwitchTarget(p)
  <2>1. target' \in [Proc -> Target]
    BY <1>6 DEF SwitchTarget, TypeInv, TypeOK
  <2> QED
    BY <1>6, <2>1 DEF SwitchTarget, TypeInv, TypeOK, tallyVars, storeVars,
                      TallyTypeOK, FrappeTypeOK, StoreTypeOK
<1>7. CASE BeginEntity(p)
  <2> DEFINE s == proc[p]
             h == IF s.job \in {"cycle", "incremental"} THEN lastSync[Head(s.left)] ELSE 0
  <2>1. Head(s.left) \in Entity
    BY <1>7 DEF BeginEntity, ProcState
  <2>2. h \in Nat
    BY <2>1 DEF TypeInv, TypeOK, StoreTypeOK
  <2>3. s.left # <<>> /\ s.pc = "entity" /\ s \in LocalState
    BY <1>7 DEF BeginEntity
  <2>4. [s EXCEPT !.pc = "fetch", !.high = h] \in LocalState
    <3> HIDE DEF s, h
    <3> QED BY <2>2, <2>3 DEF ProcState, LocalState, Control, Retrying
  <2> QED
    BY <1>7, <2>4, QuietType DEF BeginEntity
<1>8. CASE EndSync(p)
  <2>1. AtRest("dequeue") \in LocalState /\ AtRest("idle") \in LocalState
    BY AtRestType DEF Control
  <2> QED
    BY <1>8, <2>1, QuietType DEF EndSync
<1>9. CASE Fetch(p)
  <2> DEFINE s == proc[p]
             got == Export(Head(s.left), s.high, s.scope)
             work == [r \in Record |-> IF r \in got THEN [id |-> 0, ver |-> tally[r]]
                                                  ELSE NoItem]
  <2>1. work \in [Record -> Item]
    BY DEF TypeInv, TypeOK, TallyTypeOK, Item, NoItem
  <2>2. [s EXCEPT !.pc = "each", !.work = work] \in LocalState
    <3>1. s.pc = "fetch" /\ s \in LocalState
      BY <1>9 DEF Fetch
    <3> HIDE DEF s, work
    <3> QED BY <2>1, <3>1 DEF ProcState, LocalState, Control, Retrying
  <2> QED
    BY <1>9, <2>2, QuietType DEF Fetch
<1>10. CASE SkipRecord(p)
  <2>1. PICK r \in Record :
            Become(p, [Without(proc[p], r) EXCEPT
                          !.high = IF r \in Unparseable THEN proc[p].high ELSE Raised(proc[p], r)])
    BY <1>10 DEF SkipRecord, NextUp, Pending
  <2> DEFINE w == Without(proc[p], r)
             h == IF r \in Unparseable THEN proc[p].high ELSE Raised(proc[p], r)
  <2>2. w \in LocalState /\ h \in Nat
    BY <1>10, WithoutType DEF SkipRecord
  <2>3. [w EXCEPT !.high = h] \in LocalState
    <3> HIDE DEF w, h
    <3> QED BY <2>2 DEF LocalState, ProcState, Retrying
  <2> QED
    BY <1>10, <2>1, <2>3, QuietType DEF SkipRecord
<1>11. CASE Save(p) \/ FetchFails(p)
  <2> DEFINE s == proc[p]
  <2>1. s.left # <<>> /\ s.left \in Seq(Entity) /\ ~Retrying(s)
    BY <1>11 DEF Save, FetchFails, LocalState, ProcState, Retrying
  <2>2. Head(s.left) \in Entity /\ Tail(s.left) \in Seq(Entity)
    BY <2>1
  <2>3. [s EXCEPT !.pc = "entity", !.left = Tail(s.left)] \in LocalState
    <3>1. s \in LocalState
      OBVIOUS
    <3> DEFINE l == Tail(s.left)
    <3> HIDE DEF s, l
    <3>2. [s EXCEPT !.pc = "entity", !.left = l] \in LocalState
      BY <2>1, <2>2, <3>1 DEF l, ProcState, LocalState, Control, Retrying
    <3> QED BY <3>2 DEF s, l
  <2>4. lastSync' \in [Entity -> Nat]
    BY <1>11, <2>2, UpdateLastSyncType DEF Save, FetchFails, TypeInv, TypeOK
  <2> QED
    BY <1>11, <2>3, <2>4, BecomeType
    DEF Save, FetchFails, TypeInv, TypeOK, Outside, TallyTypeOK, FrappeTypeOK,
        StoreTypeOK
<1> QED
  BY <1>1, <1>2, <1>3, <1>4, <1>5, <1>6, <1>7, <1>8, <1>9, <1>10, <1>11


\* The step of a process keeps the types: record by record.
LEMMA PushStepType ==
    ASSUME TypeInv, NEW p \in Proc,
           \/ Dequeue(p) \/ UnknownEntity(p) \/ DropRow(p) \/ EndRetries(p)
           \/ BeginPush(p) \/ Get(p) \/ Fill(p) \/ Compare(p) \/ Acknowledged(p)
           \/ Missing(p) \/ Remember(p) \/ Resolve(p) \/ Enqueue(p) \/ Reschedule(p)
           \/ AckLost(p) \/ Unreachable(p) \/ Rejected(p)
    PROVE  TypeInv'
<1> USE FaultsType, ProcStateType
<1> DEFINE s == proc[p]
           t == target[p]
           busy == s.pc \notin {"idle", "down", "entity", "dequeue"}
<1>0. s \in LocalState
  OBVIOUS
<1>a. \A pc \in {"get", "fill", "compare", "put", "post", "remember", "resolve", "failed"} :
         busy => [s EXCEPT !.pc = pc] \in LocalState
  <2> HIDE DEF s
  <2> QED BY <1>0 DEF LocalState, ProcState, Control, Retrying
<1>b. \A pc \in {"get", "fill", "compare", "put", "post", "remember", "resolve", "failed"},
         n, m \in Nat :
         busy => [s EXCEPT !.pc = pc, !.found = n, !.tries = m] \in LocalState
  <2> HIDE DEF s
  <2> QED BY <1>0 DEF LocalState, ProcState, Control, Retrying
<1>1. CASE Dequeue(p)
  <2> DEFINE due == DueRows(Limit)
             work == [r \in Record |-> IF r \in due
                                       THEN [id |-> queue[r].id, ver |-> queue[r].ver]
                                       ELSE NoItem]
  <2>1. work \in [Record -> Item]
    BY DEF TypeInv, TypeOK, StoreTypeOK, Row, Item, NoItem
  <2>2. [AtRest("each") EXCEPT !.job = "retry", !.work = work] \in LocalState
    <3>1. AtRest("each") \in ProcState
      BY AtRestType DEF Control
    <3> HIDE DEF work
    <3> QED
      BY <2>1, <3>1 DEF AtRest, LocalState, ProcState, Retrying, JobKind
  <2> QED
    BY <1>1, <2>2, QuietType DEF Dequeue
<1>2. CASE UnknownEntity(p)
  BY <1>2, AtRestType, QuietType DEF UnknownEntity, Control
<1>3. CASE EndRetries(p)
  BY <1>3, AtRestType, QuietType DEF EndRetries, Control
<1>4. CASE DropRow(p) \/ Resolve(p) \/ Reschedule(p)
  <2>1. PICK r \in Record :
            /\ MarkRetrySuccess(r, s.work[r].id) \/ MarkRetryFailed(r, s.work[r].id)
            /\ Become(p, Without(s, r))
    BY <1>4 DEF DropRow, Resolve, Reschedule, NextUp, Pending
  <2>2. s.work[r].id \in Nat
    BY DEF Item
  <2>3. queue' \in [Record -> Row]
    BY <2>1, <2>2, MarkRetrySuccessType, MarkRetryFailedType DEF TypeInv, TypeOK
  <2>4. Without(s, r) \in LocalState
    BY <1>4, WithoutType DEF DropRow, Resolve, Reschedule
  <2> QED
    BY <1>4, <2>1, <2>3, <2>4, BecomeType
    DEF DropRow, Resolve, Reschedule, TypeInv, TypeOK, Outside, TallyTypeOK,
        FrappeTypeOK, StoreTypeOK
<1>5. CASE BeginPush(p)
  <2>1. PICK r \in Record :
            LET name == cache[t][r].name
            IN  Become(p, [s EXCEPT !.pc = AfterLookup(name),
                                    !.high = IF Retrying(s) THEN s.high ELSE Raised(s, r),
                                    !.cur = r, !.found = name, !.tries = 0])
    BY <1>5 DEF BeginPush, NextUp, Pending
  <2> DEFINE name == cache[t][r].name
             h == IF Retrying(s) THEN s.high ELSE Raised(s, r)
  <2>2. name \in Nat /\ h \in Nat /\ AfterLookup(name) \in {"get", "compare"}
    BY DEF TypeInv, TypeOK, StoreTypeOK, CacheRow, AfterLookup
  <2>3. [s EXCEPT !.pc = AfterLookup(name), !.high = h, !.cur = r, !.found = name,
                  !.tries = 0] \in LocalState
    <3>1. s.pc = "each"
      BY <1>5 DEF BeginPush
    <3> HIDE DEF name, h
    <3> QED
      BY <2>2, <3>1, TakenUpType
  <2> QED
    BY <1>5, <2>1, <2>3, QuietType DEF BeginPush
<1>6. CASE Get(p)
  <2>1. PICK pc \in {"compare", "fill"}, n \in Nat :
            Become(p, [s EXCEPT !.pc = pc, !.found = n, !.tries = 0])
    <3>1. CASE Become(p, [s EXCEPT !.pc = "compare", !.found = 0, !.tries = 0])
      BY <3>1
    <3>2. CASE \E n \in Matches(t, s.cur) :
                  Become(p, [s EXCEPT !.pc = "fill", !.found = n, !.tries = 0])
      <4>1. Matches(t, s.cur) \subseteq Nat
        BY DEF Matches, Names, TypeInv, TypeOK, FrappeTypeOK
      <4> QED
        BY <3>2, <4>1
    <3> QED
      BY <1>6, <3>1, <3>2 DEF Get
  <2> QED
    BY <1>6, <1>b, <2>1, QuietType DEF Get
<1>7. CASE Compare(p)
  <2>1. PICK u \in LocalState : Become(p, u)
    BY <1>7, <1>a, ReturnedType DEF Compare
  <2> QED
    BY <1>7, <2>1, QuietType DEF Compare
<1>8. CASE Fill(p) \/ Remember(p)
  <2>1. PICK h \in Nat : UpsertCache(t, s.cur, s.found, h)
    BY <1>8 DEF Fill, Remember, HashOfFound
  <2>2. cache' \in [Target -> [Record -> CacheRow]]
    BY <2>1, UpsertCacheType DEF TypeInv, TypeOK
  <2>3. PICK u \in LocalState : Become(p, u)
    BY <1>8, <1>a, ReturnedType DEF Fill, Remember
  <2> QED
    BY <1>8, <2>2, <2>3, BecomeType
    DEF Fill, Remember, TypeInv, TypeOK, Outside, TallyTypeOK, FrappeTypeOK, StoreTypeOK
<1>9. CASE Enqueue(p)
  <2>1. queue' \in [Record -> Row] /\ nextId' \in Nat \ {0}
    BY <1>9, EnqueueRetryType DEF Enqueue, TypeInv, TypeOK
  <2>2. Without(s, s.cur) \in LocalState
    BY <1>9, WithoutType DEF Enqueue
  <2> QED
    BY <1>9, <2>1, <2>2, BecomeType
    DEF Enqueue, TypeInv, TypeOK, Outside, TallyTypeOK, FrappeTypeOK, StoreTypeOK
<1>10. CASE Missing(p) \/ Rejected(p)
  BY <1>10, <1>a, QuietType DEF Missing, Rejected
<1>11. CASE Unreachable(p)
  BY <1>11, UnansweredType, QuietType DEF Unreachable
<1>12. CASE Acknowledged(p) \/ AckLost(p)
  <2>1. FrappeTypeOK'
    BY <1>12, CreateDocType, UpdateDocType
    DEF Acknowledged, AckLost, Effect, Live, TypeInv, TypeOK
  <2>2. acked' \in [Target -> [Record -> Nat]]
    <3>1. acked \in [Target -> [Record -> Nat]]
      BY DEF TypeInv, TypeOK
    <3>2. CASE Acknowledged(p)
      BY <3>1, <3>2 DEF Acknowledged
    <3>3. CASE AckLost(p)
      BY <3>1, <3>3 DEF AckLost
    <3> QED
      BY <1>12, <3>2, <3>3
  <2>3. PICK u \in LocalState : Become(p, u)
    <3>1. CASE Acknowledged(p)
      <4> DEFINE name == IF s.pc = "post" THEN Len(docs[t]) + 1 ELSE s.found
      <4>1. name \in Nat
        BY DEF TypeInv, TypeOK, FrappeTypeOK
      <4>2. [s EXCEPT !.pc = "remember", !.found = name] \in LocalState
        <5>1. s.pc \in {"put", "post"}
          BY <3>1 DEF Acknowledged, Effect
        <5> HIDE DEF name
        <5> QED
          BY <4>1, <5>1 DEF LocalState, ProcState, Control, Retrying
      <4> QED
        BY <3>1, <4>2 DEF Acknowledged
    <3>2. CASE AckLost(p)
      BY <3>2, UnansweredType DEF AckLost, Effect
    <3> QED
      BY <1>12, <3>1, <3>2
  <2> QED
    BY <1>12, <2>1, <2>2, <2>3, BecomeType
    DEF Acknowledged, AckLost, TypeInv, TypeOK, Outside, storeVars, TallyTypeOK, StoreTypeOK
<1> QED
  BY <1>1, <1>2, <1>3, <1>4, <1>5, <1>6, <1>7, <1>8, <1>9, <1>10, <1>11, <1>12

\* What users and time do keeps the types.
LEMMA OutsideStepType ==
    ASSUME TypeInv, UserEdits \/ UserDeletes \/ \E r \in Record : TimePasses(r)
    PROVE  TypeInv'
<1>1. CASE UserEdits
  <2>1. TallyTypeOK'
    BY <1>1 DEF UserEdits, Edit, TypeInv, TypeOK, TallyTypeOK
  <2> QED
    BY <1>1, <2>1 DEF UserEdits, TypeInv, TypeOK, FrappeTypeOK, StoreTypeOK, storeVars
<1>2. CASE UserDeletes
  <2>1. FrappeTypeOK'
    BY <1>2, DeleteDocType DEF UserDeletes, TypeInv, TypeOK
  <2> QED
    BY <1>2, <2>1, FaultsType
    DEF UserDeletes, TypeInv, TypeOK, TallyTypeOK, StoreTypeOK, tallyVars, storeVars
<1>3. CASE \E r \in Record : TimePasses(r)
  <2>1. queue' \in [Record -> Row]
    BY <1>3, BackoffElapsesType DEF TimePasses, TypeInv, TypeOK
  <2> QED
    BY <1>3, <2>1
    DEF TimePasses, TypeInv, TypeOK, TallyTypeOK, FrappeTypeOK, StoreTypeOK, tallyVars
<1> QED
  BY <1>1, <1>2, <1>3

LEMMA NextType == TypeInv /\ [Next]_vars => TypeInv'
<1> SUFFICES ASSUME TypeInv, [Next]_vars PROVE TypeInv'
  OBVIOUS
<1>1. CASE \E p \in Proc : Step(p) \/ Fault(p)
  BY <1>1, JobStepType, PushStepType DEF Step, Fault
<1>2. CASE UserEdits \/ UserDeletes \/ \E r \in Record : TimePasses(r)
  BY <1>2, OutsideStepType
<1>3. CASE UNCHANGED vars
  BY <1>3 DEF vars, TypeInv, TypeOK, TallyTypeOK, FrappeTypeOK, StoreTypeOK
<1> QED
  BY <1>1, <1>2, <1>3 DEF Next

\* The type invariant of SyncEngine, with what Head and Tail of the entities left
\* rest on.
THEOREM TypeInvariant == Spec => []TypeInv
BY InitType, NextType, PTL DEF Spec

\* The type invariant of SyncEngine: every process, the store and the sites hold
\* values of their types, and no AlterID is above the last one handed out.
THEOREM TypeCorrect == Spec => []TypeOK
<1>1. TypeInv => TypeOK
  BY DEF TypeInv
<1> QED
  BY <1>1, TypeInvariant, PTL


-----------------------------------------------------------------------------
(* No push overwrites another record's document.                            *)

\* n is no name, or on the sites d it names a document of r on site t.
Own(d, t, r, n) == n # 0 => n \in 1 .. Len(d[t]) /\ d[t][n].rec = r

\* The lookup of process p has an outcome that is still in use.
LookedUp(s) == s.pc \in {"fill", "compare", "put", "post", "remember"}

\* What makes NoForeignOverwrite inductive: not only the cache but also every
\* process's existing_name names a document of the record it was looked up for,
\* on the site the process is configured with.
OwnInv ==
    /\ TypeInv
    /\ \A t \in Target, r \in Record : Own(docs, t, r, cache[t][r].name)
    /\ \A p \in Proc : LookedUp(proc[p]) => Own(docs, target[p], proc[p].cur, proc[p].found)

\* The documents there are keep their names and their records.
Kept ==
    \A t \in Target : \A n \in 1 .. Len(docs[t]) :
        n \in 1 .. Len(docs'[t]) /\ docs'[t][n].rec = docs[t][n].rec

LEMMA OwnKept ==
    ASSUME Kept, NEW t \in Target, NEW r \in Record, NEW n, Own(docs, t, r, n)
    PROVE  Own(docs', t, r, n)
BY DEF Kept, Own

LEMMA CreateKeeps ==
    ASSUME FrappeTypeOK, NEW t \in Target, NEW r \in Record, NEW v \in Nat,
           CreateDoc(t, r, v)
    PROVE  Kept /\ Own(docs', t, r, Len(docs[t]) + 1)
<1> DEFINE d == [rec |-> r, ver |-> v, live |-> TRUE]
<1>1. docs[t] \in Seq(Document) /\ d \in Document
  BY DEF FrappeTypeOK, Document
<1>2. docs' = [docs EXCEPT ![t] = Append(docs[t], d)]
  BY DEF CreateDoc
<1>3. /\ Len(Append(docs[t], d)) = Len(docs[t]) + 1
      /\ Append(docs[t], d)[Len(docs[t]) + 1] = d
      /\ \A n \in 1 .. Len(docs[t]) : Append(docs[t], d)[n] = docs[t][n]
  BY <1>1
<1>4. docs'[t] = Append(docs[t], d) /\ \A u \in Target \ {t} : docs'[u] = docs[u]
  BY <1>2 DEF FrappeTypeOK
<1>5. Len(docs[t]) \in Nat
  BY <1>1
<1> QED
  BY <1>3, <1>4, <1>5 DEF Kept, Own

LEMMA UpdateKeeps ==
    ASSUME FrappeTypeOK, NEW t \in Target, NEW n \in Names(t), NEW r \in Record,
           NEW v \in Nat, UpdateDoc(t, n, r, v), docs[t][n].rec = r
    PROVE  Kept
BY DEF FrappeTypeOK, UpdateDoc, Kept, Names

LEMMA DeleteKeeps ==
    ASSUME FrappeTypeOK, NEW t \in Target, NEW n \in Names(t), DeleteDoc(t, n)
    PROVE  Kept
<1>1. docs[t][n] \in Document
  BY DEF FrappeTypeOK, Names
<1>2. [docs[t][n] EXCEPT !.live = FALSE].rec = docs[t][n].rec
  BY <1>1 DEF Document
<1> QED
  BY <1>2 DEF FrappeTypeOK, DeleteDoc, Kept, Names

\* The effect of a request keeps every document's record: a PUT goes to the name
\* that was looked up.
LEMMA EffectKeeps ==
    ASSUME OwnInv, NEW p \in Proc, Effect(p)
    PROVE  Kept
<1>1. CASE proc[p].pc = "post"
  BY <1>1, ProcStateType, CreateKeeps DEF OwnInv, Effect, TypeInv, TypeOK
<1>2. CASE proc[p].pc = "put"
  <2>1. proc[p].found \in Names(target[p])
    BY <1>2 DEF Effect, Live
  <2>2. docs[target[p]][proc[p].found].rec = proc[p].cur
    BY <1>2, <2>1 DEF OwnInv, LookedUp, Own, Names
  <2> QED
    BY <1>2, <2>1, <2>2, ProcStateType, UpdateKeeps DEF OwnInv, Effect, TypeInv, TypeOK
<1> QED
  BY <1>1, <1>2 DEF Effect

\* A POST adds a document, a PUT replaces one; the others are as they were.
LEMMA EffectWrites ==
    ASSUME OwnInv, NEW p \in Proc, Effect(p)
    PROVE  LET s == proc[p]
               t == target[p]
               name == IF s.pc = "post" THEN Len(docs[t]) + 1 ELSE s.found
           IN  /\ \A v \in Target \ {t} : docs'[v] = docs[v]
               /\ name # 0 /\ name \in 1 .. Len(docs'[t])
               /\ docs'[t][name] = [rec |-> s.cur, ver |-> Version(s), live |-> TRUE]
               /\ \A n \in Names(t) : n \in 1 .. Len(docs'[t])
               /\ \A n \in 1 .. Len(docs'[t]) : n # name => n \in Names(t)
               /\ \A n \in Names(t) : n # name => docs'[t][n] = docs[t][n]
               /\ name \in Names(t) => docs[t][name].rec = s.cur
<1> DEFINE s == proc[p]
           t == target[p]
           name == IF s.pc = "post" THEN Len(docs[t]) + 1 ELSE s.found
           d == [rec |-> s.cur, ver |-> Version(s), live |-> TRUE]
<1>1. t \in Target /\ docs \in [Target -> Seq(Document)] /\ docs[t] \in Seq(Document)
  BY ProcStateType DEF OwnInv, TypeInv, TypeOK, FrappeTypeOK
<1>2. Len(docs[t]) \in Nat
  BY <1>1
<1>3. d \in Document
  BY ProcStateType DEF OwnInv, Document, Version, ProcState, Item
<1>4. CASE s.pc = "post"
  <2>1. docs' = [docs EXCEPT ![t] = Append(docs[t], d)]
    BY <1>4 DEF Effect, CreateDoc
  <2>2. docs'[t] = Append(docs[t], d) /\ \A v \in Target \ {t} : docs'[v] = docs[v]
    BY <1>1, <2>1
  <2> HIDE DEF d
  <2>3. /\ Len(Append(docs[t], d)) = Len(docs[t]) + 1
        /\ Append(docs[t], d)[Len(docs[t]) + 1] = d
        /\ \A n \in 1 .. Len(docs[t]) : Append(docs[t], d)[n] = docs[t][n]
    BY <1>1, <1>3
  <2>4. name = Len(docs[t]) + 1
    BY <1>4
  <2> QED
    BY <1>2, <2>2, <2>3, <2>4 DEF Names, d
<1>5. CASE s.pc = "put"
  <2>1. s.found \in Names(t) /\ docs' = [docs EXCEPT ![t][s.found] = d]
    BY <1>5 DEF Effect, Live, UpdateDoc
  <2>2. name = s.found
    BY <1>5
  <2>3. docs[t][s.found].rec = s.cur
    BY <1>5, <2>1 DEF OwnInv, LookedUp, Own, Names
  <2> HIDE DEF d
  <2>4. /\ docs'[t] = [docs[t] EXCEPT ![s.found] = d]
        /\ \A v \in Target \ {t} : docs'[v] = docs[v]
    BY <1>1, <2>1
  <2>5. Len(docs'[t]) = Len(docs[t]) /\ docs'[t][s.found] = d
    BY <1>1, <1>3, <2>1, <2>4 DEF Names
  <2>6. \A n \in Names(t) : n # s.found => docs'[t][n] = docs[t][n]
    BY <1>1, <2>4 DEF Names
  <2> QED
    BY <1>2, <2>1, <2>2, <2>3, <2>4, <2>5, <2>6 DEF Names, d
<1> QED
  BY <1>4, <1>5 DEF Effect

\* What a process may touch: a document by a request, the queue by four steps.
LEMMA ProcessTouches ==
    ASSUME NEW p \in Proc, Step(p) \/ Fault(p)
    PROVE  /\ UNCHANGED tallyVars
           /\ UNCHANGED docs \/ Effect(p)
           /\ UNCHANGED queue \/ DropRow(p) \/ Resolve(p) \/ Enqueue(p) \/ Reschedule(p)
<1>1. CASE RunSync(p) \/ ResyncEntity(p) \/ ProcessRetryQueue(p) \/ Restart(p) \/ Crash(p)
  BY <1>1 DEF RunSync, ResyncEntity, ProcessRetryQueue, Restart, Crash, tallyVars, storeVars,
              Outside
<1>2. CASE BeginEntity(p) \/ EndSync(p) \/ Fetch(p) \/ SkipRecord(p) \/ Save(p) \/ FetchFails(p)
  BY <1>2 DEF BeginEntity, EndSync, Fetch, SkipRecord, Save, FetchFails, tallyVars, storeVars,
              Outside
<1>3. CASE Dequeue(p) \/ UnknownEntity(p) \/ EndRetries(p) \/ SwitchTarget(p)
  BY <1>3 DEF Dequeue, UnknownEntity, EndRetries, SwitchTarget, tallyVars, storeVars, Outside
<1>4. CASE BeginPush(p) \/ Get(p) \/ Fill(p) \/ Compare(p) \/ Remember(p)
  BY <1>4 DEF BeginPush, Get, Fill, Compare, Remember, tallyVars, storeVars, Outside
<1>5. CASE Acknowledged(p) \/ AckLost(p) \/ Unreachable(p) \/ Rejected(p) \/ Missing(p)
  BY <1>5 DEF Acknowledged, AckLost, Unreachable, Rejected, Missing, tallyVars, storeVars,
              Outside
<1>6. CASE DropRow(p) \/ Resolve(p) \/ Enqueue(p) \/ Reschedule(p)
  BY <1>6 DEF DropRow, Resolve, Enqueue, Reschedule, tallyVars, Outside
<1> QED
  BY <1>1, <1>2, <1>3, <1>4, <1>5, <1>6 DEF Step, Fault

\* Only requests and users change documents.
LEMMA DocsMove ==
    ASSUME [Next]_vars
    PROVE  UNCHANGED docs \/ (\E p \in Proc : Effect(p)) \/ UserDeletes
<1>1. CASE \E p \in Proc : Step(p) \/ Fault(p)
  BY <1>1, ProcessTouches
<1>2. CASE UserEdits \/ (\E r \in Record : TimePasses(r)) \/ UNCHANGED vars
  BY <1>2 DEF UserEdits, TimePasses, vars
<1> QED
  BY <1>1, <1>2 DEF Next

LEMMA NextKeeps ==
    ASSUME OwnInv, [Next]_vars
    PROVE  Kept
<1>1. CASE UNCHANGED docs
  BY <1>1 DEF Kept
<1>2. CASE \E p \in Proc : Effect(p)
  BY <1>2, EffectKeeps
<1>3. CASE UserDeletes
  BY <1>3, DeleteKeeps DEF UserDeletes, OwnInv, TypeInv, TypeOK
<1> QED
  BY <1>1, <1>2, <1>3, DocsMove


\* The frame: process p becomes s, and the cache names what it named or what s
\* was looked up to.
LEMMA OwnFrame ==
    ASSUME OwnInv, [Next]_vars, NEW p \in Proc, NEW s \in LocalState, Become(p, s),
           target' = target,
           \A t \in Target, r \in Record : Own(docs', t, r, cache'[t][r].name),
           LookedUp(s) => Own(docs', target[p], s.cur, s.found)
    PROVE  OwnInv'
<1>1. TypeInv' /\ Kept
  BY NextType, NextKeeps DEF OwnInv
<1>2. ASSUME NEW q \in Proc, LookedUp(proc'[q])
      PROVE  Own(docs', target'[q], proc'[q].cur, proc'[q].found)
  <2>1. CASE q = p
    BY <1>2, <2>1 DEF Become, OwnInv, TypeInv
  <2>2. CASE q # p
    <3>1. proc'[q] = proc[q]
      BY <2>2 DEF Become, OwnInv, TypeInv
    <3>2. target[q] \in Target /\ proc[q].cur \in Record
      BY ProcStateType DEF OwnInv
    <3>3. Own(docs, target[q], proc[q].cur, proc[q].found)
      BY <1>2, <3>1 DEF OwnInv
    <3> QED
      BY <1>1, <3>1, <3>2, <3>3, OwnKept
  <2> QED
    BY <2>1, <2>2
<1> QED
  BY <1>1, <1>2 DEF OwnInv, LookedUp

\* A step that leaves the cache alone and looks nothing up.
LEMMA OwnQuiet ==
    ASSUME OwnInv, [Next]_vars, NEW p \in Proc, NEW s \in LocalState, Become(p, s),
           target' = target, cache' = cache,
           LookedUp(s) => /\ LookedUp(proc[p])
                          /\ s.cur = proc[p].cur /\ s.found = proc[p].found
    PROVE  OwnInv'
<1>1. Kept
  BY NextKeeps
<1>2. \A t \in Target, r \in Record : Own(docs', t, r, cache'[t][r].name)
  BY <1>1, OwnKept DEF OwnInv
<1>3. target[p] \in Target /\ proc[p].cur \in Record
  BY ProcStateType DEF OwnInv
<1>4. LookedUp(s) => Own(docs', target[p], s.cur, s.found)
  BY <1>1, <1>3, OwnKept DEF OwnInv
<1> QED
  BY <1>2, <1>4, OwnFrame

\* These steps begin no push and end every lookup.
LEMMA JobStepLooksUpNothing ==
    ASSUME TypeInv, NEW p \in Proc,
           \/ RunSync(p) \/ ResyncEntity(p) \/ ProcessRetryQueue(p) \/ Restart(p)
           \/ BeginEntity(p) \/ EndSync(p) \/ Fetch(p) \/ SkipRecord(p) \/ Save(p)
           \/ FetchFails(p) \/ Crash(p)
           \/ Dequeue(p) \/ UnknownEntity(p) \/ DropRow(p) \/ EndRetries(p)
           \/ Resolve(p) \/ Enqueue(p) \/ Reschedule(p)
    PROVE  /\ proc'[p].pc \notin {"fill", "compare", "put", "post", "remember"}
           /\ Become(p, proc'[p]) /\ target' = target /\ cache' = cache
<1>0. proc[p] \in LocalState /\ proc[p] \in ProcState
  BY ProcStateType
<1> USE <1>0 DEF Outside, storeVars, Become, TypeInv
<1>1. CASE RunSync(p)
  <2>1. PICK kind : proc'[p] = [AtRest("entity") EXCEPT !.job = kind, !.left = Order,
                                                      !.scope = Record]
    BY <1>1 DEF RunSync
  <2>2. proc'[p].pc = "entity"
    BY <2>1 DEF AtRest
  <2> QED
    BY <1>1, <2>2 DEF RunSync
<1>2. CASE ResyncEntity(p)
  <2>1. PICK kind, e, scope :
            Become(p, [AtRest("entity") EXCEPT !.job = kind, !.left = <<e>>,
                                               !.scope = scope])
    BY <1>2, Zenon DEF ResyncEntity
  <2>2. proc'[p].pc = "entity"
    BY <2>1, AtRestType DEF AtRest
  <2> QED
    BY <1>2, <2>2 DEF ResyncEntity
<1>3. CASE ProcessRetryQueue(p) \/ Restart(p) \/ Crash(p) \/ EndSync(p)
  BY <1>3 DEF ProcessRetryQueue, Restart, Crash, EndSync, AtRest
<1>4. CASE BeginEntity(p) \/ Fetch(p) \/ Save(p) \/ FetchFails(p)
  <2>1. CASE BeginEntity(p)
    <3>1. PICK h : proc'[p] = [proc[p] EXCEPT !.pc = "fetch", !.high = h]
      BY <2>1 DEF BeginEntity
    <3> QED
      BY <2>1, <3>1 DEF BeginEntity, ProcState
  <2>2. CASE Fetch(p)
    <3>1. PICK w : proc'[p] = [proc[p] EXCEPT !.pc = "each", !.work = w]
      BY <2>2 DEF Fetch
    <3> QED
      BY <2>2, <3>1 DEF Fetch, ProcState
  <2>3. CASE Save(p) \/ FetchFails(p)
    <3>1. PICK l : proc'[p] = [proc[p] EXCEPT !.pc = "entity", !.left = l]
      BY <2>3 DEF Save, FetchFails
    <3> QED
      BY <2>3, <3>1 DEF Save, FetchFails, ProcState
  <2> QED
    BY <1>4, <2>1, <2>2, <2>3
<1>5. CASE SkipRecord(p)
  BY <1>5 DEF SkipRecord, Without, LocalState, ProcState
<1>6. CASE Dequeue(p)
  BY <1>6 DEF Dequeue, AtRest
<1>7. CASE UnknownEntity(p) \/ EndRetries(p)
  BY <1>7 DEF UnknownEntity, EndRetries, AtRest
<1>8. CASE DropRow(p) \/ Resolve(p) \/ Enqueue(p) \/ Reschedule(p)
  <2>1. PICK r \in Record : proc'[p] = Without(proc[p], r)
    BY <1>8 DEF DropRow, Resolve, Enqueue, Reschedule, NextUp, Pending, ProcState
  <2>2. proc'[p].pc = "each"
    BY <1>8, <2>1, WithoutType DEF DropRow, Resolve, Enqueue, Reschedule
  <2> QED
    BY <1>8, <2>2 DEF DropRow, Resolve, Enqueue, Reschedule
<1> QED
  BY <1>1, <1>2, <1>3, <1>4, <1>5, <1>6, <1>7, <1>8

LEMMA OwnJobStep ==
    ASSUME OwnInv, [Next]_vars, NEW p \in Proc,
           \/ RunSync(p) \/ ResyncEntity(p) \/ ProcessRetryQueue(p) \/ Restart(p)
           \/ BeginEntity(p) \/ EndSync(p) \/ Fetch(p) \/ SkipRecord(p) \/ Save(p)
           \/ FetchFails(p) \/ Crash(p)
           \/ Dequeue(p) \/ UnknownEntity(p) \/ DropRow(p) \/ EndRetries(p)
           \/ Resolve(p) \/ Enqueue(p) \/ Reschedule(p)
    PROVE  OwnInv'
<1>1. proc' \in [Proc -> LocalState]
  BY NextType DEF OwnInv, TypeInv
<1>2. /\ proc'[p].pc \notin {"fill", "compare", "put", "post", "remember"}
      /\ Become(p, proc'[p]) /\ target' = target /\ cache' = cache
  BY JobStepLooksUpNothing DEF OwnInv
<1> QED
  BY <1>1, <1>2, OwnQuiet DEF LookedUp

LEMMA OwnPushStep ==
    ASSUME OwnInv, [Next]_vars, NEW p \in Proc,
           \/ BeginPush(p) \/ Get(p) \/ Fill(p) \/ Compare(p) \/ Acknowledged(p)
           \/ Missing(p) \/ Remember(p) \/ AckLost(p) \/ Unreachable(p) \/ Rejected(p)
    PROVE  OwnInv'
<1> DEFINE s == proc[p]
           t == target[p]
           u == proc'[p]
<1>1. u \in LocalState /\ Kept
  BY NextType, NextKeeps DEF OwnInv, TypeInv
<1>2. /\ s \in LocalState /\ s \in ProcState /\ t \in Target /\ s.cur \in Record
  BY ProcStateType DEF OwnInv
<1>3. \A r \in Record : Own(docs', t, r, cache[t][r].name)
  BY <1>1, <1>2, OwnKept DEF OwnInv
<1> USE DEF OwnInv, TypeInv
<1>4. CASE BeginPush(p)
  <2>1. PICK r \in Record :
            u.cur = r /\ u.found = cache[t][r].name
    <3>1. PICK r \in Record :
              LET name == cache[t][r].name
              IN  u = [s EXCEPT !.pc = AfterLookup(name),
                                !.high = IF Retrying(s) THEN s.high ELSE Raised(s, r),
                                !.cur = r, !.found = name, !.tries = 0]
      BY <1>4 DEF BeginPush, Become, NextUp, Pending
    <3> QED
      BY <1>2, <3>1 DEF ProcState
  <2>2. Own(docs', t, u.cur, u.found)
    BY <1>3, <2>1
  <2> QED
    BY <1>1, <1>2, <1>4, <2>2, OwnKept, OwnFrame DEF BeginPush, Become, Outside, storeVars
<1>5. CASE Get(p)
  <2>1. PICK pc, n :
            /\ u = [s EXCEPT !.pc = pc, !.found = n, !.tries = 0]
            /\ n = 0 \/ n \in Matches(t, s.cur)
    BY <1>5 DEF Get, Become
  <2>2. u.cur = s.cur /\ u.found = n
    BY <1>2, <2>1 DEF ProcState
  <2>3. Own(docs, t, u.cur, u.found)
    BY <2>1, <2>2 DEF Matches, Names, Own
  <2>4. Own(docs', t, u.cur, u.found)
    BY <1>1, <1>2, <2>2, <2>3, OwnKept
  <2> QED
    BY <1>1, <1>2, <1>5, <2>4, OwnKept, OwnFrame DEF Get, Become, Outside, storeVars
<1>6. CASE Fill(p) \/ Remember(p)
  <2>1. Own(docs', t, s.cur, s.found)
    BY <1>1, <1>2, <1>6, OwnKept DEF Fill, Remember, LookedUp
  <2>2. PICK h : UpsertCache(t, s.cur, s.found, h)
    BY <1>6 DEF Fill, Remember
  <2>3. \A v \in Target, r \in Record : Own(docs', v, r, cache'[v][r].name)
    BY <1>1, <1>2, <2>1, <2>2, OwnKept DEF UpsertCache, TypeOK, StoreTypeOK
  <2>4. LookedUp(u) => u.cur = s.cur /\ u.found = s.found
    <3>1. CASE u = [s EXCEPT !.pc = "compare"]
      BY <1>2, <3>1 DEF ProcState
    <3>2. CASE u = Returned(s)
      BY <1>2, <1>6, <3>2, WithoutType DEF Fill, Remember, Returned, LookedUp, ProcState
    <3> QED
      BY <1>6, <3>1, <3>2 DEF Fill, Remember, Become
  <2> QED
    BY <1>1, <1>2, <1>6, <2>1, <2>3, <2>4, OwnFrame DEF Fill, Remember, Become, Outside
<1>7. CASE Compare(p)
  <2>1. LookedUp(u) => u.cur = s.cur /\ u.found = s.found
    BY <1>2, <1>7 DEF Compare, Become, Returned, Without, LookedUp, LocalState, ProcState
  <2> QED
    BY <1>1, <1>7, <2>1, OwnQuiet DEF Compare, Become, Outside, storeVars, LookedUp
<1>8. CASE Missing(p) \/ Rejected(p)
  <2>1. ~LookedUp(u)
    BY <1>2, <1>8 DEF Missing, Rejected, Become, LookedUp, LocalState, ProcState
  <2> QED
    BY <1>1, <1>8, <2>1, OwnQuiet DEF Missing, Rejected, Become, Outside, storeVars
<1>9. CASE AckLost(p) \/ Unreachable(p)
  <2>1. LookedUp(u) => LookedUp(s) /\ u.cur = s.cur /\ u.found = s.found
    BY <1>2, <1>9
    DEF AckLost, Unreachable, Effect, Become, Unanswered, LookedUp, LocalState, ProcState
  <2> QED
    BY <1>1, <1>9, <2>1, OwnQuiet DEF AckLost, Unreachable, Become, Outside, storeVars
<1>10. CASE Acknowledged(p)
  <2>1. u.cur = s.cur /\ u.found = IF s.pc = "post" THEN Len(docs[t]) + 1 ELSE s.found
    BY <1>2, <1>10 DEF Acknowledged, Become, LocalState, ProcState
  <2>2. Own(docs', t, u.cur, u.found)
    <3>1. CASE s.pc = "post"
      BY <1>2, <1>10, <2>1, <3>1, CreateKeeps, ProcStateType DEF Acknowledged, Effect, TypeOK
    <3>2. CASE s.pc = "put"
      BY <1>1, <1>2, <2>1, <3>2, OwnKept DEF LookedUp
    <3> QED
      BY <1>10, <3>1, <3>2 DEF Acknowledged, Effect
  <2> QED
    BY <1>1, <1>2, <1>10, <2>2, OwnKept, OwnFrame DEF Acknowledged, Become, Outside, storeVars
<1> QED
  BY <1>4, <1>5, <1>6, <1>7, <1>8, <1>9, <1>10

LEMMA NextOwn == OwnInv /\ [Next]_vars => OwnInv'
<1> SUFFICES ASSUME OwnInv, [Next]_vars PROVE OwnInv'
  OBVIOUS
<1>1. TypeInv' /\ Kept
  BY NextType, NextKeeps DEF OwnInv
<1>2. CASE \E p \in Proc : SwitchTarget(p)
  <2>1. PICK p \in Proc : SwitchTarget(p)
    BY <1>2
  <2>2. proc' = proc /\ cache' = cache /\ proc[p].pc = "idle"
    BY <2>1 DEF SwitchTarget, storeVars
  <2>3. \A q \in Proc \ {p} : target'[q] = target[q]
    BY <2>1 DEF SwitchTarget, OwnInv, TypeInv, TypeOK
  <2>4. \A q \in Proc : LookedUp(proc'[q])
            => Own(docs', target'[q], proc'[q].cur, proc'[q].found)
    BY <1>1, <2>2, <2>3, ProcStateType, OwnKept DEF LookedUp, OwnInv
  <2>5. \A t \in Target, r \in Record : Own(docs', t, r, cache'[t][r].name)
    BY <1>1, <2>2, OwnKept DEF OwnInv
  <2> QED
    BY <1>1, <2>4, <2>5 DEF OwnInv, LookedUp
<1>3. CASE UserEdits \/ UserDeletes \/ (\E r \in Record : TimePasses(r)) \/ UNCHANGED vars
  <2>1. proc' = proc /\ cache' = cache /\ target' = target
    BY <1>3 DEF UserEdits, UserDeletes, TimePasses, vars, storeVars
  <2>2. \A q \in Proc : LookedUp(proc'[q])
            => Own(docs', target'[q], proc'[q].cur, proc'[q].found)
    BY <1>1, <2>1, ProcStateType, OwnKept DEF OwnInv
  <2>3. \A t \in Target, r \in Record : Own(docs', t, r, cache'[t][r].name)
    BY <1>1, <2>1, OwnKept DEF OwnInv
  <2> QED
    BY <1>1, <2>2, <2>3 DEF OwnInv, LookedUp
<1> QED
  BY <1>2, <1>3, OwnJobStep, OwnPushStep DEF Next, Step, Fault

LEMMA InitOwn == Init => OwnInv
BY InitType DEF Init, StoreInit, NoCacheRow, OwnInv, Own, LookedUp, AtRest

\* The cache, and every lookup in use, names documents of the record it is for.
THEOREM OwnInvariant == Spec => []OwnInv
BY InitOwn, NextOwn, PTL DEF Spec

\* The cache only ever names a document of its own record, on its own site
\* (upsert_cache's key with frappe_base_url, find_existing's filter).
THEOREM CacheIsOwn == Spec => []CacheNamesOwnDocument
<1>1. OwnInv => CacheNamesOwnDocument
  BY DEF OwnInv, Own, CacheNamesOwnDocument, Names
<1> QED
  BY <1>1, OwnInvariant, PTL

\* No push ever turns one record's document into another's, with any number of
\* processes, sites, lost answers, deletions, crashes and changes of site.
THEOREM PushesStayOwn == Spec => NoForeignOverwrite
<1>1. OwnInv /\ [Next]_vars
        => [\A t \in Target : \A n \in Names(t) : docs'[t][n].rec = docs[t][n].rec]_vars
  BY NextKeeps DEF Kept, Names
<1> QED
  BY <1>1, OwnInvariant, PTL DEF Spec, NoForeignOverwrite

=============================================================================
