------------------------ MODULE SyncRefinementProofs ------------------------
(***************************************************************************)
(* The sync engine implements Mirror, while no push fails, and its queue   *)
(* implements RowQueue, whatever fails: proofs for TLAPS.                  *)
(***************************************************************************)
EXTENDS NothingLostProofs

-----------------------------------------------------------------------------
(* Mirror                                                                   *)

\* What the theorems are for: one process on one site that starts without rows,
\* whose pushes are answered and whose documents nobody deletes.  Tally may fail to
\* answer, users may edit and the process may die, at any point and any number of
\* times.
Unfailing ==
    /\ Alone
    /\ LegacyQueue = <<>>
    /\ Faults \cap {"lost_ack", "unreachable", "rejected", "delete"} = {}

\* What the sites hold is what they have confirmed, and the cache knows no more.
SitesInv ==
    /\ \A r \in Record : queue[r] = NoRow
    /\ \A t \in Target : \A n \in Names(t) :
           docs[t][n].live /\ docs[t][n].ver \in 1 .. acked[t][docs[t][n].rec]
    /\ \A t \in Target, r \in Record :
           /\ acked[t][r] <= tally[r]
           /\ acked[t][r] # 0 =>
                  \E n \in Names(t) : docs[t][n].rec = r /\ docs[t][n].ver = acked[t][r]
           /\ LET entry == cache[t][r]
              IN  entry.hash # 0 => entry.name # 0 /\ docs[t][entry.name].ver >= entry.hash

\* What a process has at hand is not older than what its site holds, and its
\* drains find nothing.
PusherInv(p) ==
    LET s == proc[p]
        t == target[p]
    IN  /\ s.pc \notin {"failed", "resolve"}
        /\ Retrying(s) => \A r \in Record : s.work[r].ver = 0
        /\ \A r \in Record : s.work[r].ver # 0 => acked[t][r] <= s.work[r].ver
        /\ s.pc \in {"put", "remember"} => s.found # 0
        /\ s.pc = "remember" => docs[t][s.found].ver >= s.work[s.cur].ver

MirrorInv ==
    /\ Unfailing /\ LossInv /\ OwnInv /\ SitesInv
    /\ \A p \in Proc : PusherInv(p)

LEMMA InitMirror == Init /\ Unfailing => MirrorInv
<1> SUFFICES ASSUME Init, Unfailing PROVE MirrorInv
  OBVIOUS
<1>1. LossInv /\ OwnInv
  BY InitLoss, InitOwn DEF Unfailing
<1>2. \A r \in Record : queue[r] = NoRow /\ tally[r] = 0
  BY DEF Init, StoreInit, LegacyRow, Unfailing, NoRow
<1>3. \A t \in Target : Names(t) = {}
  BY DEF Init, Names
<1>4. SitesInv
  BY <1>2, <1>3 DEF Init, StoreInit, NoCacheRow, SitesInv
<1>5. ASSUME NEW p \in Proc PROVE PusherInv(p)
  BY DEF Init, AtRest, NoWork, NoItem, PusherInv
<1> QED
  BY <1>1, <1>4, <1>5 DEF MirrorInv

LEMMA MirrorTypes ==
    ASSUME MirrorInv, NEW p \in Proc
    PROVE  /\ proc[p].found \in Nat /\ target[p] \in Target /\ proc[p].cur \in Record
           /\ \A r \in Record : tally[r] \in Nat /\ proc[p].work[r].ver \in Nat
           /\ \A t \in Target : docs[t] \in Seq(Document) /\ Len(docs[t]) \in Nat
           /\ \A t \in Target : \A n \in Names(t) : /\ docs[t][n].rec \in Record
                                                    /\ docs[t][n].ver \in Nat
           /\ \A t \in Target, r \in Record : /\ acked[t][r] \in Nat
                                              /\ cache[t][r] \in CacheRow
<1>1. LossInv /\ TypeInv
  BY DEF MirrorInv, LossInv
<1>2. \A t \in Target : docs[t] \in Seq(Document)
  BY <1>1 DEF TypeInv, TypeOK, FrappeTypeOK
<1>3. \A t \in Target : Len(docs[t]) \in Nat /\ \A n \in Names(t) : docs[t][n] \in Document
  BY <1>2 DEF Names
<1>4. \A t \in Target, r \in Record : cache[t][r] \in CacheRow
  BY <1>1 DEF TypeInv, TypeOK, StoreTypeOK
<1> QED
  BY <1>1, <1>2, <1>3, <1>4, LossTypes, ProcStateType DEF Document

\* A site's latest version of a record is the one it has confirmed.
LEMMA LatestIsConfirmed ==
    MirrorInv => \A t \in Target, r \in Record : Latest(t, r) = acked[t][r]
<1> SUFFICES ASSUME MirrorInv, NEW t \in Target, NEW r \in Record
             PROVE  Latest(t, r) = acked[t][r]
  OBVIOUS
<1> DEFINE held == {docs[t][n].ver : n \in Matches(t, r)}
<1>1. PICK p \in Proc : Proc = {p}
  BY DEF MirrorInv, LossInv, Alone
<1>2. acked[t][r] \in Nat
  BY <1>1, MirrorTypes
<1>3. \A v \in held : v \in 1 .. acked[t][r]
  BY DEF Matches, MirrorInv, SitesInv
<1>4. CASE acked[t][r] = 0
  <2>1. held = {}
    <3> HIDE DEF held
    <3> QED
      BY <1>3, <1>4
  <2> QED
    BY <1>4, <2>1 DEF Latest
<1>5. CASE acked[t][r] # 0
  <2>1. acked[t][r] \in held
    BY <1>5 DEF Matches, Live, MirrorInv, SitesInv
  <2> HIDE DEF held
  <2>2. \A v \in held : v \in Nat /\ v <= acked[t][r]
    BY <1>2, <1>3
  <2>3. \A v \in held : (\A w \in held : w <= v) <=> v = acked[t][r]
    BY <1>2, <2>1, <2>2
  <2>4. (CHOOSE v \in held : \A w \in held : w <= v) = acked[t][r]
    BY <2>1, <2>3
  <2> QED
    BY <2>1, <2>4 DEF Latest, held
<1> QED
  BY <1>4, <1>5

LEMMA TheOnlyPusher ==
    ASSUME MirrorInv, LossInv', OwnInv', NEW p \in Proc, SitesInv', PusherInv(p)'
    PROVE  MirrorInv'
<1>1. \A q \in Proc : q = p
  BY DEF MirrorInv, LossInv, Alone
<1>2. Unfailing'
  BY DEF MirrorInv, Unfailing, Alone
<1> QED
  BY <1>1, <1>2 DEF MirrorInv

-----------------------------------------------------------------------------

\* Neither the sites nor what the state file says of them changes.
Unseen == UNCHANGED <<tally, docs, queue, cache, acked, target>>

LEMMA SitesStay ==
    ASSUME MirrorInv, UNCHANGED <<docs, queue, cache, acked>>,
           \A r \in Record : tally[r] <= tally'[r] /\ tally'[r] \in Nat
    PROVE  SitesInv'
<1>1. PICK p \in Proc : Proc = {p}
  BY DEF MirrorInv, LossInv, Alone
<1>2. \A t \in Target, r \in Record : acked[t][r] <= tally'[r]
  BY <1>1, MirrorTypes DEF MirrorInv, SitesInv
<1> QED
  BY <1>2 DEF MirrorInv, SitesInv, Names

\* A process goes on without a word to a site or the state file.
LEMMA GoesOnUnseen ==
    ASSUME MirrorInv, LossInv', OwnInv', NEW p \in Proc, Unseen,
           proc'[p].pc \notin {"failed", "resolve", "remember"},
           \A r \in Record : proc'[p].work[r].ver # 0
                                 => acked[target[p]][r] <= proc'[p].work[r].ver,
           Retrying(proc'[p]) => \A r \in Record : proc'[p].work[r].ver = 0,
           proc'[p].pc = "put" => proc'[p].found # 0
    PROVE  MirrorInv'
<1>1. SitesInv'
  BY SitesStay, MirrorTypes DEF Unseen
<1>2. PusherInv(p)'
  BY DEF PusherInv, Unseen
<1> QED
  BY <1>1, <1>2, TheOnlyPusher

\* ... with some of what it had at hand.
LEMMA HandlesLess ==
    ASSUME MirrorInv, LossInv', OwnInv', NEW p \in Proc, Unseen,
           proc'[p].pc \notin {"failed", "resolve", "remember"},
           proc'[p].job = proc[p].job,
           \A r \in Record : proc'[p].work[r].ver \in {0, proc[p].work[r].ver},
           proc'[p].pc = "put" => proc'[p].found # 0
    PROVE  MirrorInv'
<1>1. \A r \in Record : /\ proc[p].work[r].ver # 0 => acked[target[p]][r] <= proc[p].work[r].ver
                        /\ Retrying(proc[p]) => proc[p].work[r].ver = 0
  BY DEF MirrorInv, PusherInv
<1>2. \A r \in Record : proc'[p].work[r].ver # 0
                            => acked[target[p]][r] <= proc'[p].work[r].ver
  BY <1>1
<1>3. Retrying(proc'[p]) => \A r \in Record : proc'[p].work[r].ver = 0
  BY <1>1 DEF Retrying
<1> QED
  BY <1>2, <1>3, GoesOnUnseen

\* A push is one of a sync: drains have nothing at hand.
LEMMA PushesOfSyncs ==
    ASSUME MirrorInv, NEW p \in Proc
    PROVE  /\ Pushing(proc[p]) => ~Retrying(proc[p])
           /\ Retrying(proc[p]) => NextUp(proc[p]) = {}
<1>1. proc[p].cur \in Record
  BY MirrorTypes
<1>2. Retrying(proc[p]) => \A r \in Record : proc[p].work[r].ver = 0
  BY DEF MirrorInv, PusherInv
<1>3. Pushing(proc[p]) => proc[p].work[proc[p].cur].ver # 0
  BY AtHand DEF MirrorInv
<1> QED
  BY <1>1, <1>2, <1>3 DEF NextUp, Pending

\* After a push that returned, the rest is at hand.
LEMMA ReturnedLess ==
    ASSUME MirrorInv, NEW p \in Proc, Pushing(proc[p])
    PROVE  /\ Returned(proc[p]).pc = "each" /\ Returned(proc[p]).job = proc[p].job
           /\ \A r \in Record : Returned(proc[p]).work[r].ver \in {0, proc[p].work[r].ver}
<1>1. proc[p] \in ProcState
  BY ProcStateType DEF MirrorInv, OwnInv
<1>2. Returned(proc[p]) = Without(proc[p], proc[p].cur)
  BY PushesOfSyncs DEF Returned
<1> QED
  BY <1>1, <1>2 DEF Without, NoItem, ProcState

\* What the hypothesis rules out, and what then cannot come about.
LEMMA NothingFails ==
    ASSUME MirrorInv, NEW p \in Proc
    PROVE  ~ \/ AckLost(p) \/ Unreachable(p) \/ Rejected(p) \/ SwitchTarget(p)
             \/ Missing(p) \/ DropRow(p) \/ Resolve(p) \/ Enqueue(p) \/ Reschedule(p)
             \/ UserDeletes \/ \E r \in Record : TimePasses(r)
<1>1. ~(AckLost(p) \/ Unreachable(p) \/ Rejected(p) \/ UserDeletes)
  BY DEF AckLost, Unreachable, Rejected, UserDeletes, Disturb, MirrorInv, Unfailing
<1>2. ~SwitchTarget(p)
  BY MirrorTypes DEF SwitchTarget, MirrorInv, LossInv, Alone
<1>3. ~Missing(p)
  <2>1. SUFFICES ASSUME Missing(p) PROVE FALSE
    OBVIOUS
  <2>2. proc[p].pc = "put" /\ ~Live(target[p], proc[p].found)
    BY <2>1 DEF Missing
  <2>3. Own(docs, target[p], proc[p].cur, proc[p].found) /\ proc[p].found # 0
    BY <2>2 DEF MirrorInv, OwnInv, LookedUp, PusherInv
  <2>4. proc[p].found \in Names(target[p])
    BY <2>3 DEF Own, Names
  <2> QED
    BY <2>2, <2>4, MirrorTypes DEF Live, MirrorInv, SitesInv
<1>4. ~(Resolve(p) \/ Enqueue(p) \/ Reschedule(p))
  BY DEF Resolve, Enqueue, Reschedule, MirrorInv, PusherInv
<1>5. ~DropRow(p)
  BY PushesOfSyncs DEF DropRow
<1>6. ~ \E r \in Record : TimePasses(r)
  BY DEF TimePasses, BackoffElapses, Queued, NoRow, MirrorInv, SitesInv
<1> QED
  BY <1>1, <1>2, <1>3, <1>4, <1>5, <1>6

-----------------------------------------------------------------------------
(* The steps.                                                               *)

LEMMA RestMirror ==
    ASSUME MirrorInv, LossInv', OwnInv', NEW p \in Proc,
           \/ RunSync(p) \/ ResyncEntity(p) \/ ProcessRetryQueue(p) \/ Restart(p)
           \/ Crash(p) \/ EndSync(p) \/ UnknownEntity(p) \/ EndRetries(p)
    PROVE  MirrorInv'
<1>1. LossInv
  BY DEF MirrorInv
<1>2. Still /\ UNCHANGED docs
  BY <1>1, ComesToRest
<1>3. proc'[p].pc \in {"idle", "down", "entity", "dequeue"} /\ proc'[p].work = NoWork
  BY <1>1, ComesToRest
<1>4. \A r \in Record : proc'[p].work[r].ver = 0
  BY <1>3 DEF NoWork, NoItem
<1>5. Unseen
  BY <1>2 DEF Still, Unseen
<1> QED
  BY <1>3, <1>4, <1>5, GoesOnUnseen

\* What Tally exports is its current version, and no site has a later one.
LEMMA FetchMirror ==
    ASSUME MirrorInv, LossInv', OwnInv', NEW p \in Proc, Fetch(p)
    PROVE  MirrorInv'
<1> DEFINE s == proc[p]
           got == Export(Head(s.left), s.high, s.scope)
           work == [r \in Record |-> IF r \in got THEN [id |-> 0, ver |-> tally[r]]
                                                  ELSE NoItem]
<1>1. s \in ProcState /\ s \in LocalState /\ target[p] \in Target
  BY ProcStateType DEF MirrorInv, OwnInv
<1>2. Unseen
  BY DEF Fetch, Outside, storeVars, Unseen
<1>3. proc'[p] = [s EXCEPT !.pc = "each", !.work = work]
  BY DEF Fetch, Become, MirrorInv, LossInv, TypeInv
<1>4. proc'[p].pc = "each" /\ proc'[p].work = work /\ proc'[p].job = s.job
  <2> HIDE DEF work
  <2> QED
    BY <1>1, <1>3 DEF ProcState
<1>5. ~Retrying(proc'[p])
  BY <1>1, <1>4 DEF Fetch, LocalState, Retrying
<1>6. \A r \in Record : work[r].ver \in {0, tally[r]}
  BY DEF NoItem
<1>7. \A r \in Record : work[r].ver # 0 => acked[target[p]][r] <= work[r].ver
  <2> HIDE DEF work
  <2> QED
    BY <1>1, <1>6 DEF MirrorInv, SitesInv
<1> QED
  <2> HIDE DEF work
  <2> QED
    BY <1>2, <1>4, <1>5, <1>7, GoesOnUnseen

\* The retry queue is empty.
LEMMA DequeueMirror ==
    ASSUME MirrorInv, LossInv', OwnInv', NEW p \in Proc, Dequeue(p)
    PROVE  MirrorInv'
<1> DEFINE work == [r \in Record |-> IF r \in DueRows(Limit)
                                     THEN [id |-> queue[r].id, ver |-> queue[r].ver]
                                     ELSE NoItem]
<1>1. Unseen
  BY DEF Dequeue, Outside, storeVars, Unseen
<1>2. proc'[p] = [AtRest("each") EXCEPT !.job = "retry", !.work = work]
  BY DEF Dequeue, Become, MirrorInv, LossInv, TypeInv
<1>3. proc'[p].pc = "each" /\ proc'[p].work = work
  <2> HIDE DEF work
  <2> QED
    BY <1>2 DEF AtRest
<1>4. \A r \in Record : work[r].ver = 0
  BY DEF NoItem, NoRow, MirrorInv, SitesInv
<1> QED
  <2> HIDE DEF work
  <2> QED
    BY <1>1, <1>3, <1>4, GoesOnUnseen

\* A sync goes on to its next request, record or entity.
LEMMA ProceedMirror ==
    ASSUME MirrorInv, LossInv', OwnInv', NEW p \in Proc,
           \/ BeginEntity(p) \/ SkipRecord(p) \/ Save(p) \/ FetchFails(p)
           \/ BeginPush(p) \/ Get(p) \/ Compare(p)
    PROVE  MirrorInv'
<1> DEFINE s == proc[p]
           u == proc'[p]
<1>1. s \in ProcState /\ s.cur \in Record
  BY ProcStateType DEF MirrorInv, OwnInv
<1>2. Unseen
  BY DEF BeginEntity, SkipRecord, Save, FetchFails, BeginPush, Get, Compare, Outside,
         storeVars, Unseen
<1> DEFINE Less == /\ u.pc \notin {"failed", "resolve", "remember"}
                   /\ u.job = s.job
                   /\ \A r \in Record : u.work[r].ver \in {0, s.work[r].ver}
                   /\ u.pc = "put" => u.found # 0
<1>3. Less
  <2> USE <1>1 DEF MirrorInv, LossInv, TypeInv, Become
  <2>1. CASE BeginEntity(p)
    BY <2>1 DEF BeginEntity, ProcState
  <2>2. CASE SkipRecord(p)
    <3>1. PICK r \in Record : \E h : u = [Without(s, r) EXCEPT !.high = h]
      BY <2>2 DEF SkipRecord, NextUp, Pending
    <3> QED
      BY <3>1 DEF Without, NoItem, ProcState
  <2>3. CASE Save(p) \/ FetchFails(p)
    BY <2>3 DEF Save, FetchFails, ProcState
  <2>4. CASE BeginPush(p)
    <3>1. PICK r : Become(p, [s EXCEPT
                        !.pc = AfterLookup(cache[target[p]][r].name),
                        !.high = IF Retrying(s) THEN s.high ELSE Raised(s, r),
                        !.cur = r, !.found = cache[target[p]][r].name, !.tries = 0])
      BY <2>4 DEF BeginPush
    <3> DEFINE name == cache[target[p]][r].name
               h == IF Retrying(s) THEN s.high ELSE Raised(s, r)
    <3>2. u.pc = AfterLookup(name) /\ u.job = s.job /\ u.work = s.work
      <4>1. u = [s EXCEPT !.pc = AfterLookup(name), !.high = h, !.cur = r,
                          !.found = name, !.tries = 0]
        BY <3>1
      <4> HIDE DEF name, h
      <4> QED
        BY <4>1 DEF ProcState
    <3> QED
      BY <3>2 DEF AfterLookup
  <2>5. CASE Get(p)
    <3>1. PICK pc \in {"compare", "fill"} : \E n :
              u = [s EXCEPT !.pc = pc, !.found = n, !.tries = 0]
      BY <2>5 DEF Get
    <3> QED
      BY <3>1 DEF ProcState
  <2>6. CASE Compare(p)
    <3>1. \/ u = Returned(s)
          \/ u = [s EXCEPT !.pc = "post"]
          \/ s.found # 0 /\ u = [s EXCEPT !.pc = "put"]
      BY <2>6 DEF Compare
    <3>2. Pushing(s)
      BY <2>6 DEF Compare, Pushing
    <3>3. CASE u = Returned(s)
      BY <3>2, <3>3, ReturnedLess
    <3>4. CASE u = [s EXCEPT !.pc = "post"]
      BY <3>4 DEF ProcState
    <3>5. CASE s.found # 0 /\ u = [s EXCEPT !.pc = "put"]
      BY <3>5 DEF ProcState
    <3> QED
      BY <3>1, <3>3, <3>4, <3>5
  <2> QED
    BY <2>1, <2>2, <2>3, <2>4, <2>5, <2>6
<1> QED
  BY <1>2, <1>3, HandlesLess

\* The hash that is cached is that of what the site was given.
LEMMA CacheMirror ==
    ASSUME MirrorInv, LossInv', OwnInv', NEW p \in Proc, Fill(p) \/ Remember(p)
    PROVE  MirrorInv'
<1> DEFINE s == proc[p]
           t == target[p]
           u == proc'[p]
<1>1. s \in ProcState /\ s.cur \in Record /\ t \in Target /\ s.found \in Nat
  BY ProcStateType DEF MirrorInv, OwnInv
<1>2. UNCHANGED <<tally, docs, queue, acked, target>>
  BY DEF Fill, Remember, Outside
<1>3. Pushing(s)
  BY DEF Fill, Remember, Pushing
<1>4. PICK h : /\ UpsertCache(t, s.cur, s.found, h)
               /\ h # 0 => s.found # 0 /\ docs[t][s.found].ver >= h
  BY DEF Fill, Remember, HashOfFound, Version, MirrorInv, PusherInv
<1>5. /\ u.pc \in {"compare", "each"} /\ u.job = s.job
      /\ \A r \in Record : u.work[r].ver \in {0, s.work[r].ver}
  <2>1. CASE Fill(p)
    BY <1>1, <2>1 DEF Fill, Become, ProcState, MirrorInv, LossInv, TypeInv
  <2>2. CASE Remember(p)
    BY <1>3, <2>2, ReturnedLess DEF Remember, Become, MirrorInv, LossInv, TypeInv
  <2> QED
    BY <2>1, <2>2
<1>6. SitesInv'
  <2>1. cache \in [Target -> [Record -> CacheRow]]
    BY DEF MirrorInv, OwnInv, TypeInv, TypeOK, StoreTypeOK
  <2>2. ASSUME NEW v \in Target, NEW r \in Record
        PROVE  cache'[v][r].hash # 0 => /\ cache'[v][r].name # 0
                                        /\ docs[v][cache'[v][r].name].ver >= cache'[v][r].hash
    <3>1. CASE v = t /\ r = s.cur
      <4>1. cache'[v][r] = [name |-> s.found, hash |-> h]
        BY <1>1, <1>4, <2>1, <3>1 DEF UpsertCache
      <4> QED
        BY <1>4, <3>1, <4>1
    <3>2. CASE ~(v = t /\ r = s.cur)
      <4>1. cache'[v][r] = cache[v][r]
        BY <1>1, <1>4, <2>1, <3>2 DEF UpsertCache
      <4> QED
        BY <4>1 DEF MirrorInv, SitesInv
    <3> QED
      BY <3>1, <3>2
  <2> QED
    BY <1>2, <2>2 DEF MirrorInv, SitesInv, Names
<1>7. PusherInv(p)'
  BY <1>2, <1>5 DEF MirrorInv, PusherInv, Retrying
<1> QED
  BY <1>6, <1>7, TheOnlyPusher

\* The version a site confirms becomes the latest it holds.
LEMMA ConfirmedVersion ==
    ASSUME MirrorInv, NEW p \in Proc, Acknowledged(p)
    PROVE  LET s == proc[p]
               t == target[p]
           IN  /\ Version(s) \in Nat \ {0} /\ Version(s) <= tally[s.cur]
               /\ acked[t][s.cur] <= Version(s)
               /\ acked' = [acked EXCEPT ![t][s.cur] = Version(s)]
<1> DEFINE s == proc[p]
           t == target[p]
<1>1. Pushing(s)
  BY DEF Acknowledged, Effect, Pushing
<1>2. Version(s) \in Nat \ {0} /\ t \in Target /\ s.cur \in Record
  BY <1>1, AtHand, MirrorTypes DEF Version, MirrorInv
<1>3. Version(s) <= tally[s.cur] /\ acked[t][s.cur] <= Version(s)
  BY <1>2 DEF Version, MirrorInv, LossInv, LocalInv, PusherInv
<1>4. acked[t][s.cur] \in Nat
  BY <1>2, MirrorTypes
<1>5. (IF Version(s) > acked[t][s.cur] THEN Version(s) ELSE acked[t][s.cur]) = Version(s)
  BY <1>2, <1>3, <1>4
<1>6. acked' = [acked EXCEPT ![t][s.cur] =
                   IF Version(s) > acked[t][s.cur] THEN Version(s) ELSE acked[t][s.cur]]
  BY DEF Acknowledged
<1> QED
  BY <1>2, <1>3, <1>5, <1>6

LEMMA AcknowledgedMirror ==
    ASSUME MirrorInv, LossInv', OwnInv', NEW p \in Proc, Acknowledged(p)
    PROVE  MirrorInv'
<1> DEFINE s == proc[p]
           t == target[p]
           c == s.cur
           v == Version(s)
           name == IF s.pc = "post" THEN Len(docs[t]) + 1 ELSE s.found
<1>1. s \in ProcState /\ c \in Record /\ t \in Target /\ v = s.work[c].ver
  BY ProcStateType DEF MirrorInv, OwnInv, Version
<1>2. UNCHANGED <<tally, queue, cache, target>> /\ s.pc \in {"post", "put"} /\ Effect(p)
  BY DEF Acknowledged, Effect, Outside, storeVars
<1>3. /\ v \in Nat \ {0} /\ v <= tally[c] /\ acked[t][c] <= v
      /\ acked' = [acked EXCEPT ![t][c] = v]
  BY ConfirmedVersion
<1> HIDE DEF v, name
<1>4. /\ \A w \in Target \ {t} : docs'[w] = docs[w]
      /\ name # 0 /\ name \in 1 .. Len(docs'[t])
      /\ docs'[t][name] = [rec |-> c, ver |-> v, live |-> TRUE]
      /\ \A n \in Names(t) : n \in 1 .. Len(docs'[t])
      /\ \A n \in 1 .. Len(docs'[t]) : n # name => n \in Names(t)
      /\ \A n \in Names(t) : n # name => docs'[t][n] = docs[t][n]
      /\ name \in Names(t) => docs[t][name].rec = c
  BY <1>2, EffectWrites DEF v, name, MirrorInv
<1>5. /\ proc'[p].pc = "remember" /\ proc'[p].found = name /\ proc'[p].cur = c
      /\ proc'[p].work = s.work /\ proc'[p].job = s.job
  <2>1. proc'[p] = [s EXCEPT !.pc = "remember", !.found = name]
    BY DEF Acknowledged, Become, MirrorInv, LossInv, TypeInv, name
  <2> QED
    BY <1>1, <2>1 DEF ProcState
<1>6. acked \in [Target -> [Record -> Nat]]
  BY DEF MirrorInv, OwnInv, TypeInv, TypeOK
<1>7. /\ acked'[t][c] = v
      /\ \A w \in Target, r \in Record : ~(w = t /\ r = c) => acked'[w][r] = acked[w][r]
  BY <1>1, <1>3, <1>6
<1>8. \A w \in Target, r \in Record : /\ acked[w][r] \in Nat /\ acked'[w][r] \in Nat
                                      /\ acked[w][r] <= acked'[w][r]
  BY <1>3, <1>6, <1>7
<1>9. \A w \in Target, r \in Record : acked'[w][r] <= tally[r]
  BY <1>3, <1>7 DEF MirrorInv, SitesInv
<1>10. ASSUME NEW w \in Target, NEW n \in 1 .. Len(docs'[w])
       PROVE  docs'[w][n].live /\ docs'[w][n].ver \in 1 .. acked'[w][docs'[w][n].rec]
  <2>1. CASE w = t /\ n = name
    BY <1>3, <1>4, <1>7, <2>1
  <2>2. CASE ~(w = t /\ n = name)
    <3>1. n \in Names(w) /\ docs'[w][n] = docs[w][n]
      BY <1>4, <1>10, <2>2 DEF Names
    <3>2. docs[w][n].live /\ docs[w][n].ver \in 1 .. acked[w][docs[w][n].rec]
      BY <3>1 DEF MirrorInv, SitesInv
    <3>3. docs[w][n].rec \in Record
      BY <3>1, MirrorTypes
    <3> QED
      BY <1>8, <3>1, <3>2, <3>3
  <2> QED
    BY <2>1, <2>2
<1>11. ASSUME NEW w \in Target, NEW r \in Record, acked'[w][r] # 0
       PROVE  \E n \in 1 .. Len(docs'[w]) : /\ docs'[w][n].rec = r
                                            /\ docs'[w][n].ver = acked'[w][r]
  <2>1. CASE w = t /\ r = c
    BY <1>4, <1>7, <2>1
  <2>2. CASE ~(w = t /\ r = c)
    <3>1. acked[w][r] # 0 /\ acked'[w][r] = acked[w][r]
      BY <1>7, <1>11, <2>2
    <3>2. PICK n \in Names(w) : docs[w][n].rec = r /\ docs[w][n].ver = acked[w][r]
      BY <3>1 DEF MirrorInv, SitesInv
    <3>3. ~(w = t /\ n = name)
      BY <1>4, <2>2, <3>2
    <3>4. n \in 1 .. Len(docs'[w]) /\ docs'[w][n] = docs[w][n]
      BY <1>4, <3>3 DEF Names
    <3> QED
      BY <3>1, <3>2, <3>4
  <2> QED
    BY <2>1, <2>2
<1>12. ASSUME NEW w \in Target, NEW r \in Record, cache[w][r].hash # 0
       PROVE  cache[w][r].name # 0 /\ docs'[w][cache[w][r].name].ver >= cache[w][r].hash
  <2> DEFINE e == cache[w][r].name
  <2>1. e # 0 /\ docs[w][e].ver >= cache[w][r].hash
    BY <1>12 DEF MirrorInv, SitesInv
  <2>2. e \in Names(w) /\ docs[w][e].rec = r
    BY <2>1 DEF MirrorInv, OwnInv, Own, Names
  <2>3. CASE w = t /\ e = name
    <3>1. r = c
      BY <1>4, <2>2, <2>3
    <3>2. docs[w][e].ver \in 1 .. acked[t][c]
      BY <2>2, <2>3, <3>1 DEF MirrorInv, SitesInv
    <3>3. cache[w][r].hash \in Nat
      BY MirrorTypes DEF CacheRow
    <3>4. docs'[w][e].ver = v
      BY <1>4, <2>3
    <3>5. docs[w][e].ver <= v /\ docs[w][e].ver \in Nat
      <4>1. v \in Nat /\ acked[t][c] \in Nat /\ acked[t][c] <= v
        BY <1>1, <1>3, <1>8
      <4> HIDE DEF s, t, c, e
      <4> QED
        BY <3>2, <4>1
    <3> QED
      BY <1>3, <2>1, <3>3, <3>4, <3>5
  <2>4. CASE ~(w = t /\ e = name)
    <3>1. docs'[w][e] = docs[w][e]
      BY <1>4, <2>2, <2>4
    <3> QED
      BY <2>1, <3>1
  <2> QED
    BY <2>3, <2>4
<1>13. SitesInv'
  BY <1>2, <1>9, <1>10, <1>11, <1>12 DEF MirrorInv, SitesInv, Names
<1>14. PusherInv(p)'
  <2>1. \A r \in Record : s.work[r].ver # 0 => acked[t][r] <= s.work[r].ver
    BY DEF MirrorInv, PusherInv
  <2>2. ASSUME NEW r \in Record, s.work[r].ver # 0
        PROVE  acked'[t][r] <= s.work[r].ver
    <3>1. CASE r = c
      <4>1. acked'[t][r] = s.work[r].ver /\ s.work[r].ver \in Nat
        BY <1>1, <1>3, <1>7, <3>1
      <4> QED
        BY <4>1
    <3>2. CASE r # c
      <4>1. acked'[t][r] = acked[t][r]
        BY <1>1, <1>7, <3>2
      <4> QED
        BY <2>1, <2>2, <4>1
    <3> QED
      BY <3>1, <3>2
  <2>3. ~Retrying(proc'[p])
    BY <1>2, <1>5, PushesOfSyncs DEF Pushing, Retrying
  <2>4. docs'[t][name].ver >= s.work[c].ver
    BY <1>1, <1>3, <1>4
  <2> QED
    BY <1>2, <1>4, <1>5, <2>2, <2>3, <2>4 DEF PusherInv
<1> QED
  BY <1>13, <1>14, TheOnlyPusher

LEMMA UserEditsMirror ==
    ASSUME MirrorInv, LossInv', OwnInv', UserEdits \/ UNCHANGED vars
    PROVE  MirrorInv'
<1>1. PICK p \in Proc : Proc = {p}
  BY DEF MirrorInv, LossInv, Alone
<1>2. UNCHANGED <<docs, queue, cache, acked, proc, target>>
  BY DEF UserEdits, vars, storeVars
<1>3. \A r \in Record : tally[r] <= tally'[r] /\ tally'[r] \in Nat
  <2>1. TypeInv /\ TypeInv'
    BY DEF MirrorInv, OwnInv
  <2>2. \A r \in Record : tally'[r] \in Nat
    BY <2>1 DEF TypeInv, TypeOK, TallyTypeOK
  <2>3. \A r \in Record : tally'[r] \in {tally[r], lastAlter + 1}
    BY <2>1 DEF UserEdits, Edit, vars, tallyVars, TypeInv, TypeOK, TallyTypeOK
  <2> QED
    BY <1>1, <2>1, <2>2, <2>3 DEF TypeInv, TypeOK, TallyTypeOK
<1>4. SitesInv'
  BY <1>2, <1>3, SitesStay
<1>5. PusherInv(p)'
  BY <1>2 DEF MirrorInv, PusherInv
<1> QED
  BY <1>4, <1>5, TheOnlyPusher

LEMMA NextMirror == MirrorInv /\ [Next]_vars => MirrorInv'
<1> SUFFICES ASSUME MirrorInv, [Next]_vars PROVE MirrorInv'
  OBVIOUS
<1>1. LossInv' /\ OwnInv'
  BY NextLoss, NextOwn DEF MirrorInv
<1>2. ASSUME NEW p \in Proc, Step(p) PROVE MirrorInv'
  BY <1>1, <1>2, NothingFails, RestMirror, FetchMirror, DequeueMirror, ProceedMirror,
     CacheMirror, AcknowledgedMirror DEF Step
<1>3. ASSUME NEW p \in Proc, Fault(p) PROVE MirrorInv'
  BY <1>1, <1>3, NothingFails, RestMirror, ProceedMirror DEF Fault
<1>4. ~(UserDeletes \/ \E r \in Record : TimePasses(r))
  BY NothingFails DEF MirrorInv, LossInv, Alone
<1> QED
  BY <1>1, <1>2, <1>3, <1>4, UserEditsMirror DEF Next

LEMMA MirrorInvariant == Unfailing => (Spec => []MirrorInv)
<1> SUFFICES ASSUME Unfailing PROVE Spec => []MirrorInv
  OBVIOUS
<1>1. Init => MirrorInv
  BY InitMirror
<1> QED
  BY <1>1, NextMirror, PTL DEF Spec

\* While no push fails: a record the watermark has passed is on the site in its
\* current version, wherever crashes, failed fetches and edits came
\* (_sync_entity and _push_record).
THEOREM AlwaysMirrored == Unfailing => (Spec => []Mirrored)
<1> SUFFICES ASSUME Unfailing PROVE Spec => []Mirrored
  OBVIOUS
<1>1. MirrorInv => Mirrored
  <2> SUFFICES ASSUME MirrorInv, NEW t \in Target, NEW r \in Record, Passed(r)
               PROVE  Holds(t, r, tally[r])
    BY DEF Mirrored
  <2>1. PICK p \in Proc : Proc = {p}
    BY DEF MirrorInv, LossInv, Alone
  <2>2. tally[r] \in Nat \ {0} /\ queue[r].ver = 0
    BY <2>1, MirrorTypes DEF Passed, MirrorInv, SitesInv, NoRow
  <2>3. Safe(t, r)
    BY DEF Passed, MirrorInv, LossInv, SharedInv
  <2>4. acked[t][r] \in Nat /\ acked[t][r] >= tally[r]
    BY <2>1, <2>2, <2>3, MirrorTypes DEF Safe
  <2>5. PICK n \in Names(t) : docs[t][n].rec = r /\ docs[t][n].ver = acked[t][r]
    BY <2>2, <2>4 DEF MirrorInv, SitesInv
  <2>6. n \in Matches(t, r)
    BY <2>5 DEF Matches, Live, MirrorInv, SitesInv
  <2> QED
    BY <2>4, <2>5, <2>6 DEF Holds
<1> QED
  BY <1>1, MirrorInvariant, PTL

\* While no push fails: what _push_record reports as unchanged is on the site in
\* that version or a later one.
THEOREM UnchangedIsAlwaysSound == Unfailing => (Spec => []UnchangedIsSound)
<1> SUFFICES ASSUME Unfailing PROVE Spec => []UnchangedIsSound
  OBVIOUS
<1>1. MirrorInv => UnchangedIsSound
  BY DEF MirrorInv, SitesInv, UnchangedIsSound
<1> QED
  BY <1>1, MirrorInvariant, PTL

-----------------------------------------------------------------------------

\* A step of the connector is one of Mirror or none: an edit writes, a confirmed
\* push publishes.
LEMMA MirrorSteps ==
    ASSUME MirrorInv, MirrorInv', [Next]_vars,
           \A t \in Target, r \in Record : Latest(t, r)' = acked'[t][r]
    PROVE  [Mirroring!MirrorStep]_<<tally, Sites>>
<1>1. PICK p \in Proc : Proc = {p}
  BY DEF MirrorInv, LossInv, Alone
<1>2. \A t \in Target, r \in Record : Latest(t, r) = acked[t][r]
  BY LatestIsConfirmed
<1>3. /\ Sites = [t \in Target |-> [r \in Record |-> acked[t][r]]]
      /\ Sites' = [t \in Target |-> [r \in Record |-> acked'[t][r]]]
  BY <1>2 DEF Sites
<1>4. acked \in [Target -> [Record -> Nat]] /\ acked' \in [Target -> [Record -> Nat]]
  BY DEF MirrorInv, OwnInv, TypeInv, TypeOK
<1>5. Sites = acked /\ Sites' = acked'
  BY <1>3, <1>4
<1>6. CASE UserEdits
  <2>1. PICK r \in Record : Edit(r)
    BY <1>6 DEF UserEdits
  <2>2. UNCHANGED acked
    BY <1>6 DEF UserEdits
  <2>3. tally \in [Record -> Nat] /\ lastAlter \in Nat
        /\ \A q \in Record : tally[q] <= lastAlter
    BY DEF MirrorInv, OwnInv, TypeInv, TypeOK, TallyTypeOK
  <2>4. tally' = [tally EXCEPT ![r] = lastAlter + 1] /\ tally'[r] = lastAlter + 1
    BY <2>1, <2>3 DEF Edit
  <2>5. \A q \in Record : tally'[r] > tally[q]
    BY <2>3, <2>4
  <2> QED
    BY <1>5, <2>2, <2>4, <2>5 DEF Mirroring!MirrorStep, Mirroring!Write
<1>7. CASE Acknowledged(p)
  <2> DEFINE t == target[p]
             c == proc[p].cur
             v == Version(proc[p])
  <2>1. /\ v \in Nat \ {0} /\ v <= tally[c] /\ acked[t][c] <= v
        /\ acked' = [acked EXCEPT ![t][c] = v]
    BY <1>7, ConfirmedVersion
  <2>2. t \in Target /\ c \in Record /\ UNCHANGED tally
    BY <1>7, MirrorTypes DEF Acknowledged, Outside
  <2> HIDE DEF v, t, c
  <2>3. acked'[t][c] = v /\ acked[t][c] \in Nat
    BY <1>4, <2>1, <2>2
  <2>4. CASE v = acked[t][c]
    <3>1. acked' = acked
      BY <1>4, <2>1, <2>2, <2>4
    <3> QED
      BY <1>5, <2>2, <3>1
  <2>5. CASE v # acked[t][c]
    <3>1. acked'[t][c] > acked[t][c] /\ acked'[t][c] <= tally[c]
      BY <2>1, <2>3, <2>5
    <3>2. Mirroring!Publish(t, c)
      BY <1>5, <2>1, <2>2, <2>3, <3>1 DEF Mirroring!Publish
    <3> QED
      BY <2>2, <3>2 DEF Mirroring!MirrorStep
  <2> QED
    BY <2>4, <2>5
<1>8. ASSUME Step(p), ~Acknowledged(p) PROVE UNCHANGED <<tally, acked>>
  BY <1>8 DEF Step, Outside, RunSync, ResyncEntity, ProcessRetryQueue, Restart,
     BeginEntity, EndSync, Fetch, SkipRecord, Save, Dequeue, UnknownEntity, DropRow,
     EndRetries, BeginPush, Get, Fill, Compare, Missing, Remember, Resolve, Enqueue,
     Reschedule
<1>9. ASSUME Fault(p) PROVE UNCHANGED <<tally, acked>>
  BY <1>9 DEF Fault, Outside, FetchFails, AckLost, Unreachable, Rejected, Crash,
     SwitchTarget, tallyVars
<1>10. ASSUME UserDeletes \/ (\E r \in Record : TimePasses(r)) \/ UNCHANGED vars
       PROVE  UNCHANGED <<tally, acked>>
  BY <1>10 DEF UserDeletes, TimePasses, vars, tallyVars
<1>11. UNCHANGED <<tally, acked>> => UNCHANGED <<tally, Sites>>
  BY <1>5
<1> QED
  BY <1>1, <1>6, <1>7, <1>8, <1>9, <1>10, <1>11 DEF Next

\* While no push fails, the connector is a Mirror: a site never goes back to an
\* older version and never holds one that Tally has not had (_sync_entity,
\* _push_record and the state file, seen from outside).
THEOREM EngineIsMirror == Unfailing => (Spec => IsMirror)
<1> SUFFICES ASSUME Unfailing PROVE Spec => IsMirror
  OBVIOUS
<1>1. Init => Mirroring!MirrorInit
  <2> SUFFICES ASSUME Init PROVE Mirroring!MirrorInit
    OBVIOUS
  <2>1. MirrorInv
    BY InitMirror
  <2>2. Sites = [t \in Target |-> [r \in Record |-> acked[t][r]]]
    BY <2>1, LatestIsConfirmed DEF Sites
  <2>3. Sites = [t \in Target |-> [r \in Record |-> 0]]
    BY <2>2 DEF Init
  <2>4. tally = [r \in Record |-> 0]
    BY DEF Init, LegacyRow, Unfailing, NoRow
  <2> QED
    BY <2>3, <2>4 DEF Mirroring!MirrorInit
<1>2. MirrorInv /\ MirrorInv' /\ [Next]_vars
          /\ (\A t \in Target, r \in Record : Latest(t, r) = acked[t][r])'
          => [Mirroring!MirrorStep]_<<tally, Sites>>
  BY MirrorSteps
<1> QED
  BY <1>1, <1>2, LatestIsConfirmed, MirrorInvariant, PTL
  DEF Spec, IsMirror, Mirroring!MirrorSpec

-----------------------------------------------------------------------------
(* RowQueue                                                                 *)

\* A record without a row has nothing in the table: without this a deletion of a
\* row that is gone would not be a stutter.
QueueInv ==
    /\ TypeInv
    /\ \A r \in Record : Queued(r) \/ queue[r] = NoRow

\* The rows an earlier release left have ids below the next one, all different.
LEMMA LegacyRowIds ==
    ASSUME NEW r \in Record, LegacyRow(r) # NoRow
    PROVE  /\ LegacyRow(r).id \in 1 .. Len(LegacyQueue)
           /\ LegacyQueue[LegacyRow(r).id] = r
<1>1. LegacyQueue \in Seq(Record)
  BY StateStoreAssumption
<1>2. \E i \in DOMAIN LegacyQueue : LegacyQueue[i] = r
  BY DEF LegacyRow
<1>3. PICK i \in DOMAIN LegacyQueue :
          /\ i = CHOOSE j \in DOMAIN LegacyQueue : LegacyQueue[j] = r
          /\ LegacyQueue[i] = r
  BY <1>2
<1>4. LegacyRow(r) = [id |-> i, ver |-> i, due |-> TRUE]
  BY <1>2, <1>3 DEF LegacyRow
<1> QED
  BY <1>1, <1>3, <1>4

LEMMA InitQueue == Init => QueueInv /\ Queue!QueueInit
<1> SUFFICES ASSUME Init PROVE QueueInv /\ Queue!QueueInit
  OBVIOUS
<1>1. TypeInv
  BY InitType
<1>2. \A r \in Record : queue[r] = LegacyRow(r)
  BY DEF Init, StoreInit
<1>3. nextId = Len(LegacyQueue) + 1 /\ Len(LegacyQueue) \in Nat
  BY StateStoreAssumption DEF Init, StoreInit
<1>4. \A r \in Record : Queued(r) \/ queue[r] = NoRow
  BY <1>2, <1>3, LegacyRowIds DEF Queued
<1>5. \A r \in Record : Queued(r) => LegacyRow(r) # NoRow
  BY <1>2 DEF Queued, NoRow
<1>6. Rows \in [Record -> Queue!Row]
  BY <1>1 DEF TypeInv, TypeOK, StoreTypeOK, Row, Rows, Queue!Row
<1>7. \A r \in Record : Queue!Present(r) <=> Queued(r)
  BY DEF Queue!Present, Queued, Rows
<1>8. \A r \in Record : Queue!Present(r) => Rows[r].id < nextId
  BY <1>2, <1>3, <1>5, <1>7, LegacyRowIds DEF Rows
<1>9. \A r, q \in Record : Queue!Present(r) /\ Rows[r].id = Rows[q].id => r = q
  <2> SUFFICES ASSUME NEW r \in Record, NEW q \in Record,
                      Queue!Present(r), Rows[r].id = Rows[q].id
               PROVE  r = q
    OBVIOUS
  <2>1. Queued(r) /\ Queued(q) /\ LegacyRow(r).id = LegacyRow(q).id
    BY <1>2, <1>7 DEF Queued, Rows
  <2> QED
    BY <1>5, <2>1, LegacyRowIds
<1> QED
  BY <1>1, <1>3, <1>4, <1>6, <1>8, <1>9 DEF QueueInv, Queue!QueueInit

\* A step changes the rows only where it changes the table.
LEMMA RowsFollow ==
    ASSUME NEW q \in Record, queue \in [Record -> Row], NEW row \in Row,
           queue' = [queue EXCEPT ![q] = row]
    PROVE  Rows' = [Rows EXCEPT ![q] = [id |-> row.id, ver |-> row.ver,
                                        state |-> IF row.due THEN "due" ELSE "waiting"]]
<1>1. queue'[q] = row /\ \A r \in Record \ {q} : queue'[r] = queue[r]
  OBVIOUS
<1>2. \A r \in Record \ {q} : Rows'[r] = Rows[r]
  BY <1>1 DEF Rows
<1>3. Rows'[q] = [id |-> row.id, ver |-> row.ver,
                  state |-> IF row.due THEN "due" ELSE "waiting"]
  BY <1>1 DEF Rows
<1> QED
  BY <1>2, <1>3 DEF Rows

LEMMA TableKept ==
    ASSUME UNCHANGED <<queue, nextId>>
    PROVE  UNCHANGED <<Rows, nextId>>
BY DEF Rows

\* enqueue_retry: a new row with the next id, or the row there with a new payload.
LEMMA EnqueueIsPut ==
    ASSUME QueueInv, NEW q \in Record, NEW v \in Nat, EnqueueRetry(q, v)
    PROVE  /\ Queue!Put(q)
           /\ \A r \in Record : Queued(r)' \/ queue'[r] = NoRow
<1> DEFINE new == [id |-> IF Queued(q) THEN queue[q].id ELSE nextId, ver |-> v, due |-> TRUE]
<1>1. queue \in [Record -> Row] /\ nextId \in Nat \ {0}
  BY DEF QueueInv, TypeInv, TypeOK, StoreTypeOK
<1>2. new \in Row /\ new.id # 0 /\ new.ver = v /\ new.due = TRUE
  BY <1>1 DEF Row, Queued
<1>3. queue' = [queue EXCEPT ![q] = new]
  BY DEF EnqueueRetry
<1>4. Rows' = [Rows EXCEPT ![q] = [id |-> new.id, ver |-> v, state |-> "due"]]
  <2> HIDE DEF new
  <2> QED
    BY <1>1, <1>2, <1>3, RowsFollow
<1>5. Rows'[q].ver = v
  BY <1>4 DEF Rows
<1>6. Rows[q].id = queue[q].id
  BY DEF Rows
<1>7. Queue!Put(q)
  BY <1>4, <1>5, <1>6 DEF EnqueueRetry, Queue!Put, Queue!Present, Queued
<1>8. \A r \in Record : Queued(r)' \/ queue'[r] = NoRow
  <2> HIDE DEF new
  <2> QED
    BY <1>1, <1>2, <1>3 DEF QueueInv, Queued
<1> QED
  BY <1>7, <1>8

\* mark_retry_success: the row goes, or nothing does.
LEMMA DeleteIsRemove ==
    ASSUME QueueInv, NEW q \in Record, NEW id, MarkRetrySuccess(q, id), UNCHANGED nextId
    PROVE  /\ UNCHANGED <<Rows, nextId>> \/ Queue!Remove(q)
           /\ \A r \in Record : Queued(r)' \/ queue'[r] = NoRow
<1>1. queue \in [Record -> Row]
  BY DEF QueueInv, TypeInv, TypeOK, StoreTypeOK
<1>2. CASE queue' = queue
  BY <1>2, TableKept DEF QueueInv, Queued
<1>3. CASE queue' # queue
  <2>1. queue' = [queue EXCEPT ![q] = NoRow]
    BY <1>3 DEF MarkRetrySuccess
  <2>2. Queued(q)
    <3>1. queue[q] # NoRow
      BY <1>1, <1>3, <2>1
    <3> QED
      BY <3>1 DEF QueueInv
  <2>3. Rows' = [Rows EXCEPT ![q] = [id |-> 0, ver |-> 0, state |-> "waiting"]]
    <3>1. NoRow \in Row /\ NoRow.id = 0 /\ NoRow.ver = 0 /\ NoRow.due = FALSE
      BY DEF NoRow, Row
    <3> QED
      BY <1>1, <2>1, <3>1, RowsFollow
  <2>4. Queue!Remove(q)
    BY <2>2, <2>3 DEF Queue!Remove, Queue!Present, Queue!NoRow, Queued, Rows
  <2> QED
    BY <1>1, <2>1, <2>4 DEF QueueInv, Queued
<1> QED
  BY <1>2, <1>3

\* mark_retry_failed: the row waits, or there is no such row.
LEMMA FailIsPostpone ==
    ASSUME QueueInv, NEW q \in Record, NEW id, MarkRetryFailed(q, id), UNCHANGED nextId
    PROVE  /\ UNCHANGED <<Rows, nextId>> \/ Queue!Postpone(q)
           /\ \A r \in Record : Queued(r)' \/ queue'[r] = NoRow
<1>1. queue \in [Record -> Row]
  BY DEF QueueInv, TypeInv, TypeOK, StoreTypeOK
<1>2. CASE queue' = queue
  BY <1>2, TableKept DEF QueueInv, Queued
<1>3. CASE queue' # queue
  <2> DEFINE new == [queue[q] EXCEPT !.due = FALSE]
  <2>1. queue' = [queue EXCEPT ![q] = new]
    BY <1>3 DEF MarkRetryFailed
  <2>2. queue[q] \in Row /\ queue[q] # new
    BY <1>1, <1>3, <2>1
  <2>3. new \in Row /\ new.id = queue[q].id /\ new.ver = queue[q].ver /\ new.due = FALSE
    BY <2>2 DEF Row
  <2>4. Queued(q)
    <3>1. \A x \in Row : x.due = FALSE => [x EXCEPT !.due = FALSE] = x
      BY DEF Row
    <3>2. NoRow.due = FALSE
      BY DEF NoRow
    <3>3. queue[q] # NoRow
      BY <2>2, <3>1, <3>2
    <3> QED
      BY <3>3 DEF QueueInv
  <2>5. Rows' = [Rows EXCEPT ![q] = [id |-> queue[q].id, ver |-> queue[q].ver,
                                     state |-> "waiting"]]
    <3> HIDE DEF new
    <3> QED
      BY <1>1, <2>1, <2>3, RowsFollow
  <2>6. Rows' = [Rows EXCEPT ![q].state = "waiting"]
    BY <2>5 DEF Rows
  <2>7. Queue!Postpone(q)
    BY <2>4, <2>6 DEF Queue!Postpone, Queue!Present, Queued, Rows
  <2>8. \A r \in Record : Queued(r)' \/ queue'[r] = NoRow
    <3> HIDE DEF new
    <3> QED
      BY <1>1, <2>1, <2>3, <2>4 DEF QueueInv, Queued
  <2> QED
    BY <2>7, <2>8
<1> QED
  BY <1>2, <1>3

\* A time in the future is reached.
LEMMA TimeIsElapse ==
    ASSUME QueueInv, NEW q \in Record, TimePasses(q)
    PROVE  /\ Queue!Elapse
           /\ \A r \in Record : Queued(r)' \/ queue'[r] = NoRow
<1> DEFINE new == [queue[q] EXCEPT !.due = TRUE]
<1>1. queue \in [Record -> Row] /\ queue[q] \in Row
  BY DEF QueueInv, TypeInv, TypeOK, StoreTypeOK
<1>2. queue' = [queue EXCEPT ![q] = new] /\ Queued(q) /\ ~queue[q].due /\ UNCHANGED nextId
  BY DEF TimePasses, BackoffElapses
<1>3. new \in Row /\ new.id = queue[q].id /\ new.ver = queue[q].ver /\ new.due = TRUE
  BY <1>1 DEF Row
<1>4. Rows' = [Rows EXCEPT ![q] = [id |-> queue[q].id, ver |-> queue[q].ver, state |-> "due"]]
  <2> HIDE DEF new
  <2> QED
    BY <1>1, <1>2, <1>3, RowsFollow
<1>5. q \in {r \in Record : Queue!Present(r) /\ Rows[r].state = "waiting"}
  BY <1>2 DEF Queue!Present, Rows, Queued
<1>6. Rows' = [r \in Record |-> IF r \in {q} THEN [Rows[r] EXCEPT !.state = "due"]
                                             ELSE Rows[r]]
  BY <1>4 DEF Rows
<1>7. Queue!Elapse
  BY <1>2, <1>5, <1>6 DEF Queue!Elapse
<1>8. \A r \in Record : Queued(r)' \/ queue'[r] = NoRow
  <2> HIDE DEF new
  <2> QED
    BY <1>1, <1>2, <1>3 DEF QueueInv, Queued
<1> QED
  BY <1>7, <1>8

LEMMA StepIsQueueStep ==
    QueueInv /\ [Next]_vars => QueueInv' /\ [Queue!QueueStep]_<<Rows, nextId>>
<1> SUFFICES ASSUME QueueInv, [Next]_vars
             PROVE  QueueInv' /\ [Queue!QueueStep]_<<Rows, nextId>>
  OBVIOUS
<1> DEFINE Good == /\ \A r \in Record : Queued(r)' \/ queue'[r] = NoRow
                   /\ [Queue!QueueStep]_<<Rows, nextId>>
<1>1. TypeInv'
  BY NextType DEF QueueInv
<1>2. ASSUME UNCHANGED <<queue, nextId>> PROVE Good
  BY <1>2, TableKept DEF QueueInv, Queued
<1>3. ASSUME NEW p \in Proc, Enqueue(p) PROVE Good
  <2>1. proc[p].cur \in Record /\ Version(proc[p]) \in Nat
    BY ProcStateType DEF QueueInv
  <2> QED
    BY <1>3, <2>1, EnqueueIsPut DEF Enqueue, Queue!QueueStep
<1>4. ASSUME NEW p \in Proc, DropRow(p) \/ Resolve(p) PROVE Good
  <2>1. PICK r \in Record : MarkRetrySuccess(r, proc[p].work[r].id)
    BY <1>4, ProcStateType DEF DropRow, Resolve, NextUp, Pending, QueueInv
  <2> QED
    BY <1>4, <2>1, DeleteIsRemove DEF DropRow, Resolve, Queue!QueueStep
<1>5. ASSUME NEW p \in Proc, Reschedule(p) PROVE Good
  <2>1. proc[p].cur \in Record
    BY ProcStateType DEF QueueInv
  <2> QED
    BY <1>5, <2>1, FailIsPostpone DEF Reschedule, Queue!QueueStep
<1>6. ASSUME NEW q \in Record, TimePasses(q) PROVE Good
  BY <1>6, TimeIsElapse DEF Queue!QueueStep
<1>7. ASSUME NEW p \in Proc, Step(p),
             ~(Enqueue(p) \/ DropRow(p) \/ Resolve(p) \/ Reschedule(p))
      PROVE  UNCHANGED <<queue, nextId>>
  BY <1>7 DEF Step, storeVars, RunSync, ResyncEntity, ProcessRetryQueue, Restart,
     BeginEntity, EndSync, Fetch, SkipRecord, Save, Dequeue, UnknownEntity,
     EndRetries, BeginPush, Get, Fill, Compare, Acknowledged, Missing, Remember
<1>8. ASSUME NEW p \in Proc, Fault(p) PROVE UNCHANGED <<queue, nextId>>
  BY <1>8 DEF Fault, storeVars, FetchFails, AckLost, Unreachable, Rejected, Crash,
     SwitchTarget
<1>9. ASSUME UserEdits \/ UserDeletes \/ UNCHANGED vars PROVE Good
  BY <1>9, <1>2 DEF UserEdits, UserDeletes, vars, storeVars
<1>10. Good
  <2> HIDE DEF Good
  <2>1. ASSUME NEW p \in Proc, Step(p) PROVE Good
    BY <1>2, <1>3, <1>4, <1>5, <1>7, <2>1
  <2>2. ASSUME NEW p \in Proc, Fault(p) PROVE Good
    BY <1>2, <1>8, <2>2
  <2> QED
    BY <1>6, <1>9, <2>1, <2>2 DEF Next
<1> QED
  BY <1>1, <1>10 DEF QueueInv

\* Whatever several processes, lost answers and crashes do, the engine's
\* retry_queue keeps RowQueue's contract (process_retry_queue and the exception
\* handler of _sync_entity over sync/state_store.py).
THEOREM EngineQueueIsRowQueue == Spec => QueueContract
BY InitQueue, StepIsQueueStep, PTL DEF Spec, QueueContract, Queue!QueueSpec

=============================================================================
