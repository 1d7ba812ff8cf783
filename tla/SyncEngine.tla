----------------------------- MODULE SyncEngine -----------------------------
(***************************************************************************)
(* sync/engine.py with frappe/dedup.py, and the jobs of app.py that run    *)
(* it: the processes of the connector, all on one state file, between one  *)
(* Tally company and the Frappe site each of them is configured with.      *)
(*                                                                         *)
(* A process runs one job at a time.  Every call it makes on Tally, on     *)
(* Frappe or on the store is a step; between two steps the other processes,*)
(* Tally's users, Frappe's users and a crash may come.                     *)
(***************************************************************************)
EXTENDS Tally, Frappe, StateStore

CONSTANTS
    Proc,          \* the processes that may run on the state file
    Service,       \* those of them that run app.py's endless loop
    Jobs,          \* Jobs[p]: the kinds of job process p is started for
    Faults,        \* the disturbances that may come: see Disturbance
    MaxFaults,     \* bound: how many of them in a behaviour
    MaxAttempts,   \* settings.retry_max_attempts
    Limit          \* process_retry_queue's limit

VARIABLES
    proc,          \* proc[p]: the job of process p and where it stands in it
    target,        \* target[p]: the site process p is configured with
    faults,        \* how many disturbances have come
    acked          \* history: acked[t][r] is the latest version of r that
                   \* site t has confirmed with a 2xx answer

tallyVars == <<tally, lastAlter>>
storeVars == <<lastSync, queue, cache, nextId>>
vars == <<tally, lastAlter, docs, lastSync, queue, cache, nextId,
          proc, target, faults, acked>>

Disturbance == {"tally", "unreachable", "lost_ack", "rejected",
                "crash", "delete", "switch"}

JobKind == {"cycle", "incremental", "full", "resync", "range", "retry"}

ASSUME SyncEngineAssumption ==
    /\ Service \subseteq Proc
    /\ Jobs \in [Proc -> SUBSET JobKind]
    /\ Faults \subseteq Disturbance
    /\ MaxFaults \in Nat
    /\ MaxAttempts \in Nat \ {0}
    /\ Limit \in Nat \ {0}

-----------------------------------------------------------------------------
(* The local state of a process.                                            *)

Control == {"idle", "down",
            "entity", "fetch", "each", "dequeue",
            "get", "fill", "compare", "put", "post", "remember",
            "resolve", "failed"}

\* A record still to be pushed, with the version at hand; id is that of the
\* row it was dequeued from, 0 in a sync.
Item == [id : Nat, ver : Nat]
NoItem == [id |-> 0, ver |-> 0]

ProcState == [
    pc    : Control,
    job   : JobKind,
    left  : Seq(Entity),         \* the entities still to sync, the current one first
    scope : SUBSET Record,       \* what the date range asked for lets through
    high  : Nat,                 \* since_alter_id, then max_alter_id
    work  : [Record -> Item],    \* the fetched or dequeued records not yet handled
    cur   : Record,              \* the record being pushed
    found : Nat,                 \* existing_name, then frappe_name; 0 for None
    tries : Nat]                 \* transient failures of the current request

NoWork == [r \in Record |-> NoItem]

AtRest(pc) ==
    [pc |-> pc, job |-> "cycle", left |-> <<>>, scope |-> {}, high |-> 0,
     work |-> NoWork, cur |-> CHOOSE r \in Record : TRUE, found |-> 0, tries |-> 0]

Become(p, s) == proc' = [proc EXCEPT ![p] = s]

Retrying(s) == s.job = "retry"
Pending(s) == {r \in Record : s.work[r].ver # 0}
Without(s, r) == [s EXCEPT !.pc = "each", !.work[r] = NoItem]

\* The records a process may take up next: the queue's rows in the order of
\* their ids, Tally's records in any order.
NextUp(s) == {r \in Pending(s) : \A q \in Pending(s) : s.work[r].id <= s.work[q].id}

TypeOK ==
    /\ TallyTypeOK
    /\ FrappeTypeOK
    /\ StoreTypeOK
    /\ proc \in [Proc -> ProcState]
    /\ target \in [Proc -> Target]
    /\ faults \in 0 .. MaxFaults
    /\ acked \in [Target -> [Record -> Nat]]

Init ==
    /\ lastAlter = Len(LegacyQueue)
    /\ tally = [r \in Record |-> LegacyRow(r).ver]
    /\ docs = [t \in Target |-> <<>>]
    /\ StoreInit
    /\ proc = [p \in Proc |-> AtRest("idle")]
    /\ \E t \in Target : target = [p \in Proc |-> t]
    /\ faults = 0
    /\ acked = [t \in Target |-> [r \in Record |-> 0]]

-----------------------------------------------------------------------------
(* The jobs of app.py, and what disturbs them.                              *)

Disturb(kind) ==
    /\ kind \in Faults
    /\ faults < MaxFaults
    /\ faults' = faults + 1

Undisturbed == UNCHANGED faults

Outside == UNCHANGED <<tally, lastAlter, target>>

\* The continuous loop's job past its health check, --full-sync and
\* --incremental-sync: every registered entity in order.
RunSync(p) ==
    \E kind \in Jobs[p] \cap {"cycle", "incremental", "full"} :
        /\ proc[p].pc = "idle"
        /\ Become(p, [AtRest("entity") EXCEPT !.job = kind, !.left = Order,
                                              !.scope = Record])
        /\ Undisturbed /\ Outside
        /\ UNCHANGED <<docs, storeVars, acked>>

\* --resync-entity, with --resync-range or without: one entity.  Tally applies
\* the dates to vouchers only.
ResyncEntity(p) ==
    \E kind \in Jobs[p] \cap {"resync", "range"}, e \in Registered :
        /\ proc[p].pc = "idle"
        /\ \E scope \in IF kind = "range" /\ e \in Voucher
                        THEN SUBSET RecordsOf(e) ELSE {Record} :
              Become(p, [AtRest("entity") EXCEPT !.job = kind, !.left = <<e>>,
                                                 !.scope = scope])
        /\ Undisturbed /\ Outside
        /\ UNCHANGED <<docs, storeVars, acked>>

\* --process-retries.
ProcessRetryQueue(p) ==
    /\ "retry" \in Jobs[p]
    /\ proc[p].pc = "idle"
    /\ Become(p, AtRest("dequeue"))
    /\ Undisturbed /\ Outside
    /\ UNCHANGED <<docs, storeVars, acked>>

\* The process dies; only the state file survives.
Crash(p) ==
    /\ proc[p].pc \notin {"idle", "down"}
    /\ Disturb("crash")
    /\ Become(p, AtRest("down"))
    /\ Outside
    /\ UNCHANGED <<docs, storeVars, acked>>

Restart(p) ==
    /\ proc[p].pc = "down"
    /\ Become(p, AtRest("idle"))
    /\ Undisturbed /\ Outside
    /\ UNCHANGED <<docs, storeVars, acked>>

\* FRAPPE_BASE_URL is edited in .env between two starts of the process.
SwitchTarget(p) ==
    /\ proc[p].pc = "idle"
    /\ Disturb("switch")
    /\ \E t \in Target \ {target[p]} : target' = [target EXCEPT ![p] = t]
    /\ UNCHANGED <<tallyVars, docs, storeVars, proc, acked>>

UserEdits ==
    /\ \E r \in Record : Edit(r)
    /\ UNCHANGED <<docs, storeVars, proc, target, faults, acked>>

UserDeletes ==
    /\ Disturb("delete")
    /\ \E t \in Target : \E n \in Names(t) : Live(t, n) /\ DeleteDoc(t, n)
    /\ UNCHANGED <<tallyVars, storeVars, proc, target, acked>>

TimePasses(r) ==
    /\ BackoffElapses(r)
    /\ UNCHANGED <<tallyVars, docs, lastSync, cache, nextId, proc, target,
                   faults, acked>>

-----------------------------------------------------------------------------
(* _run_cycle and _sync_entity.                                             *)

\* The watermark is read, or None taken for it, before the request is built.
BeginEntity(p) ==
    LET s == proc[p]
        incremental == s.job \in {"cycle", "incremental"}
    IN  /\ s.pc = "entity"
        /\ s.left # <<>>
        /\ Become(p, [s EXCEPT !.pc = "fetch",
                               !.high = IF incremental THEN lastSync[Head(s.left)] ELSE 0])
        /\ Undisturbed /\ Outside
        /\ UNCHANGED <<docs, storeVars, acked>>

\* All entities are done: the loop's cycle goes on to the retry queue.
EndSync(p) ==
    LET s == proc[p]
    IN  /\ s.pc = "entity"
        /\ s.left = <<>>
        /\ Become(p, AtRest(IF s.job = "cycle" THEN "dequeue" ELSE "idle"))
        /\ Undisturbed /\ Outside
        /\ UNCHANGED <<docs, storeVars, acked>>

Fetch(p) ==
    LET s == proc[p]
        got == Export(Head(s.left), s.high, s.scope)
    IN  /\ s.pc = "fetch"
        /\ Become(p, [s EXCEPT !.pc = "each",
                               !.work = [r \in Record |->
                                   IF r \in got THEN [id |-> 0, ver |-> tally[r]]
                                                ELSE NoItem]])
        /\ Undisturbed /\ Outside
        /\ UNCHANGED <<docs, storeVars, acked>>

\* Tally did not answer, or not with XML: the watermark is written back as read.
FetchFails(p) ==
    LET s == proc[p]
    IN  /\ s.pc = "fetch"
        /\ Disturb("tally")
        /\ UpdateLastSync(Head(s.left), s.high)
        /\ Become(p, [s EXCEPT !.pc = "entity", !.left = Tail(s.left)])
        /\ Outside
        /\ UNCHANGED <<docs, queue, cache, nextId, acked>>

\* max_alter_id after a parsed record.
Raised(s, r) == IF s.work[r].ver > s.high THEN s.work[r].ver ELSE s.high

\* A record no push is made for: unparseable (its AlterID does not count), of an
\* unmapped entity, or without a key.
SkipRecord(p) ==
    LET s == proc[p]
    IN  /\ s.pc = "each"
        /\ ~Retrying(s)
        /\ \E r \in NextUp(s) :
              /\ ~Pushable(r)
              /\ Become(p, [Without(s, r) EXCEPT
                    !.high = IF r \in Unparseable THEN s.high ELSE Raised(s, r)])
        /\ Undisturbed /\ Outside
        /\ UNCHANGED <<docs, storeVars, acked>>

Save(p) ==
    LET s == proc[p]
    IN  /\ s.pc = "each"
        /\ ~Retrying(s)
        /\ Pending(s) = {}
        /\ UpdateLastSync(Head(s.left), s.high)
        /\ Become(p, [s EXCEPT !.pc = "entity", !.left = Tail(s.left)])
        /\ Undisturbed /\ Outside
        /\ UNCHANGED <<docs, queue, cache, nextId, acked>>

-----------------------------------------------------------------------------
(* process_retry_queue.                                                     *)

Dequeue(p) ==
    LET due == DueRows(Limit)
    IN  /\ proc[p].pc = "dequeue"
        /\ Become(p, [AtRest("each") EXCEPT
              !.job = "retry",
              !.work = [r \in Record |->
                  IF r \in due THEN [id |-> queue[r].id, ver |-> queue[r].ver]
                               ELSE NoItem]])
        /\ Undisturbed /\ Outside
        /\ UNCHANGED <<docs, storeVars, acked>>

\* get_entity's KeyError leaves process_retry_queue and the process: nothing
\* catches it in the loop, and a one-shot command exits with 2.
UnknownEntity(p) ==
    LET s == proc[p]
    IN  /\ s.pc = "each"
        /\ Retrying(s)
        /\ \E r \in NextUp(s) : EntityOf[r] \notin Registered
        /\ Become(p, AtRest("down"))
        /\ Undisturbed /\ Outside
        /\ UNCHANGED <<docs, storeVars, acked>>

\* Mutant: every row is taken for permanently invalid.
AnyRow(r) == TRUE

\* No mapping, a ValidationError or a TallyDataError: no retry will succeed.
Hopeless(r) == ~Pushable(r)

\* A row whose record can never be pushed is deleted.
DropRow(p) ==
    LET s == proc[p]
    IN  /\ s.pc = "each"
        /\ Retrying(s)
        /\ \E r \in NextUp(s) :
              /\ EntityOf[r] \in Registered
              /\ Hopeless(r)
              /\ MarkRetrySuccess(r, s.work[r].id)
              /\ Become(p, Without(s, r))
        /\ Undisturbed /\ Outside
        /\ UNCHANGED <<docs, lastSync, cache, nextId, acked>>

EndRetries(p) ==
    LET s == proc[p]
    IN  /\ s.pc = "each"
        /\ Retrying(s)
        /\ Pending(s) = {}
        /\ Become(p, AtRest("idle"))
        /\ Undisturbed /\ Outside
        /\ UNCHANGED <<docs, storeVars, acked>>

-----------------------------------------------------------------------------
(* _push_record and find_existing, for the record s.cur.                    *)

Version(s) == s.work[s.cur].ver

\* Mutant: the row of a retry that returned stays.
ReturnedUnmarked(s) == Without(s, s.cur)

\* The push returned: a sync goes on, a retry deletes its row first.
Returned(s) == IF Retrying(s) THEN [s EXCEPT !.pc = "resolve"] ELSE Without(s, s.cur)

\* Mutant: what the cache does not know does not exist.
CacheOnly(name) == "compare"

\* find_existing returns a cached name, and asks Frappe if there is none.
AfterLookup(name) == IF name # 0 THEN "compare" ELSE "get"

\* find_existing asks the cache first.
BeginPush(p) ==
    LET s == proc[p]
    IN  /\ s.pc = "each"
        /\ \E r \in NextUp(s) :
              /\ Pushable(r)
              /\ Retrying(s) => EntityOf[r] \in Registered
              /\ LET name == cache[target[p]][r].name
                 IN  Become(p, [s EXCEPT
                        !.pc = AfterLookup(name),
                        !.high = IF Retrying(s) THEN s.high ELSE Raised(s, r),
                        !.cur = r, !.found = name, !.tries = 0])
        /\ Undisturbed /\ Outside
        /\ UNCHANGED <<docs, storeVars, acked>>

\* ... and then Frappe; of several matches it takes the first one listed.
Get(p) ==
    LET s == proc[p]
        matches == Matches(target[p], s.cur)
    IN  /\ s.pc = "get"
        /\ \/ /\ matches = {}
              /\ Become(p, [s EXCEPT !.pc = "compare", !.found = 0, !.tries = 0])
           \/ \E n \in matches :
                 Become(p, [s EXCEPT !.pc = "fill", !.found = n, !.tries = 0])
        /\ Undisturbed /\ Outside
        /\ UNCHANGED <<docs, storeVars, acked>>

\* Mutant: with the hash of the payload at hand.
HashAtHand(s) == Version(s)

\* What the GET found is cached with content_hash="".
HashOfFound(s) == 0

Fill(p) ==
    LET s == proc[p]
    IN  /\ s.pc = "fill"
        /\ UpsertCache(target[p], s.cur, s.found, HashOfFound(s))
        /\ Become(p, [s EXCEPT !.pc = "compare"])
        /\ Undisturbed /\ Outside
        /\ UNCHANGED <<docs, lastSync, queue, nextId, acked>>

\* Mutant: any hash will do.
AnyContent(entry, v) == entry.hash # 0

\* content_hash of the cache entry against that of the payload at hand.
SameContent(entry, v) == entry.hash = v

\* The cache entry is read again for its hash.
Compare(p) ==
    LET s == proc[p]
        entry == cache[target[p]][s.cur]
    IN  /\ s.pc = "compare"
        /\ Become(p, IF s.found = 0 THEN [s EXCEPT !.pc = "post"]
                     ELSE IF SameContent(entry, Version(s)) THEN Returned(s)
                     ELSE [s EXCEPT !.pc = "put"])
        /\ Undisturbed /\ Outside
        /\ UNCHANGED <<docs, storeVars, acked>>

\* The effect of the request a process has out, on the site it is sent to.
Effect(p) ==
    LET s == proc[p]
        t == target[p]
    IN  \/ /\ s.pc = "post"
           /\ CreateDoc(t, s.cur, Version(s))
        \/ /\ s.pc = "put"
           /\ Live(t, s.found)
           /\ UpdateDoc(t, s.found, s.cur, Version(s))

\* The site did it and said so; a POST's answer carries the document's name.
Acknowledged(p) ==
    LET s == proc[p]
        t == target[p]
        name == IF s.pc = "post" THEN Len(docs[t]) + 1 ELSE s.found
    IN  /\ Effect(p)
        /\ acked' = [acked EXCEPT ![t][s.cur] =
                        IF Version(s) > @ THEN Version(s) ELSE @]
        /\ Become(p, [s EXCEPT !.pc = "remember", !.found = name])
        /\ Undisturbed /\ Outside
        /\ UNCHANGED storeVars

\* The request gets no 2xx answer: tenacity repeats it as it was, or gives up.
Unanswered(s) ==
    IF s.tries + 1 < MaxAttempts THEN [s EXCEPT !.tries = s.tries + 1]
                                 ELSE [s EXCEPT !.pc = "failed"]

\* The site did it, and the answer was lost, came after the timeout or was a 5xx; or it
\* was a 2xx that is not JSON, after which there is no second attempt.
AckLost(p) ==
    /\ Effect(p)
    /\ Disturb("lost_ack")
    /\ \/ Become(p, Unanswered(proc[p]))
       \/ Become(p, [proc[p] EXCEPT !.pc = "failed"])
    /\ Outside
    /\ UNCHANGED <<storeVars, acked>>

\* No connection, a timeout before the site acted, or a 5xx.
Unreachable(p) ==
    /\ proc[p].pc \in {"get", "put", "post"}
    /\ Disturb("unreachable")
    /\ Become(p, Unanswered(proc[p]))
    /\ Outside
    /\ UNCHANGED <<docs, storeVars, acked>>

\* 401, 403 or another 4xx: no second attempt.
Rejected(p) ==
    /\ proc[p].pc \in {"get", "put", "post"}
    /\ Disturb("rejected")
    /\ Become(p, [proc[p] EXCEPT !.pc = "failed"])
    /\ Outside
    /\ UNCHANGED <<docs, storeVars, acked>>

\* PUT on a document that is gone: 404.
Missing(p) ==
    LET s == proc[p]
    IN  /\ s.pc = "put"
        /\ ~Live(target[p], s.found)
        /\ Become(p, [s EXCEPT !.pc = "failed"])
        /\ Undisturbed /\ Outside
        /\ UNCHANGED <<docs, storeVars, acked>>

\* The name and the hash of what was pushed are cached.
Remember(p) ==
    LET s == proc[p]
    IN  /\ s.pc = "remember"
        /\ UpsertCache(target[p], s.cur, s.found, Version(s))
        /\ Become(p, Returned(s))
        /\ Undisturbed /\ Outside
        /\ UNCHANGED <<docs, lastSync, queue, nextId, acked>>

\* A retry that returned: the row it came from is deleted.
Resolve(p) ==
    LET s == proc[p]
    IN  /\ s.pc = "resolve"
        /\ MarkRetrySuccess(s.cur, s.work[s.cur].id)
        /\ Become(p, Without(s, s.cur))
        /\ Undisturbed /\ Outside
        /\ UNCHANGED <<docs, lastSync, cache, nextId, acked>>

\* A sync whose push raised: the record as fetched goes to the retry queue.
Enqueue(p) ==
    LET s == proc[p]
    IN  /\ s.pc = "failed"
        /\ ~Retrying(s)
        /\ EnqueueRetry(s.cur, Version(s))
        /\ Become(p, Without(s, s.cur))
        /\ Undisturbed /\ Outside
        /\ UNCHANGED <<docs, lastSync, cache, acked>>

\* A retry whose push raised: its row backs off.
Reschedule(p) ==
    LET s == proc[p]
    IN  /\ s.pc = "failed"
        /\ Retrying(s)
        /\ MarkRetryFailed(s.cur, s.work[s.cur].id)
        /\ Become(p, Without(s, s.cur))
        /\ Undisturbed /\ Outside
        /\ UNCHANGED <<docs, lastSync, cache, nextId, acked>>

-----------------------------------------------------------------------------

\* What a process does by itself.
Step(p) ==
    \/ RunSync(p) \/ ResyncEntity(p) \/ ProcessRetryQueue(p) \/ Restart(p)
    \/ BeginEntity(p) \/ EndSync(p) \/ Fetch(p) \/ SkipRecord(p) \/ Save(p)
    \/ Dequeue(p) \/ UnknownEntity(p) \/ DropRow(p) \/ EndRetries(p)
    \/ BeginPush(p) \/ Get(p) \/ Fill(p) \/ Compare(p) \/ Acknowledged(p)
    \/ Missing(p) \/ Remember(p) \/ Resolve(p) \/ Enqueue(p) \/ Reschedule(p)

\* What comes upon it.
Fault(p) ==
    \/ FetchFails(p) \/ AckLost(p) \/ Unreachable(p) \/ Rejected(p)
    \/ Crash(p) \/ SwitchTarget(p)

Next ==
    \/ \E p \in Proc : Step(p) \/ Fault(p)
    \/ UserEdits \/ UserDeletes
    \/ \E r \in Record : TimePasses(r)

Spec == Init /\ [][Next]_vars

\* The scheduler starts a cycle whenever the previous one has returned, Task
\* Scheduler restarts a service that died, and time passes.
Fairness ==
    /\ \A p \in Service : WF_vars(Step(p))
    /\ \A r \in Record : WF_vars(TimePasses(r))

FairSpec == Spec /\ Fairness

=============================================================================
