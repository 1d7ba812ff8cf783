------------------------------ MODULE Command ------------------------------
(***************************************************************************)
(* One run of app.py, reply by reply: which command it is given, what each *)
(* answer of Tally and Frappe and a locked state file do to it, what it    *)
(* counts, and how it ends.  Versions of records, several processes and    *)
(* crashes are SyncEngine's; the order of the entities is SyncOrder's.     *)
(***************************************************************************)
EXTENDS SyncOrder, FiniteSets

CONSTANTS
    Record, EntityOf,      \* as in Registry; a row's entity may have left REGISTRY
    Unparseable, Keyless,  \*
    Mapped,                \* the registered entities with a mapping
    Voucher,               \* those whose export honours a date range
    LeftQueues,            \* the retry queues an earlier run may have left
    Commands,              \* the commands under consideration
    MaxAttempts,           \* settings.retry_max_attempts, of both clients
    MaxLocks               \* bound: how often the state file is locked too long

Command == {"--full-sync", "--incremental-sync", "--resync-entity", "--process-retries",
            "--health-check", "serve"}

ASSUME CommandAssumption ==
    /\ IsFiniteSet(Record)
    /\ Mapped \subseteq Name
    /\ LeftQueues \subseteq SUBSET Record
    /\ Commands \subseteq Command
    /\ MaxAttempts \in Nat \ {0} /\ MaxLocks \in Nat

VARIABLES
    command, pc,
    plan,          \* the entities still to sync, the current one first
    todo,          \* the fetched records or dequeued rows not yet handled
    cur, found,    \* the record being pushed; has it an existing_name?
    draining,      \* in process_retry_queue
    tries,         \* failed attempts of the request under way
    result,        \* the EntitySyncResult of the current entity
    failures,      \* CycleResult.total_failed so far
    queue,         \* the records in retry_queue
    worn,          \* pushable ones of them, tried so often that the next backoff overflows
    cached, same,  \* those in sync_cache; those of them with the payload's hash
    onSite,        \* the records with a document in Frappe
    locks,
    code,          \* how the process ended
    seen, visited  \* history of this cycle: the records fetched, the entities fetched

place == <<pc, plan, todo, cur, found, draining, tries>>
counts == <<result, failures>>
frappe == <<onSite>>
store == <<queue, worn, cached, same>>
rest == <<command, dependsOn, remaining, ready, resolved, raised>>
commandVars == <<place, counts, frappe, store, rest, locks, code, seen, visited>>

Zero == [fetched |-> 0, created |-> 0, updated |-> 0, unchanged |-> 0, failed |-> 0]

Count(field) == result' = [result EXCEPT ![field] = @ + 1]

RecordsOf(e) == {r \in Record : EntityOf[r] = e}

Hopeless(r) == r \in Unparseable \cup Keyless \/ EntityOf[r] \notin Mapped

CommandInit ==
    /\ OrderInit
    /\ command \in Commands
    /\ pc = "start" /\ plan = <<>> /\ todo = {} /\ draining = FALSE /\ tries = 0
    /\ cur \in {CHOOSE r \in Record : TRUE} /\ found = FALSE
    /\ result = Zero /\ failures = 0
    /\ onSite \in SUBSET {r \in Record : ~Hopeless(r)} /\ cached \in SUBSET onSite /\ same \in SUBSET cached
    /\ queue \in LeftQueues /\ worn \in SUBSET {r \in queue : ~Hopeless(r)}
    /\ locks = 0 /\ code = "running" /\ seen = {} /\ visited = {}

-----------------------------------------------------------------------------
(* app.py and services/.                                                    *)

Exit(c) == pc' = "exit" /\ code' = c

Serving == command = "serve"

\* An exception that is neither a TallyConnectorError nor a KeyError: a traceback
\* from a command; from the loop nothing is caught, and Task Scheduler comes.
Abort ==
    IF Serving THEN pc' = "down" /\ UNCHANGED code ELSE Exit("traceback")

Start ==
    /\ pc = "start"
    /\ \/ /\ command \in {"--full-sync", "--incremental-sync"}
          /\ pc' = "order" /\ UNCHANGED <<plan, code>>
       \/ /\ command = "--resync-entity"
          /\ \/ \E e \in Name : plan' = <<e>> /\ pc' = "entity" /\ UNCHANGED code
             \/ Exit("2") /\ UNCHANGED plan        \* get_entity's KeyError
       \/ /\ command = "--process-retries"
          /\ pc' = "dequeue" /\ UNCHANGED <<plan, code>>
       \/ /\ command \in {"--health-check", "serve"}
          /\ pc' = "health" /\ UNCHANGED <<plan, code>>
    /\ UNCHANGED <<todo, cur, found, draining, tries, counts, frappe, store, rest,
                   locks, seen, visited>>

\* run_health_check: any answer of Tally will do, of Frappe any but 401 and 403.
HealthPasses ==
    /\ pc = "health"
    /\ IF Serving THEN pc' = "order" /\ UNCHANGED code ELSE Exit("0")
    /\ UNCHANGED <<plan, todo, cur, found, draining, tries, counts, frappe, store,
                   rest, locks, seen, visited>>

HealthFails ==
    /\ pc = "health"
    /\ IF Serving THEN pc' = "asleep" /\ UNCHANGED code ELSE Exit("1")
    /\ UNCHANGED <<plan, todo, cur, found, draining, tries, counts, frappe, store,
                   rest, locks, seen, visited>>

\* The scheduler's next run; Task Scheduler's restart.
Wake ==
    /\ pc \in {"asleep", "down"}
    /\ pc' = "health"
    /\ draining' = FALSE /\ failures' = 0 /\ seen' = {} /\ visited' = {}
    /\ plan' = <<>> /\ todo' = {} /\ result' = Zero
    /\ remaining' = Name /\ ready' = {} /\ resolved' = <<>> /\ raised' = FALSE
    /\ UNCHANGED <<cur, found, tries, frappe, store, command, dependsOn, locks, code>>

-----------------------------------------------------------------------------
(* _run_cycle and _sync_entity.                                             *)

Ordering ==
    /\ pc = "order"
    /\ OrderStep
    /\ UNCHANGED <<place, counts, frappe, store, command, locks, code, seen, visited>>

Ordered ==
    /\ pc = "order"
    /\ \/ remaining = {} /\ plan' = resolved /\ pc' = "entity" /\ UNCHANGED code
       \/ raised /\ Abort /\ UNCHANGED plan                         \* ValueError
    /\ UNCHANGED <<todo, cur, found, draining, tries, counts, frappe, store, rest,
                   locks, seen, visited>>

BeginEntity ==
    /\ pc = "entity"
    /\ plan # <<>>
    /\ pc' = "fetch" /\ tries' = 0 /\ result' = Zero
    /\ UNCHANGED <<plan, todo, cur, found, draining, failures, frappe, store, rest,
                   locks, code, seen, visited>>

\* Mutant: a cycle with failures leaves the queue for a better one.
DrainIfClean ==
    /\ pc = "entity"
    /\ plan = <<>>
    /\ IF Serving THEN pc' = (IF failures = 0 THEN "dequeue" ELSE "asleep") /\ UNCHANGED code
                  ELSE Exit(IF failures = 0 THEN "0" ELSE "1")
    /\ UNCHANGED <<plan, todo, cur, found, draining, tries, counts, frappe, store, rest,
                   locks, seen, visited>>

\* The exit code of a command is 0 if nothing failed; the loop drops the CycleResult
\* and goes on to drain.
EndSync ==
    /\ pc = "entity"
    /\ plan = <<>>
    /\ IF Serving THEN /\ pc' = "dequeue" /\ UNCHANGED code
                       /\ result' = Zero /\ failures' = 0 /\ seen' = {} /\ visited' = {}
                  ELSE /\ Exit(IF failures = 0 THEN "0" ELSE "1")
                       /\ UNCHANGED <<counts, seen, visited>>
    /\ UNCHANGED <<plan, todo, cur, found, draining, tries, frappe, store, rest, locks>>

\* What Tally may answer.  send_request's errors are TallyConnectionErrors that
\* tenacity repeats, TallyResponseErrors, or the parser's TallyXMLParseError.
TallyTransient == {"timeout", "refused", "bad_url"}
TallyFinal == {"not_200", "line_error", "not_xml"}

\* Mutant: a timeout is repeated until it is none.
RepeatForEver(reply, transient) == reply \notin transient

\* The request is over without an answer to use.
Over(reply, transient) == reply \notin transient \/ tries + 1 >= MaxAttempts

\* A watermark or a date range leaves some of the records out.
InPart ==
    \/ command \in {"--incremental-sync", "serve"}
    \/ command = "--resync-entity" /\ Head(plan) \in Voucher

Fetch ==
    /\ pc = "fetch"
    /\ \E records \in IF InPart THEN SUBSET RecordsOf(Head(plan)) ELSE {RecordsOf(Head(plan))} :
          /\ todo' = records /\ seen' = seen \cup records
          /\ result' = [result EXCEPT !.fetched = Cardinality(records)]
    /\ pc' = "each" /\ visited' = visited \cup {Head(plan)}
    /\ UNCHANGED <<plan, cur, found, draining, tries, failures, frappe, store, rest,
                   locks, code>>

FetchFails ==
    /\ pc = "fetch"
    /\ \E reply \in TallyTransient \cup TallyFinal :
          IF Over(reply, TallyTransient)
          THEN pc' = "save_error" /\ visited' = visited \cup {Head(plan)} /\ UNCHANGED tries
          ELSE tries' = tries + 1 /\ UNCHANGED <<pc, visited>>
    /\ UNCHANGED <<plan, todo, cur, found, draining, counts, frappe, store, rest,
                   locks, code, seen>>

\* Mutant: a record that is skipped is none that failed.
CountNothing(r) == UNCHANGED result

CountInvalid(r) ==
    IF r \in Unparseable \/ EntityOf[r] \in Mapped THEN Count("failed") ELSE UNCHANGED result

\* Unparseable, of an unmapped entity, or without a key: no push, no retry.
Skip ==
    /\ pc = "each" /\ ~draining
    /\ \E r \in todo :
          /\ Hopeless(r)
          /\ todo' = todo \ {r}
          /\ CountInvalid(r)
    /\ UNCHANGED <<pc, plan, cur, found, draining, tries, failures, frappe, store, rest,
                   locks, code, seen, visited>>

\* update_last_sync, with "error" or "ok"; a failed fetch adds nothing to failures.
Save ==
    /\ ~draining
    /\ pc = "save_error" \/ (pc = "each" /\ todo = {})
    /\ pc' = "entity" /\ plan' = Tail(plan)
    /\ failures' = failures + result.failed
    /\ UNCHANGED <<todo, cur, found, draining, tries, result, frappe, store, rest,
                   locks, code, seen, visited>>

-----------------------------------------------------------------------------
(* process_retry_queue.                                                     *)

Dequeue ==
    /\ pc = "dequeue"
    /\ todo' \in SUBSET queue
    /\ draining' = TRUE /\ pc' = "each"
    /\ UNCHANGED <<plan, cur, found, tries, counts, frappe, store, rest, locks, code,
                   seen, visited>>

\* get_entity's KeyError is raised outside the try, and ends the drain.
UnknownEntity ==
    /\ pc = "each" /\ draining
    /\ \E r \in todo : EntityOf[r] \notin Name
    /\ IF Serving THEN pc' = "down" /\ UNCHANGED code ELSE Exit("2")
    /\ UNCHANGED <<plan, todo, cur, found, draining, tries, counts, frappe, store, rest,
                   locks, seen, visited>>

Droppable(r) == Hopeless(r) /\ EntityOf[r] \in Name

DropRow ==
    /\ pc = "each" /\ draining
    /\ \E r \in todo :
          /\ Droppable(r)
          /\ todo' = todo \ {r} /\ queue' = queue \ {r} /\ worn' = worn \ {r}
    /\ UNCHANGED <<pc, plan, cur, found, draining, tries, counts, frappe, cached, same,
                   rest, locks, code, seen, visited>>

\* Mutant: rows are drained until none is left.
DrainUntilEmpty ==
    /\ pc = "each" /\ draining /\ todo = {}
    /\ IF queue # {} THEN pc' = "dequeue" /\ UNCHANGED code
       ELSE IF Serving THEN pc' = "asleep" /\ UNCHANGED code ELSE Exit("0")
    /\ UNCHANGED <<plan, todo, cur, found, draining, tries, counts, frappe, store,
                   rest, locks, seen, visited>>

\* The exit code of --process-retries is 0, whatever failed.
EndDrain ==
    /\ pc = "each" /\ draining /\ todo = {}
    /\ IF Serving THEN pc' = "asleep" /\ UNCHANGED code ELSE Exit("0")
    /\ UNCHANGED <<plan, todo, cur, found, draining, tries, counts, frappe, store,
                   rest, locks, seen, visited>>

-----------------------------------------------------------------------------
(* _push_record, for the record cur.                                        *)

BeginPush ==
    /\ pc = "each"
    /\ \E r \in todo :
          /\ ~Hopeless(r)
          /\ cur' = r /\ todo' = todo \ {r}
          /\ found' = (r \in cached)
          /\ pc' = IF r \in cached THEN "compare" ELSE "get"
    /\ tries' = 0
    /\ UNCHANGED <<plan, draining, counts, frappe, store, rest, locks, code, seen, visited>>

Get ==
    /\ pc = "get"
    /\ pc' = IF cur \in onSite THEN "fill" ELSE "compare"
    /\ UNCHANGED <<plan, todo, cur, found, draining, tries, counts, frappe, store,
                   rest, locks, code, seen, visited>>

\* find_existing's upsert_cache, with no hash.
Fill ==
    /\ pc = "fill"
    /\ pc' = "compare" /\ found' = TRUE
    /\ cached' = cached \cup {cur} /\ same' = same \ {cur}
    /\ UNCHANGED <<plan, todo, cur, draining, tries, counts, frappe, queue, worn, rest,
                   locks, code, seen, visited>>

\* The end of _push_record: its caller goes on, in a drain with the row's deletion.
Returned == pc' = IF draining THEN "resolve" ELSE "each"

Compare ==
    /\ pc = "compare"
    /\ IF found /\ cur \in same
       THEN Count("unchanged") /\ Returned
       ELSE pc' = (IF found THEN "put" ELSE "post") /\ UNCHANGED result
    /\ tries' = 0
    /\ UNCHANGED <<plan, todo, cur, found, draining, failures, frappe, store, rest,
                   locks, code, seen, visited>>

Written ==
    /\ pc \in {"put", "post"}
    /\ pc' = "remember"
    /\ onSite' = onSite \cup {cur}
    /\ Count(IF pc = "put" THEN "updated" ELSE "created")
    /\ UNCHANGED <<plan, todo, cur, found, draining, tries, failures, store, rest,
                   locks, code, seen, visited>>

FrappeTransient == {"timeout", "refused", "5xx"}
FrappeFinal == {"auth", "4xx", "not_json", "bad_url"}

\* Mutant: wrong credentials end the cycle.
AuthAborts(reply) == IF reply = "auth" THEN Abort ELSE pc' = "failed" /\ UNCHANGED code

\* "one bad record must not abort the cycle".
Caught(reply) == pc' = "failed" /\ UNCHANGED code

\* No usable answer.  The site may have acted before a timeout, a 5xx or a 2xx
\* that is not JSON.
RequestFails ==
    /\ pc \in {"get", "put", "post"}
    /\ \E reply \in FrappeTransient \cup FrappeFinal :
          /\ \/ UNCHANGED onSite
             \/ /\ pc # "get" /\ reply \in {"timeout", "5xx", "not_json"}
                /\ onSite' = onSite \cup {cur}
          /\ IF Over(reply, FrappeTransient)
             THEN Caught(reply) /\ UNCHANGED tries
             ELSE tries' = tries + 1 /\ UNCHANGED <<pc, code>>
    /\ UNCHANGED <<plan, todo, cur, found, draining, counts, store, rest, locks, seen,
                   visited>>

Remember ==
    /\ pc = "remember"
    /\ Returned
    /\ cached' = cached \cup {cur} /\ same' = same \cup {cur}
    /\ UNCHANGED <<plan, todo, cur, found, draining, tries, counts, frappe, queue, worn, rest,
                   locks, code, seen, visited>>

\* mark_retry_success.
Resolve ==
    /\ pc = "resolve"
    /\ pc' = "each" /\ queue' = queue \ {cur} /\ worn' = worn \ {cur}
    /\ UNCHANGED <<plan, todo, cur, found, draining, tries, counts, frappe, cached, same,
                   rest, locks, code, seen, visited>>

\* The backoff of the row is base * 2^attempt_count, of floats, before the cap.
TooWorn == draining /\ cur \in worn

\* The OverflowError is raised in the handler itself, and nothing catches it.
Overflow ==
    /\ pc = "failed"
    /\ TooWorn
    /\ Abort
    /\ UNCHANGED <<plan, todo, cur, found, draining, tries, counts, frappe, store, rest,
                   locks, seen, visited>>

\* enqueue_retry, or mark_retry_failed in a drain; either counts one more attempt of a
\* row that is there.
Requeue ==
    /\ pc = "failed"
    /\ ~TooWorn
    /\ pc' = "each"
    /\ queue' = queue \cup {cur} /\ worn' \in {worn, worn \cup ({cur} \cap queue)}
    /\ IF draining THEN UNCHANGED result ELSE Count("failed")
    /\ UNCHANGED <<plan, todo, cur, found, draining, tries, failures, frappe, cached, same,
                   rest, locks, code, seen, visited>>

\* Mutant: the handler of a failed push swallows the error of its own enqueue.
Swallowed == pc' = "each" /\ UNCHANGED code

\* The steps that write to the state file, and what a "database is locked" does to
\* each: within the try of the push it is a failed push, elsewhere it ends the run.
InTry == {"fill", "remember", "resolve"}

LockedHandler == Abort

Locked ==
    /\ locks < MaxLocks
    /\ locks' = locks + 1
    /\ \/ pc \in InTry /\ pc' = "failed" /\ UNCHANGED code
       \/ pc = "failed" /\ ~TooWorn /\ LockedHandler
       \/ pc = "save_error" /\ Abort
       \/ pc = "each" /\ todo = {} /\ ~draining /\ Abort
       \/ pc = "each" /\ draining /\ (\E r \in todo : Droppable(r)) /\ Abort
    /\ UNCHANGED <<plan, todo, cur, found, draining, tries, counts, frappe, store, rest,
                   seen, visited>>

Run ==
    \/ Start \/ HealthFails \/ Wake \/ Ordering \/ Ordered \/ BeginEntity \/ EndSync
    \/ Fetch \/ FetchFails \/ Skip \/ Save \/ Dequeue \/ DropRow \/ EndDrain
    \/ BeginPush \/ Get \/ Fill \/ Compare \/ Written \/ RequestFails \/ Remember
    \/ Resolve \/ Requeue \/ Locked \/ HealthPasses \/ UnknownEntity \/ Overflow

CommandSpec == CommandInit /\ [][Run]_commandVars

\* The process runs on; Tally and Frappe are not both up for ever in vain: of the
\* health checks made again and again, one passes again and again.
FairCommandSpec ==
    CommandSpec /\ WF_commandVars(Run) /\ SF_commandVars(HealthPasses)

-----------------------------------------------------------------------------
Syncing == {"--full-sync", "--incremental-sync", "--resync-entity"}

\* A command that exits with 0 has pushed all it fetched, whatever answers came in
\* between (main, total_failed); it may have fetched nothing: see README.
ExitZeroIsClean ==
    code = "0" /\ command \in Syncing
        => \A r \in seen : r \in onSite \/ EntityOf[r] \notin Mapped

\* When an entity's watermark is about to be saved, what was fetched of it is in
\* Frappe, in the queue, or can never be pushed, though the state file was locked
\* on the way (_sync_entity's handlers).
AccountedBeforeSave ==
    pc = "each" /\ ~draining /\ todo = {}
        => \A r \in seen \cap RecordsOf(Head(plan)) :
               r \in onSite \/ r \in queue \/ Hopeless(r)

\* The counters of an entity add up to what was fetched, unless upsert_cache raised
\* after a push was counted: then that record is counted a second time.
CountsAddUp ==
    LET counted == result.created + result.updated + result.unchanged + result.failed
        unmapped == IF Head(plan) \in Mapped THEN 0
                    ELSE Cardinality((seen \cap RecordsOf(Head(plan))) \ Unparseable)
    IN  pc = "each" /\ ~draining /\ todo = {}
            => /\ counted + unmapped >= result.fetched
               /\ counted + unmapped <= result.fetched + locks

\* No answer of Tally or Frappe alone ends a run early ("it never aborts the whole
\* cycle"): a registry that cannot be ordered does, a locked state file, and, in a
\* drain, two rows it may hold: one of an entity that is not registered any more, and
\* one tried so often that its backoff overflows.
BadRow == draining /\ (cur \in worn \/ \E r \in queue : EntityOf[r] \notin Name)

EndedEarly ==
    code = "traceback" \/ pc = "down" \/ (code = "2" /\ command = "--process-retries")

OnlyStoreAborts == EndedEarly => raised \/ locks > 0 \/ BadRow

\* A cycle asks Tally for an entity only after all that it depends on ("masters
\* first, then vouchers, in dependency order").
DependenciesFetchedFirst ==
    pc = "fetch" /\ command # "--resync-entity" => dependsOn[Head(plan)] \subseteq visited

\* The steps a push, a record, a drain, an entity and the order may still take, the
\* attempts of every request among them.
AttemptsLeft == MaxAttempts - tries

PushLeft ==
    CASE pc = "get" -> 7 + MaxAttempts + AttemptsLeft
      [] pc = "fill" -> 6 + MaxAttempts
      [] pc = "compare" -> 5 + MaxAttempts
      [] pc \in {"put", "post"} -> 4 + AttemptsLeft
      [] pc = "remember" -> 3
      [] pc = "resolve" -> 2
      [] pc = "failed" -> 1
      [] OTHER -> 0

PerRecord == 8 + 2 * MaxAttempts
AllRecords == PerRecord * Cardinality(Record)
PerEntity == AllRecords + MaxAttempts + 3

RecordsLeft == PerRecord * Cardinality(todo) + PushLeft + 1

EntityLeft ==
    CASE pc = "fetch" -> AllRecords + 2 + AttemptsLeft
      [] pc = "save_error" -> 1
      [] OTHER -> RecordsLeft

OrderLeft ==
    2 * Cardinality(remaining) + (IF ready = {} THEN 1 ELSE 0) + (IF raised THEN 0 ELSE 1)

SyncLeft ==
    CASE pc = "start" -> PerEntity * Cardinality(Name) + 2 * Cardinality(Name) + 4
      [] pc = "health" -> PerEntity * Cardinality(Name) + 2 * Cardinality(Name) + 3
      [] pc = "order" -> PerEntity * Cardinality(Name) + OrderLeft
      [] pc = "entity" -> PerEntity * Len(plan)
      [] OTHER -> PerEntity * (Len(plan) - 1) + EntityLeft

StepsLeft ==
    IF pc \in {"exit", "asleep", "down"} THEN 0
    ELSE IF pc = "dequeue" THEN AllRecords + 2
    ELSE IF draining THEN RecordsLeft
    ELSE AllRecords + 3 + SyncLeft

\* A command, and each round of the loop, is over after a number of steps that is
\* known when it starts: no answer, no failure and no lock gives it more to do than
\* its records, with MaxAttempts for each request (retry_engine.py, process_retry_queue).
StepsRunOut ==
    [][pc \notin {"asleep", "down"} => StepsLeft' \in 0 .. StepsLeft - 1]_commandVars

\* Every command but the endless loop ends, whatever Tally and Frappe answer.
CommandEnds == command # "serve" ~> pc = "exit"

\* The loop comes to the retry queue again and again, if the registry can be ordered.
LoopDrains == (Serving /\ []~raised) => []<>(pc = "dequeue")

=============================================================================
