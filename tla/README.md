# TallyConnector in TLA+

TallyConnector copies the masters and vouchers of a TallyPrime company to a
Frappe site: incrementally by Tally's `ALTERID`, with a local cache that spares
lookups, a retry queue for pushes that fail, and a SQLite file that holds all of
its memory. This directory models that pipeline, checks it with TLC on small
instances and proves parts of it with TLAPS for all of them.

All paths are relative to the repository's root.

## 1. The system

| Component | State | Operations | Talks to |
|---|---|---|---|
| `sync/engine.py` | locals of the running job: entities left, `max_alter_id`, records at hand, counters | `run_full_sync`, `run_incremental_sync`, `resync_entity`, `process_retry_queue` | Tally client, dedup, Frappe client, store |
| `sync/state_store.py` | `sync_state` (watermark per entity), `retry_queue`, `sync_cache` in one SQLite file | one transaction per method | every process that opens the file |
| `frappe/dedup.py` | none | `find_existing`: the cache, then a GET whose answer is cached | store, Frappe client |
| `frappe/client.py`, `services/retry_engine.py` | attempts made of the current request | GET, POST, PUT, each repeated after a timeout or a 5xx | the Frappe site |
| `tally/client.py`, `tally/xml_builder.py` | attempts made | one collection request per entity: type, `$AlterID > since`, dates for vouchers | Tally |
| `tally/xml_parser.py`, `tally/mapper.py`, `models/*.py` | none | XML to a dictionary to a pydantic model, or a `ValidationError` | |
| `models/registry.py` | the 25 entity specs (14 masters, 11 vouchers) | `get_entity`, `resolve_sync_order` | |
| `frappe/mapping.py` | the mapping file | which entities are pushed, `MappingEntry.apply` | |
| `app.py`, `services/scheduler.py`, `services/health_check.py` | none | one-shot jobs; the endless loop health check, incremental sync, retry drain | engine |
| `config/settings.py` | `.env` | `FRAPPE_BASE_URL`, `STATE_DB_PATH`, attempts, backoff, interval | all |
| `utils/`, `verify_setup.py`, `dump_xml.py`, build files | none | logging with redaction, diagnostics, packaging | |

Behaviour that is hard to test:

* **Failure and crash.** The engine has no transaction over Frappe and SQLite. A
  process can die, and an answer can be lost, between a POST, the cache row, the
  queue row and the watermark; SQLite itself may refuse a write.
* **Several processes.** The documentation tells the user to run
  `python app.py --process-retries` while the service runs: two processes on one
  file, whose single operations are atomic and whose sequences are not.
* **Order and time.** A queue row holds a *version* of a record; newer versions go
  past it, and a retry pushes the old one again. Rows wait; drains take a hundred at
  most, in the order of their ids.
* **Memory that outlives its subject.** The cache names documents that users
  delete, on a site that the settings may no longer point at; the watermark speaks
  for records that a date-range resync never fetched; a hash stands for a document
  that a push without an answer may have changed.

What makes each component correct: the *engine* loses no version, overwrites no
stranger's document and reports "unchanged" only for what is; the *queue* keeps
its rows until they are pushed and lets no row keep another out; the *cache* is a
speed-up and nothing else; the *watermark* passes a version only when that version
is in Frappe or queued; the *clients* create twice by nothing but one POST sent again; the *sync order* puts
what is depended on first; the *parser and models* let no half of a record
through; the *exit code* says whether all that was fetched was pushed.

`PROJECT.json` lists every component with its status and every hazard with the
properties that cover it, or why none does.

## 2. The modules

```
Mirror     abstract: sites that follow a source
RowQueue   abstract: what the retry_queue table promises

Registry        entities, order, mapping, verdict of the models   (constants)
  Tally         records and their AlterIDs; what an export returns
  Frappe        the sites' documents; GET, POST, PUT, deletion
  StateStore    the three tables; one operator per StateStore method
    SyncEngine  the processes: engine, dedup, clients, command line, faults
      SyncProperties     what is promised; implements Mirror and RowQueue
        MCSyncEngine     small instances for TLC
        SyncEngineProofs   types, whose document a push writes        (TLAPS)
          NothingLostProofs      one process loses no version         (TLAPS)
            NeverForgottenProofs   any processes forget no record     (TLAPS)
            DocumentProofs         copies of one POST; full syncs cover (TLAPS)
            SyncRefinementProofs   it is a Mirror, its queue a RowQueue (TLAPS)

RetryQueue      the queue with counts, backoffs and a clock; implements RowQueue
  MCRetryQueue, RetryQueueProofs (TLAPS)

SyncOrder       resolve_sync_order, pass by pass
  Command       one run of app.py, reply by reply: order, counters, exit code
    MCCommand, CommandProofs (TLAPS)

RecordPath      one record, field by field: XML, model, payload, hash, document
  MCRecordPath, RecordPathProofs (TLAPS)
```

The same code is looked at three times, each time with the detail its questions
need. `SyncEngine` has versions, several processes and crashes, and one step for a
whole request that fails. `Command` has one process and no versions, but every
kind of reply, every attempt, every counter and every way out. `RecordPath` has a
push that ends well, is cut short, or is retried from a stored record, and what
`SyncEngine` calls "a version" is there a row of fields. `RetryQueue` has one thing only, the queue, with its times.

### SyncEngine and what it stands on

`Registry` holds the constants the others share. `Tally`, `Frappe` and
`StateStore` each own their variables and say what an operation does to them;
`SyncEngine` says who performs it and when.

**Data.** A record is its natural key. Its version is the `AlterID` it has in
Tally. The shipped `frappe/mapping.yaml` maps `alter_id`, so the content hash of
a payload identifies the version and is modelled by it; 0 is the empty hash that
`find_existing` caches. A document has a record, a version and whether it is
still there; its name is its position on the site. `last_alter_id` NULL, 0 and a
missing row are all 0: `$AlterID > 0` returns what no filter returns.

**Control.** `proc[p]` is the local state of process `p`, with `pc` naming the
call it makes next:

| `pc` | code | next |
|---|---|---|
| `entity` | `_run_cycle` takes the next entity, reads the watermark | `fetch`, or the job's end |
| `fetch` | `send_request`, `parse_collection_response` | `each`; on an error the watermark is written back, `entity` |
| `each` | the loop over records or over rows | `get`/`compare` for a push; `entity` after `update_last_sync`; `idle` after a drain |
| `get`, `fill` | `find_existing`: GET, then `upsert_cache` with `""` | `compare` |
| `compare` | `get_cache_entry` and the hash | `put`, `post`, or done |
| `put`, `post` | the request, repeated up to `retry_max_attempts` | `remember` or `failed` |
| `remember` | `upsert_cache` with the hash | `each`, `resolve` |
| `resolve` | `mark_retry_success` | `each` |
| `failed` | `enqueue_retry`, in a drain `mark_retry_failed` | `each` |
| `dequeue` | `dequeue_due_retries` | `each` |
| `idle`, `down` | between jobs; dead | a job; restarted |

A step is one call on Tally, on Frappe or on the store. Between two steps any
other process may go, Tally's users edit (`UserEdits`), Frappe's users delete
(`UserDeletes`), a backoff ends (`TimePasses`), the process dies (`Crash`).
`AckLost` is a request the site carried out whose answer did not arrive, after which
it is repeated, or was a 2xx that is not JSON, after which it is not; `Unreachable` one it did not carry out; `Rejected` a 4xx or an authentication error,
after which nothing is repeated; `Missing` the 404 of a PUT on a deleted document.
`acked` is a history variable: the latest version of
each record that a site has confirmed.

### RowQueue, RetryQueue

`RowQueue` says what the table promises with times reduced to "due" and
"waiting": one row per record, ids handed out once and in order, a row that keeps
its id until it is deleted, and only a failed retry that postpones it. Both
`SyncEngine` (through `Rows`, which forgets nothing but the processes) and
`RetryQueue` (through `Seen`, which turns a wait of 0 into "due") implement it;
each says so as `QueueContract`.

In `RetryQueue` a row has `attempts` (`attempt_count`) and `wait` (what is left
until `next_attempt_at`, in ticks). `Enqueue` is `enqueue_retry` with its conflict
clause: id kept, one attempt more, due now. `DueItems` is `dequeue_due_retries`
with its order and limit; the items keep the `attempts` they were read with, and
`Backoff` is computed from those. `Push`, `PushFails` and `StartDrain` are a sync
and its end, `Succeed` and `Fail` the two ways of a drained row, `EndDrain`, `Wake`
and `Tick` the scheduler, `Die` and `Restart` a crash and Task Scheduler. `Fail`
has a branch for the `OverflowError` of the code's float product. `fails` and
`age` are history: a record's failures since its row was created, and the ticks
since the last of them that was a retry.

### SyncOrder, Command

`SyncOrder` is `resolve_sync_order` over any `depends_on`, unknown names and
cycles included: `NextPass` computes `ready` once, `Emit` takes its entities in
the order of declaration, `Raise` is the `ValueError`.

`Command` starts with the choice of a command. `pc` runs through `start`,
`health`, `order` (SyncOrder's steps), `entity`, `fetch`, `each`, the push
(`get`, `fill`, `compare`, `put`/`post`, `remember`, `failed`, `resolve`),
`save_error`, `dequeue`, and ends in `exit` with a `code`, or `asleep` and `down`
for the service. `FetchFails` and `RequestFails` take any of the error classes of
the two clients; `Over` says which are repeated and how often. `Locked` is SQLite's
"database is locked" at each step that writes: within the `try` of a push it is a
failed push; in the handler itself, at the watermark or at a dropped row it is
an exception no one catches. Two rows of a drain end a run as well: one of an entity
that has left `REGISTRY` (`UnknownEntity`: the `KeyError` of `get_entity`, exit code 2
from a command, the end of the service's process), and one of those in `worn`, tried so
often that the backoff of its next failure raises `OverflowError` in the handler
(`Overflow`). A row becomes worn by being queued or failing once more; how often that
takes is counted in `RetryQueue`. Incremental syncs and resyncs of a date range fetch
any part of an entity (`InPart`). `result` and `failures` are `EntitySyncResult` and
`total_failed`. `Hopeless` records are those that are never pushed: unparseable,
without a key, or of an unmapped entity.

### RecordPath

`row[o]` is what Tally would export of an object: each field as a child element,
an attribute, both or neither, blank or not, and a list of entries. `FieldValue`,
`NameValue` and `RealLines` are the parser's rules, `ValidField` and `Parseable`
pydantic's verdict, `Payload` is `MappingEntry.apply`, `ContentHash` the hash.
A push is `Answered`, or `CutOff`: an error, or the end of the process, in the GET or
later, before or after the site has acted. In either, `Write` lets a POST whose answers
are lost leave up to `MaxAttempts` documents, for tenacity sends it again with no GET in
between. `Sync(o)` pushes the row as Tally shows it, and a push that raises stores the
parsed record in `queue`, over the one that is there; `Retry(key)` pushes the stored
record, whatever has been pushed since, and deletes the row at the end, if the process
lives. One process does both: a row is read and resolved in one step. Edits between the
fetch of a record and its push are left out: such an edit is like one after the push.
`Merged` is what a PUT does: fields that are not in the payload stay.

### Mutants

The operators commented as mutants (`EnqueueIfAbsent`, `CacheOnly`, ...) are
plausible mistakes in the definition below them. No specification uses them; each,
put in its place, makes one property of `PROJECT.json` fail, which is how we know
that the property looks at the code.

## 3. The runs

Run TLC with `tlc -config X.cfg M`.

| Run | Module | Instance | What it shows |
|---|---|---|---|
| `Mirror` | `MCSyncEngine` | a service that also runs full syncs; a master, a voucher and an unmapped entity; fetch failures and crashes | while no push fails, what the watermark has passed is in Frappe in its current version (`Mirrored`), a cached hash is never ahead of its document (`UnchangedIsSound`), every version written reaches the site (`EventuallyCurrent`), and a site never goes back (`IsMirror`) |
| `NothingLost` | `MCSyncEngine` | one process, all jobs but date ranges, two attempts per request; two records that are pushed, one that does not parse, one of an unknown entity; every failure of a fetch, a push or the process, rows left by an earlier release | a version the watermark has passed is confirmed or queued (`NothingLost`); a record has no more documents than one POST has attempts (`CopiesOfOneRequest`) |
| `Shared` | `MCSyncEngine` | the service and `--process-retries` side by side, one row per drain, one attempt per request | the weaker promise two processes keep: no record is forgotten (`NeverForgotten`); every row leaves the queue (`QueueDrains`), every record gets its document (`EventuallyExists`), the table keeps its contract (`QueueContract`) |
| `OwnDocument` | `MCSyncEngine` | all jobs, two sites and a switch between them, deletions, rejections | no push overwrites another record's document (`NoForeignOverwrite`), because the cache names only a record's own (`CacheNamesOwnDocument`); a full sync or resync leaves nothing of its entity unwritten and unqueued on the site in use, whatever is remembered of the other (`FullSyncCovers`) |
| `Backoff` | `MCRetryQueue` | three records, two of which Frappe refuses for ever, one row per drain | a row is tried again only after the full backoff for its failures (`BacksOff`); refused rows are retried for ever (`RefusedRowsStay`) and do not keep an accepted one in the queue (`GoodRowsDrain`); the contract of `RowQueue` holds (`QueueContract`) |
| `Command` | `MCCommand` | every command, four registries (two of which cannot be ordered), every reply, one lock, a queue with a row of an entity that is gone and with worn rows | the order (`DependenciesFirst`, `EachOnce`, `RaisedOnlyIfStuck`, `DependenciesFetchedFirst`); what a run leaves behind and says of it (`AccountedBeforeSave`, `CountsAddUp`, `ExitZeroIsClean`, `OnlyStoreAborts`); that it has only so many steps to take, ends, or goes on (`StepsRunOut`, `CommandEnds`, `LoopDrains`) |
| `Record` | `MCRecordPath` | a company, one or two ledgers of one name, a voucher with entries; two edits, two attempts per request, any number of pushes and retries | what would be reported as unchanged is on the site as it is in Tally, unless an older record is still queued (`UnchangedIsCurrent`); an object has no documents but the copies of one POST (`CopiesOfOnePush`); no half of a voucher (`OnlyWholeDocuments`), empty tags without effect (`BlankLinesDoNotMatter`) |

Five runs end in a counterexample, to something the repository says of itself.
The findings in `PROJECT.json` quote the line:

| Run | Module | Property | The behaviour TLC finds |
|---|---|---|---|
| `StaleRetry` | `MCSyncEngine` | `CurrentOrQueued` | version 1 fails and is queued, fails again; version 2 is pushed by the next cycle; the retry then puts version 1 over it and deletes the row |
| `OvertakenRow` | `MCSyncEngine` | `NothingLost` | `--process-retries` pushes version 1 of a row; the service replaces the row's payload by version 2, keeping the id; the success of version 1 deletes it |
| `RangeGap` | `MCSyncEngine` | `EventuallyExists` | a resync of a date range fetches a late AlterID only and saves it as the entity's watermark |
| `Overflow` | `MCRetryQueue` | `FailureIsContained` | the backoff of a row with too many attempts raises inside the exception handler, and the service ends |
| `RenamedCompany` | `MCRecordPath` | `OneDocument` | a company is renamed in Tally: its key is its name, so a second document with the same GUID is created |

**What passing properties leave out.** Each is as strong as the code allows; these
variations of a passing run fail, for the reason given, and are worth knowing:

* `CopiesOfOneRequest` and `CopiesOfOnePush` allow what the code does: the answer to a
  POST is lost and tenacity posts again without a GET, up to `retry_max_attempts` (5 as
  shipped) times. With 1 in place of `MaxAttempts` both are violated. In `Shared`, where
  two processes both find nothing and both POST, `CopiesOfOneRequest` is violated.
* `UnchangedIsCurrent` without its exception is violated: version 1 is queued, version 2
  is pushed and cached, a retry puts version 1 on the site and its answer is lost. Until
  the row is retried again, a sync that fetches version 2 reports it as unchanged. When
  the retry succeeds, the cache has the hash of version 1, and the site keeps version 1
  until the record is altered or a full sync comes (`StaleRetry`). That the document
  shows the object in the end is therefore not true of the code, and not claimed.
* `OnlyStoreAborts` excepts a drain with a row of an unknown entity or with a worn row
  under way; the first is `get_entity`'s `KeyError`, the second the `Overflow` run.
* `NothingLost` with `Faults = {"delete", "rejected"}`, no rows at the start and
  `FairSpec` violates `QueueDrains`: a document deleted in Frappe stays in the
  cache; PUT, 404, backoff, for ever.
* `NothingLost` with `LegacyQueue <- UnknownRowFirst`, no faults and `FairSpec`
  violates `QueueDrains`, also when that speaks of the known record only: the row of
  an unknown entity ends every drain before the row behind it.
* `OwnDocument` with answers lost or a crash (`lost_ack` or `crash` added to
  `Faults`, and four faults; one record with two versions is enough, and keeps the
  search short) violates `FullSyncCovers`: version 1 is refused and queued, version 2 pushed and its hash cached; the retry puts version 1 back, its
  answer is lost, and the site is switched, where the retry succeeds and the row
  goes. Back on the first site, the full sync compares version 2 with the cached
  hash, calls it unchanged, and the document stays at version 1. The theorem says so
  in its hypothesis (`Informed`): the process learns of every effect it has.
* `Record` with `Stamped = {}` (a mapping without `alter_id`) violates
  `UnchangedIsCurrent`: an edit is pushed but not cached, then undone in Tally, and
  the old hash says "unchanged". The AlterID in the payload prevents it.
* `ExitZeroIsClean` speaks of records that were fetched. A cycle in which every
  fetch failed has `total_failed` 0 and exits with 0.
* `CountsAddUp` allows one more than was fetched per lock: a record whose
  `upsert_cache` raised is counted as created and as failed.
* A field that is cleared in Tally keeps its old value in Frappe
  (`tests/unit/test_frappe_mapping.py:12` wants it so); `RecordPath`'s properties
  speak of fields that have a value.

**Bounds.** `MaxAlter` (AlterIDs handed out, 2 to 6, what the file starts with
included) allows a record to be altered while an older version is under way, queued
and retried, which takes three versions. `MaxFaults` (1 to 3) allows a push to fail,
its retry to fail, and a crash or a lost answer in between; the counterexamples
above need no more than three. Two records are needed for the watermark of one to
pass the other and for the queue's order. `Limit` 1 makes the rows of a drain
compete, `MaxAttempts` 2 a request be repeated. Two processes, as the documentation
suggests. The queue, the cache and the documents are bounded by these. In
`NothingLost` the row of the unknown entity is the last of those left in the file, so
that the others are drained before it ends a drain; rows made later come behind it and
are not, but the two records have rows from the start, whose ids they keep when pushes
fail again.

`RetryQueue` counts in ticks: a pause of `Interval` 1 and a cycle of up to `Slow` 1
against a `Cap` of 6, which doubling from `Base` 1 reaches after three failures
(`MaxCount`; an assumption demands `Base * 2 ^ MaxCount >= Cap`, so that counting
no further changes no backoff). `Overflow` is 1024 in Python; 9 in `Backoff` is out
of reach and 2 in `Overflow` stands for it, so that the branch is taken. In `Backoff`
two refused rows come back every 6 ticks and each drain, at most 2 ticks from the
last, takes one row: three drains in the time of two rows. That is the condition
under which `GoodRowsDrain` holds. In the shipped settings, a pause of 15 minutes, a
cap of an hour and 100 rows per drain, the refused rows must stay below some 400.

`Command` has records of every kind (pushed, without a key, unmapped, unparseable),
`MaxAttempts` 2 and one lock per behaviour; a second adds no way out that the first
lacks. `RecordPath` allows two edits and two entries: one edit cannot be undone, and
one entry cannot be the valid one beside a bad one. Its pushes and retries are not
bounded, and `MaxAttempts` is 2 in `Record`. `Companies` are sets of objects
that share a company, small because the objects meet only within a doctype.

**Fairness.** In `SyncEngine`, `WF(Step(p))` for the processes in `Service`:
`run_forever` starts a cycle again when the last has returned, a running process
goes on, and Task Scheduler restarts one that failed (`docs/installation.md`,
"Auto-restart"). It includes that the health check lets a cycle through again and
again; a cycle it does not let through changes nothing and is a stuttering step.
`WF(TimePasses(r))`: a time in the future is reached. Users and faults are not fair,
one-shot processes are not fair, and a behaviour has at most `MaxFaults`
disturbances: liveness is claimed for the time after they have ended.

In `Command`, `WF(Run)`, the process goes on, and `SF(HealthPasses)`, where the
health check is a step of its own: of the checks made again and again, one passes
again and again. Which reply comes is not fair; `CommandEnds` holds against the
worst. In `RetryQueue`, `WF(Work)` and `WF(Tick)`: the loop goes on, time passes.
`RecordPath` has no fairness and no liveness property.

**Deadlock** is checked but in `Command` and in the two `RecordPath` runs: a command
exits, and a company of which all is pushed and cached has nothing left to do.

## 4. The proofs

Run `tlapm M.tla`. All theorems are proved from the named assumptions on the
constants, for any sets of records, entities, sites and processes, any bounds and
any faults. Where a promise needs more, it is a hypothesis of the theorem, not an
assumption of a module.

| Module | Theorem | Says |
|---|---|---|
| `SyncEngineProofs` | `TypeCorrect` | `TypeOK` |
| | `CacheIsOwn`, `PushesStayOwn` | `CacheNamesOwnDocument`, `NoForeignOverwrite` |
| `NothingLostProofs` | `AloneNothingIsLost` | `Alone` implies `NothingLost` |
| `NeverForgottenProofs` | `NobodyForgets` | `Lasting` implies `NeverForgotten` |
| `DocumentProofs` | `CopiesAreOfOneRequest` | `OneProcess` implies `CopiesOfOneRequest` |
| | `FullSyncAlwaysCovers` | `Informed` implies `FullSyncCovers` |
| `SyncRefinementProofs` | `AlwaysMirrored`, `UnchangedIsAlwaysSound` | `Unfailing` implies `Mirrored` and `UnchangedIsSound` |
| | `EngineIsMirror` | `Unfailing` implies `IsMirror`: the engine implements `Mirror` |
| | `EngineQueueIsRowQueue` | the engine's queue implements `RowQueue` |
| `RetryQueueProofs` | `TimedQueueIsRowQueue` | the timed queue implements `RowQueue` |
| | `TimedTypeCorrect`, `AlwaysBacksOff` | `TimedTypeOK`, `BacksOff` |
| `CommandProofs` | `DependenciesAlwaysFirst`, `EachExactlyOnce`, `RaisesOnlyIfStuck` | `DependenciesFirst`, `EachOnce`, `RaisedOnlyIfStuck` |
| | `FetchesInOrder`, `AllAreAccounted` | `DependenciesFetchedFirst`, `AccountedBeforeSave` |
| | `ZeroIsClean`, `CountsAlwaysAddUp` | `ExitZeroIsClean`, `CountsAddUp` |
| | `OnlyTheStoreAborts` | `OnlyStoreAborts` |
| | `RankedNeverRaises` | `Ranked` implies that the order is found, and that outside a drain only locks end a run early |
| | `StepsAlwaysRunOut` | `StepsRunOut` |
| `RecordPathProofs` | `UnchangedIsCurrentAlways` | `Distinct` and AlterIDs imply `UnchangedIsCurrent` |
| | `CopiesOfOnePushAlways` | `Distinct` and `KeysStay` imply `CopiesOfOnePush` |
| | `WholeDocumentsAlways` | `OnlyWholeDocuments` |
| | `BlankLinesNeverMatter` | `BlankLinesDoNotMatter` |

The arguments:

* `TypeOK` is not inductive as it stands: `_sync_entity` uses the head of the
  entities left, which is there only because a process past `entity` in a sync has
  one. `TypeInv` adds that (`LocalState`).
* The cache alone is not enough for `CacheNamesOwnDocument`, since a process uses a
  name long after it read it. `OwnInv` adds that the name every process has looked up
  belongs to the record it has at hand, on its site. It stays true because documents
  keep their names and records (`Kept`), because a POST makes a new name, and because
  a process changes site only when idle.
* `Alone`: one process, without date-range resyncs, on one site; any failure of a
  fetch, a push or the process, deletions and rows left in the file included.
  `LossInv` says of the process that each record of the entity it is syncing is still
  at hand in its current version, or safe, or altered since with an AlterID above all
  the process has seen, so that the watermark will not pass it (`Covered`, `Newer`).
  It also needs what makes deleting a row harmless: no row holds a version above the
  one at hand, a cached hash is of a confirmed version, and after a push the version
  at hand is confirmed. The first of the three is what a second process breaks
  (`OvertakenRow`), `Newer` what a date range breaks (`RangeGap`).
* `Lasting`: any number of processes on one site whose documents nobody deletes,
  without date-range resyncs. Versions cannot be compared here, since another process
  may put an older one back; `ForgetInv` speaks of existence. `Owed` is `Covered`
  with "has a row or a document" for "safe", and a row is deleted only after its
  record has a document. A watermark that another process raised adds no debt: what it
  passed has a row or a document already.
* `CopiesAreOfOneRequest`: one process (`OneProcess`); any number of attempts, any jobs,
  sites, switches, deletions, crashes. `CopiesInv` says that a process about to POST, or
  to repeat one, has found no document, and that there are no more of them than it has
  made attempts, which holds because nobody else creates one; whatever way a push ends,
  there is a GET before the next POST, which finds one of them.
* `Informed`: one process that loses no answer to a write and does not die; any jobs,
  sites, switches, rejections, deletions and rows. `CoverInv` says of a full sync or
  resync that each record of its entity is at hand in its current version, done
  (written in that version, or queued; a user may delete the document afterwards), or
  altered since (`Reached`, with the `Newer` of `NothingLostProofs`). "Unchanged" must be as good as a write: `HashesSound` says
  that no hash is ahead of the document its entry names, on any site, but for the
  entry the process is about to write (`Caching`). A lost answer is what breaks it.
* `Unfailing`: `Alone`, an empty queue at the start, and faults that are failed
  fetches and crashes only. Then each write is confirmed in the step that makes it, so
  `SitesInv` can say that the confirmed version is the latest one held, that the queue
  stays empty, and that a hash is of a version held; `PusherInv`, that what is at hand
  is never older than what the site holds, which makes every effect a step forward.
  With `LossInv`, which gives "confirmed" for what the watermark has passed, that is
  `Mirrored`. For `EngineIsMirror`, `UserEdits` is `Write` (the AlterID it takes is
  above all others), `Acknowledged` is `Publish` or a stutter, and all other steps
  stutter, the crash and the restart among them.
* The queue's refinements: a step on the table is one step of `RowQueue` or none.
  `QueueInv` and `RowInv` are the shape of the rows and that ids stay below the next
  one, with which a deletion by id deletes a row or nothing. The times need no
  argument: a row that a tick makes due is an `Elapse`.
* `BacksOff` speaks of rows a drain holds, and needs the table at all times:
  `BackoffInv` says that what a row has waited and what it has still to wait make the
  backoff for its failures. `HeldInv` says that within a drain the rows are as they were
  read, since the loop neither syncs nor waits while it drains. The theorem is about that
  loop: with `--process-retries` beside it a failed sync could raise a row's count while a
  drain holds the row, and the drain's own failure would then set a backoff of one failure
  less; `RetryQueue` has one process and does not speak of this.
  The arithmetic rests on one assumption about a constant that
  TLAPS cannot derive, `PowersAreNumbers`: 2 to the power n is a number.
* `OrderInv` adds that the pass under way was computed from what was resolved before
  it, and that every entity is either resolved or remaining.
* `CommandProofs` has one invariant per promise, each on top of those before it.
  `PushInv`: the record under way can be pushed, and the cache has only what is on
  the site. `ModeInv`: which commands come to which steps. `PlanInv`: what is left of
  the plan is a rest of the resolved order, and no entity comes twice, which is
  needed for an entity's records to be counted once. `AccountInv`, `CleanInv` and
  `CountInv` say at every record what `AccountedBeforeSave`, `ExitZeroIsClean` and
  `CountsAddUp` say at the end; the last counts a record that is under way, and one
  more for each lock, since a locked `upsert_cache` makes a record counted twice. Of
  a drain `PushInv` says that what was dequeued is in the queue until it is handled,
  so that a row which ends the run is one of those `OnlyStoreAborts` names.
* `Ranked` is what the shipped `REGISTRY` is: each entity depends on registered ones
  of a lower rank (groups, then ledgers and items, then vouchers). If the algorithm
  raised, one of the lowest rank among those left would wait for a lower one among
  them (`RankedIsResolved`).
* `StepsLeft` is a bound, in whole steps, on what a command or a round of the loop has
  still to do: what is left of the push under way, with `MaxAttempts` for each request,
  the records at hand, the entities of the plan with all their records each, the passes
  of the order, and the drain at the end. It is a number (`StepsAreNumbers`) and every
  step makes it smaller: failed attempts count up to their maximum (`TriesInv`), an
  order has no entity twice and so is no longer than the registry (`OrderIsShort`), and
  a drain takes its rows once. Only `Wake`, the scheduler, gives the loop a new round.
* `RecordPathProofs` rests on what one edit, one sync and one retry do (`EditEffect`,
  `SyncEffect`, `RetryEffect`, and `WriteEffect` under both), and on `Base`: a stored
  record is one that was parsed. `WholeDocumentsAlways` has no hypothesis: a payload is
  whole because its record was validated, by a retry once more, and a PUT takes no field
  away. The other two need to know whose document a push writes. `Distinct` says that
  objects of one DocType have natural keys that no other of them ever has, as GUIDs and
  the names of open companies are; then a cached or found document is the object's own
  (`SourceIsOwn`, `WrittenIsOwn`). `KeysStay` says that no object is renamed, and is what
  `RenamedCompany` breaks; the key may be cleared for a time. Then the copies of an
  object's first POST stand next to each other and every later push finds one of them.
  The instance of `Record` satisfies both. For `UnchangedIsCurrent` keys may change, but
  the records must carry their AlterID: `DatedInv` says of a stored record that it is no
  newer than its row, of a hash that it is no newer either, and that the document shows
  what was hashed, unless a newer version has been tried in vain since or an older one is
  stored, which a retry may have put back. That older row is the exception the property
  makes; it ends with the row, for a retry that succeeds caches its own hash.
* `BlankLinesNeverMatter` is about a loop over the entries of a row, of any length.
  The library's induction theorems cannot be instantiated; the induction is done on one
  set of numbers at a time, with the fact that a set of numbers that is not empty has
  a least one (`InductionOnSet`). `RealLines` is the loop written as a recursive
  function, whose every round keeps one entry or none (`KeptRounds`); blank entries
  before and behind the others are rounds that keep none (`BlanksAreNotKept`).

Only model-checked are the liveness properties: `EventuallyCurrent`,
`EventuallyExists`, `QueueDrains`, `GoodRowsDrain`, `RefusedRowsStay`, `CommandEnds`
and `LoopDrains`. They rest on fairness and so on `ENABLED`, which is
beyond the prover. Of `CommandEnds` the half that needs neither is proved
(`StepsAlwaysRunOut`): a run that goes on comes to its end.

## 5. What is not modelled

* Conversions: the removal of control characters from XML, snake-case names, date
  and number formats beyond "which texts are accepted", the renaming of fields.
* The waits between the attempts of one request, the text of errors, errors in the
  command line's arguments.
* References between records: the order of entities is checked, whether a voucher's
  ledger is on the site when the voucher is pushed is not (a ledger may be created
  while a cycle is past the ledgers).
* A sync and a drain at the same time in `RetryQueue`, and two processes in `RecordPath`
  and `Command`: several processes are `SyncEngine`'s.
* A 2xx answer to a POST without a body, after which the natural key is cached as
  the document's name: Frappe does not send one.
* A mapping added after an entity's watermark has moved: a full sync is needed, and
  covers it (`FullSyncCovers`).
* Several entities of one DocType; the migration of an old `sync_cache`, which is a
  start with an empty cache.
* Logging, redaction, `verify_setup.py`, `dump_xml.py`, packaging: no state the sync
  depends on.

`status`, `last_synced_at`, `operation` and `last_error` are written by the code and
never read for a decision.

## 6. What is left of the plan

References between records, and the hazard of a master written in the middle of a
cycle.
