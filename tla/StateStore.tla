----------------------------- MODULE StateStore -----------------------------
(***************************************************************************)
(* sync/state_store.py: the SQLite file at STATE_DB_PATH.  Each operation  *)
(* is one transaction (_cursor commits or rolls back), hence one atomic    *)
(* step; the file outlives the processes that open it.                     *)
(*                                                                         *)
(*   sync_state   lastSync[e]    last_alter_id; 0 also stands for NULL and *)
(*                               for a missing row, which all fetch alike  *)
(*   retry_queue  queue[r]       the row of (entity, record, "create"), the*)
(*                               only operation the engine enqueues        *)
(*   sync_cache   cache[t][r]    the row of (entity, record, base URL)     *)
(*                                                                         *)
(* attempt_count and the arithmetic of next_attempt_at are abstracted: a   *)
(* row is due or it is backing off, and a backoff ends at some time.       *)
(***************************************************************************)
EXTENDS Registry

CONSTANT
    LegacyQueue     \* records whose rows an earlier release left in the file

ASSUME StateStoreAssumption == LegacyQueue \in Seq(Record)

VARIABLES
    lastSync, queue, cache,
    nextId          \* the AUTOINCREMENT value of the next retry_queue row

Row == [id : Nat, ver : Nat, due : BOOLEAN]
NoRow == [id |-> 0, ver |-> 0, due |-> FALSE]

CacheRow == [name : Nat, hash : Nat]
NoCacheRow == [name |-> 0, hash |-> 0]      \* hash 0 also stands for ""

StoreTypeOK ==
    /\ lastSync \in [Entity -> Nat]
    /\ queue \in [Record -> Row]
    /\ cache \in [Target -> [Record -> CacheRow]]
    /\ nextId \in Nat \ {0}

\* The i-th legacy row holds the version with AlterID i.
LegacyRow(r) ==
    IF \E i \in DOMAIN LegacyQueue : LegacyQueue[i] = r
    THEN LET i == CHOOSE i \in DOMAIN LegacyQueue : LegacyQueue[i] = r
         IN  [id |-> i, ver |-> i, due |-> TRUE]
    ELSE NoRow

StoreInit ==
    /\ lastSync = [e \in Entity |-> 0]
    /\ queue = [r \in Record |-> LegacyRow(r)]
    /\ cache = [t \in Target |-> [r \in Record |-> NoCacheRow]]
    /\ nextId = Len(LegacyQueue) + 1

Queued(r) == queue[r].id # 0

\* Mutants: WHERE entity_name is forgotten; a margin of one below the highest.
UpdateAllLastSyncs(e, alterId) == lastSync' = [d \in Entity |-> alterId]
UpdateLastSyncBelow(e, alterId) == lastSync' = [lastSync EXCEPT ![e] = alterId - 1]

UpdateLastSync(e, alterId) == lastSync' = [lastSync EXCEPT ![e] = alterId]

\* Mutants: ON CONFLICT DO NOTHING; INSERT OR REPLACE; the failure is logged and
\* not queued.
EnqueueIfAbsent(r, v) ==
    /\ queue' = IF Queued(r) THEN queue
                ELSE [queue EXCEPT ![r] = [id |-> nextId, ver |-> v, due |-> TRUE]]
    /\ nextId' = IF Queued(r) THEN nextId ELSE nextId + 1
EnqueueReplace(r, v) ==
    /\ queue' = [queue EXCEPT ![r] = [id |-> nextId, ver |-> v, due |-> TRUE]]
    /\ nextId' = nextId + 1
OnlyLog(r, v) == UNCHANGED <<queue, nextId>>

\* INSERT ... ON CONFLICT DO UPDATE: a row already there keeps its id, and its
\* payload becomes the new one.
EnqueueRetry(r, v) ==
    /\ queue' = [queue EXCEPT ![r] =
                    [id |-> IF Queued(r) THEN queue[r].id ELSE nextId,
                     ver |-> v, due |-> TRUE]]
    /\ nextId' = IF Queued(r) THEN nextId ELSE nextId + 1

\* SELECT ... ORDER BY id LIMIT: the due rows with the smallest ids.
DueRows(limit) ==
    LET due == {r \in Record : Queued(r) /\ queue[r].due}
    IN  {r \in due : Cardinality({q \in due : queue[q].id < queue[r].id}) < limit}

\* DELETE ... WHERE id: the row goes only if it still has that id.
MarkRetrySuccess(r, id) ==
    queue' = IF queue[r].id = id THEN [queue EXCEPT ![r] = NoRow] ELSE queue

\* Mutant: a row that failed twice is given up.
GiveUp(r, id) == MarkRetrySuccess(r, id)

\* UPDATE ... WHERE id: the row, if it still has that id, backs off.
MarkRetryFailed(r, id) ==
    queue' = IF queue[r].id = id THEN [queue EXCEPT ![r].due = FALSE] ELSE queue

\* Time reaches next_attempt_at.
BackoffElapses(r) ==
    /\ Queued(r)
    /\ ~queue[r].due
    /\ queue' = [queue EXCEPT ![r].due = TRUE]

\* Mutant: the key is (entity_name, tally_guid), as in the old schema.
UpsertUnscoped(t, r, name, hash) ==
    cache' = [u \in Target |-> [cache[u] EXCEPT ![r] = [name |-> name, hash |-> hash]]]

UpsertCache(t, r, name, hash) ==
    cache' = [cache EXCEPT ![t][r] = [name |-> name, hash |-> hash]]

=============================================================================
