--------------------------- MODULE SyncProperties ---------------------------
(***************************************************************************)
(* What the connector promises, over the state of SyncEngine.              *)
(***************************************************************************)
EXTENDS SyncEngine

\* The watermark has passed the current version of r, so no incremental sync
\* will ask Tally for it again.
Passed(r) ==
    /\ Pushable(r)
    /\ EntityOf[r] \in Registered
    /\ tally[r] \in 1 .. lastSync[EntityOf[r]]

\* Site t holds version v of r, or a later one.
Holds(t, r, v) == \E n \in Matches(t, r) : docs[t][n].ver >= v

-----------------------------------------------------------------------------
(* Safety                                                                   *)

\* No push ever turns one record's document into another's: a PUT goes to a
\* document of the very record it carries, whatever the cache, the GET, the
\* other processes and the other sites did between the lookup and the PUT
\* (_push_record's existing_name, scoped by base URL since the cache was).
NoForeignOverwrite ==
    [][\A t \in Target : \A n \in Names(t) : docs'[t][n].rec = docs[t][n].rec]_vars

\* The cache only ever names a document of its own record, on its own site: the
\* reason for NoForeignOverwrite.
CacheNamesOwnDocument ==
    \A t \in Target, r \in Record :
        LET name == cache[t][r].name
        IN  name # 0 => name \in Names(t) /\ docs[t][name].rec = r

\* "queued for retry, not lost": once the watermark has passed the current
\* version of a record, the site has confirmed that version or the retry queue
\* holds it (the exception handler and update_last_sync of _sync_entity, and
\* the row's way through process_retry_queue).
NothingLost ==
    \A t \in Target, r \in Record :
        Passed(r) => \/ acked[t][r] >= tally[r]
                     \/ queue[r].ver >= tally[r]

\* The weaker form that survives several processes: a record whose current
\* version the watermark has passed has a document, or a row in the queue that
\* will make one.
NeverForgotten ==
    \A t \in Target, r \in Record :
        Passed(r) => Exists(t, r) \/ Queued(r)

\* "deduplicating on a stable GUID": one process makes a second document of a record
\* only by repeating a POST whose answers are lost, up to retry_max_attempts times;
\* none of its later pushes makes another, wherever it died before it cached the name
\* (find_existing's GET fallback).
MostCopies == IF "lost_ack" \in Faults THEN MaxAttempts ELSE 1

CopiesOfOneRequest ==
    \A t \in Target, r \in Record : Cardinality(Matches(t, r)) <= MostCopies

\* While no push fails, a record the watermark has passed is in Frappe in its
\* current version, wherever a crash or an edit came.
Mirrored ==
    \A t \in Target, r \in Record : Passed(r) => Holds(t, r, tally[r])

\* While no push fails, a record that _push_record would report as unchanged
\* is unchanged: the cached hash is never ahead of the document it names.
UnchangedIsSound ==
    \A t \in Target, r \in Record :
        LET entry == cache[t][r]
        IN  entry.hash # 0 => docs[t][entry.name].ver >= entry.hash

\* What the user guide says of a cycle: a record whose AlterID is above the last
\* one is created or updated in Frappe, or its push failed and it is queued.
CurrentOrQueued ==
    \A t \in Target, r \in Record :
        Passed(r) => Holds(t, r, tally[r]) \/ Queued(r)

\* After a switch of site, "run --full-sync": when a full sync or a resync of an
\* entity saves its watermark, each of the entity's records up to it has been
\* written in its current version to the site in use, or is queued; what the
\* cache, the queue and the watermark remember of another site does not count
\* (_sync_entity, _push_record; a user may have deleted the document since).
WrittenOrQueued(t, r) ==
    \/ Queued(r)
    \/ \E n \in Names(t) : docs[t][n].rec = r /\ docs[t][n].ver >= tally[r]

Saves(p) == proc[p].pc = "each" /\ proc[p].job # "retry" /\ proc'[p].pc = "entity"

FullSyncCovers ==
    [][\A p \in Proc :
          Saves(p) /\ proc[p].job \in {"full", "resync"}
              => \A r \in RecordsOf(Head(proc[p].left)) :
                     Pushable(r) /\ tally[r] \in 1 .. proc[p].high
                         => WrittenOrQueued(target[p], r)]_vars

\* While no push fails, the connector is a Mirror: a site's latest version of a
\* record never goes back, and is never one that Tally has not had.
Latest(t, r) ==
    LET held == {docs[t][n].ver : n \in Matches(t, r)}
    IN  IF held = {} THEN 0 ELSE CHOOSE v \in held : \A w \in held : w <= v

Sites == [t \in Target |-> [r \in Record |-> Latest(t, r)]]

Mirroring == INSTANCE Mirror WITH source <- tally, site <- Sites

IsMirror == Mirroring!MirrorSpec

\* The engine's queue, with or without failures, keeps the promises of RowQueue:
\* ids in order and never used twice, one row per record, no row that is due
\* again without its time (process_retry_queue, enqueue_retry, two processes).
Rows == [r \in Record |->
            [id |-> queue[r].id, ver |-> queue[r].ver,
             state |-> IF queue[r].due THEN "due" ELSE "waiting"]]

Queue == INSTANCE RowQueue WITH rows <- Rows, next <- nextId

QueueContract == Queue!QueueSpec

-----------------------------------------------------------------------------
(* Liveness, under FairSpec and finitely many disturbances                  *)

\* Every row leaves the retry queue.
QueueDrains == \A r \in Record : Queued(r) ~> ~Queued(r)

\* Every record of a mapped entity gets its document on the site.
EventuallyExists ==
    \A t \in Target, r \in Record :
        (tally[r] # 0 /\ Pushable(r)) ~> Exists(t, r)

\* While no push fails, every version a user writes reaches the site, in that
\* version or a later one.
EventuallyCurrent ==
    \A t \in Target, r \in Record : \A v \in 1 .. MaxAlter :
        (tally[r] = v /\ Pushable(r)) ~> Holds(t, r, v)

=============================================================================
