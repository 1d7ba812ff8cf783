---------------------------- MODULE CommandProofs ----------------------------
(***************************************************************************)
(* resolve_sync_order is right for every registry; and what one run of     *)
(* app.py does to the records it fetches, for every registry, every set of *)
(* records and any number of failures and locks: proofs for TLAPS.         *)
(***************************************************************************)
EXTENDS Command, FiniteSetTheorems, WellFoundedInduction, TLAPS

-----------------------------------------------------------------------------
(* resolve_sync_order.                                                      *)

\* What makes DependenciesFirst inductive: the pass under way was computed from
\* what is resolved, and every entity is either resolved or remaining.
OrderInv ==
    /\ resolved \in Seq(Name)
    /\ remaining \subseteq Name
    /\ ready \subseteq remaining
    /\ Emitted \cup remaining = Name
    /\ Emitted \cap remaining = {}
    /\ \A n \in ready : dependsOn[n] \subseteq Emitted
    /\ DependenciesFirst
    /\ EachOnce
    /\ RaisedOnlyIfStuck

\* Only the order, what is left and the registry decide about the first two.
LEMMA SameOrder ==
    ASSUME OrderInv, UNCHANGED <<dependsOn, remaining, resolved>>
    PROVE  Emitted' = Emitted /\ DependenciesFirst' /\ EachOnce'
<1>1. Emitted' = Emitted
  BY DEF Emitted
<1>2. DependenciesFirst /\ EachOnce
  BY DEF OrderInv
<1>3. DependenciesFirst'
  BY <1>2 DEF DependenciesFirst
<1>4. EachOnce'
  BY <1>1, <1>2 DEF EachOnce
<1> QED
  BY <1>1, <1>3, <1>4

LEMMA OrderFromNothing == BeginOrder => OrderInv
<1> SUFFICES ASSUME BeginOrder PROVE OrderInv
  OBVIOUS
<1>1. resolved = <<>> /\ remaining = Name /\ ready = {} /\ raised = FALSE
  BY DEF BeginOrder
<1>2. resolved \in Seq(Name) /\ Len(resolved) = 0 /\ 1 .. Len(resolved) = {}
  BY <1>1
<1>3. Emitted = {} /\ DependenciesFirst
  BY <1>2 DEF Emitted, DependenciesFirst
<1>4. EachOnce
  BY <1>1, <1>2, <1>3 DEF EachOnce
<1>5. RaisedOnlyIfStuck
  BY <1>1 DEF RaisedOnlyIfStuck
<1> QED
  BY <1>1, <1>2, <1>3, <1>4, <1>5 DEF OrderInv

LEMMA InitOrder == OrderInit => OrderInv
BY OrderFromNothing DEF OrderInit

\* Emitting an entity of the pass keeps the invariant.
LEMMA EmitKeeps ==
    ASSUME OrderInv, Emit
    PROVE  OrderInv'
<1>1. PICK n \in ready :
          /\ resolved' = Append(resolved, n)
          /\ remaining' = remaining \ {n}
          /\ ready' = ready \ {n}
          /\ UNCHANGED <<dependsOn, raised>>
  BY DEF Emit
<1>2. n \in Name /\ n \in remaining /\ n \notin Emitted
  BY <1>1 DEF OrderInv
<1>3. /\ resolved' \in Seq(Name)
      /\ Len(resolved') = Len(resolved) + 1
      /\ Len(resolved) \in Nat
      /\ resolved'[Len(resolved) + 1] = n
      /\ \A i \in 1 .. Len(resolved) : resolved'[i] = resolved[i]
  BY <1>1, <1>2 DEF OrderInv
<1>4. Emitted' = Emitted \cup {n}
  BY <1>3 DEF Emitted
<1>5. DependenciesFirst'
  <2> SUFFICES ASSUME NEW i \in 1 .. Len(resolved')
               PROVE  dependsOn[resolved'[i]] \subseteq {resolved'[j] : j \in 1 .. i - 1}
    BY <1>1 DEF DependenciesFirst
  <2>1. CASE i \in 1 .. Len(resolved)
    <3>1. dependsOn[resolved[i]] \subseteq {resolved[j] : j \in 1 .. i - 1}
      BY <2>1 DEF OrderInv, DependenciesFirst
    <3>2. \A j \in 1 .. i - 1 : resolved'[j] = resolved[j]
      BY <1>3, <2>1
    <3> QED
      BY <1>3, <2>1, <3>1, <3>2
  <2>2. CASE i = Len(resolved) + 1
    <3>1. dependsOn[n] \subseteq {resolved[j] : j \in 1 .. Len(resolved)}
      BY <1>1 DEF OrderInv, Emitted
    <3> QED
      BY <1>3, <2>2, <3>1
  <2> QED
    BY <1>3, <2>1, <2>2
<1>6. EachOnce'
  <2>1. \A i, j \in 1 .. Len(resolved') : resolved'[i] = resolved'[j] => i = j
    BY <1>2, <1>3 DEF OrderInv, EachOnce, Emitted
  <2>2. remaining' = {} => Emitted' = Name
    BY <1>1, <1>2, <1>4 DEF OrderInv
  <2> QED
    BY <2>1, <2>2 DEF EachOnce
<1>7. RaisedOnlyIfStuck'
  <2>1. ~raised
    BY <1>1 DEF OrderInv, RaisedOnlyIfStuck, Emitted
  <2> QED
    BY <1>1, <2>1 DEF RaisedOnlyIfStuck
<1>8. /\ remaining' \subseteq Name /\ ready' \subseteq remaining'
      /\ Emitted' \cup remaining' = Name /\ Emitted' \cap remaining' = {}
      /\ \A m \in ready' : dependsOn'[m] \subseteq Emitted'
  BY <1>1, <1>2, <1>4 DEF OrderInv
<1> QED
  BY <1>3, <1>5, <1>6, <1>7, <1>8 DEF OrderInv

\* Neither a new pass nor the error touches the order.
LEMMA OrderInductive == OrderInv /\ [OrderStep]_orderVars => OrderInv'
<1> SUFFICES ASSUME OrderInv, [OrderStep]_orderVars PROVE OrderInv'
  OBVIOUS
<1>1. CASE NextPass
  <2>1. Emitted' = Emitted /\ DependenciesFirst' /\ EachOnce'
    BY <1>1, SameOrder DEF NextPass
  <2>2. RaisedOnlyIfStuck'
    BY <1>1 DEF NextPass, OrderInv, RaisedOnlyIfStuck
  <2> QED
    BY <1>1, <2>1, <2>2 DEF NextPass, Resolvable, OrderInv
<1>2. CASE Emit
  BY <1>2, EmitKeeps
<1>3. CASE Raise
  <2>1. Emitted' = Emitted /\ DependenciesFirst' /\ EachOnce'
    BY <1>3, SameOrder DEF Raise
  <2>2. \A n \in remaining : \E d \in dependsOn[n] : d \in remaining \/ d \notin Name
    BY <1>3 DEF Raise, Resolvable, OrderInv
  <2>3. RaisedOnlyIfStuck'
    BY <1>3, <2>2 DEF Raise, RaisedOnlyIfStuck
  <2> QED
    BY <1>3, <2>1, <2>3 DEF Raise, OrderInv
<1>4. CASE UNCHANGED orderVars
  <2>1. Emitted' = Emitted /\ DependenciesFirst' /\ EachOnce'
    BY <1>4, SameOrder DEF orderVars
  <2>2. RaisedOnlyIfStuck'
    BY <1>4 DEF orderVars, OrderInv, RaisedOnlyIfStuck
  <2> QED
    BY <1>4, <2>1, <2>2 DEF orderVars, OrderInv
<1> QED
  BY <1>1, <1>2, <1>3, <1>4 DEF OrderStep

LEMMA OrderInvariant == OrderSpec => []OrderInv
BY InitOrder, OrderInductive, PTL DEF OrderSpec

\* For every registry, of any size: what an entity depends on precedes it
\* (resolve_sync_order).
THEOREM DependenciesAlwaysFirst == OrderSpec => []DependenciesFirst
<1>1. OrderInv => DependenciesFirst
  BY DEF OrderInv
<1> QED
  BY <1>1, OrderInvariant, PTL

\* For every registry: the order is a permutation of it, once it is complete
\* (resolve_sync_order).
THEOREM EachExactlyOnce == OrderSpec => []EachOnce
<1>1. OrderInv => EachOnce
  BY DEF OrderInv
<1> QED
  BY <1>1, OrderInvariant, PTL

\* For every registry: ValueError is raised only for entities that wait for each
\* other or for an unknown one (resolve_sync_order).
THEOREM RaisesOnlyIfStuck == OrderSpec => []RaisedOnlyIfStuck
<1>1. OrderInv => RaisedOnlyIfStuck
  BY DEF OrderInv
<1> QED
  BY <1>1, OrderInvariant, PTL

-----------------------------------------------------------------------------
(* A run of app.py.                                                         *)

\* The values of pc within _push_record and its handlers.
Pushing == {"get", "fill", "compare", "put", "post", "remember", "failed", "resolve"}

\* The run is within an entity, its fetch included; past the fetch; at its records;
\* within the loop over the entities.
InEntity == ~draining /\ pc \in {"fetch", "each", "save_error"} \cup Pushing
Fetched == InEntity /\ pc # "fetch"
Handling == Fetched /\ pc # "save_error"
InCycle == InEntity \/ pc = "entity"

\* The record being pushed, and the fetched records of the current entity.
Underway == IF pc \in Pushing THEN {cur} ELSE {}
Current == seen \cap RecordsOf(Head(plan))

ResultType == [{"fetched", "created", "updated", "unchanged", "failed"} -> Nat]

CommandTypeOK ==
    /\ command \in Commands
    /\ pc \in {"start", "health", "order", "entity", "fetch", "each", "save_error",
               "dequeue", "asleep", "down", "exit"} \cup Pushing
    /\ plan \in Seq(Name)
    /\ todo \subseteq Record
    /\ draining \in BOOLEAN /\ found \in BOOLEAN
    /\ result \in ResultType
    /\ failures \in Nat /\ locks \in Nat
    /\ queue \subseteq Record /\ worn \subseteq queue /\ onSite \subseteq Record
    /\ code \in {"running", "0", "1", "2", "traceback"}
    /\ seen \subseteq Record

\* A record under way can be pushed, and is none of those to come; what a drain has
\* dequeued is in the queue till it is handled; the cache has no record that is not
\* on the site.
PushInv ==
    /\ pc \in Pushing => cur \in Record /\ ~Hopeless(cur) /\ cur \notin todo
    /\ draining => todo \subseteq queue
    /\ pc \in {"fill", "remember"} => cur \in onSite
    /\ same \subseteq cached /\ cached \subseteq onSite

\* Which commands come to which steps, and how a run ends.
ModeInv ==
    /\ draining => /\ command \in {"--process-retries", "serve"}
                   /\ pc \in {"each", "asleep", "down", "exit"} \cup Pushing
    /\ pc = "resolve" => draining
    /\ pc = "dequeue" => command \in {"--process-retries", "serve"}
    /\ pc = "order" => command \in {"--full-sync", "--incremental-sync", "serve"}
    /\ pc = "health" => command \in {"--health-check", "serve"}
    /\ InEntity => plan # <<>>
    /\ InCycle => command \in Syncing \cup {"serve"}
    /\ code # "running" => pc = "exit"
    /\ pc \in {"asleep", "down"} => Serving
    /\ pc \in {"start", "health", "order"} =>
           /\ plan = <<>> /\ seen = {} /\ visited = {}
           /\ failures = 0

\* A cycle walks the resolved order: what is left of the plan is its rest, and
\* the entities before that have been fetched.
WalksOrder ==
    InCycle /\ command # "--resync-entity" =>
        \E k \in 0 .. Len(resolved) :
            /\ Len(plan) + k = Len(resolved)
            /\ \A i \in 1 .. Len(plan) : plan[i] = resolved[i + k]
            /\ \A j \in 1 .. k : resolved[j] \in visited

\* No entity comes twice.
PlanInv ==
    /\ WalksOrder
    /\ Fetched => Head(plan) \in visited
    /\ InCycle => /\ \A i, j \in 1 .. Len(plan) : plan[i] = plan[j] => i = j
                  /\ \A i \in 1 .. Len(plan) : ~(Fetched /\ i = 1) => plan[i] \notin visited
    /\ \A r \in seen : EntityOf[r] \in visited
    /\ pc = "save_error" => Current = {}

\* AccountedBeforeSave, at every step of an entity.
AccountInv ==
    Handling => /\ todo \subseteq Current /\ Underway \subseteq Current \ todo
                /\ \A r \in Current \ (todo \cup Underway) :
                       r \in onSite \/ r \in queue \/ Hopeless(r)

\* ExitZeroIsClean, at every step: what has not been pushed has been counted.
Clean(r) == r \in onSite \/ EntityOf[r] \notin Mapped

CleanInv ==
    /\ InCycle /\ failures = 0 =>
           \A r \in seen : ~(Fetched /\ r \in Current) => Clean(r)
    /\ Handling /\ result.failed = 0 =>
           \A r \in Current \ (todo \cup Underway) : Clean(r)
    /\ ExitZeroIsClean

\* CountsAddUp, at every step: Counted, the records that are never counted, those
\* still to come and the one under way make what was fetched, and at most one
\* record more for every lock.
Counted == result.created + result.updated + result.unchanged + result.failed

Uncounted ==
    IF Head(plan) \in Mapped THEN {} ELSE Current \ Unparseable

ToCount == IF pc \in Pushing \ {"remember", "resolve"} THEN 1 ELSE 0

Total == Counted + Cardinality(Uncounted \ todo) + Cardinality(todo) + ToCount

CountInv ==
    /\ pc = "fetch" => result = Zero
    /\ Handling =>
           /\ result.fetched = Cardinality(Current)
           /\ result.fetched <= Total /\ Total <= result.fetched + locks

\* A drain is ended by a row; all but the place and the exit code stays.
CutShort == UnknownEntity \/ Overflow

LEMMA CutsDrain ==
    ASSUME CutShort
    PROVE  /\ draining /\ pc \in {"each", "failed"}
           /\ (Serving /\ pc' = "down" /\ UNCHANGED code)
              \/ (~Serving /\ pc' = "exit" /\ code' \in {"2", "traceback"})
           /\ UNCHANGED <<plan, todo, cur, found, draining, tries, result, failures, onSite,
                          queue, worn, cached, same, command, locks, seen, visited>>
           /\ UNCHANGED rest
BY DEF CutShort, UnknownEntity, Overflow, TooWorn, Abort, Exit, counts, frappe, store, rest

-----------------------------------------------------------------------------
(* The order, whose algorithm is one state of a cycle.                      *)

\* Every step is a step of the algorithm, leaves it alone, or begins it again.
LEMMA OrderMoves ==
    ASSUME [Run]_commandVars
    PROVE  [OrderStep]_orderVars \/ (BeginOrder' /\ UNCHANGED dependsOn)
<1>1. CASE Ordering
  BY <1>1 DEF Ordering
<1>2. CASE Wake
  BY <1>2 DEF Wake, BeginOrder
<1>3. CASE UNCHANGED rest
  BY <1>3 DEF rest, orderVars
<1> QED
  BY <1>1, <1>2, <1>3
  DEF Run, Start, HealthFails, Ordered, BeginEntity, EndSync, Fetch, FetchFails, Skip,
      Save, Dequeue, DropRow, EndDrain, BeginPush, Get, Fill, Compare, Written,
      RequestFails, Remember, Resolve, Requeue, Locked, HealthPasses, UnknownEntity, Overflow,
      commandVars

LEMMA CommandOrder == CommandSpec => []OrderInv
<1>1. CommandInit => OrderInv
  BY InitOrder DEF CommandInit
<1>2. BeginOrder => OrderInv
  BY OrderFromNothing
<1>3. OrderInv /\ [Run]_commandVars => OrderInv'
  <2>1. (BeginOrder => OrderInv)'
    BY <1>2, PTL
  <2> QED
    BY <2>1, OrderMoves, OrderInductive
<1> QED
  BY <1>1, <1>3, PTL DEF CommandSpec

-----------------------------------------------------------------------------
(* Types, and the run of one push.                                          *)

LEMMA ZeroType == Zero \in ResultType
BY DEF Zero, ResultType

LEMMA InitCommandType == CommandInit => CommandTypeOK /\ PushInv /\ ModeInv
<1> SUFFICES ASSUME CommandInit PROVE CommandTypeOK /\ PushInv /\ ModeInv
  OBVIOUS
<1>1. queue \subseteq Record /\ worn \subseteq queue /\ plan \in Seq(Name)
      /\ command \in Commands
  BY CommandAssumption DEF CommandInit
<1>2. result \in ResultType
  BY ZeroType DEF CommandInit
<1>3. pc = "start" /\ code = "running" /\ failures = 0 /\ locks = 0 /\ todo = {}
      /\ plan = <<>> /\ seen = {} /\ visited = {} /\ draining = FALSE /\ found = FALSE
  BY DEF CommandInit
<1>4. onSite \subseteq Record /\ cached \subseteq onSite /\ same \subseteq cached
  BY DEF CommandInit
<1>5. CommandTypeOK
  BY <1>1, <1>2, <1>3, <1>4 DEF CommandTypeOK
<1>6. PushInv
  BY <1>3, <1>4 DEF PushInv, Pushing
<1>7. ModeInv
  BY <1>3 DEF ModeInv, InCycle, InEntity, Pushing
<1> QED
  BY <1>5, <1>6, <1>7

\* Each step keeps the types.
LEMMA CommandTypeKeeps ==
    ASSUME CommandTypeOK, PushInv, ModeInv, OrderInv, [Run]_commandVars
    PROVE  CommandTypeOK'
<1> USE DEF place, counts, frappe, store, rest, Exit, Abort, CommandTypeOK
<1>1. CASE Start
  <2>1. UNCHANGED plan \/ \E e \in Name : plan' = <<e>>
    BY <1>1 DEF Start
  <2>2. \A e \in Name : <<e>> \in Seq(Name)
    OBVIOUS
  <2>3. plan' \in Seq(Name)
    BY <2>1, <2>2
  <2> QED
    BY <1>1, <2>3 DEF Start, Pushing
<1>2. CASE HealthPasses \/ HealthFails
  BY <1>2 DEF HealthPasses, HealthFails
<1>3. CASE Wake
  <2>1. plan' = <<>> /\ result' = Zero /\ todo' = {} /\ seen' = {} /\ failures' = 0
        /\ pc' = "health" /\ draining' = FALSE
    BY <1>3 DEF Wake
  <2>2. UNCHANGED <<command, cur, found, queue, worn, onSite, locks, code>>
    BY <1>3 DEF Wake
  <2>3. plan' \in Seq(Name)
    BY <2>1
  <2> QED
    BY <2>1, <2>2, <2>3, ZeroType
<1>4. CASE Ordering
  BY <1>4 DEF Ordering
<1>5. CASE Ordered
  BY <1>5 DEF Ordered, OrderInv
<1>6. CASE BeginEntity
  BY <1>6, ZeroType DEF BeginEntity
<1>7. CASE EndSync \/ EndDrain
  BY <1>7, ZeroType DEF EndSync, EndDrain
<1>8. CASE Fetch
  <2>1. PICK records \in SUBSET RecordsOf(Head(plan)) :
             /\ todo' = records /\ seen' = seen \cup records
             /\ result' = [result EXCEPT !.fetched = Cardinality(records)]
    BY <1>8 DEF Fetch
  <2>2. records \subseteq Record
    BY <2>1 DEF RecordsOf
  <2>3. Cardinality(records) \in Nat
    BY <2>2, CommandAssumption, FS_Subset, FS_CardinalityType
  <2>4. result' \in ResultType
    BY <2>1, <2>3 DEF ResultType
  <2> QED
    BY <1>8, <2>1, <2>2, <2>4 DEF Fetch
<1>9. CASE FetchFails
  BY <1>9 DEF FetchFails
<1>10. CASE Skip
  <2>1. result' \in ResultType
    BY <1>10 DEF Skip, CountInvalid, Count, ResultType
  <2> QED
    BY <1>10, <2>1 DEF Skip
<1>11. CASE Save
  <2>1. plan # <<>>
    BY <1>11 DEF Save, ModeInv, InEntity
  <2>2. plan' \in Seq(Name)
    BY <1>11, <2>1 DEF Save
  <2>3. failures' \in Nat
    BY <1>11 DEF Save, ResultType
  <2> QED
    BY <1>11, <2>2, <2>3 DEF Save
<1>12. CASE Dequeue \/ DropRow \/ Resolve
  BY <1>12 DEF Dequeue, DropRow, Resolve
<1>13. CASE BeginPush
  BY <1>13 DEF BeginPush, Pushing
<1>14. CASE Get \/ Fill \/ Remember
  BY <1>14 DEF Get, Fill, Remember, Returned, Pushing
<1>15. CASE Compare
  <2>1. result' \in ResultType
    BY <1>15 DEF Compare, Count, ResultType
  <2> QED
    BY <1>15, <2>1 DEF Compare, Returned, Pushing
<1>16. CASE Written
  <2>1. result' \in ResultType
    BY <1>16 DEF Written, Count, ResultType
  <2> QED
    BY <1>16, <2>1 DEF Written, PushInv, Pushing
<1>17. CASE RequestFails
  BY <1>17 DEF RequestFails, Caught, PushInv, Pushing
<1>18. CASE Requeue
  <2>1. result' \in ResultType
    BY <1>18 DEF Requeue, Count, ResultType
  <2> QED
    BY <1>18, <2>1 DEF Requeue, PushInv, Pushing
<1>19. CASE Locked
  BY <1>19 DEF Locked, LockedHandler, InTry, Pushing
<1>20. CASE UNCHANGED commandVars
  BY <1>20 DEF commandVars
<1>21. CASE CutShort
  BY <1>21, CutsDrain
<1> QED
  BY <1>1, <1>2, <1>3, <1>4, <1>5, <1>6, <1>7, <1>8, <1>9, <1>10, <1>11, <1>12, <1>13,
     <1>14, <1>15, <1>16, <1>17, <1>18, <1>19, <1>20, <1>21 DEF Run, CutShort

\* Each step keeps what holds of the record under way.
LEMMA PushKeeps ==
    ASSUME CommandTypeOK, PushInv, ModeInv, [Run]_commandVars
    PROVE  PushInv'
<1> USE DEF place, counts, frappe, store, rest, Exit, Abort, PushInv, Hopeless
<1>1. CASE Start \/ HealthPasses \/ HealthFails \/ Wake \/ Ordering \/ Ordered
           \/ BeginEntity \/ EndSync
  BY <1>1 DEF Start, HealthPasses, HealthFails, Wake, Ordering, Ordered, BeginEntity,
              EndSync, Pushing
<1>2. CASE Fetch \/ FetchFails \/ Skip \/ Save \/ Dequeue \/ DropRow \/ EndDrain
  BY <1>2 DEF Fetch, FetchFails, Skip, Save, Dequeue, DropRow, EndDrain, Pushing, ModeInv
<1>3. CASE BeginPush \/ Get \/ Fill
  BY <1>3 DEF BeginPush, Get, Fill, Pushing, CommandTypeOK
<1>4. CASE Compare \/ Written \/ RequestFails
  BY <1>4 DEF Compare, Written, RequestFails, Caught, Returned, Pushing
<1>5. CASE Remember \/ Resolve \/ Requeue
  BY <1>5 DEF Remember, Resolve, Requeue, Returned, Pushing
<1>6. CASE Locked
  BY <1>6 DEF Locked, LockedHandler, InTry, Pushing
<1>7. CASE UNCHANGED commandVars
  BY <1>7 DEF commandVars
<1>8. CASE CutShort
  BY <1>8, CutsDrain DEF Pushing
<1> QED
  BY <1>1, <1>2, <1>3, <1>4, <1>5, <1>6, <1>7, <1>8 DEF Run, CutShort

\* Each step keeps the modes.
LEMMA ModeKeeps ==
    ASSUME CommandTypeOK, ModeInv, [Run]_commandVars
    PROVE  ModeInv'
<1> USE DEF place, counts, frappe, store, rest, Exit, Abort, ModeInv, InCycle, InEntity,
            Syncing, Serving
<1>1. CASE Start
  <2>1. command \in Command
    BY CommandAssumption DEF CommandTypeOK
  <2> QED
    BY <1>1, <2>1 DEF Start, Pushing, Command
<1>2. CASE HealthPasses \/ HealthFails
  BY <1>2 DEF HealthPasses, HealthFails, Pushing
<1>3. CASE Wake \/ Ordering
  BY <1>3 DEF Wake, Ordering, Pushing
<1>4. CASE Ordered
  BY <1>4 DEF Ordered, Pushing
<1>5. CASE BeginEntity
  BY <1>5 DEF BeginEntity, Pushing
<1>6. CASE EndSync \/ EndDrain
  BY <1>6 DEF EndSync, EndDrain, Pushing
<1>7. CASE Fetch \/ FetchFails
  BY <1>7 DEF Fetch, FetchFails, Pushing
<1>8. CASE Skip \/ Save
  BY <1>8 DEF Skip, Save, Pushing
<1>9. CASE Dequeue \/ DropRow
  BY <1>9 DEF Dequeue, DropRow, Pushing
<1>10. CASE BeginPush \/ Get \/ Fill
  BY <1>10 DEF BeginPush, Get, Fill, Pushing
<1>11. CASE Compare \/ Written \/ RequestFails
  BY <1>11 DEF Compare, Written, RequestFails, Caught, Returned, Pushing
<1>12. CASE Remember \/ Resolve \/ Requeue
  BY <1>12 DEF Remember, Resolve, Requeue, Returned, Pushing
<1>13. CASE Locked
  BY <1>13 DEF Locked, LockedHandler, InTry, Pushing
<1>14. CASE UNCHANGED commandVars
  BY <1>14 DEF commandVars
<1>15. CASE CutShort
  BY <1>15, CutsDrain DEF Pushing
<1> QED
  BY <1>1, <1>2, <1>3, <1>4, <1>5, <1>6, <1>7, <1>8, <1>9, <1>10, <1>11, <1>12, <1>13,
     <1>14, <1>15 DEF Run, CutShort

LEMMA CommandTypes == CommandSpec => [](CommandTypeOK /\ PushInv /\ ModeInv)
<1>1. OrderInv /\ CommandTypeOK /\ PushInv /\ ModeInv /\ [Run]_commandVars
          => (CommandTypeOK /\ PushInv /\ ModeInv)'
  BY CommandTypeKeeps, PushKeeps, ModeKeeps
<1> QED
  BY <1>1, InitCommandType, CommandOrder, PTL DEF CommandSpec

-----------------------------------------------------------------------------
(* How a run ends.                                                          *)

\* Each step keeps the reason for an end; a registry is ordered anew only where
\* nothing has ended.
LEMMA StoreKeeps ==
    ASSUME CommandTypeOK, PushInv, ModeInv, OnlyStoreAborts, [Run]_commandVars
    PROVE  OnlyStoreAborts'
<1> USE DEF place, counts, frappe, store, rest, Exit, Abort, OnlyStoreAborts, EndedEarly, BadRow
<1>1. CASE Start \/ HealthPasses \/ HealthFails
  BY <1>1 DEF Start, HealthPasses, HealthFails, ModeInv
<1>2. CASE Wake
  BY <1>2 DEF Wake, ModeInv
<1>3. CASE Ordering
  BY <1>3 DEF Ordering, ModeInv
<1>4. CASE Ordered \/ BeginEntity \/ EndSync \/ EndDrain
  BY <1>4 DEF Ordered, BeginEntity, EndSync, EndDrain, ModeInv
<1>5. CASE Fetch \/ FetchFails \/ Skip \/ Save \/ Dequeue \/ DropRow
  BY <1>5 DEF Fetch, FetchFails, Skip, Save, Dequeue, DropRow, ModeInv
<1>6. CASE BeginPush \/ Get \/ Fill \/ Compare
  BY <1>6 DEF BeginPush, Get, Fill, Compare, Returned, ModeInv
<1>7. CASE Written \/ RequestFails \/ Remember \/ Resolve \/ Requeue
  BY <1>7 DEF Written, RequestFails, Caught, Remember, Returned, Resolve, Requeue, ModeInv
<1>8. CASE Locked
  BY <1>8 DEF Locked, CommandTypeOK
<1>9. CASE UNCHANGED commandVars
  BY <1>9 DEF commandVars
<1>10. CASE UnknownEntity
  <2>1. PICK r \in todo : EntityOf[r] \notin Name
    BY <1>10 DEF UnknownEntity
  <2>2. draining /\ UNCHANGED <<draining, queue>> /\ r \in queue
    BY <1>10, <2>1 DEF UnknownEntity, PushInv
  <2> QED
    BY <2>1, <2>2
<1>11. CASE Overflow
  BY <1>11 DEF Overflow, TooWorn
<1> QED
  BY <1>1, <1>2, <1>3, <1>4, <1>5, <1>6, <1>7, <1>8, <1>9, <1>10, <1>11 DEF Run

\* No answer of Tally or Frappe alone ends a run early, in any order and after any
\* number of attempts: the registry does, a lock, or, in a drain, a row the queue
\* holds of an entity that is gone or tried too often (the handlers of _sync_entity
\* and process_retry_queue, and what they do not catch).
THEOREM OnlyTheStoreAborts == CommandSpec => []OnlyStoreAborts
<1>1. CommandInit => OnlyStoreAborts
  BY DEF CommandInit, OnlyStoreAborts, EndedEarly
<1> QED
  BY <1>1, StoreKeeps, CommandTypes, PTL DEF CommandSpec

\* A registry without cycles and unknown names: the entities have ranks, and depend
\* on lower ones only, as those of REGISTRY do (groups, ledgers, vouchers).
Ranked ==
    \E rank \in [Name -> Nat] :
        \A n \in Name : \A d \in dependsOn[n] : d \in Name /\ rank[d] < rank[n]

LEMMA LeastRank ==
    ASSUME NEW S \in SUBSET Name, S # {}, NEW rank \in [Name -> Nat]
    PROVE  \E n \in S : \A m \in S : ~(rank[m] < rank[n])
<1> DEFINE R == OpToRel(<, Nat)
           ranks == {rank[n] : n \in S}
<1>1. IsWellFoundedOn(R, Nat)
  BY NatLessThanWellFounded
<1>2. \A x, y \in Nat : <<x, y>> \in R <=> x < y
  BY DEF OpToRel
<1>3. ranks \subseteq Nat /\ ranks # {}
  OBVIOUS
<1> HIDE DEF R
<1>4. PICK i \in ranks : \A j \in ranks : ~(<<j, i>> \in R)
  BY <1>1, <1>3, WFMin
<1>5. PICK n \in S : i = rank[n]
  BY <1>4
<1>6. \A m \in S : rank[m] \in ranks /\ rank[m] \in Nat /\ rank[n] \in Nat
  OBVIOUS
<1> HIDE DEF ranks
<1> QED
  BY <1>2, <1>4, <1>5, <1>6

\* Of the entities that are left, one of the lowest rank can be resolved.
LEMMA RankedIsResolved == OrderInv /\ Ranked => ~raised
<1> SUFFICES ASSUME OrderInv, Ranked, raised PROVE FALSE
  OBVIOUS
<1>1. PICK rank \in [Name -> Nat] :
          \A n \in Name : \A d \in dependsOn[n] : d \in Name /\ rank[d] < rank[n]
  BY DEF Ranked
<1>2. remaining # {} /\ remaining \subseteq Name
      /\ \A n \in remaining : \E d \in dependsOn[n] : d \in remaining \/ d \notin Name
  BY DEF OrderInv, RaisedOnlyIfStuck
<1>3. PICK n \in remaining : \A m \in remaining : ~(rank[m] < rank[n])
  BY <1>2, LeastRank
<1>4. PICK d \in dependsOn[n] : d \in remaining \/ d \notin Name
  BY <1>2
<1> QED
  BY <1>1, <1>2, <1>3, <1>4

\* For every registry without cycles and unknown names, of any size, declared in any
\* order: resolve_sync_order does not raise, and a run outside a drain ends early
\* only by a locked state file.
THEOREM RankedNeverRaises ==
    CommandSpec => [](Ranked => ~raised /\ (EndedEarly => locks > 0 \/ BadRow))
<1>1. OrderInv /\ OnlyStoreAborts
          => (Ranked => ~raised /\ (EndedEarly => locks > 0 \/ BadRow))
  BY RankedIsResolved DEF OnlyStoreAborts
<1> QED
  BY <1>1, CommandOrder, OnlyTheStoreAborts, PTL

-----------------------------------------------------------------------------
(* The walk over the entities.                                              *)

\* Steps that stay where they are in the walk, or leave it.
LEMMA PlanStays ==
    ASSUME PlanInv, UNCHANGED <<plan, seen, visited, resolved, command>>,
           InCycle' => InCycle /\ (Fetched' <=> Fetched),
           pc' = "save_error" => pc = "save_error"
    PROVE  PlanInv'
<1>1. WalksOrder'
  BY DEF PlanInv, WalksOrder
<1>2. Fetched' => Head(plan') \in visited'
  BY DEF PlanInv, Fetched, InCycle
<1>3. InCycle' => /\ \A i, j \in 1 .. Len(plan') : plan'[i] = plan'[j] => i = j
                  /\ \A i \in 1 .. Len(plan') : ~(Fetched' /\ i = 1) => plan'[i] \notin visited'
  BY DEF PlanInv
<1>4. Current' = Current
  BY DEF Current, RecordsOf
<1>5. pc' = "save_error" => Current' = {}
  BY <1>4 DEF PlanInv
<1>6. \A r \in seen' : EntityOf[r] \in visited'
  BY DEF PlanInv
<1> QED
  BY <1>1, <1>2, <1>3, <1>5, <1>6 DEF PlanInv

\* The entity that is fetched next has none of its records seen.
LEMMA UnseenBefore ==
    ASSUME CommandTypeOK, ModeInv, PlanInv, pc = "fetch", ~draining
    PROVE  /\ Current = {}
           /\ Len(plan) \in Nat \ {0} /\ Head(plan) = plan[1] /\ plan[1] \notin visited
<1>1. InEntity /\ InCycle /\ ~Fetched
  BY DEF InEntity, InCycle, Fetched
<1>2. Len(plan) \in Nat \ {0} /\ Head(plan) = plan[1]
  BY <1>1 DEF CommandTypeOK, ModeInv
<1>3. plan[1] \notin visited
  BY <1>1, <1>2 DEF PlanInv
<1>4. \A r \in seen : EntityOf[r] # Head(plan)
  BY <1>2, <1>3 DEF PlanInv
<1> QED
  BY <1>2, <1>3, <1>4 DEF Current, RecordsOf

\* The entity is fetched, or it cannot be.
LEMMA FetchPlan ==
    ASSUME CommandTypeOK, ModeInv, PlanInv, pc = "fetch", ~draining, ~draining',
           UNCHANGED <<plan, resolved, command>>,
           pc' \in {"each", "save_error"},
           visited' = visited \cup {Head(plan)},
           NEW records \in SUBSET RecordsOf(Head(plan)),
           seen' = seen \cup records,
           pc' = "save_error" => records = {}
    PROVE  PlanInv'
<1>1. InCycle /\ InCycle' /\ ~Fetched /\ Fetched'
  BY DEF InEntity, InCycle, Fetched, Pushing
<1>2. /\ Current = {} /\ Len(plan) \in Nat \ {0} /\ Head(plan) = plan[1]
      /\ plan[1] \notin visited
  BY UnseenBefore
<1>3. WalksOrder'
  BY <1>1 DEF PlanInv, WalksOrder
<1>4. /\ \A i, j \in 1 .. Len(plan') : plan'[i] = plan'[j] => i = j
      /\ \A i \in 1 .. Len(plan') : i # 1 => plan'[i] \notin visited'
  BY <1>1, <1>2 DEF PlanInv
<1>5. \A r \in seen' : EntityOf[r] \in visited'
  BY DEF PlanInv, RecordsOf
<1>6. pc' = "save_error" => Current' = {}
  BY <1>2 DEF Current, RecordsOf
<1> QED
  BY <1>1, <1>3, <1>4, <1>5, <1>6 DEF PlanInv

\* The entity is done, and the next one is the current one.
LEMMA SavePlan ==
    ASSUME CommandTypeOK, ModeInv, PlanInv, Fetched, plan' = Tail(plan), pc' = "entity",
           UNCHANGED <<seen, visited, resolved, command>>,
           resolved \in Seq(Name)
    PROVE  PlanInv'
<1>1. InCycle /\ InCycle' /\ ~Fetched'
  BY DEF InEntity, InCycle, Fetched, Pushing
<1>2. /\ Len(plan) \in Nat \ {0} /\ Head(plan) = plan[1]
      /\ Len(plan') = Len(plan) - 1
      /\ \A i \in 1 .. Len(plan') : plan'[i] = plan[i + 1]
  BY DEF CommandTypeOK, ModeInv, Fetched
<1>3. WalksOrder'
  <2> SUFFICES ASSUME command # "--resync-entity"
               PROVE  \E k \in 0 .. Len(resolved) :
                          /\ Len(plan') + k = Len(resolved)
                          /\ \A i \in 1 .. Len(plan') : plan'[i] = resolved[i + k]
                          /\ \A j \in 1 .. k : resolved[j] \in visited
    BY DEF WalksOrder
  <2>1. PICK k \in 0 .. Len(resolved) :
             /\ Len(plan) + k = Len(resolved)
             /\ \A i \in 1 .. Len(plan) : plan[i] = resolved[i + k]
             /\ \A j \in 1 .. k : resolved[j] \in visited
    BY <1>1 DEF PlanInv, WalksOrder
  <2>2. Len(resolved) \in Nat
    OBVIOUS
  <2>3. resolved[k + 1] \in visited
    <3>1. resolved[1 + k] = plan[1]
      BY <1>2, <2>1
    <3>2. 1 + k = k + 1
      BY <2>2
    <3> QED
      BY <1>2, <3>1, <3>2 DEF PlanInv
  <2>4. k + 1 \in 0 .. Len(resolved) /\ Len(plan') + (k + 1) = Len(resolved)
    BY <1>2, <2>1, <2>2
  <2>5. \A j \in 1 .. k + 1 : resolved[j] \in visited
    BY <2>1, <2>2, <2>3
  <2>6. \A i \in 1 .. Len(plan') : plan'[i] = resolved[i + (k + 1)]
    <3> SUFFICES ASSUME NEW i \in 1 .. Len(plan')
                 PROVE  plan'[i] = resolved[i + (k + 1)]
      OBVIOUS
    <3>1. i + 1 \in 1 .. Len(plan) /\ (i + 1) + k = i + (k + 1)
      BY <1>2, <2>2
    <3>2. plan[i + 1] = resolved[(i + 1) + k]
      BY <2>1, <3>1
    <3> QED
      BY <1>2, <3>1, <3>2
  <2> QED
    BY <2>4, <2>5, <2>6
<1>4. \A i \in 1 .. Len(plan') : i + 1 \in 1 .. Len(plan) /\ i + 1 # 1
  BY <1>2
<1>5. \A i, j \in 1 .. Len(plan') : plan'[i] = plan'[j] => i = j
  <2> SUFFICES ASSUME NEW i \in 1 .. Len(plan'), NEW j \in 1 .. Len(plan'),
                      plan'[i] = plan'[j]
               PROVE  i = j
    OBVIOUS
  <2>1. plan[i + 1] = plan[j + 1]
    BY <1>2
  <2>2. i + 1 = j + 1
    BY <1>1, <1>4, <2>1 DEF PlanInv
  <2> QED
    BY <2>2
<1>6. \A i \in 1 .. Len(plan') : plan'[i] \notin visited'
  BY <1>1, <1>2, <1>4 DEF PlanInv
<1>7. \A r \in seen' : EntityOf[r] \in visited'
  BY DEF PlanInv
<1> QED
  BY <1>1, <1>3, <1>5, <1>6, <1>7 DEF PlanInv

\* Each step keeps the walk.
LEMMA PlanKeeps ==
    ASSUME CommandTypeOK, ModeInv, OrderInv, PlanInv, [Run]_commandVars
    PROVE  PlanInv'
<1> USE DEF place, counts, frappe, store, rest, Exit, Abort
<1>1. CASE Start
  <2>1. pc = "start" /\ plan = <<>> /\ seen = {} /\ visited = {}
    BY <1>1 DEF Start, ModeInv
  <2>2. UNCHANGED <<seen, visited, resolved, command, draining>>
    BY <1>1 DEF Start
  <2>3. CASE pc' = "entity"
    <3>1. command = "--resync-entity" /\ \E e \in Name : plan' = <<e>>
      BY <1>1, <2>3 DEF Start
    <3>2. Len(plan') = 1
      BY <3>1
    <3> QED
      BY <2>1, <2>2, <2>3, <3>1, <3>2
      DEF PlanInv, WalksOrder, InCycle, InEntity, Fetched, Pushing
  <2>4. CASE pc' # "entity"
    <3>1. pc' \in {"order", "exit", "dequeue", "health"}
      BY <1>1, <2>4 DEF Start
    <3> QED
      BY <2>1, <2>2, <3>1 DEF PlanInv, WalksOrder, InCycle, InEntity, Fetched, Pushing
  <2> QED
    BY <2>3, <2>4
<1>2. CASE HealthPasses \/ HealthFails \/ BeginEntity \/ EndDrain
  BY <1>2, PlanStays DEF HealthPasses, HealthFails, BeginEntity, EndDrain,
     InCycle, InEntity, Fetched, Pushing
<1>3. CASE Wake
  <2>1. pc' = "health" /\ seen' = {}
    BY <1>3 DEF Wake
  <2> QED
    BY <2>1 DEF PlanInv, WalksOrder, InCycle, InEntity, Fetched, Pushing
<1>4. CASE Ordering
  <2>1. pc' = "order" /\ UNCHANGED <<seen, visited>>
    BY <1>4 DEF Ordering
  <2> QED
    BY <2>1 DEF PlanInv, WalksOrder, InCycle, InEntity, Fetched, Pushing
<1>5. CASE Ordered
  <2>1. pc = "order" /\ seen = {} /\ visited = {}
    BY <1>5 DEF Ordered, ModeInv
  <2>2. UNCHANGED <<seen, visited, resolved, command, draining>>
    BY <1>5 DEF Ordered
  <2>3. CASE pc' = "entity"
    <3>1. plan' = resolved
      BY <1>5, <2>3 DEF Ordered
    <3>2. Len(resolved) \in Nat /\ 0 \in 0 .. Len(resolved)
      BY DEF OrderInv
    <3>3. \A i \in 1 .. Len(plan') : plan'[i] = resolved'[i + 0]
      BY <2>2, <3>1, <3>2
    <3>4. WalksOrder'
      BY <2>2, <3>1, <3>2, <3>3 DEF WalksOrder
    <3>5. \A i, j \in 1 .. Len(plan') : plan'[i] = plan'[j] => i = j
      BY <3>1 DEF OrderInv, EachOnce
    <3> QED
      BY <2>1, <2>2, <2>3, <3>4, <3>5 DEF PlanInv, InEntity, Fetched, Pushing
  <2>4. CASE pc' # "entity"
    <3>1. pc' \in {"exit", "down"}
      BY <1>5, <2>4 DEF Ordered
    <3> QED
      BY <2>1, <2>2, <3>1 DEF PlanInv, WalksOrder, InCycle, InEntity, Fetched, Pushing
  <2> QED
    BY <2>3, <2>4
<1>6. CASE Fetch
  <2>1. ~draining /\ ~draining'
    BY <1>6 DEF Fetch, ModeInv, Pushing
  <2>2. PICK records \in SUBSET RecordsOf(Head(plan)) : seen' = seen \cup records
    BY <1>6 DEF Fetch
  <2> QED
    BY <1>6, <2>1, <2>2, FetchPlan DEF Fetch
<1>7. CASE FetchFails
  <2>1. ~draining /\ ~draining'
    BY <1>7 DEF FetchFails, ModeInv, Pushing
  <2>2. CASE UNCHANGED <<pc, visited>>
    BY <1>7, <2>2, PlanStays DEF FetchFails, InCycle, InEntity, Fetched
  <2>3. CASE pc' = "save_error" /\ visited' = visited \cup {Head(plan)}
    <3>1. seen' = seen \cup {} /\ {} \in SUBSET RecordsOf(Head(plan))
      BY <1>7 DEF FetchFails
    <3> QED
      BY <1>7, <2>1, <2>3, <3>1, FetchPlan DEF FetchFails
  <2> QED
    BY <1>7, <2>2, <2>3 DEF FetchFails
<1>8. CASE Save
  <2>1. Fetched
    BY <1>8 DEF Save, Fetched, InEntity
  <2> QED
    BY <1>8, <2>1, SavePlan DEF Save, OrderInv
<1>9. CASE Skip \/ DropRow
  BY <1>9, PlanStays DEF Skip, DropRow, InCycle, InEntity, Fetched
<1>10. CASE Dequeue
  <2>1. pc' = "each" /\ draining' /\ UNCHANGED <<seen, visited>>
    BY <1>10 DEF Dequeue
  <2> QED
    BY <2>1 DEF PlanInv, WalksOrder, InCycle, InEntity, Fetched, Pushing
<1>11. CASE BeginPush \/ Get \/ Fill \/ Compare
  BY <1>11, PlanStays DEF BeginPush, Get, Fill, Compare, Returned, InCycle, InEntity,
     Fetched, Pushing
<1>12. CASE Written \/ RequestFails \/ Remember
  BY <1>12, PlanStays DEF Written, RequestFails, Caught, Remember, Returned, InCycle,
     InEntity, Fetched, Pushing
<1>13. CASE Resolve \/ Requeue
  BY <1>13, PlanStays DEF Resolve, Requeue, InCycle, InEntity, Fetched, Pushing
<1>14. CASE Locked
  BY <1>14, PlanStays DEF Locked, LockedHandler, InTry, InCycle, InEntity, Fetched, Pushing
<1>15. CASE UNCHANGED commandVars
  BY <1>15, PlanStays DEF commandVars, InCycle, InEntity, Fetched
<1>16. CASE CutShort
  <2>1. UNCHANGED <<plan, seen, visited, resolved, command>> /\ pc' \in {"down", "exit"}
    BY <1>16, CutsDrain
  <2> QED
    BY <2>1, PlanStays DEF InCycle, InEntity, Fetched, Pushing
<1>17. CASE EndSync
  <2>1. pc' \in {"dequeue", "exit"} /\ (UNCHANGED <<seen, visited>> \/ seen' = {})
    BY <1>17 DEF EndSync
  <2>2. ~InCycle'
    BY <2>1 DEF InCycle, InEntity, Pushing
  <2> QED
    BY <2>1, <2>2 DEF PlanInv, WalksOrder, InCycle, Fetched
<1> QED
  BY <1>1, <1>2, <1>3, <1>4, <1>5, <1>6, <1>7, <1>8, <1>9, <1>10, <1>11, <1>12, <1>13,
     <1>14, <1>15, <1>16, <1>17 DEF Run, CutShort

LEMMA CommandWalks ==
    CommandSpec => [](CommandTypeOK /\ PushInv /\ ModeInv /\ OrderInv /\ PlanInv)
<1>1. CommandInit => PlanInv
  BY DEF CommandInit, PlanInv, WalksOrder, InCycle, InEntity, Fetched, Pushing
<1> QED
  BY <1>1, PlanKeeps, CommandTypes, CommandOrder, PTL DEF CommandSpec

\* For every registry: no entity of a cycle is asked for before all it depends on
\* have been (_run_cycle over resolve_sync_order).
THEOREM FetchesInOrder == CommandSpec => []DependenciesFetchedFirst
<1>1. CommandTypeOK /\ ModeInv /\ OrderInv /\ PlanInv => DependenciesFetchedFirst
  <2> SUFFICES ASSUME CommandTypeOK, ModeInv, OrderInv, PlanInv, pc = "fetch",
                      command # "--resync-entity"
               PROVE  dependsOn[Head(plan)] \subseteq visited
    BY DEF DependenciesFetchedFirst
  <2>1. InEntity /\ InCycle
    BY DEF InEntity, InCycle, ModeInv, Pushing
  <2>2. Len(plan) \in Nat \ {0} /\ Head(plan) = plan[1]
    BY <2>1 DEF CommandTypeOK, ModeInv
  <2>3. PICK k \in 0 .. Len(resolved) :
             /\ Len(plan) + k = Len(resolved)
             /\ \A i \in 1 .. Len(plan) : plan[i] = resolved[i + k]
             /\ \A j \in 1 .. k : resolved[j] \in visited
    BY <2>1 DEF PlanInv, WalksOrder
  <2>4. Len(resolved) \in Nat /\ 1 + k \in 1 .. Len(resolved) /\ (1 + k) - 1 = k
    BY <2>2, <2>3 DEF OrderInv
  <2>5. Head(plan) = resolved[1 + k]
    BY <2>2, <2>3
  <2>6. dependsOn[resolved[1 + k]] \subseteq {resolved[j] : j \in 1 .. (1 + k) - 1}
    BY <2>4 DEF OrderInv, DependenciesFirst
  <2> QED
    BY <2>3, <2>4, <2>5, <2>6
<1> QED
  BY <1>1, CommandWalks, PTL

-----------------------------------------------------------------------------
(* What becomes of the records that are fetched.                            *)

\* Where each record of the current entity is, from fetch to save.
LEMMA CurrentStays ==
    ASSUME UNCHANGED <<seen, plan>>
    PROVE  Current' = Current
BY DEF Current, RecordsOf

\* After a fetch, all that was seen of the entity is still to do.
LEMMA FetchCurrent ==
    ASSUME CommandTypeOK, ModeInv, PlanInv, Fetch
    PROVE  /\ ~draining /\ ~draining'
           /\ Current' = todo' /\ Underway' = {} /\ pc' = "each"
           /\ result'.fetched = Cardinality(todo')
           /\ \A f \in {"created", "updated", "unchanged", "failed"} : result'[f] = result[f]
<1>1. ~draining /\ ~draining' /\ pc = "fetch" /\ pc' = "each" /\ plan' = plan
  BY DEF Fetch, ModeInv, Pushing
<1>2. PICK records \in SUBSET RecordsOf(Head(plan)) :
           /\ todo' = records /\ seen' = seen \cup records
           /\ result' = [result EXCEPT !.fetched = Cardinality(records)]
  BY DEF Fetch
<1>3. Current' = (seen \cup records) \cap RecordsOf(Head(plan))
  BY <1>1, <1>2 DEF Current, RecordsOf
<1>4. Current' = records
  BY <1>1, <1>3, UnseenBefore DEF Current
<1>5. Underway' = {}
  BY <1>1 DEF Underway, Pushing
<1>6. /\ result'.fetched = Cardinality(records)
      /\ \A f \in {"created", "updated", "unchanged", "failed"} : result'[f] = result[f]
  BY <1>2 DEF CommandTypeOK, ResultType
<1> QED
  BY <1>1, <1>2, <1>4, <1>5, <1>6

\* A record that is cached and reported as unchanged, or written, is on the site;
\* one whose push fails is queued; one that is skipped is hopeless.
LEMMA AccountKeeps ==
    ASSUME CommandTypeOK, PushInv, ModeInv, PlanInv, AccountInv, [Run]_commandVars
    PROVE  AccountInv'
<1> USE DEF place, counts, frappe, store, rest, Exit, Abort
<1>1. CASE Start \/ HealthPasses \/ HealthFails \/ Wake \/ EndSync \/ EndDrain \/ Dequeue
  BY <1>1 DEF Start, HealthPasses, HealthFails, Wake, EndSync, EndDrain, Dequeue,
     AccountInv, Handling, Fetched, InEntity, Pushing
<1>2. CASE Ordering \/ Ordered \/ BeginEntity \/ Save
  BY <1>2 DEF Ordering, Ordered, BeginEntity, Save, AccountInv, Handling, Fetched, InEntity, Pushing
<1>3. CASE Fetch
  BY <1>3, FetchCurrent DEF AccountInv
<1>4. CASE FetchFails
  BY <1>4 DEF FetchFails, AccountInv, Handling, Fetched
<1>5. CASE Skip
  <2>1. PICK r \in todo : Hopeless(r) /\ todo' = todo \ {r}
    BY <1>5 DEF Skip
  <2>2. Handling /\ Underway = {} /\ Underway' = {} /\ Current' = Current
        /\ UNCHANGED <<onSite, queue>>
    BY <1>5, CurrentStays DEF Skip, Handling, Fetched, InEntity, Underway, Pushing
  <2> QED
    BY <2>1, <2>2 DEF AccountInv, Hopeless
<1>6. CASE DropRow
  BY <1>6 DEF DropRow, AccountInv, Handling, Fetched, InEntity
<1>7. CASE BeginPush
  <2> SUFFICES ASSUME Handling' PROVE AccountInv'
    BY DEF AccountInv
  <2>1. Handling /\ Underway = {}
    BY <1>7 DEF BeginPush, Handling, Fetched, InEntity, Underway, Pushing
  <2>2. PICK r \in todo : cur' = r /\ todo' = todo \ {r} /\ pc' \in Pushing
    BY <1>7 DEF BeginPush, Pushing
  <2>3. Underway' = {r} /\ Current' = Current /\ UNCHANGED <<onSite, queue>>
    BY <1>7, <2>2, CurrentStays DEF BeginPush, Underway
  <2> QED
    BY <2>1, <2>2, <2>3 DEF AccountInv, Hopeless
<1>8. CASE Get \/ Fill
  BY <1>8, CurrentStays DEF Get, Fill, AccountInv, Handling, Fetched, InEntity, Underway, Pushing,
     Hopeless
<1>9. CASE Compare
  <2>1. cur \in onSite \/ (pc' \in Pushing /\ Underway' = Underway)
    BY <1>9 DEF Compare, Returned, Underway, Pushing, PushInv
  <2>2. /\ UNCHANGED <<onSite, queue, todo, draining>> /\ Current' = Current
        /\ Underway = {cur} /\ Underway' \in {{}, {cur}} /\ pc' \notin {"fetch", "save_error"}
    BY <1>9, CurrentStays DEF Compare, Returned, Underway, Pushing
  <2>3. Handling' => Handling
    BY <1>9, <2>2 DEF Compare, Handling, Fetched, InEntity, Pushing
  <2> QED
    BY <2>1, <2>2, <2>3 DEF AccountInv, Hopeless, Underway
<1>10. CASE Written \/ RequestFails
  BY <1>10, CurrentStays DEF Written, RequestFails, Caught, AccountInv, Handling, Fetched, InEntity,
     Underway, Pushing, Hopeless
<1>11. CASE Remember
  BY <1>11, CurrentStays DEF Remember, Returned, AccountInv, PushInv, Handling, Fetched, InEntity,
     Underway, Pushing, Hopeless
<1>12. CASE Resolve
  BY <1>12 DEF Resolve, ModeInv, AccountInv, Handling, Fetched, InEntity
<1>13. CASE Requeue
  BY <1>13, CurrentStays DEF Requeue, AccountInv, Handling, Fetched, InEntity, Underway, Pushing,
     Hopeless
<1>14. CASE Locked
  BY <1>14, CurrentStays DEF Locked, LockedHandler, InTry, AccountInv, Handling, Fetched, InEntity,
     Underway, Pushing, Hopeless
<1>15. CASE UNCHANGED commandVars
  BY <1>15, CurrentStays DEF commandVars, AccountInv, Handling, Fetched, InEntity, Underway, Hopeless
<1>16. CASE CutShort
  BY <1>16, CutsDrain DEF AccountInv, Handling, Fetched, InEntity
<1> QED
  BY <1>1, <1>2, <1>3, <1>4, <1>5, <1>6, <1>7, <1>8, <1>9, <1>10, <1>11, <1>12, <1>13,
     <1>14, <1>15, <1>16 DEF Run, CutShort

LEMMA CommandAccounts ==
    CommandSpec => [](CommandTypeOK /\ PushInv /\ ModeInv /\ PlanInv /\ AccountInv)
<1>1. CommandInit => AccountInv
  BY DEF CommandInit, AccountInv, Handling, Fetched, InEntity, Pushing
<1> QED
  BY <1>1, AccountKeeps, CommandWalks, PTL DEF CommandSpec

\* For every set of records and any failures: at the end of an entity each record
\* fetched of it is on the site, in the queue, or can never be pushed
\* (_sync_entity, up to update_last_sync).
THEOREM AllAreAccounted == CommandSpec => []AccountedBeforeSave
<1>1. AccountInv => AccountedBeforeSave
  BY DEF AccountInv, AccountedBeforeSave, Handling, Fetched, InEntity, Underway, Current, Pushing
<1> QED
  BY <1>1, CommandAccounts, PTL

\* Counting one more failure, and counting anything else.
LEMMA CountFailed ==
    ASSUME CommandTypeOK, NEW f \in {"created", "updated", "unchanged", "failed"}, Count(f)
    PROVE  /\ f = "failed" => result'.failed # 0
           /\ f # "failed" => result'.failed = result.failed
BY DEF CommandTypeOK, ResultType, Count

\* What is behind the current entity, as long as that one stays.
LEMMA BehindStays ==
    ASSUME CleanInv, InCycle' => InCycle, Fetched' <=> Fetched, onSite \subseteq onSite',
           UNCHANGED <<seen, plan, failures>>
    PROVE  InCycle' /\ failures' = 0 =>
               \A r \in seen' : ~(Fetched' /\ r \in Current') => Clean(r)'
BY CurrentStays DEF CleanInv, Clean

\* A run that exits with 0, and what it has seen.
LEMMA ExitStays ==
    ASSUME CleanInv, UNCHANGED <<code, command, seen>>, onSite \subseteq onSite'
    PROVE  ExitZeroIsClean'
BY DEF CleanInv, ExitZeroIsClean, Clean, Syncing

\* Each record that is left unpushed is counted, and the cycle sums it up.
LEMMA CleanKeeps ==
    ASSUME CommandTypeOK, PushInv, ModeInv, PlanInv, AccountInv, CleanInv,
           [Run]_commandVars
    PROVE  CleanInv'
<1> USE DEF place, counts, frappe, store, rest
<1> DEFINE Behind == InCycle /\ failures = 0 =>
                         \A r \in seen : ~(Fetched /\ r \in Current) => Clean(r)
           Done == Handling /\ result.failed = 0 =>
                       \A r \in Current \ (todo \cup Underway) : Clean(r)
<1>1. CASE Start
  <2>1. ~Handling' /\ (InCycle' => seen' = {})
    BY <1>1 DEF Start, Exit, ModeInv, Handling, Fetched, InCycle, InEntity, Pushing
  <2>2. code' # "0" \/ UNCHANGED <<code, command, seen, onSite>>
    BY <1>1 DEF Start, Exit
  <2>3. ExitZeroIsClean'
    BY <2>2, ExitStays DEF ExitZeroIsClean
  <2> QED
    BY <2>1, <2>3 DEF CleanInv
<1>2. CASE HealthPasses \/ HealthFails
  <2>1. ~Handling' /\ ~InCycle'
    BY <1>2 DEF HealthPasses, HealthFails, Exit, Handling, Fetched, InCycle, InEntity, Pushing
  <2>2. command' \notin Syncing
    BY <1>2 DEF HealthPasses, HealthFails, ModeInv, Syncing
  <2> QED
    BY <2>1, <2>2 DEF CleanInv, ExitZeroIsClean
<1>3. CASE Wake
  <2>1. ~Handling' /\ ~InCycle' /\ seen' = {}
    BY <1>3 DEF Wake, Handling, Fetched, InCycle, InEntity, Pushing
  <2> QED
    BY <2>1 DEF CleanInv, ExitZeroIsClean
<1>4. CASE Ordering \/ Ordered
  <2>1. ~Handling' /\ seen' = {}
    BY <1>4 DEF Ordering, Ordered, Exit, Abort, ModeInv, Handling, Fetched, InEntity, Pushing
  <2> QED
    BY <2>1 DEF CleanInv, ExitZeroIsClean
<1>5. CASE BeginEntity
  <2>1. ~Handling' /\ (InCycle' => InCycle) /\ (Fetched' <=> Fetched)
    BY <1>5 DEF BeginEntity, Handling, Fetched, InCycle, InEntity, Pushing
  <2>2. UNCHANGED <<seen, plan, failures, code, command, onSite>>
    BY <1>5 DEF BeginEntity
  <2> QED
    BY <2>1, <2>2, BehindStays, ExitStays DEF CleanInv
<1>6. CASE EndSync
  <2>1. ~Handling' /\ ~InCycle' /\ InCycle /\ ~Fetched
    BY <1>6 DEF EndSync, Exit, Handling, Fetched, InCycle, InEntity, Pushing
  <2>2. CASE Serving
    <3>1. command' \notin Syncing
      BY <1>6, <2>2 DEF EndSync, Serving, Syncing
    <3> QED
      BY <2>1, <3>1 DEF CleanInv, ExitZeroIsClean
  <2>3. CASE ~Serving
    <3>1. UNCHANGED <<seen, command, onSite>>
      BY <1>6, <2>3 DEF EndSync
    <3>2. CASE failures = 0
      BY <2>1, <3>1, <3>2 DEF CleanInv, ExitZeroIsClean, Clean
    <3>3. CASE failures # 0
      <4>1. code' = "1"
        BY <1>6, <2>3, <3>3 DEF EndSync, Exit
      <4> QED
        BY <2>1, <4>1 DEF CleanInv, ExitZeroIsClean
    <3> QED
      BY <3>2, <3>3
  <2> QED
    BY <2>2, <2>3
<1>7. CASE EndDrain \/ Dequeue
  <2>1. ~Handling' /\ ~InCycle'
    BY <1>7 DEF EndDrain, Dequeue, Exit, Handling, Fetched, InCycle, InEntity, Pushing
  <2>2. command' \notin Syncing
    BY <1>7 DEF EndDrain, Dequeue, ModeInv, Syncing
  <2> QED
    BY <2>1, <2>2 DEF CleanInv, ExitZeroIsClean
<1>8. CASE Fetch
  <2>1. Current' = todo' /\ Underway' = {} /\ InCycle /\ ~Fetched /\ plan' = plan
    BY <1>8, FetchCurrent DEF Fetch, Fetched, InCycle, InEntity
  <2>2. UNCHANGED <<failures, code, command, onSite>>
    BY <1>8 DEF Fetch
  <2>3. \A r \in seen' : r \notin Current' => r \in seen
    BY <1>8, <2>1 DEF Fetch
  <2>4. Fetched'
    BY <1>8, FetchCurrent DEF Fetched, InEntity
  <2>5. Behind' /\ Done'
    BY <2>1, <2>2, <2>3, <2>4 DEF CleanInv, Clean
  <2>6. ExitZeroIsClean'
    BY <1>8 DEF Fetch, ModeInv, ExitZeroIsClean
  <2> QED
    BY <2>5, <2>6 DEF CleanInv
<1>9. CASE FetchFails
  <2>1. ~Handling' /\ InCycle /\ ~Fetched /\ Current' = Current /\ Current = {}
    BY <1>9, UnseenBefore, CurrentStays
    DEF FetchFails, ModeInv, Handling, Fetched, InCycle, InEntity, Pushing
  <2>2. UNCHANGED <<seen, failures, code, command, onSite>>
    BY <1>9 DEF FetchFails
  <2>3. Behind'
    BY <2>1, <2>2 DEF CleanInv, Clean
  <2> QED
    BY <2>1, <2>2, <2>3, ExitStays DEF CleanInv
<1>10. CASE Skip
  <2>1. PICK r \in todo : Hopeless(r) /\ todo' = todo \ {r} /\ CountInvalid(r)
    BY <1>10 DEF Skip
  <2>2. UNCHANGED <<pc, draining, cur, seen, plan, failures, code, command, onSite>>
    BY <1>10 DEF Skip
  <2>3. InCycle' = InCycle /\ Fetched' = Fetched /\ Handling' = Handling
        /\ Underway' = Underway /\ Current' = Current
    BY <2>2, CurrentStays DEF Handling, Fetched, InCycle, InEntity, Underway
  <2>4. result'.failed = 0 => result.failed = 0 /\ EntityOf[r] \notin Mapped
    BY <2>1, CountFailed DEF CountInvalid
  <2>5. Done'
    BY <2>1, <2>2, <2>3, <2>4 DEF CleanInv, Clean
  <2> QED
    BY <2>2, <2>3, <2>5, BehindStays, ExitStays DEF CleanInv
<1>11. CASE Save
  <2>1. ~Handling' /\ ~Fetched' /\ InCycle /\ Fetched
    BY <1>11 DEF Save, Handling, Fetched, InCycle, InEntity, Pushing
  <2>2. UNCHANGED <<seen, code, command, onSite>> /\ failures' = failures + result.failed
    BY <1>11 DEF Save
  <2>3. failures' = 0 => failures = 0 /\ result.failed = 0
    BY <2>2 DEF CommandTypeOK, ResultType
  <2>4. pc # "save_error" => Handling /\ todo = {} /\ Underway = {}
    BY <1>11, <2>1 DEF Save, Handling, Underway, Pushing
  <2>5. pc = "save_error" => Current = {}
    BY DEF PlanInv
  <2>6. Behind'
    BY <2>1, <2>2, <2>3, <2>4, <2>5 DEF CleanInv, Clean
  <2> QED
    BY <2>1, <2>2, <2>6, ExitStays DEF CleanInv
<1>12. CASE DropRow
  <2>1. ~InCycle' /\ ~Handling'
    BY <1>12 DEF DropRow, Handling, Fetched, InCycle, InEntity
  <2>2. UNCHANGED <<code, command, seen, onSite>>
    BY <1>12 DEF DropRow
  <2> QED
    BY <2>1, <2>2, ExitStays DEF CleanInv
<1>13. CASE BeginPush
  <2>1. PICK r \in todo : cur' = r /\ todo' = todo \ {r} /\ pc' \in Pushing /\ pc = "each"
    BY <1>13 DEF BeginPush, Pushing
  <2>2. UNCHANGED <<draining, seen, plan, failures, result, code, command, onSite>>
    BY <1>13 DEF BeginPush
  <2>3. (InCycle' => InCycle) /\ Fetched' = Fetched /\ Handling' = Handling
    BY <2>1, <2>2 DEF Handling, Fetched, InCycle, InEntity, Pushing
  <2>4. Underway = {} /\ Underway' = {r} /\ Current' = Current
    BY <2>1, <2>2, CurrentStays DEF Underway, Pushing
  <2>5. Done'
    BY <2>1, <2>2, <2>3, <2>4 DEF CleanInv, Clean
  <2> QED
    BY <2>2, <2>3, <2>5, BehindStays, ExitStays DEF CleanInv
<1>14. CASE Get \/ Fill \/ Compare \/ Written \/ RequestFails \/ Remember \/ Resolve
            \/ Requeue
  <2>1. UNCHANGED <<draining, todo, cur, seen, plan, failures, code, command>>
        /\ onSite \subseteq onSite' /\ pc \in Pushing /\ pc' \in Pushing \cup {"each"}
    BY <1>14 DEF Get, Fill, Compare, Written, RequestFails, Caught, Remember, Returned,
       Resolve, Requeue, Pushing
  <2>2. (InCycle' => InCycle) /\ Fetched' = Fetched /\ Handling' = Handling
    BY <2>1 DEF Handling, Fetched, InCycle, InEntity, Pushing
  <2>3. Current' = Current /\ Underway = {cur} /\ Underway' \subseteq Underway
    BY <2>1, CurrentStays DEF Underway
  <2>4. CASE pc' \in Pushing
    <3>1. Underway' = Underway
      BY <2>1, <2>4 DEF Underway
    <3>2. pc # "failed"
      BY <1>14, <2>1, <2>4 DEF Get, Fill, Compare, Written, RequestFails, Remember, Resolve,
         Requeue, Pushing
    <3>3. UNCHANGED result \/ Count("created") \/ Count("updated") \/ Count("unchanged")
      BY <1>14, <3>2 DEF Get, Fill, Compare, Written, RequestFails, Remember, Resolve,
         Requeue
    <3>4. result'.failed = result.failed
      BY <3>3, CountFailed
    <3> QED
      BY <2>1, <2>2, <2>3, <3>1, <3>4, BehindStays, ExitStays DEF CleanInv, Clean
  <2>5. CASE pc' = "each" /\ draining
    BY <2>1, <2>2, <2>5, BehindStays, ExitStays DEF CleanInv, Handling, Fetched, InEntity
  <2>6. CASE pc' = "each" /\ ~draining
    <3>1. \/ Requeue
          \/ cur \in onSite /\ (UNCHANGED result \/ Count("unchanged"))
      BY <1>14, <2>6 DEF Get, Fill, Compare, Written, RequestFails, Caught, Remember,
         Returned, Resolve, PushInv, ModeInv
    <3>2. Done'
      <4>1. CASE Requeue
        <5>1. result'.failed # 0
          BY <2>6, <4>1, CountFailed DEF Requeue
        <5> QED
          BY <5>1
      <4>2. CASE cur \in onSite /\ (UNCHANGED result \/ Count("unchanged"))
        <5>1. result'.failed = result.failed
          BY <4>2, CountFailed
        <5>2. Clean(cur)'
          BY <2>1, <4>2 DEF Clean
        <5> QED
          BY <2>1, <2>2, <2>3, <5>1, <5>2 DEF CleanInv, Clean
      <4> QED
        BY <3>1, <4>1, <4>2
    <3> QED
      BY <2>1, <2>2, <3>2, BehindStays, ExitStays DEF CleanInv
  <2> QED
    BY <2>1, <2>4, <2>5, <2>6
<1>15. CASE Locked
  <2>1. UNCHANGED <<draining, todo, cur, seen, plan, failures, result, command, onSite>>
    BY <1>15 DEF Locked
  <2>2. CASE pc \in InTry /\ pc' = "failed" /\ UNCHANGED code
    <3>1. (InCycle' => InCycle) /\ Fetched' = Fetched /\ Handling' = Handling
          /\ Underway' = Underway /\ Current' = Current
      BY <2>1, <2>2, CurrentStays
      DEF InTry, Handling, Fetched, InCycle, InEntity, Underway, Pushing
    <3> QED
      BY <2>1, <2>2, <3>1, BehindStays, ExitStays DEF CleanInv, Clean
  <2>3. CASE Abort
    <3>1. ~InCycle' /\ ~Handling' /\ (code' # "0" \/ UNCHANGED code)
      BY <2>3 DEF Abort, Exit, Handling, Fetched, InCycle, InEntity, Pushing
    <3>2. ExitZeroIsClean'
      BY <2>1, <3>1, ExitStays DEF ExitZeroIsClean
    <3> QED
      BY <3>1, <3>2 DEF CleanInv
  <2> QED
    BY <1>15, <2>2, <2>3 DEF Locked, LockedHandler
<1>16. CASE UNCHANGED commandVars
  <2>1. InCycle' = InCycle /\ Fetched' = Fetched /\ Handling' = Handling
        /\ Underway' = Underway /\ Current' = Current
    BY <1>16, CurrentStays DEF commandVars, Handling, Fetched, InCycle, InEntity, Underway
  <2> QED
    BY <1>16, <2>1, ExitStays DEF commandVars, CleanInv, Clean
<1>17. CASE CutShort
  <2>1. ~InCycle' /\ ~Handling' /\ UNCHANGED <<seen, command, onSite>>
        /\ (code' # "0" \/ UNCHANGED code)
    BY <1>17, CutsDrain DEF Handling, Fetched, InCycle, InEntity, Pushing
  <2>2. ExitZeroIsClean'
    BY <2>1, ExitStays DEF ExitZeroIsClean
  <2> QED
    BY <2>1, <2>2 DEF CleanInv
<1> QED
  BY <1>1, <1>2, <1>3, <1>4, <1>5, <1>6, <1>7, <1>8, <1>9, <1>10, <1>11, <1>12, <1>13,
     <1>14, <1>15, <1>16, <1>17 DEF Run, CutShort

\* For every set of records, any answers and any failures: a syncing command exits
\* with 0 only if all it fetched is on the site or has no mapping (main).
THEOREM ZeroIsClean == CommandSpec => []ExitZeroIsClean
<1>1. CommandInit => CleanInv
  BY DEF CommandInit, CleanInv, ExitZeroIsClean, InCycle, Handling, Fetched, InEntity, Pushing
<1>2. CleanInv => ExitZeroIsClean
  BY DEF CleanInv
<1> QED
  BY <1>1, <1>2, CleanKeeps, CommandAccounts, PTL DEF CommandSpec

-----------------------------------------------------------------------------
(* The counters.                                                            *)

LEMMA FiniteCounts ==
    ASSUME CommandTypeOK
    PROVE  /\ IsFiniteSet(todo) /\ Cardinality(todo) \in Nat
           /\ IsFiniteSet(Uncounted \ todo) /\ Cardinality(Uncounted \ todo) \in Nat
           /\ IsFiniteSet(Current) /\ Cardinality(Current) \in Nat
<1>1. todo \subseteq Record /\ Current \subseteq Record /\ Uncounted \ todo \subseteq Record
  BY DEF CommandTypeOK, Current, Uncounted
<1> QED
  BY <1>1, CommandAssumption, FS_Subset, FS_CardinalityType

\* Sums of the counters, one of which the provers cannot see through.
LEMMA OneMore ==
    ASSUME NEW a \in Nat, NEW b \in Nat, NEW c \in Nat, NEW d \in Nat
    PROVE  (a + 1) + b + (c - 1) + d = a + b + c + d
           /\ a + (b + 1) + (c - 1) + d = a + b + c + d
           /\ a + b + (c - 1) + 1 = a + b + c + 0
OBVIOUS

LEMMA Within ==
    ASSUME NEW n \in Nat, NEW a \in Nat, NEW b \in Nat, NEW c \in Nat, NEW t \in Nat,
           NEW d \in Nat, NEW e \in Nat, NEW k \in Nat, NEW l \in Nat,
           n <= a + c + t + d, a + c + t + d <= n + k, k <= l,
           b + e >= a + d, b + e <= a + d + (l - k)
    PROVE  n <= b + c + t + e /\ b + c + t + e <= n + l
OBVIOUS

LEMMA EvenWithin ==
    ASSUME NEW a \in Nat, NEW b \in Nat, NEW d \in Nat, NEW e \in Nat, NEW k \in Nat,
           b + e = a + d
    PROVE  b + e >= a + d /\ b + e <= a + d + (k - k)
OBVIOUS

LEMMA CountsAreNumbers ==
    ASSUME CommandTypeOK
    PROVE  /\ Counted \in Nat /\ result.fetched \in Nat /\ locks \in Nat
           /\ ToCount \in Nat
BY DEF CommandTypeOK, ResultType, Counted, ToCount

\* A count is one more, of what was counted and not of what was fetched.
LEMMA CountIsOne ==
    ASSUME CommandTypeOK, NEW f \in {"created", "updated", "unchanged", "failed"}, Count(f)
    PROVE  Counted' = Counted + 1 /\ result'.fetched = result.fetched
BY DEF CommandTypeOK, ResultType, Count, Counted

\* A step of a push that counts the record or does not, and may be one lock more.
LEMMA PushCounts ==
    ASSUME CommandTypeOK, CountInv, Handling,
           UNCHANGED <<seen, plan, todo>>, result'.fetched = result.fetched, pc' # "fetch",
           Counted \in Nat, locks \in Nat, locks' \in Nat, locks <= locks',
           Counted' \in Nat, ToCount \in Nat, ToCount' \in Nat,
           Counted' + ToCount' >= Counted + ToCount,
           Counted' + ToCount' <= Counted + ToCount + (locks' - locks)
    PROVE  CountInv'
<1>1. Current' = Current
  BY CurrentStays
<1>2. Uncounted' = Uncounted
  BY <1>1 DEF Uncounted
<1> DEFINE c == Cardinality(Uncounted \ todo)
           t == Cardinality(todo)
<1>3. c \in Nat /\ t \in Nat /\ result.fetched \in Nat
  BY FiniteCounts, CountsAreNumbers
<1>4. Total = Counted + c + t + ToCount /\ Total' = Counted' + c + t + ToCount'
  BY <1>2 DEF Total
<1>5. result.fetched <= Total /\ Total <= result.fetched + locks
  BY DEF CountInv
<1> HIDE DEF c, t
<1>6. result'.fetched <= Total' /\ Total' <= result'.fetched + locks'
  BY <1>3, <1>4, <1>5, Within
<1> QED
  BY <1>1, <1>6 DEF CountInv

\* A record that is skipped is counted, or is one of those that never are.
LEMMA SkipCounts ==
    ASSUME CommandTypeOK, ModeInv, AccountInv, CountInv, Skip, CommandTypeOK'
    PROVE  CountInv'
<1>1. PICK r \in todo : Hopeless(r) /\ todo' = todo \ {r} /\ CountInvalid(r)
  BY DEF Skip
<1>2. Handling /\ pc' = "each" /\ UNCHANGED <<pc, seen, plan, locks>>
  BY DEF Skip, Handling, Fetched, InEntity
<1>3. Current' = Current /\ Uncounted' = Uncounted /\ ToCount' = ToCount
  BY <1>2, CurrentStays DEF Uncounted, ToCount, Current, RecordsOf
<1>4. r \in Current /\ EntityOf[r] = Head(plan)
  BY <1>1, <1>2 DEF AccountInv, Current, RecordsOf
<1>5. Cardinality(todo') = Cardinality(todo) - 1
  BY <1>1, FiniteCounts, FS_RemoveElement
<1>6. CASE r \in Uncounted
  <2>1. UNCHANGED result
    BY <1>1, <1>4, <1>6 DEF CountInvalid, Uncounted
  <2>2. (Uncounted \ todo)' = (Uncounted \ todo) \cup {r} /\ r \notin Uncounted \ todo
    BY <1>1, <1>3, <1>6
  <2>3. Cardinality(Uncounted \ todo)' = Cardinality(Uncounted \ todo) + 1
    BY <2>2, FiniteCounts, FS_AddElement
  <2>4. Total' = Total
    BY <1>3, <1>5, <2>1, <2>3, FiniteCounts, CountsAreNumbers DEF Total, Counted
  <2> QED
    BY <1>2, <1>3, <2>1, <2>4 DEF CountInv
<1>7. CASE r \notin Uncounted
  <2>1. Count("failed")
    BY <1>1, <1>4, <1>7 DEF CountInvalid, Uncounted
  <2>2. (Uncounted \ todo)' = Uncounted \ todo
    BY <1>1, <1>3, <1>7
  <2>3. Counted' = Counted + 1 /\ result'.fetched = result.fetched
    BY <2>1, CountIsOne
  <2> DEFINE c == Cardinality(Uncounted \ todo)
             t == Cardinality(todo)
  <2>4. Total' = Total
    <3>1. Total = Counted + c + t + ToCount
      BY DEF Total
    <3>2. Total' = (Counted + 1) + c + (t - 1) + ToCount
      BY <1>3, <1>5, <2>2, <2>3 DEF Total
    <3>3. c \in Nat /\ t \in Nat /\ Counted \in Nat /\ ToCount \in Nat
      BY FiniteCounts, CountsAreNumbers
    <3> HIDE DEF c, t
    <3> QED
      BY <3>1, <3>2, <3>3, OneMore
  <2> QED
    BY <1>2, <1>3, <2>3, <2>4 DEF CountInv
<1> QED
  BY <1>6, <1>7

\* A record that is pushed is of a mapped entity, and is to be counted.
LEMMA PushBegins ==
    ASSUME CommandTypeOK, ModeInv, AccountInv, CountInv, BeginPush, Handling'
    PROVE  CountInv'
<1>1. PICK r \in todo : ~Hopeless(r) /\ todo' = todo \ {r}
                        /\ pc' = IF r \in cached THEN "compare" ELSE "get"
  BY DEF BeginPush
<1>2. Handling /\ pc = "each" /\ UNCHANGED <<result, seen, plan, locks>>
  BY DEF BeginPush, Handling, Fetched, InEntity, rest, counts
<1>3. ToCount = 0 /\ ToCount' = 1 /\ pc' # "fetch"
  BY <1>1, <1>2 DEF ToCount, Pushing
<1>4. EntityOf[r] = Head(plan) /\ EntityOf[r] \in Mapped
  BY <1>1, <1>2 DEF AccountInv, Current, RecordsOf, Hopeless
<1>5. Uncounted = {} /\ Uncounted' = {}
  BY <1>2, <1>4 DEF Uncounted
<1>6. (Uncounted \ todo)' = Uncounted \ todo
  BY <1>5
<1>7. Cardinality(todo') = Cardinality(todo) - 1
  BY <1>1, FiniteCounts, FS_RemoveElement
<1>8. Total' = Total
  <2>1. Counted' = Counted
    BY <1>2 DEF Counted
  <2> DEFINE c == Cardinality(Uncounted \ todo)
             t == Cardinality(todo)
  <2>2. Total = Counted + c + t + 0
    BY <1>3 DEF Total
  <2>3. Total' = Counted + c + (t - 1) + 1
    BY <1>3, <1>6, <1>7, <2>1 DEF Total
  <2>4. c \in Nat /\ t \in Nat /\ Counted \in Nat
    BY FiniteCounts, CountsAreNumbers
  <2> HIDE DEF c, t
  <2> QED
    BY <2>2, <2>3, <2>4, OneMore
<1> QED
  BY <1>2, <1>3, <1>8, CurrentStays DEF CountInv

\* Each step keeps the sum.
LEMMA CountKeeps ==
    ASSUME CommandTypeOK, PushInv, ModeInv, PlanInv, AccountInv, CountInv,
           [Run]_commandVars, CommandTypeOK'
    PROVE  CountInv'
<1> USE DEF place, counts, frappe, store, rest
<1>1. CASE Start \/ HealthPasses \/ HealthFails \/ Wake \/ EndSync \/ EndDrain \/ Dequeue
           \/ Ordering \/ Ordered \/ Save \/ DropRow
  BY <1>1 DEF Start, HealthPasses, HealthFails, Wake, EndSync, EndDrain, Dequeue, Ordering,
     Ordered, Save, DropRow, Exit, Abort, CountInv, Handling, Fetched, InEntity, Pushing
<1>2. CASE BeginEntity \/ FetchFails
  BY <1>2 DEF BeginEntity, FetchFails, CountInv, Handling, Fetched
<1>3. CASE Fetch
  <2>1. /\ Current' = todo' /\ pc' = "each" /\ result'.fetched = Cardinality(todo')
        /\ result'.created = 0 /\ result'.updated = 0 /\ result'.unchanged = 0
        /\ result'.failed = 0
    BY <1>3, FetchCurrent DEF Fetch, CountInv, Zero
  <2>2. (Uncounted \ todo)' = {} /\ ToCount' = 0 /\ Counted' = 0
    BY <2>1 DEF Uncounted, ToCount, Counted, Pushing
  <2>3. Cardinality({}) = 0
    BY FS_EmptySet
  <2>4. Cardinality(todo') \in Nat /\ locks' \in Nat
    BY FS_Subset, FS_CardinalityType, CommandAssumption DEF CommandTypeOK
  <2>5. Total' = Cardinality(todo')
    BY <2>2, <2>3, <2>4 DEF Total
  <2> QED
    BY <2>1, <2>4, <2>5 DEF CountInv
<1>4. CASE Skip
  BY <1>4, SkipCounts
<1>5. CASE BeginPush
  <2>1. pc' # "fetch"
    BY <1>5 DEF BeginPush
  <2> QED
    BY <1>5, <2>1, PushBegins DEF CountInv
<1>6. CASE Get \/ Fill \/ Compare \/ Written \/ RequestFails \/ Remember \/ Resolve
           \/ Requeue
  <2>1. UNCHANGED <<seen, plan, todo, locks, draining>> /\ pc' # "fetch" /\ pc \in Pushing
    BY <1>6 DEF Get, Fill, Compare, Written, RequestFails, Caught, Remember, Returned,
       Resolve, Requeue, Pushing
  <2>2. CASE ~Handling'
    BY <2>1, <2>2 DEF CountInv
  <2>3. CASE Handling'
    <3>1. Handling /\ ~draining
      BY <2>1, <2>3 DEF Handling, Fetched, InEntity, Pushing
    <3>2. \/ UNCHANGED result /\ ToCount' = ToCount
          \/ /\ ToCount = 1 /\ ToCount' = 0
             /\ Count("created") \/ Count("updated") \/ Count("unchanged") \/ Count("failed")
      <4>1. CASE Get \/ Fill \/ RequestFails \/ Remember
        BY <3>1, <4>1 DEF Get, Fill, RequestFails, Caught, Remember, Returned, ToCount, Pushing
      <4>2. CASE Compare
        BY <3>1, <4>2 DEF Compare, Returned, ToCount, Pushing
      <4>3. CASE Written \/ Requeue
        BY <3>1, <4>3 DEF Written, Requeue, ToCount, Pushing
      <4>4. CASE Resolve
        BY <3>1, <4>4 DEF Resolve, ModeInv
      <4> QED
        BY <1>6, <4>1, <4>2, <4>3, <4>4
    <3>3. Counted' + ToCount' = Counted + ToCount /\ result'.fetched = result.fetched
      BY <3>2, CountIsOne, CountsAreNumbers DEF Counted
    <3>4. Counted \in Nat /\ Counted' \in Nat /\ ToCount \in Nat /\ ToCount' \in Nat
          /\ locks \in Nat /\ locks' \in Nat
      <4>1. result' \in ResultType
        BY DEF CommandTypeOK
      <4>2. Counted' \in Nat
        BY <4>1 DEF ResultType, Counted
      <4>3. ToCount' \in Nat
        BY DEF ToCount
      <4>4. locks' \in Nat
        BY DEF CommandTypeOK
      <4> QED
        BY <4>2, <4>3, <4>4, CountsAreNumbers
    <3>5. locks' = locks /\ locks <= locks'
      BY <2>1, <3>4
    <3>6. /\ Counted' + ToCount' >= Counted + ToCount
          /\ Counted' + ToCount' <= Counted + ToCount + (locks' - locks)
      BY <3>3, <3>4, <3>5, EvenWithin
    <3> QED
      BY <2>1, <3>1, <3>3, <3>4, <3>5, <3>6, PushCounts
  <2> QED
    BY <2>2, <2>3
<1>7. CASE Locked
  <2>1. UNCHANGED <<seen, plan, todo, result, draining>> /\ locks' = locks + 1
    BY <1>7 DEF Locked
  <2>2. pc' # "fetch"
    BY <1>7 DEF Locked, LockedHandler, Abort, Exit
  <2>3. CASE ~Handling'
    BY <2>2, <2>3 DEF CountInv
  <2>4. CASE Handling'
    <3>1. pc \in InTry /\ pc' = "failed"
      BY <1>7, <2>4 DEF Locked, LockedHandler, Abort, Exit, Handling, Fetched, InEntity, Pushing
    <3>2. Handling
      BY <2>1, <2>4, <3>1 DEF InTry, Handling, Fetched, InEntity, Pushing
    <3>3. ToCount' = 1 /\ ToCount \in {0, 1} /\ Counted' = Counted
      BY <2>1, <3>1 DEF ToCount, Counted, Pushing
    <3>4. Counted \in Nat /\ locks \in Nat /\ locks' - locks = 1 /\ locks' \in Nat
          /\ locks <= locks'
      BY <2>1, CountsAreNumbers
    <3> QED
      BY <2>1, <2>2, <3>2, <3>3, <3>4, PushCounts
  <2> QED
    BY <2>3, <2>4
<1>8. CASE UNCHANGED commandVars
  BY <1>8, CurrentStays DEF commandVars, CountInv, Total, Counted, Uncounted, ToCount,
     Handling, Fetched, InEntity
<1>9. CASE CutShort
  BY <1>9, CutsDrain DEF CountInv, Handling, Fetched, InEntity
<1> QED
  BY <1>1, <1>2, <1>3, <1>4, <1>5, <1>6, <1>7, <1>8, <1>9 DEF Run, CutShort

\* For every set of records: what an entity counts is what was fetched of it, and
\* at most one record more for every time the state file was locked
\* (EntitySyncResult, as _sync_entity and _push_record fill it).
THEOREM CountsAlwaysAddUp == CommandSpec => []CountsAddUp
<1>1. CommandInit => CountInv
  BY DEF CommandInit, CountInv, Handling, Fetched, InEntity, Pushing
<1>2. CommandTypeOK /\ CountInv => CountsAddUp
  <2> SUFFICES ASSUME CommandTypeOK, CountInv, pc = "each", ~draining, todo = {}
               PROVE  LET unmapped == IF Head(plan) \in Mapped THEN 0
                                      ELSE Cardinality(Current \ Unparseable)
                      IN  /\ Counted + unmapped >= result.fetched
                          /\ Counted + unmapped <= result.fetched + locks
    BY DEF CountsAddUp, Current, Counted
  <2>1. Handling /\ ToCount = 0
    BY DEF Handling, Fetched, InEntity, ToCount, Pushing
  <2>2. Cardinality(todo) = 0
    BY FS_EmptySet
  <2>3. Cardinality(Uncounted \ todo) =
            IF Head(plan) \in Mapped THEN 0 ELSE Cardinality(Current \ Unparseable)
    <3>1. Uncounted \ todo = Uncounted
      OBVIOUS
    <3> QED
      BY <3>1, FS_EmptySet DEF Uncounted
  <2>4. Total = Counted + Cardinality(Uncounted \ todo)
    BY <2>1, <2>2, FiniteCounts, CountsAreNumbers DEF Total
  <2> QED
    BY <2>1, <2>3, <2>4, FiniteCounts, CountsAreNumbers DEF CountInv
<1>3. CommandTypeOK /\ PushInv /\ ModeInv /\ PlanInv /\ AccountInv /\ CountInv
          /\ CommandTypeOK' /\ [Run]_commandVars => CountInv'
  BY CountKeeps
<1> QED
  BY <1>1, <1>2, <1>3, CommandAccounts, PTL DEF CommandSpec

-----------------------------------------------------------------------------
(* Every round of a run ends.                                               *)

\* The attempts of a request are counted below their maximum.
TriesInv == tries \in 0 .. MaxAttempts - 1

LEMMA TriesKeep ==
    ASSUME TriesInv, [Run]_commandVars
    PROVE  TriesInv'
<1> USE DEF TriesInv, place
<1>1. MaxAttempts \in Nat \ {0}
  BY CommandAssumption
<1>2. CASE FetchFails \/ RequestFails
  BY <1>1, <1>2 DEF FetchFails, RequestFails, Over
<1>3. CASE BeginEntity \/ BeginPush \/ Compare
  BY <1>1, <1>3 DEF BeginEntity, BeginPush, Compare
<1>4. CASE UNCHANGED tries
  BY <1>4
<1> QED
  BY <1>2, <1>3, <1>4
  DEF Run, Start, HealthPasses, HealthFails, Wake, Ordering, Ordered, EndSync, Fetch, Skip,
      Save, Dequeue, DropRow, EndDrain, Get, Fill, Written, Remember, Resolve, Requeue,
      Locked, UnknownEntity, Overflow, commandVars

\* The entities are finitely many, and the order has no more.
LEMMA NameIsFinite == IsFiniteSet(Name) /\ Cardinality(Name) \in Nat
<1>1. Declared \in Surjection(1 .. Len(Declared), Name)
  <2>1. Declared \in [1 .. Len(Declared) -> Name]
    BY SyncOrderAssumption
  <2>2. \A n \in Name : \E i \in 1 .. Len(Declared) : Declared[i] = n
    BY SyncOrderAssumption
  <2> QED
    BY <2>1, <2>2 DEF Surjection
<1>2. Len(Declared) \in Nat
  BY SyncOrderAssumption
<1>3. IsFiniteSet(1 .. Len(Declared))
  BY <1>2, FS_Interval
<1> QED
  BY <1>1, <1>3, FS_Surjection, FS_CardinalityType

LEMMA OrderIsShort ==
    ASSUME OrderInv
    PROVE  Len(resolved) \in Nat /\ Len(resolved) <= Cardinality(Name)
<1>1. Len(resolved) \in Nat
  BY DEF OrderInv
<1>2. resolved \in Injection(1 .. Len(resolved), Name)
  <2>1. resolved \in [1 .. Len(resolved) -> Name]
    BY DEF OrderInv
  <2>2. \A i, j \in 1 .. Len(resolved) : resolved[i] = resolved[j] => i = j
    BY DEF OrderInv, EachOnce
  <2> QED
    BY <2>1, <2>2 DEF Injection, IsInjective
<1>3. Cardinality(1 .. Len(resolved)) <= Cardinality(Name)
  BY <1>2, NameIsFinite, FS_Injection
<1>4. Cardinality(1 .. Len(resolved)) = Len(resolved)
  <2>1. Cardinality(1 .. Len(resolved)) =
            IF 1 > Len(resolved) THEN 0 ELSE Len(resolved) - 1 + 1
    BY <1>1, FS_Interval
  <2> QED
    BY <1>1, <2>1
<1> QED
  BY <1>1, <1>3, <1>4

\* The products of the measure.
LEMMA Products ==
    ASSUME NEW c \in Nat, NEW m \in Nat, NEW n \in Nat, m <= n
    PROVE  c * m \in Nat /\ c * m <= c * n /\ c * (m + 1) = c * m + c
<1>1. PICK k \in Nat : n = m + k
  BY n - m \in Nat, n = m + (n - m)
<1>2. c * n = c * m + c * k
  BY <1>1
<1> QED
  BY <1>1, <1>2

\* What the measure is made of.
Ended == {"exit", "asleep", "down"}
AtRecords == pc \in {"each"} \cup Pushing

LEMMA Budgets ==
    ASSUME CommandTypeOK, TriesInv
    PROVE  /\ MaxAttempts \in Nat /\ AttemptsLeft \in 1 .. MaxAttempts
           /\ PerRecord = 8 + 2 * MaxAttempts /\ AllRecords \in Nat
           /\ PerEntity = AllRecords + MaxAttempts + 3
           /\ PushLeft \in 0 .. PerRecord - 1
           /\ IsFiniteSet(todo) /\ Cardinality(todo) \in Nat
           /\ PerRecord * Cardinality(todo) \in 0 .. AllRecords
<1>1. MaxAttempts \in Nat /\ AttemptsLeft \in 1 .. MaxAttempts
  BY CommandAssumption DEF AttemptsLeft, TriesInv
<1>2. PushLeft \in 0 .. 7 + 2 * MaxAttempts
  BY <1>1 DEF PushLeft
<1>3. IsFiniteSet(todo) /\ Cardinality(todo) \in Nat /\ Cardinality(Record) \in Nat
      /\ Cardinality(todo) <= Cardinality(Record)
  BY CommandAssumption, FS_Subset, FS_CardinalityType DEF CommandTypeOK
<1>4. PerRecord \in Nat
  BY <1>1 DEF PerRecord
<1>5. AllRecords \in Nat /\ PerRecord * Cardinality(todo) \in 0 .. AllRecords
  BY <1>3, <1>4, Products DEF AllRecords
<1> QED
  BY <1>1, <1>2, <1>3, <1>5 DEF PerRecord, PerEntity

\* The entities still to come, with the current one and without.
LEMMA PlanBudget ==
    ASSUME CommandTypeOK, ModeInv, TriesInv
    PROVE  /\ PerEntity * Len(plan) \in Nat
           /\ InEntity => /\ PerEntity * (Len(plan) - 1) \in Nat
                          /\ PerEntity * Len(plan) = PerEntity * (Len(plan) - 1) + PerEntity
<1>1. PerEntity \in Nat
  BY Budgets
<1>2. Len(plan) \in Nat
  BY DEF CommandTypeOK
<1>3. ASSUME InEntity
      PROVE  /\ PerEntity * (Len(plan) - 1) \in Nat
             /\ PerEntity * Len(plan) = PerEntity * (Len(plan) - 1) + PerEntity
  <2>1. plan # <<>>
    BY <1>3 DEF ModeInv
  <2>2. Len(plan) - 1 \in Nat /\ (Len(plan) - 1) + 1 = Len(plan)
    BY <2>1 DEF CommandTypeOK
  <2> QED
    BY <1>1, <2>2, Products
<1> QED
  BY <1>1, <1>2, <1>3, Products

\* The measure, step by step.
Measured ==
    /\ pc \in Ended => StepsLeft = 0
    /\ pc = "dequeue" => StepsLeft = AllRecords + 2
    /\ AtRecords /\ draining => StepsLeft = RecordsLeft
    /\ AtRecords /\ ~draining =>
           StepsLeft = AllRecords + 3 + (PerEntity * (Len(plan) - 1) + RecordsLeft)
    /\ pc = "save_error" /\ ~draining =>
           StepsLeft = AllRecords + 3 + (PerEntity * (Len(plan) - 1) + 1)
    /\ pc = "fetch" /\ ~draining =>
           StepsLeft = AllRecords + 3
                       + (PerEntity * (Len(plan) - 1) + (AllRecords + 2 + AttemptsLeft))
    /\ pc = "entity" /\ ~draining => StepsLeft = AllRecords + 3 + PerEntity * Len(plan)
    /\ pc = "order" /\ ~draining =>
           StepsLeft = AllRecords + 3 + (PerEntity * Cardinality(Name) + OrderLeft)
    /\ pc = "health" /\ ~draining =>
           StepsLeft = AllRecords + 3
                       + (PerEntity * Cardinality(Name) + 2 * Cardinality(Name) + 3)
    /\ pc = "start" /\ ~draining =>
           StepsLeft = AllRecords + 3
                       + (PerEntity * Cardinality(Name) + 2 * Cardinality(Name) + 4)

LEMMA StepsAt == Measured
<1>1. AtRecords => pc \notin Ended \cup {"dequeue", "save_error", "fetch", "entity", "order",
                                         "health", "start"}
  BY DEF AtRecords, Pushing, Ended
<1>2. AtRecords => EntityLeft = RecordsLeft
  BY <1>1 DEF EntityLeft
<1>3. AtRecords => SyncLeft = PerEntity * (Len(plan) - 1) + RecordsLeft
  BY <1>1, <1>2 DEF SyncLeft
<1> QED
  BY <1>1, <1>3 DEF Measured, StepsLeft, SyncLeft, EntityLeft, Ended

LEMMA OrderBudget ==
    ASSUME CommandTypeOK, OrderInv
    PROVE  /\ OrderLeft \in 0 .. 2 * Cardinality(Name) + 2
           /\ IsFiniteSet(remaining) /\ Cardinality(remaining) \in Nat
<1>1. remaining \in SUBSET Name
  BY DEF OrderInv
<1>2. IsFiniteSet(remaining) /\ Cardinality(remaining) \in Nat
      /\ Cardinality(remaining) <= Cardinality(Name)
  BY <1>1, NameIsFinite, FS_Subset, FS_CardinalityType
<1> QED
  BY <1>2, NameIsFinite DEF OrderLeft

\* Where the run is, by what it is in.
LEMMA Places ==
    ASSUME CommandTypeOK, ModeInv
    PROVE  /\ pc \in Ended \cup {"dequeue", "save_error", "fetch", "entity", "order", "health",
                                 "start"} \/ AtRecords
           /\ draining => pc \in Ended \/ AtRecords
           /\ ~draining /\ (AtRecords \/ pc \in {"fetch", "save_error"}) => InEntity
BY DEF CommandTypeOK, ModeInv, Ended, AtRecords, InEntity, Pushing

\* There are steps left, but at an end.
LEMMA StepsAreNumbers ==
    ASSUME CommandTypeOK, ModeInv, OrderInv, TriesInv
    PROVE  StepsLeft \in Nat /\ (pc \notin Ended => StepsLeft >= 1)
<1>1. AllRecords \in Nat /\ RecordsLeft \in Nat /\ RecordsLeft >= 1 /\ AttemptsLeft \in Nat
  BY Budgets DEF RecordsLeft
<1>2. /\ PerEntity * Len(plan) \in Nat
      /\ InEntity => PerEntity * (Len(plan) - 1) \in Nat
  BY PlanBudget
<1>3. PerEntity * Cardinality(Name) \in Nat /\ Cardinality(Name) \in Nat /\ OrderLeft \in Nat
  BY Budgets, Products, NameIsFinite, OrderBudget
<1> DEFINE behind == PerEntity * (Len(plan) - 1)
           whole == PerEntity * Len(plan)
           all == PerEntity * Cardinality(Name)
<1> HIDE DEF Ended, behind, whole, all
<1>4. CASE pc \in Ended \cup {"dequeue"}
  BY <1>1, <1>4, StepsAt DEF Measured
<1>5. CASE AtRecords
  <2>1. CASE draining
    BY <1>1, <1>5, <2>1, StepsAt DEF Measured
  <2>2. CASE ~draining
    <3>1. StepsLeft = AllRecords + 3 + (behind + RecordsLeft) /\ behind \in Nat
      BY <1>2, <1>5, <2>2, StepsAt, Places DEF behind, Measured
    <3> QED
      BY <1>1, <3>1
  <2> QED
    BY <2>1, <2>2 DEF CommandTypeOK
<1>6. CASE pc \in {"save_error", "fetch"}
  <2>1. InEntity /\ ~draining
    BY <1>6, Places DEF Ended, AtRecords, Pushing
  <2>2. /\ behind \in Nat
        /\ \/ StepsLeft = AllRecords + 3 + (behind + 1)
           \/ StepsLeft = AllRecords + 3 + (behind + (AllRecords + 2 + AttemptsLeft))
    BY <1>2, <1>6, <2>1, StepsAt DEF behind, Measured
  <2> QED
    BY <1>1, <2>2
<1>7. CASE pc \in {"entity", "order", "health", "start"}
  <2>1. ~draining
    BY <1>7, Places DEF Ended, AtRecords, Pushing
  <2>2. /\ whole \in Nat /\ all \in Nat
        /\ \/ StepsLeft = AllRecords + 3 + whole
           \/ StepsLeft = AllRecords + 3 + (all + OrderLeft)
           \/ StepsLeft = AllRecords + 3 + (all + 2 * Cardinality(Name) + 3)
           \/ StepsLeft = AllRecords + 3 + (all + 2 * Cardinality(Name) + 4)
    BY <1>2, <1>3, <1>7, <2>1, StepsAt DEF whole, all, Measured
  <2> QED
    BY <1>1, <1>3, <2>2
<1> QED
  BY <1>4, <1>5, <1>6, <1>7, Places

StepsInv == CommandTypeOK /\ ModeInv /\ OrderInv /\ TriesInv

\* The same of the next state.
Budgeted ==
    /\ AttemptsLeft \in 1 .. MaxAttempts
    /\ PushLeft \in 0 .. PerRecord - 1
    /\ PerRecord * Cardinality(todo) \in 0 .. AllRecords
    /\ StepsLeft \in Nat

LEMMA IsBudgeted == StepsInv => Budgeted
BY Budgets, StepsAreNumbers DEF StepsInv, Budgeted

LEMMA NextBudgets ==
    ASSUME StepsInv'
    PROVE  Measured' /\ Budgeted'
BY StepsAt, IsBudgeted, PTL

\* Sums the provers do not see through where they stand.
LEMMA SumsLess ==
    ASSUME NEW a \in Nat, NEW b \in Nat, NEW x \in Nat, NEW y \in Nat, x < y
    PROVE  a + 3 + (b + x) < a + 3 + (b + y)
OBVIOUS

LEMMA RoomForOne ==
    ASSUME NEW t \in Nat, NEW p \in Nat, NEW x \in 0 .. p - 1
    PROVE  t + x + 1 < t + p + 1
OBVIOUS

LEMMA FetchSums ==
    ASSUME NEW a \in Nat, NEW m \in Nat, NEW x \in 1 .. m
    PROVE  /\ a + 2 + x \in Nat /\ a + 2 + x < a + m + 3 /\ 1 < a + 2 + x
           /\ \A y \in 1 .. m : y < x => a + 2 + y < a + 2 + x
OBVIOUS

LEMMA OrderSums ==
    ASSUME NEW a \in Nat, NEW b \in Nat, NEW n \in Nat, NEW k \in 3 .. 4, NEW x \in 0 .. 2 * n + 2
    PROVE  a + 3 + (b + x) < a + 3 + (b + 2 * n + k)
OBVIOUS

\* Ending is less.
LEMMA EndShrinks ==
    ASSUME StepsInv, pc \notin Ended, pc' \in Ended
    PROVE  StepsLeft' < StepsLeft
<1>1. StepsLeft' = 0
  BY DEF StepsLeft, Ended
<1> QED
  BY <1>1, StepsAreNumbers DEF StepsInv

\* So is less to do at the records.
LEMMA RecordsShrink ==
    ASSUME StepsInv, StepsInv', AtRecords, AtRecords', UNCHANGED <<plan, draining>>,
           RecordsLeft' < RecordsLeft
    PROVE  StepsLeft' < StepsLeft
<1>1. RecordsLeft \in Nat /\ RecordsLeft' \in Nat /\ AllRecords \in Nat
  BY Budgets, NextBudgets DEF RecordsLeft, StepsInv, Budgeted
<1> DEFINE behind == PerEntity * (Len(plan) - 1)
<1>2. CASE draining
  BY <1>1, <1>2, StepsAt, NextBudgets DEF Measured
<1>3. CASE ~draining
  <2>1. behind \in Nat
    BY <1>3, PlanBudget, Places DEF StepsInv
  <2>2. /\ StepsLeft = AllRecords + 3 + (behind + RecordsLeft)
        /\ StepsLeft' = AllRecords + 3 + (behind + RecordsLeft')
    BY <1>3, StepsAt, NextBudgets DEF Measured
  <2> HIDE DEF behind
  <2> QED
    BY <1>1, <2>1, <2>2, SumsLess
<1> QED
  BY <1>2, <1>3 DEF StepsInv, CommandTypeOK

\* A step of a push.
LEMMA PushShrinks ==
    ASSUME StepsInv, StepsInv', AtRecords, AtRecords', UNCHANGED <<plan, draining, todo>>,
           PushLeft' < PushLeft
    PROVE  StepsLeft' < StepsLeft
<1>1. /\ PerRecord * Cardinality(todo) \in Nat /\ PushLeft \in Nat /\ PushLeft' \in Nat
      /\ PerRecord * Cardinality(todo') = PerRecord * Cardinality(todo)
  BY Budgets, NextBudgets DEF StepsInv, Budgeted
<1> DEFINE t == PerRecord * Cardinality(todo)
<1>2. RecordsLeft = t + PushLeft + 1 /\ RecordsLeft' = t + PushLeft' + 1
  BY <1>1 DEF RecordsLeft
<1> HIDE DEF t
<1>3. RecordsLeft' < RecordsLeft
  BY <1>1, <1>2 DEF t
<1> QED
  BY <1>3, RecordsShrink

\* A record less, though its push may have begun.
LEMMA TodoShrinks ==
    ASSUME StepsInv, StepsInv', pc = "each", AtRecords', UNCHANGED <<plan, draining>>,
           NEW r \in todo, todo' = todo \ {r}
    PROVE  StepsLeft' < StepsLeft
<1>1. AtRecords /\ PushLeft = 0
  BY DEF AtRecords, PushLeft
<1>2. Cardinality(todo') = Cardinality(todo) - 1 /\ Cardinality(todo) \in Nat
      /\ Cardinality(todo) - 1 \in Nat
  BY Budgets, FS_RemoveElement, FS_EmptySet DEF StepsInv
<1>3. PerRecord \in Nat
  BY Budgets DEF StepsInv
<1> DEFINE t == PerRecord * (Cardinality(todo) - 1)
<1>4. t \in Nat /\ PerRecord * Cardinality(todo) = t + PerRecord
  <2>1. PerRecord * ((Cardinality(todo) - 1) + 1) = t + PerRecord /\ t \in Nat
    BY <1>2, <1>3, Products
  <2> QED
    BY <1>2, <2>1
<1>5. RecordsLeft = t + PerRecord + 1 /\ RecordsLeft' = t + PushLeft' + 1
  BY <1>1, <1>2, <1>3, <1>4 DEF RecordsLeft
<1>6. PushLeft' \in 0 .. PerRecord - 1
  BY NextBudgets DEF Budgeted
<1> HIDE DEF t
<1>7. RecordsLeft' < RecordsLeft
  BY <1>3, <1>4, <1>5, <1>6, RoomForOne
<1> QED
  BY <1>1, <1>7, RecordsShrink

\* The order comes closer, and one registry's worth of passes is all it takes.
LEMMA OrderingShrinks ==
    ASSUME StepsInv, StepsInv', Ordering
    PROVE  StepsLeft' < StepsLeft
<1>1. pc = "order" /\ pc' = "order" /\ ~draining /\ ~draining'
  BY Places DEF Ordering, place, StepsInv, Ended, AtRecords, Pushing
<1>2. OrderLeft \in Nat /\ IsFiniteSet(remaining) /\ Cardinality(remaining) \in Nat
  BY OrderBudget, NameIsFinite DEF StepsInv
<1>3. OrderLeft' \in Nat /\ OrderLeft' < OrderLeft
  <2>1. CASE NextPass
    BY <1>2, <2>1 DEF NextPass, OrderLeft
  <2>2. CASE Emit
    <3>1. PICK n \in ready : remaining' = remaining \ {n} /\ UNCHANGED raised
      BY <2>2 DEF Emit
    <3>2. n \in remaining /\ ready # {}
      BY DEF StepsInv, OrderInv
    <3>3. Cardinality(remaining') = Cardinality(remaining) - 1
          /\ Cardinality(remaining') \in Nat
      BY <1>2, <3>1, <3>2, FS_RemoveElement, FS_CardinalityType
    <3> QED
      BY <1>2, <3>1, <3>2, <3>3 DEF OrderLeft
  <2>3. CASE Raise
    BY <1>2, <2>3 DEF Raise, OrderLeft
  <2> QED
    BY <2>1, <2>2, <2>3 DEF Ordering, OrderStep, Ordering
<1> DEFINE all == PerEntity * Cardinality(Name)
<1>4. all \in Nat /\ AllRecords \in Nat
  BY Budgets, NameIsFinite, Products DEF StepsInv
<1>5. /\ StepsLeft = AllRecords + 3 + (all + OrderLeft)
      /\ StepsLeft' = AllRecords + 3 + (all + OrderLeft')
  BY <1>1, StepsAt, NextBudgets DEF Measured
<1> HIDE DEF all
<1> QED
  BY <1>2, <1>3, <1>4, <1>5, SumsLess

\* The plan is no longer than the registry.
LEMMA OrderedShrinks ==
    ASSUME StepsInv, StepsInv', Ordered
    PROVE  StepsLeft' < StepsLeft
<1>1. pc = "order" /\ ~draining /\ ~draining'
  BY Places DEF Ordered, StepsInv, Ended, AtRecords, Pushing
<1>2. CASE remaining = {} /\ plan' = resolved /\ pc' = "entity"
  <2>1. OrderLeft = 2
    <3>1. ready = {} /\ ~raised /\ Cardinality(remaining) = 0
      BY <1>2, FS_EmptySet DEF StepsInv, OrderInv, RaisedOnlyIfStuck
    <3> QED
      BY <3>1 DEF OrderLeft
  <2> DEFINE all == PerEntity * Cardinality(Name)
             whole == PerEntity * Len(resolved)
  <2>2. all \in Nat /\ whole \in Nat /\ whole <= all /\ AllRecords \in Nat
    <3>1. PerEntity \in Nat /\ AllRecords \in Nat
      BY Budgets DEF StepsInv
    <3>2. Len(resolved) \in Nat /\ Cardinality(Name) \in Nat
          /\ Len(resolved) <= Cardinality(Name)
      BY OrderIsShort, NameIsFinite DEF StepsInv
    <3> QED
      BY <3>1, <3>2, Products
  <2>3. StepsLeft = AllRecords + 3 + (all + 2)
    BY <1>1, <2>1, StepsAt DEF Measured
  <2>4. StepsLeft' = AllRecords + 3 + (whole + 0)
    <3>1. StepsLeft' = AllRecords + 3 + whole
      BY <1>1, <1>2, NextBudgets DEF Measured
    <3> HIDE DEF whole
    <3> QED
      BY <2>2, <3>1
  <2> HIDE DEF all, whole
  <2> QED
    BY <2>2, <2>3, <2>4
<1>3. CASE Abort
  <2>1. pc' \in Ended
    BY <1>3 DEF Abort, Exit, Ended
  <2> QED
    BY <1>1, <2>1, EndShrinks DEF Ended
<1> QED
  BY <1>2, <1>3 DEF Ordered

\* The first steps, and the health check.
LEMMA StartShrinks ==
    ASSUME StepsInv, StepsInv', Start \/ HealthPasses \/ HealthFails
    PROVE  StepsLeft' < StepsLeft
<1>1. pc \in {"start", "health"} /\ ~draining /\ UNCHANGED draining
  BY Places DEF Start, HealthPasses, HealthFails, StepsInv, Ended, AtRecords, Pushing
<1> DEFINE all == PerEntity * Cardinality(Name)
           n == Cardinality(Name)
<1>2. all \in Nat /\ n \in Nat /\ AllRecords \in Nat /\ PerEntity \in Nat
  BY Budgets, NameIsFinite, Products DEF StepsInv
<1>3. StepsLeft = AllRecords + 3 + (all + 2 * n + (IF pc = "start" THEN 4 ELSE 3))
  BY <1>1, StepsAt DEF Measured
<1>4. CASE pc' \in Ended
  BY <1>1, <1>4, EndShrinks DEF Ended
<1>5. CASE pc' = "order"
  <2>1. StepsLeft' = AllRecords + 3 + (all + OrderLeft')
    BY <1>1, <1>5, NextBudgets DEF Measured
  <2>2. OrderLeft' \in 0 .. 2 * n + 2
    <3>1. StepsInv => OrderLeft \in 0 .. 2 * n + 2
      BY OrderBudget DEF StepsInv
    <3>2. UNCHANGED <<remaining, ready, raised>>
      BY DEF Start, HealthPasses, HealthFails, rest
    <3> QED
      BY <3>1, <3>2 DEF OrderLeft
  <2> DEFINE k == IF pc = "start" THEN 4 ELSE 3
  <2>3. k \in 3 .. 4 /\ StepsLeft = AllRecords + 3 + (all + 2 * n + k)
    BY <1>3
  <2> HIDE DEF all, n, k
  <2> QED
    BY <1>2, <2>1, <2>2, <2>3, OrderSums
<1>6. CASE pc' = "dequeue"
  <2>1. StepsLeft' = AllRecords + 2
    BY <1>6, NextBudgets DEF Measured
  <2> HIDE DEF all, n
  <2> QED
    BY <1>2, <1>3, <2>1
<1>7. CASE pc' = "health" /\ pc = "start"
  <2>1. StepsLeft' = AllRecords + 3 + (all + 2 * n + 3)
    BY <1>1, <1>7, NextBudgets DEF Measured
  <2> HIDE DEF all, n
  <2> QED
    BY <1>2, <1>3, <1>7, <2>1
<1>8. CASE pc' = "entity" /\ \E e \in Name : plan' = <<e>>
  <2>1. Len(plan') = 1 /\ Name # {}
    BY <1>8
  <2>2. 1 <= n
    BY <1>2, <2>1, NameIsFinite, FS_EmptySet
  <2>3. PerEntity * 1 <= all
    BY <1>2, <2>2, Products
  <2>4. StepsLeft' = AllRecords + 3 + PerEntity
    BY <1>1, <1>2, <1>8, <2>1, NextBudgets DEF Measured
  <2> HIDE DEF all, n
  <2> QED
    BY <1>2, <1>3, <2>3, <2>4
<1> QED
  BY <1>1, <1>4, <1>5, <1>6, <1>7, <1>8
  DEF Start, HealthPasses, HealthFails, Exit, Ended

\* An entity: its turn comes, it is fetched, its watermark is saved.
LEMMA EntityShrinks ==
    ASSUME StepsInv, StepsInv', BeginEntity \/ Fetch \/ FetchFails \/ Save
    PROVE  StepsLeft' < StepsLeft
<1>1. ~draining /\ UNCHANGED draining
  BY Places DEF BeginEntity, Fetch, FetchFails, Save, StepsInv, Ended, AtRecords, Pushing
<1> DEFINE behind == PerEntity * (Len(plan) - 1)
<1>2. /\ AllRecords \in Nat /\ MaxAttempts \in Nat /\ AttemptsLeft \in 1 .. MaxAttempts
      /\ AttemptsLeft' \in 1 .. MaxAttempts
      /\ PerEntity = AllRecords + MaxAttempts + 3 /\ PerEntity \in Nat
  BY Budgets, NextBudgets DEF StepsInv, Budgeted
<1>9. /\ RecordsLeft \in Nat /\ RecordsLeft >= 1
      /\ PerRecord * Cardinality(todo') \in 0 .. AllRecords
  BY Budgets, NextBudgets DEF StepsInv, Budgeted, RecordsLeft
<1>3. CASE BeginEntity
  <2>1. plan # <<>> /\ pc = "entity" /\ pc' = "fetch" /\ plan' = plan
    BY <1>3 DEF BeginEntity
  <2>2. InEntity'
    BY <1>1, <2>1 DEF InEntity
  <2>3. behind \in Nat /\ PerEntity * Len(plan) = behind + PerEntity
    <3>1. Len(plan) - 1 \in Nat /\ (Len(plan) - 1) + 1 = Len(plan) /\ PerEntity \in Nat
      BY <1>2, <2>1 DEF StepsInv, CommandTypeOK
    <3> QED
      BY <3>1, Products
  <2>4. StepsLeft = AllRecords + 3 + (behind + PerEntity)
    BY <1>1, <2>1, <2>3, StepsAt DEF Measured
  <2>5. StepsLeft' = AllRecords + 3 + (behind + (AllRecords + 2 + AttemptsLeft'))
    BY <1>1, <2>1, NextBudgets DEF Measured
  <2> HIDE DEF behind
  <2>6. AllRecords + 2 + AttemptsLeft' < PerEntity
    BY <1>2, FetchSums
  <2>7. AllRecords + 2 + AttemptsLeft' \in Nat /\ PerEntity \in Nat
    BY <1>2, FetchSums
  <2> QED
    BY <1>2, <2>3, <2>4, <2>5, <2>6, <2>7, SumsLess
<1>4. CASE pc = "fetch" /\ (Fetch \/ FetchFails)
  <2>1. InEntity /\ plan' = plan
    BY <1>1, <1>4 DEF InEntity, Fetch, FetchFails
  <2>2. behind \in Nat
    BY <2>1, PlanBudget DEF StepsInv
  <2>3. StepsLeft = AllRecords + 3 + (behind + (AllRecords + 2 + AttemptsLeft))
    BY <1>1, <1>4, StepsAt DEF Measured
  <2>4. AllRecords + 2 + AttemptsLeft \in Nat
    BY <1>2
  <2>5. CASE pc' = "each"
    <3>1. AtRecords' /\ PushLeft' = 0
      BY <2>5 DEF AtRecords, PushLeft
    <3>2. RecordsLeft' = PerRecord * Cardinality(todo') + 1
      BY <1>9, <3>1 DEF RecordsLeft
    <3>3. StepsLeft' = AllRecords + 3 + (behind + RecordsLeft')
      BY <1>1, <2>1, <3>1, NextBudgets DEF Measured
    <3>4. RecordsLeft' \in Nat /\ RecordsLeft' < AllRecords + 2 + AttemptsLeft
      BY <1>2, <1>9, <3>2
    <3> HIDE DEF behind
    <3> QED
      BY <1>2, <2>2, <2>3, <2>4, <3>3, <3>4, SumsLess
  <2>6. CASE pc' = "save_error"
    <3>1. StepsLeft' = AllRecords + 3 + (behind + 1)
      BY <1>1, <2>1, <2>6, NextBudgets DEF Measured
    <3>2. 1 < AllRecords + 2 + AttemptsLeft
      BY <1>2
    <3> HIDE DEF behind
    <3> QED
      BY <1>2, <2>2, <2>3, <2>4, <3>1, <3>2, SumsLess
  <2>7. CASE pc' = "fetch" /\ tries' = tries + 1
    <3>1. StepsLeft' = AllRecords + 3 + (behind + (AllRecords + 2 + AttemptsLeft'))
      BY <1>1, <2>1, <2>7, NextBudgets DEF Measured
    <3>2. AttemptsLeft' < AttemptsLeft
      BY <2>7, CommandAssumption DEF StepsInv, TriesInv, AttemptsLeft
    <3>3. AllRecords + 2 + AttemptsLeft' \in Nat
          /\ AllRecords + 2 + AttemptsLeft' < AllRecords + 2 + AttemptsLeft
      BY <1>2, <3>2, FetchSums
    <3> HIDE DEF behind
    <3> QED
      BY <1>2, <2>2, <2>3, <2>4, <3>1, <3>3, SumsLess
  <2> QED
    BY <1>4, <2>5, <2>6, <2>7 DEF Fetch, FetchFails
<1>5. CASE Save
  <2>1. InEntity /\ pc' = "entity" /\ plan' = Tail(plan) /\ pc \in {"save_error", "each"}
    BY <1>5 DEF Save, InEntity, Pushing
  <2>2. plan # <<>> /\ plan \in Seq(Name)
    BY <2>1 DEF StepsInv, ModeInv, CommandTypeOK
  <2>3. Len(plan') = Len(plan) - 1
    BY <2>1, <2>2
  <2>4. behind \in Nat
    BY <2>1, PlanBudget DEF StepsInv
  <2>5. StepsLeft' = AllRecords + 3 + behind
    BY <1>1, <2>1, <2>3, NextBudgets DEF Measured
  <2>6. CASE pc = "save_error"
    <3>1. StepsLeft = AllRecords + 3 + (behind + 1)
      BY <1>1, <2>6, StepsAt DEF Measured
    <3> HIDE DEF behind
    <3> QED
      BY <1>2, <2>4, <2>5, <3>1
  <2>7. CASE pc = "each"
    <3>1. StepsLeft = AllRecords + 3 + (behind + RecordsLeft)
      BY <1>1, <2>7, StepsAt DEF Measured, AtRecords
    <3> HIDE DEF behind
    <3> QED
      BY <1>2, <1>9, <2>4, <2>5, <3>1
  <2> QED
    BY <2>1, <2>6, <2>7
<1> QED
  BY <1>3, <1>4, <1>5 DEF Fetch, FetchFails

\* The ends of the walk and of the drain; the drain's beginning.
LEMMA EndsShrink ==
    ASSUME StepsInv, StepsInv', EndSync \/ EndDrain \/ Dequeue
    PROVE  StepsLeft' < StepsLeft
<1>1. pc \notin Ended
  BY DEF EndSync, EndDrain, Dequeue, Ended
<1>2. CASE pc' \in Ended
  BY <1>1, <1>2, EndShrinks
<1>3. CASE EndSync /\ pc' = "dequeue"
  <2>1. pc = "entity" /\ ~draining
    BY <1>3, Places DEF EndSync, StepsInv, Ended, AtRecords, Pushing
  <2> DEFINE whole == PerEntity * Len(plan)
  <2>2. whole \in Nat /\ AllRecords \in Nat
    BY PlanBudget, Budgets DEF StepsInv
  <2>3. StepsLeft = AllRecords + 3 + whole
    BY <2>1, StepsAt DEF Measured
  <2>4. StepsLeft' = AllRecords + 2
    BY <1>3, NextBudgets DEF Measured
  <2> HIDE DEF whole
  <2> QED
    BY <2>2, <2>3, <2>4
<1>4. CASE Dequeue
  <2>1. pc = "dequeue" /\ pc' = "each" /\ draining'
    BY <1>4 DEF Dequeue
  <2>2. PushLeft' = 0 /\ AtRecords'
    BY <2>1 DEF PushLeft, AtRecords
  <2> DEFINE t == PerRecord * Cardinality(todo')
  <2>3. t \in 0 .. AllRecords /\ AllRecords \in Nat
    BY NextBudgets, Budgets DEF Budgeted, StepsInv
  <2>4. RecordsLeft' = t + 0 + 1
    BY <2>2 DEF RecordsLeft
  <2>5. StepsLeft' = RecordsLeft' /\ StepsLeft = AllRecords + 2
    BY <2>1, <2>2, StepsAt, NextBudgets DEF Measured
  <2> HIDE DEF t
  <2> QED
    BY <2>3, <2>4, <2>5
<1> QED
  BY <1>2, <1>3, <1>4 DEF EndSync, EndDrain, Exit, Ended

\* A record is dropped, or its push goes on.
LEMMA HandlingShrinks ==
    ASSUME StepsInv, StepsInv',
           Skip \/ DropRow \/ BeginPush \/ Get \/ Fill \/ Compare \/ Written \/ RequestFails
               \/ Remember \/ Resolve \/ Requeue
    PROVE  StepsLeft' < StepsLeft
<1>1. CASE Skip \/ DropRow \/ BeginPush
  <2>1. PICK r \in todo : todo' = todo \ {r}
    BY <1>1 DEF Skip, DropRow, BeginPush
  <2>2. pc = "each" /\ UNCHANGED <<plan, draining>> /\ AtRecords'
    BY <1>1 DEF Skip, DropRow, BeginPush, AtRecords, Pushing
  <2> QED
    BY <2>1, <2>2, TodoShrinks
<1>2. CASE ~(Skip \/ DropRow \/ BeginPush)
  <2>1. /\ UNCHANGED <<plan, draining, todo>>
        /\ pc \in Pushing /\ pc' \in Pushing \cup {"each"}
    BY <1>2 DEF Get, Fill, Compare, Written, RequestFails, Caught, Remember, Returned,
       Resolve, Requeue, Pushing
  <2>2. /\ MaxAttempts \in Nat /\ tries \in 0 .. MaxAttempts - 1
        /\ tries' \in 0 .. MaxAttempts - 1
    BY CommandAssumption DEF StepsInv, TriesInv
  <2>3. AttemptsLeft = MaxAttempts - tries /\ AttemptsLeft' = MaxAttempts - tries'
    BY DEF AttemptsLeft
  <2>4. PushLeft' < PushLeft
    <3>1. CASE Get
      BY <2>2, <3>1 DEF Get, PushLeft, AttemptsLeft
    <3>2. CASE Fill
      BY <2>2, <3>2 DEF Fill, PushLeft, AttemptsLeft
    <3>3. CASE Compare
      BY <2>2, <3>3 DEF Compare, Returned, PushLeft, AttemptsLeft
    <3>4. CASE Written
      BY <2>2, <3>4 DEF Written, PushLeft, AttemptsLeft
    <3>5. CASE RequestFails
      <4>1. pc \in {"get", "put", "post"}
            /\ \/ pc' = "failed"
               \/ pc' = pc /\ tries' = tries + 1
        BY <3>5 DEF RequestFails, Caught
      <4> QED
        BY <2>2, <4>1 DEF PushLeft, AttemptsLeft
    <3>6. CASE Remember \/ Resolve \/ Requeue
      BY <2>2, <3>6 DEF Remember, Returned, Resolve, Requeue, PushLeft
    <3> QED
      BY <1>2, <3>1, <3>2, <3>3, <3>4, <3>5, <3>6
  <2> QED
    BY <2>1, <2>4, PushShrinks DEF AtRecords
<1> QED
  BY <1>1, <1>2

\* A lock is a failed push, or the end.
LEMMA LockedShrinks ==
    ASSUME StepsInv, StepsInv', Locked
    PROVE  StepsLeft' < StepsLeft
<1>1. CASE pc \in InTry /\ pc' = "failed"
  <2>1. UNCHANGED <<plan, draining, todo>> /\ AtRecords /\ AtRecords'
    BY <1>1 DEF Locked, InTry, AtRecords, Pushing
  <2>2. PushLeft' < PushLeft
    BY <1>1, CommandAssumption DEF PushLeft, InTry
  <2> QED
    BY <2>1, <2>2, PushShrinks
<1>2. CASE Abort
  <2>1. pc \notin Ended /\ pc' \in Ended
    BY <1>2 DEF Locked, Abort, Exit, Ended, InTry
  <2> QED
    BY <2>1, EndShrinks
<1> QED
  BY <1>1, <1>2 DEF Locked, LockedHandler

\* A row that ends the drain.
LEMMA CutShrinks ==
    ASSUME StepsInv, StepsInv', CutShort
    PROVE  StepsLeft' < StepsLeft
<1>1. pc \notin Ended /\ pc' \in Ended
  BY CutsDrain DEF Ended
<1> QED
  BY <1>1, EndShrinks

LEMMA StepsShrink ==
    ASSUME StepsInv, StepsInv', Run, pc \notin {"asleep", "down"}
    PROVE  StepsLeft' < StepsLeft
BY OrderingShrinks, OrderedShrinks, StartShrinks, EntityShrinks, EndsShrink, HandlingShrinks,
   LockedShrinks, CutShrinks DEF Run, Wake, CutShort

LEMMA CommandTries == CommandSpec => []StepsInv
<1>1. CommandInit => TriesInv
  BY CommandAssumption DEF CommandInit, TriesInv
<1>2. TriesInv /\ [Run]_commandVars => TriesInv'
  BY TriesKeep
<1>3. CommandSpec => []TriesInv
  BY <1>1, <1>2, PTL DEF CommandSpec
<1> QED
  BY <1>3, CommandTypes, CommandOrder, PTL DEF StepsInv

\* For every registry, any records, answers, failures and locks: a command, and each
\* round of the loop, has only so many steps to take as when it began, less those it
\* has taken (tenacity's stop_after_attempt, _run_cycle, process_retry_queue).
THEOREM StepsAlwaysRunOut == CommandSpec => StepsRunOut
<1>1. StepsInv /\ StepsInv' /\ [Run]_commandVars
          => [pc \notin {"asleep", "down"} => StepsLeft' \in 0 .. StepsLeft - 1]_commandVars
  <2> SUFFICES ASSUME StepsInv, StepsInv', Run, pc \notin {"asleep", "down"}
               PROVE  StepsLeft' \in 0 .. StepsLeft - 1
    OBVIOUS
  <2>1. StepsLeft \in Nat /\ StepsLeft' \in Nat
    BY IsBudgeted, NextBudgets DEF Budgeted
  <2> QED
    BY <2>1, StepsShrink
<1> QED
  BY <1>1, CommandTries, PTL DEF CommandSpec, StepsRunOut

=============================================================================
