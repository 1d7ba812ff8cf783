---------------------------- MODULE DocumentProofs ----------------------------
(***************************************************************************)
(* What one process does to the documents of its sites: it makes no second *)
(* one of a record but by sending one POST again, and a full sync leaves   *)
(* none behind: proofs for TLAPS.                                          *)
(***************************************************************************)
EXTENDS NothingLostProofs, FiniteSetTheorems

-----------------------------------------------------------------------------
(* No second document, but by one request.                                  *)

\* What the theorem is for: one process at a time.
OneProcess == \E p \in Proc : Proc = {p}

\* Process p is about to create a document because its GET found none.
Creating(s) ==
    \/ s.pc = "post"
    \/ s.pc = "compare" /\ s.found = 0

\* The documents that earlier attempts of the request may have made.
Made(s) == IF "lost_ack" \in Faults THEN s.tries ELSE 0

\* What was looked up is still so, but for these, when the document is created.
Sound(p) ==
    LET s == proc[p]
    IN  /\ Creating(s) => Cardinality(Matches(target[p], s.cur)) <= Made(s)
        /\ s.pc = "fill" => s.found # 0
        /\ s.pc \in {"fill", "compare", "post"} => s.tries < MaxAttempts

CopiesInv ==
    /\ OwnInv
    /\ OneProcess
    /\ CopiesOfOneRequest
    /\ \A p \in Proc : Sound(p)

LEMMA InitCopies == Init /\ OneProcess => CopiesInv
<1> SUFFICES ASSUME Init, OneProcess PROVE CopiesInv
  OBVIOUS
<1>1. OwnInv
  BY InitOwn
<1>2. \A t \in Target, r \in Record : Matches(t, r) = {}
  BY DEF Init, Matches, Names
<1>3. MostCopies \in Nat
  BY SyncEngineAssumption DEF MostCopies
<1>4. CopiesOfOneRequest
  BY <1>2, <1>3, FS_EmptySet DEF CopiesOfOneRequest
<1>5. \A p \in Proc : Sound(p)
  BY DEF Init, AtRest, Sound, Creating
<1> QED
  BY <1>1, <1>4, <1>5 DEF CopiesInv

LEMMA CopiesTypes ==
    ASSUME CopiesInv, NEW p \in Proc
    PROVE  /\ proc[p] \in ProcState /\ proc[p] \in LocalState
           /\ target[p] \in Target /\ proc[p].cur \in Record
           /\ proc[p].tries \in Nat /\ Made(proc[p]) \in Nat
           /\ MaxAttempts \in Nat \ {0} /\ MostCopies \in Nat
           /\ \A q \in Proc : q = p
<1>1. proc[p] \in ProcState /\ proc[p] \in LocalState /\ target[p] \in Target
      /\ proc[p].cur \in Record /\ proc[p].tries \in Nat
  BY ProcStateType DEF CopiesInv, OwnInv
<1> QED
  BY <1>1, SyncEngineAssumption DEF Made, MostCopies, CopiesInv, OneProcess

\* The documents of a record can be counted; a part of them is no more.
LEMMA FewerCopies ==
    ASSUME CopiesInv, NEW t \in Target, NEW r \in Record, NEW S \in SUBSET Matches(t, r)
    PROVE  /\ IsFiniteSet(S) /\ Cardinality(S) \in Nat
           /\ IsFiniteSet(Matches(t, r)) /\ Cardinality(Matches(t, r)) \in Nat
           /\ Cardinality(S) <= Cardinality(Matches(t, r))
<1>1. Len(docs[t]) \in Nat
  BY DEF CopiesInv, OwnInv, TypeInv, TypeOK, FrappeTypeOK
<1>2. IsFiniteSet(1 .. Len(docs[t])) /\ Matches(t, r) \subseteq 1 .. Len(docs[t])
  BY <1>1, FS_Interval DEF Matches, Names
<1>3. IsFiniteSet(Matches(t, r))
  BY <1>2, FS_Subset
<1> QED
  BY <1>3, FS_Subset, FS_CardinalityType

LEMMA NoMoreThan ==
    ASSUME NEW a \in Nat, NEW b \in Nat, NEW m \in Nat, NEW n \in Nat, a <= b, b <= m, m <= n
    PROVE  a <= n
OBVIOUS

\* No document has come to a record since.
NoneCame == \A t \in Target, r \in Record : Matches(t, r)' \subseteq Matches(t, r)

LEMMA NoneCameCopies ==
    ASSUME CopiesInv, NoneCame
    PROVE  /\ CopiesOfOneRequest'
           /\ \A t \in Target, r \in Record : \A m, n \in Nat :
                  Cardinality(Matches(t, r)) <= m /\ m <= n => Cardinality(Matches(t, r)') <= n
<1>1. ASSUME NEW t \in Target, NEW r \in Record, NEW m \in Nat, NEW n \in Nat,
             Cardinality(Matches(t, r)) <= m, m <= n
      PROVE  Cardinality(Matches(t, r)') <= n
  <2>1. Matches(t, r)' \in SUBSET Matches(t, r)
    BY DEF NoneCame
  <2> QED
    BY <1>1, <2>1, FewerCopies, NoMoreThan
<1>2. MostCopies \in Nat /\ MostCopies <= MostCopies
  BY SyncEngineAssumption DEF MostCopies
<1>3. ASSUME NEW t \in Target, NEW r \in Record
      PROVE  Cardinality(Matches(t, r)') <= MostCopies
  BY <1>1, <1>2 DEF CopiesInv, CopiesOfOneRequest
<1> QED
  BY <1>1, <1>3 DEF CopiesOfOneRequest, MostCopies

\* While the process stays where it is, a creation stands on its lookup.
LEMMA StaysSound ==
    ASSUME CopiesInv, NoneCame, NEW p \in Proc, proc'[p] = proc[p], target'[p] = target[p]
    PROVE  Sound(p)'
<1>1. target[p] \in Target /\ proc[p].cur \in Record /\ Made(proc[p]) \in Nat
      /\ Made(proc[p]) <= Made(proc[p])
  BY CopiesTypes
<1>2. Creating(proc[p]) =>
          Cardinality(Matches(target[p], proc[p].cur)') <= Made(proc[p])
  BY <1>1, NoneCameCopies DEF CopiesInv, Sound
<1> QED
  BY <1>2 DEF CopiesInv, Sound, Creating, Made, Matches, Names, Live

\* Where nothing is looked up or sent, there is nothing to stand on.
LEMMA RestsSound ==
    ASSUME NEW p \in Proc, proc'[p].pc \notin {"fill", "compare", "post"}
    PROVE  Sound(p)'
BY DEF Sound, Creating

\* The process goes on to a POST, or repeats one.
LEMMA PostsSound ==
    ASSUME CopiesInv, NoneCame, NEW p \in Proc, Creating(proc[p]), target'[p] = target[p],
           proc'[p].pc = "post", proc'[p].cur = proc[p].cur,
           proc'[p].tries \in Nat, proc[p].tries <= proc'[p].tries,
           proc'[p].tries < MaxAttempts
    PROVE  Sound(p)'
<1>1. target[p] \in Target /\ proc[p].cur \in Record /\ Made(proc[p]) \in Nat
  BY CopiesTypes
<1>2. Made(proc'[p]) \in Nat /\ Made(proc[p]) <= Made(proc'[p])
  BY DEF Made
<1>3. Cardinality(Matches(target[p], proc[p].cur)') <= Made(proc'[p])
  BY <1>1, <1>2, NoneCameCopies DEF CopiesInv, Sound
<1> QED
  BY <1>3 DEF Sound, Creating, Made, Matches, Names, Live

\* Each step of the process that makes no document keeps what it stands on.
LEMMA StepsSound ==
    ASSUME CopiesInv, NoneCame, NEW p \in Proc, Step(p) \/ Fault(p),
           ~Acknowledged(p), ~AckLost(p)
    PROVE  Sound(p)'
<1> DEFINE s == proc[p]
           t == target[p]
<1>1. s \in ProcState /\ s \in LocalState /\ t \in Target /\ s.cur \in Record
      /\ s.tries \in Nat /\ MaxAttempts \in Nat \ {0}
  BY CopiesTypes
<1> USE DEF CopiesInv, OwnInv, TypeInv, Become
<1>2. CASE \/ RunSync(p) \/ ResyncEntity(p) \/ ProcessRetryQueue(p) \/ Restart(p)
           \/ BeginEntity(p) \/ EndSync(p) \/ Fetch(p) \/ SkipRecord(p) \/ Save(p)
           \/ FetchFails(p) \/ Crash(p)
           \/ Dequeue(p) \/ UnknownEntity(p) \/ DropRow(p) \/ EndRetries(p)
           \/ Resolve(p) \/ Enqueue(p) \/ Reschedule(p)
  BY <1>2, RestsSound, JobStepLooksUpNothing
<1>3. CASE BeginPush(p)
  <2>1. PICK r : /\ proc'[p].pc = AfterLookup(cache[t][r].name)
                 /\ proc'[p].found = cache[t][r].name
                 /\ proc'[p].tries = 0
    BY <1>1, <1>3 DEF BeginPush, ProcState
  <2>2. 0 < MaxAttempts
    BY <1>1
  <2> QED
    BY <2>1, <2>2 DEF AfterLookup, Sound, Creating
<1>4. CASE Get(p)
  <2>1. target' = target /\ docs' = docs
    BY <1>4 DEF Get, Outside
  <2>2. CASE /\ Matches(t, s.cur) = {}
             /\ proc'[p] = [s EXCEPT !.pc = "compare", !.found = 0, !.tries = 0]
    <3>1. /\ proc'[p].pc = "compare" /\ proc'[p].cur = s.cur /\ proc'[p].tries = 0
      BY <1>1, <2>2 DEF ProcState
    <3>2. Matches(t, s.cur)' = {}
      BY <2>1, <2>2, <3>1 DEF Matches, Names, Live
    <3>3. Matches(target[p], proc[p].cur)' = {}
      BY <2>1, <3>1, <3>2 DEF Matches, Names, Live
    <3>4. Cardinality(Matches(target[p], proc[p].cur)') = 0
      BY <3>3, FS_EmptySet
    <3>5. Made(proc'[p]) = 0 /\ 0 < MaxAttempts
      BY <1>1, <3>1 DEF Made
    <3>6. Cardinality(Matches(target[p], proc[p].cur)') <= Made(proc'[p])
      BY <3>4, <3>5
    <3> QED
      BY <3>1, <3>5, <3>6 DEF Sound, Made
  <2>3. CASE \E n \in Matches(t, s.cur) :
                proc'[p] = [s EXCEPT !.pc = "fill", !.found = n, !.tries = 0]
    <3>1. PICK n \in Matches(t, s.cur) :
              proc'[p] = [s EXCEPT !.pc = "fill", !.found = n, !.tries = 0]
      BY <2>3
    <3>2. n # 0 /\ 0 < MaxAttempts
      BY <1>1, <3>1 DEF Matches, Names
    <3>3. proc'[p].pc = "fill" /\ proc'[p].found = n /\ proc'[p].tries = 0
      BY <1>1, <3>1 DEF ProcState
    <3> QED
      BY <3>2, <3>3 DEF Sound, Creating
  <2> QED
    BY <1>4, <2>2, <2>3 DEF Get
<1>5. CASE Fill(p)
  <2>1. /\ proc'[p].pc = "compare" /\ proc'[p].found = s.found /\ s.found # 0
        /\ proc'[p].tries = s.tries /\ s.tries < MaxAttempts
    BY <1>1, <1>5 DEF Fill, ProcState, Sound
  <2> QED
    BY <2>1 DEF Sound, Creating
<1>6. CASE Compare(p) \/ Remember(p)
  <2>1. CASE proc'[p] = Returned(s)
    <3>1. proc'[p].pc \in {"resolve", "each"}
      BY <1>1, <2>1 DEF Returned, Without, ProcState
    <3> QED
      BY <3>1, RestsSound
  <2>2. CASE s.found = 0 /\ Compare(p) /\ proc'[p] = [s EXCEPT !.pc = "post"]
    <3>1. /\ proc'[p].pc = "post" /\ proc'[p].cur = s.cur /\ proc'[p].tries = s.tries
          /\ target'[p] = target[p]
      BY <1>1, <2>2 DEF ProcState, Compare, Outside
    <3>2. Creating(s) /\ s.tries < MaxAttempts /\ s.tries <= s.tries
      BY <1>1, <2>2 DEF Compare, Creating, Sound
    <3> QED
      BY <1>1, <3>1, <3>2, PostsSound
  <2>3. CASE proc'[p] = [s EXCEPT !.pc = "put"]
    <3>1. proc'[p].pc = "put"
      BY <1>1, <2>3 DEF ProcState
    <3> QED
      BY <3>1, RestsSound
  <2> QED
    BY <1>6, <2>1, <2>2, <2>3 DEF Compare, Remember
<1>7. CASE Missing(p) \/ Rejected(p)
  <2>1. proc'[p].pc = "failed"
    BY <1>1, <1>7 DEF Missing, Rejected, ProcState
  <2> QED
    BY <2>1, RestsSound
<1>8. CASE Unreachable(p)
  <2>1. s.pc \in {"get", "put", "post"} /\ proc'[p] = Unanswered(s) /\ target'[p] = target[p]
    BY <1>1, <1>8 DEF Unreachable, Outside
  <2>2. CASE s.pc = "post" /\ s.tries + 1 < MaxAttempts
    <3>1. proc'[p].pc = "post" /\ proc'[p].cur = s.cur /\ proc'[p].tries = s.tries + 1
      BY <1>1, <2>1, <2>2 DEF Unanswered, ProcState
    <3>2. s.tries <= s.tries + 1 /\ s.tries + 1 \in Nat
      BY <1>1
    <3> QED
      BY <2>1, <2>2, <3>1, <3>2, PostsSound DEF Creating
  <2>3. CASE ~(s.pc = "post" /\ s.tries + 1 < MaxAttempts)
    <3>1. proc'[p].pc \in {"get", "put", "failed"}
      BY <1>1, <2>1, <2>3 DEF Unanswered, ProcState
    <3> QED
      BY <3>1, RestsSound
  <2> QED
    BY <2>2, <2>3
<1>9. CASE SwitchTarget(p)
  <2>1. proc'[p].pc = "idle"
    BY <1>9 DEF SwitchTarget
  <2> QED
    BY <2>1, RestsSound
<1> QED
  BY <1>2, <1>3, <1>4, <1>5, <1>6, <1>7, <1>8, <1>9 DEF Step, Fault

LEMMA NothingMade ==
    ASSUME CopiesInv, [Next]_vars, NoneCame, \A p \in Proc : ~Acknowledged(p) /\ ~AckLost(p)
    PROVE  CopiesInv'
<1>1. OwnInv' /\ OneProcess'
  BY NextOwn DEF CopiesInv, OneProcess
<1>2. PICK p \in Proc : Proc = {p}
  BY DEF CopiesInv, OneProcess
<1>3. Sound(p)'
  <2>1. CASE Step(p) \/ Fault(p)
    BY <2>1, StepsSound
  <2>2. CASE UserEdits \/ UserDeletes \/ (\E r \in Record : TimePasses(r)) \/ UNCHANGED vars
    <3>1. UNCHANGED <<proc, target>>
      BY <2>2 DEF UserEdits, UserDeletes, TimePasses, vars
    <3> QED
      BY <3>1, StaysSound
  <2> QED
    BY <1>2, <2>1, <2>2 DEF Next
<1> QED
  BY <1>1, <1>2, <1>3, NoneCameCopies DEF CopiesInv

\* A user's deletion makes no document.
LEMMA DeletesMakeNone ==
    ASSUME CopiesInv, UserDeletes
    PROVE  NoneCame /\ UNCHANGED <<proc, target>>
<1>1. FrappeTypeOK /\ \A v \in Target : docs[v] \in Seq(Document)
  BY DEF CopiesInv, OwnInv, TypeInv, TypeOK, FrappeTypeOK
<1>2. PICK u \in Target : \E n \in Names(u) : DeleteDoc(u, n)
  BY DEF UserDeletes
<1>3. PICK k \in Names(u) : docs' = [docs EXCEPT ![u] = [docs[u] EXCEPT ![k] =
                                          [docs[u][k] EXCEPT !.live = FALSE]]]
  BY <1>2 DEF DeleteDoc
<1>4. docs[u][k] \in Document
  BY <1>1 DEF Names
<1> DEFINE d == [docs[u][k] EXCEPT !.live = FALSE]
<1>5. d \in Document /\ d.live = FALSE
  BY <1>4 DEF Document
<1>6. docs' = [docs EXCEPT ![u] = [docs[u] EXCEPT ![k] = d]]
  BY <1>3
<1> HIDE DEF d
<1>7. /\ docs'[u] = [docs[u] EXCEPT ![k] = d]
      /\ \A v \in Target \ {u} : docs'[v] = docs[v]
  BY <1>1, <1>6 DEF FrappeTypeOK
<1>8. /\ Len(docs'[u]) = Len(docs[u])
      /\ \A n \in 1 .. Len(docs[u]) : docs'[u][n] = IF n = k THEN d ELSE docs[u][n]
  BY <1>1, <1>5, <1>7 DEF Names
<1>9. \A v \in Target, r \in Record : \A n \in Matches(v, r)' : n \in Matches(v, r)
  BY <1>5, <1>7, <1>8 DEF Matches, Names, Live
<1> QED
  BY <1>9 DEF NoneCame, UserDeletes

\* A PUT makes no document; a POST makes one, of its record on its site.
LEMMA EffectMakes ==
    ASSUME CopiesInv, NEW p \in Proc, Effect(p)
    PROVE  \/ proc[p].pc = "put" /\ NoneCame
           \/ /\ proc[p].pc = "post"
              /\ \A v \in Target, r \in Record :
                    Matches(v, r)' \subseteq
                        IF v = target[p] /\ r = proc[p].cur
                        THEN Matches(v, r) \cup {Len(docs[v]) + 1} ELSE Matches(v, r)
<1> DEFINE t == target[p]
           c == proc[p].cur
           d == [rec |-> c, ver |-> Version(proc[p]), live |-> TRUE]
<1>1. t \in Target /\ c \in Record /\ Version(proc[p]) \in Nat
  BY ProcStateType DEF CopiesInv, OwnInv
<1>2. FrappeTypeOK /\ \A v \in Target : docs[v] \in Seq(Document)
  BY DEF CopiesInv, OwnInv, TypeInv, TypeOK, FrappeTypeOK
<1>3. d \in Document /\ d.rec = c
  BY <1>1 DEF Document
<1>4. \/ proc[p].pc = "post" /\ docs' = [docs EXCEPT ![t] = Append(docs[t], d)]
      \/ /\ proc[p].pc = "put" /\ Live(t, proc[p].found)
         /\ docs' = [docs EXCEPT ![t][proc[p].found] = d]
  BY DEF Effect, CreateDoc, UpdateDoc
<1>5. CASE proc[p].pc = "post" /\ docs' = [docs EXCEPT ![t] = Append(docs[t], d)]
  <2> HIDE DEF d, t, c
  <2>1. docs'[t] = Append(docs[t], d) /\ \A v \in Target \ {t} : docs'[v] = docs[v]
    BY <1>1, <1>2, <1>5 DEF FrappeTypeOK
  <2>2. /\ Len(docs'[t]) = Len(docs[t]) + 1 /\ Len(docs[t]) \in Nat
        /\ docs'[t][Len(docs[t]) + 1] = d
        /\ \A n \in 1 .. Len(docs[t]) : docs'[t][n] = docs[t][n]
    BY <1>1, <1>2, <1>3, <2>1
  <2>3. \A v \in Target \ {t}, r \in Record : Matches(v, r)' \subseteq Matches(v, r)
    BY <2>1 DEF Matches, Names, Live
  <2>4. ASSUME NEW v \in Target, NEW r \in Record, v = t, NEW n \in Matches(v, r)'
        PROVE  n \in Matches(v, r) \/ (n = Len(docs[v]) + 1 /\ r = c)
    <3>1. n \in 1 .. Len(docs[t]) + 1 /\ docs'[t][n].live /\ docs'[t][n].rec = r
      BY <2>2, <2>4 DEF Matches, Names, Live
    <3>2. CASE n = Len(docs[t]) + 1
      BY <1>3, <2>2, <2>4, <3>1, <3>2
    <3>3. CASE n \in 1 .. Len(docs[t])
      BY <2>2, <2>4, <3>1, <3>3 DEF Matches, Names, Live
    <3> QED
      BY <2>2, <3>1, <3>2, <3>3
  <2>5. \A v \in Target, r \in Record :
            Matches(v, r)' \subseteq
                IF v = t /\ r = c THEN Matches(v, r) \cup {Len(docs[v]) + 1} ELSE Matches(v, r)
    BY <2>3, <2>4
  <2> QED
    BY <1>5, <2>5 DEF t, c
<1>6. CASE /\ proc[p].pc = "put" /\ Live(t, proc[p].found)
           /\ docs' = [docs EXCEPT ![t][proc[p].found] = d]
  <2> DEFINE f == proc[p].found
  <2>1. f \in 1 .. Len(docs[t]) /\ docs[t][f].live /\ docs[t][f].rec = c
    BY <1>6 DEF Live, Names, CopiesInv, OwnInv, LookedUp, Own
  <2>2. docs' = [docs EXCEPT ![t][f] = d]
    BY <1>6
  <2> HIDE DEF d, t, c, f
  <2>3. /\ docs'[t] = [docs[t] EXCEPT ![f] = d]
        /\ \A v \in Target \ {t} : docs'[v] = docs[v]
    BY <1>1, <1>2, <2>2 DEF FrappeTypeOK
  <2>4. /\ Len(docs'[t]) = Len(docs[t])
        /\ \A n \in 1 .. Len(docs[t]) : docs'[t][n] = IF n = f THEN d ELSE docs[t][n]
    BY <1>1, <1>2, <1>3, <2>1, <2>3
  <2>5. \A v \in Target, r \in Record : \A n \in Matches(v, r)' : n \in Matches(v, r)
    BY <1>3, <2>1, <2>3, <2>4 DEF Matches, Names, Live
  <2> QED
    BY <1>6, <2>5 DEF NoneCame
<1> QED
  BY <1>4, <1>5, <1>6

LEMMA OneMoreCopy ==
    ASSUME NEW a \in Nat, NEW b \in Nat, NEW m \in Nat, a <= b + 1, b <= m
    PROVE  a <= m + 1
OBVIOUS

LEMMA LastAttempt ==
    ASSUME CopiesInv, NEW p \in Proc, proc[p].pc = "post"
    PROVE  /\ proc[p].tries < MaxAttempts
           /\ Made(proc[p]) + 1 <= MostCopies
           /\ Cardinality(Matches(target[p], proc[p].cur)) <= Made(proc[p])
<1>1. Sound(p) /\ Creating(proc[p])
  BY DEF CopiesInv, Creating
<1>2. proc[p].tries \in Nat /\ MaxAttempts \in Nat
  BY CopiesTypes
<1> QED
  BY <1>1, <1>2 DEF Sound, Made, MostCopies

\* A POST makes one document more, and an answer that is lost counts as an attempt.
LEMMA PostMakesOne ==
    ASSUME CopiesInv, [Next]_vars, NEW p \in Proc, Acknowledged(p) \/ AckLost(p),
           proc[p].pc = "post"
    PROVE  CopiesInv'
<1> DEFINE s == proc[p]
           u == proc'[p]
           t == target[p]
           c == proc[p].cur
<1>1. OwnInv' /\ OneProcess'
  BY NextOwn DEF CopiesInv, OneProcess
<1>2. /\ s \in ProcState /\ t \in Target /\ c \in Record /\ s.tries \in Nat
      /\ Made(s) \in Nat /\ MaxAttempts \in Nat \ {0} /\ MostCopies \in Nat
      /\ \A q \in Proc : q = p
  BY CopiesTypes
<1>3. \A v \in Target, r \in Record :
          Matches(v, r)' \subseteq
              IF v = t /\ r = c THEN Matches(v, r) \cup {Len(docs[v]) + 1} ELSE Matches(v, r)
  BY EffectMakes DEF Acknowledged, AckLost
<1>4. ASSUME NEW v \in Target, NEW r \in Record, v = t, r = c
      PROVE  Cardinality(Matches(v, r)') <= Made(s) + 1 /\ Cardinality(Matches(v, r)') \in Nat
  <2> DEFINE M == Matches(v, r)
             N == Matches(v, r)'
             n == Len(docs[v]) + 1
  <2>1. N \subseteq M \cup {n}
    BY <1>3, <1>4
  <2>2. IsFiniteSet(M) /\ Cardinality(M) \in Nat
    BY FewerCopies
  <2>3. Cardinality(M) <= Made(s)
    BY <1>4, LastAttempt
  <2> HIDE DEF M, N, n
  <2>4. /\ IsFiniteSet(M \cup {n}) /\ Cardinality(M \cup {n}) \in Nat
        /\ Cardinality(M \cup {n}) <= Cardinality(M) + 1
    <3>1. /\ IsFiniteSet(M \cup {n})
          /\ Cardinality(M \cup {n}) = Cardinality(M) \/ Cardinality(M \cup {n}) = Cardinality(M) + 1
      BY <2>2, FS_AddElement
    <3> QED
      BY <2>2, <3>1, FS_CardinalityType
  <2>5. Cardinality(N) <= Cardinality(M \cup {n}) /\ Cardinality(N) \in Nat
    BY <2>1, <2>4, FS_Subset, FS_CardinalityType
  <2>6. Cardinality(N) <= Cardinality(M) + 1
    BY <2>2, <2>4, <2>5
  <2>7. Cardinality(N) <= Made(s) + 1
    BY <1>2, <2>2, <2>3, <2>5, <2>6, OneMoreCopy
  <2> QED
    BY <2>5, <2>7 DEF N
<1>5. CopiesOfOneRequest'
  <2> SUFFICES ASSUME NEW v \in Target, NEW r \in Record
               PROVE  Cardinality(Matches(v, r)') <= MostCopies
    BY DEF CopiesOfOneRequest, MostCopies
  <2>1. CASE v = t /\ r = c
    <3>1. Made(s) + 1 <= MostCopies /\ Made(s) + 1 \in Nat
      BY <1>2, LastAttempt
    <3>2. Cardinality(Matches(v, r)') <= Made(s) + 1 /\ Cardinality(Matches(v, r)') \in Nat
      BY <1>4, <2>1
    <3> QED
      BY <1>2, <3>1, <3>2
  <2>2. CASE ~(v = t /\ r = c)
    <3>1. Matches(v, r)' \in SUBSET Matches(v, r)
      BY <1>3, <2>2
    <3>2. Cardinality(Matches(v, r)) <= MostCopies /\ MostCopies <= MostCopies
      BY <1>2 DEF CopiesInv, CopiesOfOneRequest
    <3> QED
      BY <1>2, <3>1, <3>2, FewerCopies, NoMoreThan
  <2> QED
    BY <2>1, <2>2
<1>6. Sound(p)'
  <2> USE DEF CopiesInv, OwnInv, TypeInv, Become
  <2>1. CASE u.pc \in {"remember", "failed"}
    BY <2>1, RestsSound
  <2>2. CASE AckLost(p) /\ s.tries + 1 < MaxAttempts /\ u = [s EXCEPT !.tries = s.tries + 1]
    <3>1. u.pc = "post" /\ u.cur = c /\ u.tries = s.tries + 1 /\ target' = target
      BY <1>2, <2>2 DEF ProcState, AckLost, Outside
    <3>2. Made(u) = Made(s) + 1
      BY <2>2, <3>1 DEF Made, AckLost, Disturb
    <3>3. \A v \in Target, r \in Record : v = t /\ r = c =>
              Cardinality(Matches(v, r)') <= Made(u)
      BY <1>4, <3>2
    <3>4. Cardinality(Matches(target[p], proc[p].cur)') <= Made(u)
      BY <1>2, <3>1, <3>3
    <3> QED
      BY <2>2, <3>1, <3>4 DEF Sound, Made
  <2>3. \/ u.pc \in {"remember", "failed"}
        \/ AckLost(p) /\ s.tries + 1 < MaxAttempts /\ u = [s EXCEPT !.tries = s.tries + 1]
    <3>1. CASE Acknowledged(p)
      BY <1>2, <3>1 DEF Acknowledged, ProcState
    <3>2. CASE AckLost(p)
      <4>1. u \in {Unanswered(s), [s EXCEPT !.pc = "failed"]}
        BY <3>2 DEF AckLost
      <4> QED
        BY <1>2, <3>2, <4>1 DEF Unanswered, ProcState
    <3> QED
      BY <3>1, <3>2
  <2> QED
    BY <2>1, <2>2, <2>3
<1> QED
  BY <1>1, <1>2, <1>5, <1>6 DEF CopiesInv

\* A PUT changes none of the counts.
LEMMA PutMakesNone ==
    ASSUME CopiesInv, [Next]_vars, NEW p \in Proc, Acknowledged(p) \/ AckLost(p),
           proc[p].pc = "put"
    PROVE  CopiesInv'
<1>1. OwnInv' /\ OneProcess'
  BY NextOwn DEF CopiesInv, OneProcess
<1>2. proc[p] \in ProcState /\ \A q \in Proc : q = p
  BY CopiesTypes
<1>3. NoneCame
  BY EffectMakes DEF Acknowledged, AckLost
<1>4. proc'[p].pc \in {"remember", "failed", "put"}
  <2> USE DEF CopiesInv, OwnInv, TypeInv, Become
  <2>1. CASE Acknowledged(p)
    BY <1>2, <2>1 DEF Acknowledged, ProcState
  <2>2. CASE AckLost(p)
    <3>1. proc'[p] \in {Unanswered(proc[p]), [proc[p] EXCEPT !.pc = "failed"]}
      BY <2>2 DEF AckLost
    <3> QED
      BY <1>2, <3>1 DEF Unanswered, ProcState
  <2> QED
    BY <2>1, <2>2
<1>5. Sound(p)'
  BY <1>4, RestsSound
<1> QED
  BY <1>1, <1>2, <1>3, <1>5, NoneCameCopies DEF CopiesInv

LEMMA NextCopies == CopiesInv /\ [Next]_vars => CopiesInv'
<1> SUFFICES ASSUME CopiesInv, [Next]_vars PROVE CopiesInv'
  OBVIOUS
<1>1. CASE \E p \in Proc : Acknowledged(p) \/ AckLost(p)
  BY <1>1, PostMakesOne, PutMakesNone DEF Acknowledged, AckLost, Effect
<1>2. CASE ~\E p \in Proc : Acknowledged(p) \/ AckLost(p)
  <2>1. UNCHANGED docs \/ UserDeletes
    BY <1>2 DEF Next, Step, Fault, vars, storeVars, tallyVars,
         RunSync, ResyncEntity, ProcessRetryQueue, Restart, BeginEntity, EndSync,
         Fetch, SkipRecord, Save, Dequeue, UnknownEntity, DropRow, EndRetries,
         BeginPush, Get, Fill, Compare, Missing, Remember, Resolve, Enqueue,
         Reschedule, FetchFails, Unreachable, Rejected, Crash, SwitchTarget,
         UserEdits, TimePasses
  <2>2. UNCHANGED docs => NoneCame
    BY DEF NoneCame, Matches, Names, Live
  <2> QED
    BY <1>2, <2>1, <2>2, DeletesMakeNone, NothingMade
<1> QED
  BY <1>1, <1>2

\* One process at a time, with any number of attempts per request: whatever is lost,
\* rejected or deleted, wherever the process dies or is pointed, a record never has more
\* documents on a site than one POST has attempts whose answers may be lost, and no
\* second one where no answer is lost (find_existing before _push_record's POST).
THEOREM CopiesAreOfOneRequest == OneProcess => (Spec => []CopiesOfOneRequest)
<1> SUFFICES ASSUME OneProcess PROVE Spec => []CopiesOfOneRequest
  OBVIOUS
<1>1. Init => CopiesInv
  BY InitCopies
<1>2. CopiesInv => CopiesOfOneRequest
  BY DEF CopiesInv
<1> QED
  BY <1>1, <1>2, NextCopies, PTL DEF Spec

-----------------------------------------------------------------------------
(* A full sync covers what it syncs, whatever is remembered.                *)

\* What the theorem is for: one process that learns of every effect it has on a
\* site, for it neither dies nor loses an answer.  It may run any job, be pointed at
\* any site between its jobs and be refused; documents may be deleted.
Informed ==
    /\ OneProcess
    /\ Faults \cap {"lost_ack", "crash"} = {}

Whole(s) == s.job \in {"full", "resync"}

\* A push of r to t has changed a document and is about to cache it.
Caching(t, r) ==
    \E p \in Proc : proc[p].pc = "remember" /\ target[p] = t /\ proc[p].cur = r

\* No hash is ahead of the document its entry names.
HashesSound ==
    \A t \in Target, r \in Record :
        LET entry == cache[t][r]
        IN  entry.hash # 0 /\ ~Caching(t, r)
                => entry.name # 0 /\ docs[t][entry.name].ver >= entry.hash

\* The request a process has out, and what it was answered.
RequestInv(p) ==
    LET s == proc[p]
    IN  /\ Pushing(s) => s.work[s.cur].ver # 0
        /\ s.pc \in {"put", "remember"} => s.found # 0
        /\ s.pc = "remember" => docs[target[p]][s.found].ver >= s.work[s.cur].ver
        /\ s.pc = "resolve" => Retrying(s)

\* Record r is at hand in its current version, done, or altered since.
Reached(t, s, r) ==
    \/ s.work[r].ver = tally[r]
    \/ s.work[r].ver = 0 /\ WrittenOrQueued(t, r)
    \/ Newer(s, r)

\* What process p, when it syncs an entity as a whole, has still to do.
WholeInv(p) ==
    LET s == proc[p]
    IN  Whole(s) =>
            /\ s.pc \in {"entity", "fetch"} \/ Busy(s) => s.scope = Record
            /\ s.pc = "fetch" => s.high = 0
            /\ Busy(s) =>
                  /\ s.high <= lastAlter
                  /\ \A r \in Record : s.work[r].ver <= tally[r]
                  /\ \A r \in RecordsOf(Head(s.left)) :
                         Pushable(r) => Reached(target[p], s, r)

CoverInv ==
    /\ Informed /\ OwnInv /\ HashesSound
    /\ \A p \in Proc : RequestInv(p) /\ WholeInv(p)

LEMMA InitCover == Init /\ Informed => CoverInv
<1> SUFFICES ASSUME Init, Informed PROVE CoverInv
  OBVIOUS
<1>1. OwnInv
  BY InitOwn
<1>2. HashesSound
  BY DEF Init, StoreInit, NoCacheRow, HashesSound
<1>3. ASSUME NEW p \in Proc PROVE RequestInv(p) /\ WholeInv(p)
  BY DEF Init, AtRest, RequestInv, WholeInv, Pushing, Busy, Whole
<1> QED
  BY <1>1, <1>2, <1>3 DEF CoverInv

LEMMA CoverTypes ==
    ASSUME OwnInv, NEW p \in Proc
    PROVE  /\ proc[p] \in LocalState /\ proc[p] \in ProcState
           /\ target[p] \in Target /\ proc[p].cur \in Record
           /\ proc[p].found \in Nat /\ proc[p].high \in Nat
           /\ lastAlter \in Nat
           /\ \A r \in Record : /\ tally[r] \in Nat /\ tally[r] <= lastAlter
                                /\ proc[p].work[r] \in Item /\ proc[p].work[r].ver \in Nat
                                /\ queue[r] \in Row
           /\ \A t \in Target, r \in Record : cache[t][r] \in CacheRow
<1>1. TypeInv
  BY DEF OwnInv
<1>2. \A r \in Record : proc[p].work[r] \in Item
  BY <1>1, ProcStateType
<1> QED
  BY <1>1, <1>2, ProcStateType DEF TypeInv, TypeOK, TallyTypeOK, StoreTypeOK, Item

LEMMA TheOnlyWriter ==
    ASSUME CoverInv, OwnInv', NEW p \in Proc, HashesSound', RequestInv(p)', WholeInv(p)'
    PROVE  CoverInv'
<1>1. \A q \in Proc : q = p
  BY DEF CoverInv, Informed, OneProcess
<1>2. Informed'
  BY DEF CoverInv, Informed, OneProcess
<1> QED
  BY <1>1, <1>2 DEF CoverInv

\* Where nothing is written, the hashes stay sound.
LEMMA HashesStay ==
    ASSUME CoverInv, NEW p \in Proc, UNCHANGED <<docs, cache>>,
           proc[p].pc # "remember"
    PROVE  HashesSound'
<1>1. \A q \in Proc : q = p
  BY DEF CoverInv, Informed, OneProcess
<1>2. \A t \in Target, r \in Record : ~Caching(t, r)
  BY <1>1 DEF Caching
<1> QED
  BY <1>2 DEF CoverInv, HashesSound

\* A job begins or ends, or an entity does: nothing is at hand.
LEMMA RestsCover ==
    ASSUME CoverInv, OwnInv', NEW p \in Proc, UNCHANGED <<docs, cache>>,
           proc[p].pc # "remember",
           proc'[p].pc \in {"idle", "down", "entity", "fetch", "dequeue"},
           Whole(proc'[p]) /\ proc'[p].pc \in {"entity", "fetch"}
               => /\ proc'[p].scope = Record
                  /\ proc'[p].pc = "fetch" => proc'[p].high = 0
    PROVE  CoverInv'
<1>1. RequestInv(p)' /\ WholeInv(p)'
  BY DEF RequestInv, WholeInv, Pushing, Busy
<1> QED
  BY <1>1, HashesStay, TheOnlyWriter

\* The records of a sync, while it goes through them.
LEMMA WholeGoesOn ==
    ASSUME CoverInv, NEW p \in Proc, NEW t \in Target, target[p] = t, target'[p] = t,
           UNCHANGED <<tally, lastAlter>>, Busy(proc[p]),
           /\ proc'[p].job = proc[p].job /\ proc'[p].left = proc[p].left
           /\ proc'[p].scope = proc[p].scope,
           proc'[p].pc \notin {"entity", "fetch"},
           \/ proc'[p].high = proc[p].high
           \/ \E r \in Record : proc'[p].high = Raised(proc[p], r),
           Whole(proc[p]) => \A r \in Record :
               \/ proc'[p].work[r].ver = proc[p].work[r].ver
               \/ /\ proc'[p].work[r].ver = 0
                  /\ Pushable(r) /\ proc[p].work[r].ver = tally[r] => WrittenOrQueued(t, r)',
           Whole(proc[p]) => \A r \in Record :
               proc[p].work[r].ver = 0 /\ WrittenOrQueued(t, r) => WrittenOrQueued(t, r)'
    PROVE  WholeInv(p)'
<1> DEFINE s == proc[p]
           u == proc'[p]
<1> DEFINE Later(r) == tally[r] > u.high /\ \A q \in Record : tally[r] > u.work[q].ver
           After(r) == \/ u.work[r].ver = tally[r]
                       \/ u.work[r].ver = 0 /\ WrittenOrQueued(t, r)'
                       \/ Later(r)
<1>0. SUFFICES ASSUME Whole(u)
               PROVE  /\ u.scope = Record
                      /\ u.high <= lastAlter /\ \A r \in Record : u.work[r].ver <= tally[r]
                      /\ \A r \in RecordsOf(Head(u.left)) : Pushable(r) => After(r)
  <2>1. ASSUME NEW r PROVE Reached(target[p], proc[p], r)' <=> After(r)
    BY DEF Reached, Newer, WrittenOrQueued, Queued, Names
  <2> HIDE DEF After
  <2> QED
    BY <2>1 DEF WholeInv
<1>1. Whole(s)
  BY <1>0 DEF Whole
<1>2. /\ s.scope = Record
      /\ s.high <= lastAlter
      /\ \A r \in Record : s.work[r].ver <= tally[r]
      /\ \A r \in RecordsOf(Head(s.left)) : Pushable(r) => Reached(t, s, r)
  BY <1>1 DEF CoverInv, WholeInv
<1>3. /\ lastAlter \in Nat /\ s.high \in Nat
      /\ \A r \in Record : /\ tally[r] \in Nat /\ tally[r] <= lastAlter
                           /\ s.work[r].ver \in Nat
  BY CoverTypes DEF CoverInv
<1>4. \A r \in Record : u.work[r].ver = s.work[r].ver \/ u.work[r].ver = 0
  BY <1>1
<1>5. u.high = s.high \/ \E r \in Record : u.high = s.work[r].ver
  BY DEF Raised
<1>6. u.high <= lastAlter
  BY <1>2, <1>3, <1>5
<1>7. \A r \in Record : u.work[r].ver <= tally[r]
  BY <1>2, <1>3, <1>4
<1>8. \A r \in Record : Newer(s, r) => Later(r)
  BY <1>3, <1>4, <1>5 DEF Newer
<1>9. ASSUME NEW r \in RecordsOf(Head(u.left)), Pushable(r) PROVE After(r)
  <2>1. r \in Record /\ Reached(t, s, r)
    BY <1>2, <1>9 DEF RecordsOf
  <2>2. CASE s.work[r].ver = tally[r]
    BY <1>1, <1>9, <2>1, <2>2
  <2>3. CASE s.work[r].ver = 0 /\ WrittenOrQueued(t, r)
    BY <1>1, <1>4, <2>1, <2>3
  <2>4. CASE Newer(s, r)
    BY <1>8, <2>1, <2>4
  <2> QED
    BY <2>1, <2>2, <2>3, <2>4 DEF Reached
<1> QED
  BY <1>2, <1>6, <1>7, <1>9

\* A document or a row that is left alone covers as it did.
LEMMA CoverStays ==
    ASSUME UNCHANGED <<tally, docs>>, NEW r \in Record, NEW t \in Target,
           Queued(r) => Queued(r)', WrittenOrQueued(t, r)
    PROVE  WrittenOrQueued(t, r)'
BY DEF WrittenOrQueued, Names

\* A push that goes on without a change to a document or a row.
LEMMA PushGoesOn ==
    ASSUME CoverInv, OwnInv', NEW p \in Proc,
           UNCHANGED <<tally, lastAlter, docs, queue, target>>, HashesSound',
           Busy(proc[p]), Pushing(proc'[p]), proc'[p].pc # "remember",
           /\ proc'[p].job = proc[p].job /\ proc'[p].left = proc[p].left
           /\ proc'[p].scope = proc[p].scope /\ proc'[p].work = proc[p].work,
           \/ proc'[p].high = proc[p].high
           \/ \E r \in Record : proc'[p].high = Raised(proc[p], r),
           proc[p].work[proc'[p].cur].ver # 0,
           proc'[p].pc = "put" => proc'[p].found # 0,
           proc'[p].pc = "resolve" => Retrying(proc[p])
    PROVE  CoverInv'
<1>1. RequestInv(p)'
  BY DEF RequestInv, Retrying
<1>2. PICK t \in Target : t = target[p]
  BY CoverTypes DEF CoverInv
<1>3. \A r \in Record : WrittenOrQueued(t, r) => WrittenOrQueued(t, r)'
  BY CoverStays DEF Queued
<1>4. WholeInv(p)'
  BY <1>2, <1>3, WholeGoesOn DEF Pushing
<1> QED
  BY <1>1, <1>4, TheOnlyWriter

\* A process is done with record r.
LEMMA RecordDone ==
    ASSUME CoverInv, OwnInv', NEW p \in Proc, NEW r \in Record,
           UNCHANGED <<tally, lastAlter, docs, target>>, HashesSound',
           Busy(proc[p]), proc'[p].pc = "each",
           /\ proc'[p].job = proc[p].job /\ proc'[p].left = proc[p].left
           /\ proc'[p].scope = proc[p].scope
           /\ proc'[p].work = [proc[p].work EXCEPT ![r] = NoItem],
           proc'[p].high = proc[p].high \/ proc'[p].high = Raised(proc[p], r),
           Whole(proc[p]) => \A q \in Record : Queued(q) => Queued(q)',
           Whole(proc[p]) /\ Pushable(r) /\ proc[p].work[r].ver = tally[r]
               => WrittenOrQueued(target[p], r)'
    PROVE  CoverInv'
<1>1. RequestInv(p)'
  BY DEF RequestInv, Pushing
<1>2. PICK t \in Target : t = target[p]
  BY CoverTypes DEF CoverInv
<1>3. Whole(proc[p]) => \A q \in Record : WrittenOrQueued(t, q) => WrittenOrQueued(t, q)'
  BY CoverStays
<1>4. /\ proc'[p].work[r].ver = 0
      /\ \A q \in Record \ {r} : proc'[p].work[q] = proc[p].work[q]
  BY CoverTypes DEF CoverInv, NoItem, ProcState
<1>5. Whole(proc[p]) /\ Pushable(r) /\ proc[p].work[r].ver = tally[r]
          => WrittenOrQueued(t, r)'
  BY <1>2 DEF WrittenOrQueued, Names
<1>6. WholeInv(p)'
  BY <1>2, <1>3, <1>4, <1>5, WholeGoesOn
<1> QED
  BY <1>1, <1>6, TheOnlyWriter

-----------------------------------------------------------------------------

\* Jobs and entities begin and end; the site may be another for the next job.
LEMMA RestCover ==
    ASSUME CoverInv, OwnInv', NEW p \in Proc,
           \/ RunSync(p) \/ ResyncEntity(p) \/ ProcessRetryQueue(p) \/ Restart(p)
           \/ EndSync(p) \/ UnknownEntity(p) \/ EndRetries(p) \/ SwitchTarget(p)
           \/ BeginEntity(p) \/ Save(p) \/ FetchFails(p)
    PROVE  CoverInv'
<1> DEFINE s == proc[p]
           u == proc'[p]
<1>1. UNCHANGED <<docs, cache>> /\ s.pc # "remember"
  BY DEF RunSync, ResyncEntity, ProcessRetryQueue, Restart, EndSync, UnknownEntity,
         EndRetries, SwitchTarget, BeginEntity, Save, FetchFails, storeVars
<1> DEFINE Resting == /\ u.pc \in {"idle", "down", "entity", "fetch", "dequeue"}
                      /\ Whole(u) /\ u.pc \in {"entity", "fetch"}
                             => /\ u.scope = Record
                                /\ u.pc = "fetch" => u.high = 0
<1>2. Resting
  <2>0. s \in ProcState /\ s \in LocalState
    BY CoverTypes DEF CoverInv
  <2> USE DEF CoverInv, OwnInv, TypeInv, Become
  <2>1. CASE RunSync(p)
    <3>1. PICK kind : u = [AtRest("entity") EXCEPT !.job = kind, !.left = Order,
                                                   !.scope = Record]
      BY <2>1 DEF RunSync
    <3> QED
      BY <3>1 DEF AtRest
  <2>2. CASE ResyncEntity(p)
    <3>1. PICK kind \in Jobs[p] \cap {"resync", "range"}, e \in Registered :
              \E scope \in IF kind = "range" /\ e \in Voucher
                           THEN SUBSET RecordsOf(e) ELSE {Record} :
                 Become(p, [AtRest("entity") EXCEPT !.job = kind, !.left = <<e>>,
                                                    !.scope = scope])
      BY <2>2, Zenon DEF ResyncEntity
    <3>2. PICK scope : /\ kind # "range" => scope = Record
                       /\ u = [AtRest("entity") EXCEPT !.job = kind, !.left = <<e>>,
                                                       !.scope = scope]
      BY <3>1
    <3>3. u.pc = "entity" /\ u.job = kind /\ u.scope = scope
      BY <3>2 DEF AtRest
    <3> QED
      BY <3>1, <3>2, <3>3 DEF Whole
  <2>3. CASE ProcessRetryQueue(p) \/ Restart(p) \/ EndSync(p)
    BY <2>3 DEF ProcessRetryQueue, Restart, EndSync, AtRest
  <2>4. CASE UnknownEntity(p) \/ EndRetries(p)
    BY <2>4 DEF UnknownEntity, EndRetries, AtRest
  <2>5. CASE SwitchTarget(p)
    BY <2>5 DEF SwitchTarget
  <2>6. CASE BeginEntity(p)
    <3>1. PICK h : /\ u = [s EXCEPT !.pc = "fetch", !.high = h]
                   /\ Whole(s) => h = 0
      BY <2>6 DEF BeginEntity, Whole
    <3>2. u.pc = "fetch" /\ u.high = h /\ u.scope = s.scope /\ u.job = s.job
      BY <2>0, <3>1 DEF ProcState
    <3> QED
      BY <2>6, <3>1, <3>2 DEF BeginEntity, WholeInv, Whole
  <2>7. CASE Save(p) \/ FetchFails(p)
    <3>1. u = [s EXCEPT !.pc = "entity", !.left = Tail(s.left)]
      BY <2>7 DEF Save, FetchFails
    <3>2. u.pc = "entity" /\ u.scope = s.scope /\ u.job = s.job
      BY <2>0, <3>1 DEF ProcState
    <3> QED
      BY <2>7, <3>2 DEF Save, FetchFails, WholeInv, Whole, Busy
  <2> QED
    BY <2>1, <2>2, <2>3, <2>4, <2>5, <2>6, <2>7
<1> QED
  BY <1>1, <1>2, RestsCover

\* A full sync asks for all records of the entity, and gets them as they are.
LEMMA FetchCover ==
    ASSUME CoverInv, OwnInv', NEW p \in Proc, Fetch(p)
    PROVE  CoverInv'
<1> DEFINE s == proc[p]
           u == proc'[p]
           got == Export(Head(s.left), s.high, s.scope)
           work == [r \in Record |-> IF r \in got THEN [id |-> 0, ver |-> tally[r]]
                                                  ELSE NoItem]
<1>1. UNCHANGED <<tally, lastAlter, docs, cache, target>> /\ s.pc = "fetch"
  BY DEF Fetch, Outside, storeVars
<1>2. u = [s EXCEPT !.pc = "each", !.work = work]
  BY DEF Fetch, Become, CoverInv, OwnInv, TypeInv
<1>3. /\ u.pc = "each" /\ u.work = work /\ u.high = s.high
      /\ u.scope = s.scope /\ u.left = s.left /\ u.job = s.job
  <2> HIDE DEF work
  <2> QED
    BY <1>2, CoverTypes DEF CoverInv, ProcState
<1>4. \A r \in Record : work[r].ver = IF r \in got THEN tally[r] ELSE 0
  BY DEF NoItem
<1>5. RequestInv(p)'
  BY <1>3 DEF RequestInv, Pushing
<1>6. WholeInv(p)'
  <2>1. CASE ~Whole(s)
    BY <1>3, <2>1 DEF WholeInv, Whole
  <2>2. CASE Whole(s)
    <3>1. s.high = 0 /\ s.scope = Record
      BY <1>1, <2>2 DEF CoverInv, WholeInv
    <3>2. \A r \in RecordsOf(Head(s.left)) : r \in Record /\ work[r].ver = tally[r]
      BY <1>4, <3>1, CoverTypes DEF Export, RecordsOf, CoverInv
    <3>3. \A r \in Record : work[r].ver <= tally[r]
      BY <1>4, CoverTypes DEF CoverInv
    <3>4. 0 <= lastAlter
      BY CoverTypes DEF CoverInv
    <3> HIDE DEF work
    <3> QED
      BY <1>1, <1>3, <3>1, <3>2, <3>3, <3>4 DEF WholeInv, Reached
  <2> QED
    BY <2>1, <2>2
<1> QED
  BY <1>1, <1>5, <1>6, HashesStay, TheOnlyWriter

\* A drain is not a full sync.
LEMMA DequeueCover ==
    ASSUME CoverInv, OwnInv', NEW p \in Proc, Dequeue(p)
    PROVE  CoverInv'
<1>1. UNCHANGED <<docs, cache>> /\ proc[p].pc = "dequeue"
  BY DEF Dequeue, storeVars
<1>2. PICK work : proc'[p] = [AtRest("each") EXCEPT !.job = "retry", !.work = work]
  BY DEF Dequeue, Become, CoverInv, OwnInv, TypeInv
<1>3. proc'[p].pc = "each" /\ proc'[p].job = "retry"
  BY <1>2 DEF AtRest
<1>4. RequestInv(p)' /\ WholeInv(p)'
  BY <1>3 DEF RequestInv, WholeInv, Pushing, Whole
<1> QED
  BY <1>1, <1>4, HashesStay, TheOnlyWriter

\* A record is taken up.
LEMMA BeginPushCover ==
    ASSUME CoverInv, OwnInv', NEW p \in Proc, BeginPush(p)
    PROVE  CoverInv'
<1> DEFINE s == proc[p]
<1>1. PICK r \in NextUp(s) :
          Become(p, [s EXCEPT
              !.pc = AfterLookup(cache[target[p]][r].name),
              !.high = IF Retrying(s) THEN s.high ELSE Raised(s, r),
              !.cur = r, !.found = cache[target[p]][r].name, !.tries = 0])
  BY DEF BeginPush
<1>2. r \in Record /\ s.work[r].ver # 0
  BY DEF NextUp, Pending
<1> DEFINE h == IF Retrying(s) THEN s.high ELSE Raised(s, r)
           name == cache[target[p]][r].name
<1>3. AfterLookup(name) \in {"compare", "get"}
  BY DEF AfterLookup
<1>4. /\ proc'[p].pc \in {"compare", "get"} /\ proc'[p].cur = r /\ proc'[p].high = h
      /\ proc'[p].work = s.work /\ proc'[p].job = s.job
      /\ proc'[p].left = s.left /\ proc'[p].scope = s.scope
  <2>1. proc'[p] = [s EXCEPT !.pc = AfterLookup(name), !.high = h,
                             !.cur = r, !.found = name, !.tries = 0]
    BY <1>1 DEF Become, CoverInv, OwnInv, TypeInv
  <2> HIDE DEF h, name
  <2> QED
    BY <1>3, <2>1, CoverTypes DEF CoverInv, ProcState
<1>5. UNCHANGED <<tally, lastAlter, docs, queue, cache, target>> /\ s.pc = "each"
  BY DEF BeginPush, Outside, storeVars
<1>6. HashesSound'
  BY <1>5, HashesStay
<1> QED
  BY <1>2, <1>4, <1>5, <1>6, PushGoesOn DEF Busy, Pushing

\* A push goes on, or fails.
LEMMA RequestCover ==
    ASSUME CoverInv, OwnInv', NEW p \in Proc,
           Get(p) \/ Missing(p) \/ Unreachable(p) \/ Rejected(p)
    PROVE  CoverInv'
<1> DEFINE s == proc[p]
           u == proc'[p]
<1>1. /\ UNCHANGED <<tally, lastAlter, docs, queue, cache, target>>
      /\ s.pc \in {"get", "put", "post"}
  BY DEF Get, Missing, Unreachable, Rejected, Outside, storeVars
<1>2. /\ u.pc \in {"get", "put", "post", "fill", "compare", "failed"}
      /\ u.work = s.work /\ u.job = s.job /\ u.high = s.high
      /\ u.left = s.left /\ u.scope = s.scope /\ u.cur = s.cur
      /\ u.pc = "put" => s.pc = "put" /\ u.found = s.found
  <2> USE CoverTypes DEF ProcState, CoverInv, OwnInv, TypeInv, Become
  <2>1. CASE Get(p)
    <3>1. PICK pc \in {"compare", "fill"} : \E n :
              u = [s EXCEPT !.pc = pc, !.found = n, !.tries = 0]
      BY <2>1 DEF Get
    <3> QED
      BY <3>1
  <2>2. CASE Missing(p) \/ Rejected(p)
    BY <2>2 DEF Missing, Rejected
  <2>3. CASE Unreachable(p)
    <3>1. u = Unanswered(s)
      BY <2>3 DEF Unreachable
    <3> QED
      BY <1>1, <3>1 DEF Unanswered
  <2> QED
    BY <2>1, <2>2, <2>3
<1>3. HashesSound'
  BY <1>1, HashesStay
<1>4. s.work[s.cur].ver # 0 /\ (s.pc = "put" => s.found # 0)
  BY <1>1 DEF CoverInv, RequestInv, Pushing
<1> QED
  BY <1>1, <1>2, <1>3, <1>4, PushGoesOn DEF Busy, Pushing

\* A record that is not pushed is done; rows are only deleted by drains.
LEMMA SkipCover ==
    ASSUME CoverInv, OwnInv', NEW p \in Proc,
           SkipRecord(p) \/ DropRow(p) \/ Resolve(p) \/ Reschedule(p) \/ Enqueue(p)
    PROVE  CoverInv'
<1> DEFINE s == proc[p]
           u == proc'[p]
<1>1. /\ UNCHANGED <<tally, lastAlter, docs, cache, target>>
      /\ s.pc \in {"each", "resolve", "failed"}
  BY DEF SkipRecord, DropRow, Resolve, Reschedule, Enqueue, Outside, storeVars
<1>2. PICK r \in Record :
          /\ \E h \in {s.high, Raised(s, r)} : u = [Without(s, r) EXCEPT !.high = h]
          /\ ~Whole(s) \/ (~Pushable(r) /\ queue' = queue) \/ EnqueueRetry(r, s.work[r].ver)
  <2> USE DEF Become, CoverInv, OwnInv, TypeInv
  <2>1. CASE SkipRecord(p)
    BY <2>1 DEF SkipRecord, NextUp, Pending, storeVars
  <2>2. CASE DropRow(p)
    <3>1. PICK r \in Record : u = Without(s, r)
      BY <2>2 DEF DropRow, NextUp, Pending
    <3>2. Without(s, r) = [Without(s, r) EXCEPT !.high = s.high]
      BY CoverTypes DEF Without, ProcState
    <3> QED
      BY <2>2, <3>1, <3>2 DEF DropRow, Retrying, Whole
  <2>3. CASE Resolve(p) \/ Reschedule(p) \/ Enqueue(p)
    <3>1. PICK r \in Record : r = s.cur
      BY CoverTypes
    <3>2. u = Without(s, r)
      BY <2>3, <3>1 DEF Resolve, Reschedule, Enqueue
    <3>3. Without(s, r) = [Without(s, r) EXCEPT !.high = s.high]
      BY CoverTypes DEF Without, ProcState
    <3>4. CASE Enqueue(p)
      BY <3>1, <3>2, <3>3, <3>4 DEF Enqueue, Version
    <3>5. CASE Reschedule(p)
      BY <3>2, <3>3, <3>5 DEF Reschedule, Retrying, Whole
    <3>6. CASE Resolve(p) /\ ~Whole(s)
      BY <3>2, <3>3, <3>6
    <3>7. CASE Resolve(p) /\ Whole(s)
      BY <3>7 DEF Resolve, RequestInv, Retrying, Whole
    <3> QED
      BY <2>3, <3>4, <3>5, <3>6, <3>7
  <2> QED
    BY <2>1, <2>2, <2>3
<1>3. /\ u.pc = "each" /\ u.work = [s.work EXCEPT ![r] = NoItem]
      /\ u.high = s.high \/ u.high = Raised(s, r)
      /\ u.job = s.job /\ u.left = s.left /\ u.scope = s.scope
  BY <1>2, CoverTypes DEF CoverInv, Without, ProcState
<1>4. HashesSound'
  BY <1>1, HashesStay
<1>5. EnqueueRetry(r, s.work[r].ver) => Queued(r)' /\ \A q \in Record : Queued(q) => Queued(q)'
  <2>1. nextId \in Nat \ {0} /\ queue \in [Record -> Row]
    BY DEF CoverInv, OwnInv, TypeInv, TypeOK, StoreTypeOK
  <2> QED
    BY <2>1 DEF EnqueueRetry, Queued
<1>6. Whole(s) => \A q \in Record : Queued(q) => Queued(q)'
  BY <1>2, <1>5 DEF Queued
<1>7. Whole(s) /\ Pushable(r) => WrittenOrQueued(target[p], r)'
  BY <1>2, <1>5 DEF WrittenOrQueued
<1> QED
  BY <1>1, <1>3, <1>4, <1>6, <1>7, RecordDone DEF Busy, Pushing

\* What was found is compared: the record is unchanged, or a request is due.
LEMMA CompareCover ==
    ASSUME CoverInv, OwnInv', NEW p \in Proc, Compare(p)
    PROVE  CoverInv'
<1> DEFINE s == proc[p]
           u == proc'[p]
<1>0. PICK t \in Target, c \in Record : t = target[p] /\ c = s.cur
  BY CoverTypes DEF CoverInv
<1>1. /\ UNCHANGED <<tally, lastAlter, docs, queue, cache, target>> /\ s.pc = "compare"
  BY DEF Compare, Outside, storeVars
<1>2. HashesSound'
  BY <1>1, HashesStay
<1>3. s.work[c].ver # 0 /\ c \in Record /\ t \in Target /\ s \in ProcState
  BY <1>0, <1>1, CoverTypes DEF CoverInv, RequestInv, Pushing
<1>4. CASE u = [s EXCEPT !.pc = "post"] \/ (s.found # 0 /\ u = [s EXCEPT !.pc = "put"])
  <2>1. /\ u.pc \in {"post", "put"} /\ u.cur = c /\ u.work = s.work /\ u.high = s.high
        /\ u.job = s.job /\ u.left = s.left /\ u.scope = s.scope /\ u.found = s.found
        /\ u.pc = "put" => u.found # 0
    BY <1>0, <1>3, <1>4 DEF ProcState
  <2> QED
    BY <1>0, <1>1, <1>2, <1>3, <2>1, PushGoesOn DEF Busy, Pushing
<1>5. CASE Retrying(s) /\ u = [s EXCEPT !.pc = "resolve"]
  <2>1. /\ u.pc = "resolve" /\ u.cur = c /\ u.work = s.work /\ u.high = s.high
        /\ u.job = s.job /\ u.left = s.left /\ u.scope = s.scope
    BY <1>0, <1>3, <1>5 DEF ProcState
  <2> QED
    BY <1>0, <1>1, <1>2, <1>3, <1>5, <2>1, PushGoesOn DEF Busy, Pushing
<1>6. CASE /\ cache[t][c].hash = Version(s) /\ u = Without(s, c)
  <2>1. /\ u.pc = "each" /\ u.work = [s.work EXCEPT ![c] = NoItem] /\ u.high = s.high
        /\ u.job = s.job /\ u.left = s.left /\ u.scope = s.scope
    BY <1>0, <1>3, <1>6 DEF Without, ProcState
  <2>2. ~Caching(t, c)
    <3>1. \A q \in Proc : q = p
      BY DEF CoverInv, Informed, OneProcess
    <3> QED
      BY <1>0, <1>1, <3>1 DEF Caching
  <2>3. /\ cache[t][c].name # 0
        /\ docs[t][cache[t][c].name].ver >= s.work[c].ver
    BY <1>0, <1>3, <1>6, <2>2 DEF CoverInv, HashesSound, Version
  <2>4. cache[t][c].name \in Names(t) /\ docs[t][cache[t][c].name].rec = c
    BY <1>0, <1>3, <2>3 DEF CoverInv, OwnInv, Own, Names
  <2>5. s.work[c].ver = tally[c] => WrittenOrQueued(target[p], c)'
    BY <1>0, <1>1, <2>3, <2>4 DEF WrittenOrQueued, Names
  <2>6. \A q \in Record : Queued(q) => Queued(q)'
    BY <1>0, <1>1 DEF Queued
  <2> QED
    BY <1>0, <1>1, <1>2, <1>3, <2>1, <2>5, <2>6, RecordDone DEF Busy, Pushing
<1> QED
  <2>1. u = IF s.found = 0 THEN [s EXCEPT !.pc = "post"]
            ELSE IF SameContent(cache[t][c], Version(s)) THEN Returned(s)
            ELSE [s EXCEPT !.pc = "put"]
    BY <1>0 DEF Compare, Become, CoverInv, OwnInv, TypeInv
  <2> QED
    BY <1>0, <1>4, <1>5, <1>6, <2>1 DEF SameContent, Returned

\* What is cached is the version of the document, or no hash.
LEMMA CacheCover ==
    ASSUME CoverInv, OwnInv', NEW p \in Proc, Fill(p) \/ Remember(p)
    PROVE  CoverInv'
<1> DEFINE s == proc[p]
           u == proc'[p]
<1>0. PICK t \in Target, c \in Record : t = target[p] /\ c = s.cur
  BY CoverTypes DEF CoverInv
<1>1. /\ UNCHANGED <<tally, lastAlter, docs, queue, target>>
      /\ s.pc \in {"fill", "remember"}
  BY DEF Fill, Remember, Outside
<1>2. s.work[c].ver # 0 /\ c \in Record /\ t \in Target /\ s \in ProcState /\ s.found \in Nat
  BY <1>0, <1>1, CoverTypes DEF CoverInv, RequestInv, Pushing
<1>3. PICK h : /\ UpsertCache(t, c, s.found, h)
               /\ h # 0 => s.found # 0 /\ docs[t][s.found].ver >= h
  BY <1>0 DEF Fill, Remember, HashOfFound, Version, CoverInv, RequestInv
<1>4. HashesSound'
  <2>1. cache \in [Target -> [Record -> CacheRow]]
    BY DEF CoverInv, OwnInv, TypeInv, TypeOK, StoreTypeOK
  <2>2. \A q \in Proc : q = p
    BY DEF CoverInv, Informed, OneProcess
  <2>3. ASSUME NEW v \in Target, NEW r \in Record, cache'[v][r].hash # 0
        PROVE  /\ cache'[v][r].name # 0
               /\ docs[v][cache'[v][r].name].ver >= cache'[v][r].hash
    <3>1. CASE v = t /\ r = c
      <4>1. cache'[v][r] = [name |-> s.found, hash |-> h]
        BY <1>0, <1>2, <1>3, <2>1, <3>1 DEF UpsertCache
      <4> QED
        BY <1>0, <1>3, <2>3, <3>1, <4>1
    <3>2. CASE ~(v = t /\ r = c)
      <4>1. cache'[v][r] = cache[v][r]
        BY <1>0, <1>2, <1>3, <2>1, <3>2 DEF UpsertCache
      <4>2. ~Caching(v, r)
        BY <1>0, <2>2, <3>2 DEF Caching
      <4> QED
        BY <1>0, <2>3, <4>1, <4>2 DEF CoverInv, HashesSound
    <3> QED
      BY <3>1, <3>2
  <2> QED
    BY <1>0, <1>1, <2>3 DEF HashesSound
<1>5. CASE Fill(p)
  <2>1. /\ u.pc = "compare" /\ u.cur = c /\ u.work = s.work /\ u.high = s.high
        /\ u.job = s.job /\ u.left = s.left /\ u.scope = s.scope
    BY <1>0, <1>2, <1>5 DEF Fill, Become, ProcState, CoverInv, OwnInv, TypeInv
  <2> QED
    BY <1>0, <1>1, <1>2, <1>4, <2>1, PushGoesOn DEF Busy, Pushing
<1>6. CASE Remember(p) /\ Retrying(s)
  <2>1. u = [s EXCEPT !.pc = "resolve"]
    BY <1>0, <1>6 DEF Remember, Returned, Become, CoverInv, OwnInv, TypeInv
  <2>2. /\ u.pc = "resolve" /\ u.cur = c /\ u.work = s.work /\ u.high = s.high
        /\ u.job = s.job /\ u.left = s.left /\ u.scope = s.scope
    BY <1>0, <1>2, <2>1 DEF ProcState
  <2> QED
    BY <1>0, <1>1, <1>2, <1>4, <1>6, <2>2, PushGoesOn DEF Busy, Pushing
<1>7. CASE Remember(p) /\ ~Retrying(s)
  <2>1. u = Without(s, c)
    BY <1>0, <1>7 DEF Remember, Returned, Become, CoverInv, OwnInv, TypeInv
  <2>2. /\ u.pc = "each" /\ u.work = [s.work EXCEPT ![c] = NoItem] /\ u.high = s.high
        /\ u.job = s.job /\ u.left = s.left /\ u.scope = s.scope
    BY <1>0, <1>2, <2>1 DEF Without, ProcState
  <2>3. /\ s.found # 0 /\ docs[t][s.found].ver >= s.work[c].ver
        /\ s.found \in Names(t) /\ docs[t][s.found].rec = c
    BY <1>0, <1>7 DEF Remember, CoverInv, RequestInv, OwnInv, LookedUp, Own, Names
  <2>4. s.work[c].ver = tally[c] => WrittenOrQueued(target[p], c)'
    BY <1>0, <1>1, <2>3 DEF WrittenOrQueued, Names
  <2>5. \A q \in Record : Queued(q) => Queued(q)'
    BY <1>0, <1>1 DEF Queued
  <2> QED
    BY <1>0, <1>1, <1>2, <1>4, <2>2, <2>4, <2>5, RecordDone DEF Busy, Pushing
<1> QED
  BY <1>5, <1>6, <1>7

\* The request has its effect, and the process learns of it.
LEMMA AcknowledgedCover ==
    ASSUME CoverInv, OwnInv', NEW p \in Proc, Acknowledged(p)
    PROVE  CoverInv'
<1> DEFINE s == proc[p]
           u == proc'[p]
           t == target[p]
           c == s.cur
           name == IF s.pc = "post" THEN Len(docs[t]) + 1 ELSE s.found
<1>1. /\ UNCHANGED <<tally, lastAlter, queue, cache, target>>
      /\ s.pc \in {"post", "put"} /\ Effect(p)
  BY DEF Acknowledged, Effect, Outside, storeVars
<1>2. /\ s.work[c].ver # 0 /\ c \in Record /\ t \in Target /\ s \in ProcState
      /\ s.work[c].ver \in Nat
  BY <1>1, CoverTypes DEF CoverInv, RequestInv, Pushing
<1>3. /\ \A v \in Target \ {t} : docs'[v] = docs[v]
      /\ name # 0 /\ name \in 1 .. Len(docs'[t])
      /\ docs'[t][name] = [rec |-> c, ver |-> s.work[c].ver, live |-> TRUE]
      /\ \A n \in Names(t) : n \in 1 .. Len(docs'[t])
      /\ \A n \in Names(t) : n # name => docs'[t][n] = docs[t][n]
      /\ name \in Names(t) => docs[t][name].rec = c
  BY <1>1, EffectWrites DEF CoverInv, Version
<1>4. /\ u.pc = "remember" /\ u.found = name /\ u.cur = c /\ u.work = s.work
      /\ u.high = s.high /\ u.job = s.job /\ u.left = s.left /\ u.scope = s.scope
  <2>1. u = [s EXCEPT !.pc = "remember", !.found = name]
    BY DEF Acknowledged, Become, CoverInv, OwnInv, TypeInv
  <2> HIDE DEF name
  <2> QED
    BY <1>2, <2>1 DEF ProcState
<1> HIDE DEF name
<1>5. HashesSound'
  <2>1. ASSUME NEW v \in Target, NEW r \in Record, cache[v][r].hash # 0, ~Caching(v, r)'
        PROVE  /\ cache[v][r].name # 0
               /\ docs'[v][cache[v][r].name].ver >= cache[v][r].hash
    <3>1. ~(v = t /\ r = c)
      BY <1>1, <1>4, <2>1 DEF Caching
    <3>2. ~Caching(v, r)
      <4>1. \A q \in Proc : q = p
        BY DEF CoverInv, Informed, OneProcess
      <4> QED
        BY <1>1, <4>1 DEF Caching
    <3>3. /\ cache[v][r].name # 0 /\ docs[v][cache[v][r].name].ver >= cache[v][r].hash
      BY <2>1, <3>2 DEF CoverInv, HashesSound
    <3>4. cache[v][r].name \in Names(v) /\ docs[v][cache[v][r].name].rec = r
      BY <3>3 DEF CoverInv, OwnInv, Own, Names
    <3>5. docs'[v][cache[v][r].name] = docs[v][cache[v][r].name]
      BY <1>3, <3>1, <3>4
    <3> QED
      BY <3>3, <3>5
  <2> QED
    BY <1>1, <2>1 DEF HashesSound
<1>6. RequestInv(p)'
  BY <1>1, <1>2, <1>3, <1>4 DEF RequestInv
<1>7. ASSUME NEW r \in Record, s.work[r].ver = 0, WrittenOrQueued(t, r)
      PROVE  WrittenOrQueued(t, r)'
  <2>1. r # c
    BY <1>2, <1>7
  <2>2. CASE Queued(r)
    BY <1>1, <2>2 DEF Queued, WrittenOrQueued
  <2>3. CASE \E n \in Names(t) : docs[t][n].rec = r /\ docs[t][n].ver >= tally[r]
    <3>1. PICK n \in Names(t) : docs[t][n].rec = r /\ docs[t][n].ver >= tally[r]
      BY <2>3
    <3>2. docs'[t][n] = docs[t][n] /\ n \in 1 .. Len(docs'[t])
      BY <1>3, <2>1, <3>1
    <3> QED
      BY <1>1, <3>1, <3>2 DEF WrittenOrQueued, Names
  <2> QED
    BY <1>7, <2>2, <2>3 DEF WrittenOrQueued
<1>8. WholeInv(p)'
  BY <1>1, <1>2, <1>4, <1>7, WholeGoesOn DEF Busy, Pushing
<1> QED
  BY <1>5, <1>6, <1>8, TheOnlyWriter

\* A record altered while a sync goes on is newer than all that is at hand.
LEMMA UserEditsCover ==
    ASSUME CoverInv, OwnInv', UserEdits
    PROVE  CoverInv'
<1>1. /\ UNCHANGED <<docs, cache, queue, proc, target>>
      /\ \E r \in Record : Edit(r)
  BY DEF UserEdits, storeVars
<1>2. HashesSound'
  BY <1>1 DEF CoverInv, HashesSound, Caching
<1>3. PICK p \in Proc : Proc = {p}
  BY DEF CoverInv, Informed, OneProcess
<1>4. RequestInv(p)'
  BY <1>1 DEF CoverInv, RequestInv, Pushing, Retrying
<1>5. WholeInv(p)'
  <2> DEFINE s == proc[p]
  <2>1. PICK e \in Record : /\ lastAlter' = lastAlter + 1
                            /\ tally' = [tally EXCEPT ![e] = lastAlter + 1]
    BY <1>1 DEF Edit
  <2>2. PICK t \in Target : t = target[p]
    BY CoverTypes DEF CoverInv
  <2>3. /\ lastAlter \in Nat /\ s.high \in Nat
        /\ \A r \in Record : tally[r] \in Nat /\ tally[r] <= lastAlter /\ s.work[r].ver \in Nat
    BY CoverTypes DEF CoverInv
  <2>4. /\ tally \in [Record -> Nat]
        /\ tally'[e] = lastAlter + 1 /\ \A r \in Record \ {e} : tally'[r] = tally[r]
    BY <2>1 DEF CoverInv, OwnInv, TypeInv, TypeOK, TallyTypeOK
  <2>5. ASSUME Whole(s), Busy(s)
        PROVE  /\ s.high <= lastAlter /\ \A r \in Record : s.work[r].ver <= tally[r]
               /\ \A r \in RecordsOf(Head(s.left)) : Pushable(r) => Reached(t, s, r)
    BY <2>2, <2>5 DEF CoverInv, WholeInv
  <2>6. ASSUME Whole(s), Busy(s)
        PROVE  /\ s.high <= lastAlter' /\ \A r \in Record : s.work[r].ver <= tally'[r]
    BY <2>1, <2>3, <2>4, <2>5, <2>6
  <2>7. ASSUME Whole(s), Busy(s), NEW r \in RecordsOf(Head(s.left)), Pushable(r)
        PROVE  Reached(t, s, r)'
    <3>1. r \in Record /\ Reached(t, s, r)
      BY <2>5, <2>7 DEF RecordsOf
    <3>2. CASE r = e
      <4>1. lastAlter + 1 > s.high /\ \A q \in Record : lastAlter + 1 > s.work[q].ver
        <5>1. s.high <= lastAlter /\ \A q \in Record : s.work[q].ver <= tally[q]
          BY <2>5, <2>7
        <5> HIDE DEF s
        <5> QED
          BY <2>3, <5>1
      <4> QED
        BY <1>1, <2>4, <3>2, <4>1 DEF Reached, Newer
    <3>3. CASE r # e
      <4>1. tally'[r] = tally[r]
        BY <2>4, <3>1, <3>3
      <4> QED
        BY <1>1, <3>1, <4>1 DEF Reached, Newer, WrittenOrQueued, Queued, Names
    <3> QED
      BY <3>2, <3>3
  <2>8. WholeInv(p)
    BY DEF CoverInv
  <2> QED
    BY <1>1, <2>2, <2>6, <2>7, <2>8 DEF WholeInv, Whole, Busy, Pushing
<1> QED
  BY <1>2, <1>4, <1>5, TheOnlyWriter

\* A deletion leaves the document's name, record and version; time makes rows due.
LEMMA OutsideCover ==
    ASSUME CoverInv, OwnInv',
           UserDeletes \/ (\E r \in Record : TimePasses(r)) \/ UNCHANGED vars
    PROVE  CoverInv'
<1>1. UNCHANGED <<tally, lastAlter, cache, proc, target>>
  BY DEF UserDeletes, TimePasses, tallyVars, storeVars, vars
<1>2. FrappeTypeOK /\ queue \in [Record -> Row] /\ cache \in [Target -> [Record -> CacheRow]]
  BY DEF CoverInv, OwnInv, TypeInv, TypeOK, StoreTypeOK
<1>3. \A r \in Record : Queued(r)' <=> Queued(r)
  <2>1. CASE UNCHANGED queue
    BY <2>1 DEF Queued
  <2>2. CASE \E r \in Record : TimePasses(r)
    BY <1>2, <2>2 DEF TimePasses, BackoffElapses, Queued, Row
  <2> QED
    BY <2>1, <2>2 DEF UserDeletes, storeVars, vars
<1>4. \A t \in Target :
          /\ Names(t)' = Names(t)
          /\ \A n \in Names(t) : /\ docs'[t][n].rec = docs[t][n].rec
                                 /\ docs'[t][n].ver = docs[t][n].ver
  <2>1. CASE UNCHANGED docs
    BY <2>1 DEF Names
  <2>2. CASE UserDeletes
    <3>0. PICK u \in Target : \E n \in Names(u) : DeleteDoc(u, n)
      BY <2>2 DEF UserDeletes
    <3>1. PICK k \in Names(u) : DeleteDoc(u, k)
      BY <3>0
    <3>2. docs[u][k] \in Document
      BY <1>2 DEF FrappeTypeOK, Names
    <3> DEFINE d == [docs[u][k] EXCEPT !.live = FALSE]
    <3>3. d.rec = docs[u][k].rec /\ d.ver = docs[u][k].ver
      BY <3>2 DEF Document
    <3>4. docs' = [docs EXCEPT ![u] = [docs[u] EXCEPT ![k] = d]]
      BY <3>1 DEF DeleteDoc
    <3> HIDE DEF d
    <3>5. /\ docs'[u] = [docs[u] EXCEPT ![k] = d]
          /\ \A v \in Target \ {u} : docs'[v] = docs[v]
      BY <1>2, <3>4 DEF FrappeTypeOK
    <3>6. docs[u] \in Seq(Document) /\ k \in 1 .. Len(docs[u])
      BY <1>2 DEF FrappeTypeOK, Names
    <3>7. /\ Len(docs'[u]) = Len(docs[u])
          /\ \A n \in 1 .. Len(docs[u]) : docs'[u][n] = IF n = k THEN d ELSE docs[u][n]
      BY <3>5, <3>6
    <3> QED
      BY <3>3, <3>5, <3>7 DEF Names
  <2> QED
    BY <2>1, <2>2 DEF TimePasses, vars
<1>5. PICK p \in Proc : Proc = {p}
  BY DEF CoverInv, Informed, OneProcess
<1>6. target[p] \in Target /\ proc[p].cur \in Record
  BY CoverTypes DEF CoverInv
<1>7. HashesSound'
  <2>1. ASSUME NEW t \in Target, NEW r \in Record, cache[t][r].hash # 0, ~Caching(t, r)
        PROVE  cache[t][r].name # 0 /\ docs'[t][cache[t][r].name].ver >= cache[t][r].hash
    <3>1. cache[t][r].name # 0 /\ docs[t][cache[t][r].name].ver >= cache[t][r].hash
      BY <2>1 DEF CoverInv, HashesSound
    <3>2. cache[t][r].name \in Names(t)
      BY <3>1 DEF CoverInv, OwnInv, Own, Names
    <3> QED
      BY <1>4, <3>1, <3>2
  <2> QED
    BY <1>1, <2>1 DEF HashesSound, Caching
<1>8. RequestInv(p)'
  <2>1. RequestInv(p)
    BY DEF CoverInv
  <2>2. ASSUME proc[p].pc = "remember"
        PROVE  docs'[target[p]][proc[p].found].ver >= proc[p].work[proc[p].cur].ver
    <3>1. proc[p].found \in Names(target[p])
      BY <2>1, <2>2 DEF RequestInv, CoverInv, OwnInv, LookedUp, Own, Names
    <3> QED
      BY <1>4, <1>6, <2>1, <2>2, <3>1 DEF RequestInv
  <2> QED
    BY <1>1, <2>1, <2>2 DEF RequestInv, Pushing, Retrying
<1>9. WholeInv(p)'
  <2>1. \A r \in Record : WrittenOrQueued(target[p], r) => WrittenOrQueued(target[p], r)'
    BY <1>1, <1>3, <1>4, <1>6 DEF WrittenOrQueued
  <2>2. \A r \in Record : Reached(target[p], proc[p], r) => Reached(target[p], proc[p], r)'
    BY <1>1, <2>1 DEF Reached, Newer
  <2>3. WholeInv(p)
    BY DEF CoverInv
  <2> QED
    BY <1>1, <2>2, <2>3 DEF WholeInv, Whole, Busy, Pushing, RecordsOf
<1> QED
  BY <1>5, <1>7, <1>8, <1>9, TheOnlyWriter

LEMMA NextCover == CoverInv /\ [Next]_vars => CoverInv'
<1> SUFFICES ASSUME CoverInv, [Next]_vars PROVE CoverInv'
  OBVIOUS
<1>1. OwnInv'
  BY NextOwn DEF CoverInv
<1>2. ASSUME NEW p \in Proc, Step(p) PROVE CoverInv'
  BY <1>1, <1>2, RestCover, FetchCover, DequeueCover, BeginPushCover, RequestCover,
     SkipCover, CompareCover, CacheCover, AcknowledgedCover DEF Step
<1>3. ASSUME NEW p \in Proc, Fault(p) PROVE CoverInv'
  <2>1. ~AckLost(p) /\ ~Crash(p)
    BY DEF CoverInv, Informed, AckLost, Crash, Disturb
  <2> QED
    BY <1>1, <1>3, <2>1, RestCover, RequestCover DEF Fault
<1> QED
  BY <1>1, <1>2, <1>3, UserEditsCover, OutsideCover DEF Next

\* Only Save ends the going through an entity's records.
LEMMA SavesBySaving ==
    ASSUME CoverInv, [Next]_vars, NEW p \in Proc, Saves(p)
    PROVE  Save(p)
<1> DEFINE s == proc[p]
           u == proc'[p]
<1>1. s \in LocalState /\ s \in ProcState /\ s.cur \in Record /\ s.pc = "each"
      /\ u.pc = "entity"
  BY CoverTypes DEF CoverInv, Saves
<1>2. Step(p) \/ Fault(p)
  <2>1. \A q \in Proc : q = p
    BY DEF CoverInv, Informed, OneProcess
  <2>2. u # s
    BY <1>1
  <2>3. ~UserEdits /\ ~UserDeletes /\ ~(\E r \in Record : TimePasses(r)) /\ ~UNCHANGED vars
    BY <2>2 DEF UserEdits, UserDeletes, TimePasses, vars
  <2> QED
    BY <2>1, <2>3 DEF Next
<1> USE DEF Become, CoverInv, OwnInv, TypeInv
<1>3. ~ (\/ RunSync(p) \/ ResyncEntity(p) \/ ProcessRetryQueue(p) \/ Restart(p)
         \/ BeginEntity(p) \/ EndSync(p) \/ Fetch(p) \/ Dequeue(p) \/ FetchFails(p)
         \/ SwitchTarget(p))
  BY <1>1 DEF RunSync, ResyncEntity, ProcessRetryQueue, Restart, BeginEntity, EndSync,
     Fetch, Dequeue, FetchFails, SwitchTarget
<1>4. ~ (\/ Get(p) \/ Fill(p) \/ Compare(p) \/ Acknowledged(p) \/ Missing(p)
         \/ Remember(p) \/ Resolve(p) \/ Enqueue(p) \/ Reschedule(p) \/ AckLost(p)
         \/ Unreachable(p) \/ Rejected(p))
  BY <1>1 DEF Get, Fill, Compare, Acknowledged, Missing, Remember, Resolve, Enqueue,
     Reschedule, AckLost, Unreachable, Rejected, Effect
<1>5. ~SkipRecord(p) /\ ~DropRow(p)
  BY <1>1 DEF SkipRecord, DropRow, Without, NextUp, Pending, ProcState
<1>6. ~UnknownEntity(p) /\ ~EndRetries(p) /\ ~Crash(p)
  BY <1>1 DEF UnknownEntity, EndRetries, Crash, AtRest
<1>7. ~BeginPush(p)
  <2>1. ASSUME BeginPush(p) PROVE u.pc \in {"compare", "get"}
    <3>1. PICK r \in NextUp(s) :
              Become(p, [s EXCEPT
                  !.pc = AfterLookup(cache[target[p]][r].name),
                  !.high = IF Retrying(s) THEN s.high ELSE Raised(s, r),
                  !.cur = r, !.found = cache[target[p]][r].name, !.tries = 0])
      BY <2>1 DEF BeginPush
    <3>2. u.pc = AfterLookup(cache[target[p]][r].name)
      BY <1>1, <3>1 DEF ProcState
    <3> QED
      BY <3>2 DEF AfterLookup
  <2> QED
    BY <1>1, <2>1
<1> QED
  BY <1>2, <1>3, <1>4, <1>5, <1>6, <1>7 DEF Step, Fault

\* One process that learns of every effect it has: whatever an earlier job, another
\* site, a refusal or a deletion left in the cache, the queue and the watermark, when a
\* full sync or a resync saves an entity's watermark, every record up to it has been
\* written to the site in use in its current version, or is queued (_sync_entity).
THEOREM FullSyncAlwaysCovers == Informed => (Spec => FullSyncCovers)
<1> SUFFICES ASSUME Informed PROVE Spec => FullSyncCovers
  OBVIOUS
<1> DEFINE Covers(p) ==
        Saves(p) /\ proc[p].job \in {"full", "resync"}
            => \A r \in RecordsOf(Head(proc[p].left)) :
                   Pushable(r) /\ tally[r] \in 1 .. proc[p].high
                       => WrittenOrQueued(target[p], r)
<1>1. ASSUME CoverInv, [Next]_vars, NEW p \in Proc PROVE Covers(p)
  <2>1. SUFFICES ASSUME Saves(p), Whole(proc[p]),
                        NEW r \in RecordsOf(Head(proc[p].left)), Pushable(r),
                        tally[r] \in 1 .. proc[p].high
                 PROVE  WrittenOrQueued(target[p], r)
    BY DEF Whole
  <2>2. Pending(proc[p]) = {} /\ r \in Record
    BY <1>1, <2>1, SavesBySaving DEF Save, RecordsOf
  <2>3. proc[p].work[r].ver = 0
    BY <2>2 DEF Pending
  <2>4. Reached(target[p], proc[p], r)
    BY <1>1, <2>1 DEF Saves, CoverInv, WholeInv, Busy
  <2>5. proc[p].high \in Nat /\ tally[r] \in Nat
    BY <1>1, <2>2, CoverTypes DEF CoverInv
  <2> QED
    BY <2>1, <2>3, <2>4, <2>5 DEF Reached, Newer
<1>2. CoverInv /\ [Next]_vars => [\A p \in Proc : Covers(p)]_vars
  BY <1>1
<1>3. Init => CoverInv
  BY InitCover
<1> QED
  BY <1>2, <1>3, NextCover, PTL DEF Spec, FullSyncCovers

=============================================================================
