-------------------------- MODULE RecordPathProofs --------------------------
(***************************************************************************)
(* Theorems about RecordPath, for every number of objects, companies,      *)
(* fields, texts, entries, edits and attempts.                             *)
(***************************************************************************)
EXTENDS RecordPath, SequenceTheorems, WellFoundedInduction, TLAPS

-----------------------------------------------------------------------------
(* Sequences and sets.                                                      *)

LEMMA LeastExists ==
    ASSUME NEW S \in SUBSET Nat, S # {}
    PROVE  \E i \in S : \A j \in S : i <= j
<1> DEFINE R == OpToRel(<, Nat)
<1>1. IsWellFoundedOn(R, Nat)
  BY NatLessThanWellFounded
<1>2. \A x, y \in Nat : <<x, y>> \in R <=> x < y
  BY DEF OpToRel
<1> HIDE DEF R
<1>3. PICK i \in S : \A j \in S : ~ (<<j, i>> \in R)
  BY <1>1, WFMin
<1>4. ASSUME NEW j \in S PROVE i <= j
  <2>1. i \in Nat /\ j \in Nat /\ ~ (<<j, i>> \in R)
    BY <1>3
  <2>2. ~ (j < i)
    BY <1>2, <2>1
  <2> QED
    BY <2>1, <2>2
<1> QED
  BY <1>4

\* The set of the numbers that are no counterexamples is all of Nat, if it has 0 and
\* with each number the next: induction, for one set at a time.
LEMMA InductionOnSet ==
    ASSUME NEW S \in SUBSET Nat, 0 \in S, \A n \in S : n + 1 \in S
    PROVE  S = Nat
<1> SUFFICES ASSUME Nat \ S # {} PROVE FALSE
  OBVIOUS
<1>1. Nat \ S \in SUBSET Nat
  OBVIOUS
<1>2. PICK n \in Nat \ S : \A m \in Nat \ S : n <= m
  BY <1>1, LeastExists
<1>3. n - 1 \in Nat /\ n - 1 \in S
  BY <1>2
<1> QED
  BY <1>2, <1>3

LEMMA FirstIsOne ==
    ASSUME NEW S \in SUBSET Nat, S # {}
    PROVE  First(S) \in S
BY LeastExists DEF First

\* A sequence, whatever is in it.
IsSeq(s) == \E S : s \in Seq(S)

Replaced(s, i, e) == [s EXCEPT ![i] = e]

LEMMA ReplaceInSeq ==
    ASSUME NEW s, IsSeq(s), NEW i \in 1 .. Len(s), NEW e
    PROVE  LET t == Replaced(s, i, e)
           IN  /\ IsSeq(t) /\ Len(t) = Len(s)
               /\ \A j \in 1 .. Len(s) : t[j] = IF j = i THEN e ELSE s[j]
<1>1. PICK S : s \in Seq(S)
  BY DEF IsSeq
<1>2. s \in Seq(S \cup {e})
  BY <1>1
<1>3. e \in S \cup {e}
  OBVIOUS
<1> QED
  BY <1>2, <1>3, ExceptSeq DEF IsSeq, Replaced

LEMMA AppendToSeq ==
    ASSUME NEW s, IsSeq(s), NEW e
    PROVE  LET t == Append(s, e)
           IN  /\ IsSeq(t) /\ Len(t) = Len(s) + 1
               /\ \A j \in 1 .. Len(s) : t[j] = s[j]
               /\ t[Len(s) + 1] = e
<1>1. PICK S : s \in Seq(S)
  BY DEF IsSeq
<1>2. s \in Seq(S \cup {e})
  BY <1>1
<1>3. e \in S \cup {e}
  OBVIOUS
<1> QED
  BY <1>2, <1>3, AppendProperties DEF IsSeq

LEMMA RemoveKeepsSeq ==
    ASSUME NEW S, NEW s \in Seq(S), NEW i \in 1 .. Len(s)
    PROVE  RemoveAt(s, i) \in Seq(S)
BY SubSeqProperties, ConcatProperties DEF RemoveAt

Copies(e, n) == [m \in 1 .. n |-> e]

\* Copies of one element at the end of a sequence.
LEMMA AppendCopies ==
    ASSUME NEW s, IsSeq(s), NEW e, NEW n \in Nat
    PROVE  LET t == s \o Copies(e, n)
           IN  /\ IsSeq(t) /\ Len(t) = Len(s) + n
               /\ \A j \in 1 .. Len(s) : t[j] = s[j]
               /\ \A j \in (Len(s) + 1) .. Len(t) : t[j] = e
<1> DEFINE c == Copies(e, n)
<1>1. PICK S : s \in Seq(S)
  BY DEF IsSeq
<1> DEFINE T == S \cup {e}
<1>2. s \in Seq(T) /\ Len(s) \in Nat
  BY <1>1, LenProperties
<1>3. c \in Seq(T) /\ Len(c) = n /\ \A m \in 1 .. n : c[m] = e
  BY DEF Copies
<1> HIDE DEF c, T
<1>4. /\ s \o c \in Seq(T) /\ Len(s \o c) = Len(s) + n
      /\ \A j \in 1 .. Len(s \o c) :
             (s \o c)[j] = IF j <= Len(s) THEN s[j] ELSE c[j - Len(s)]
  BY <1>2, <1>3, ConcatProperties
<1>5. \A j \in (Len(s) + 1) .. (Len(s) + n) : j - Len(s) \in 1 .. n /\ ~(j <= Len(s))
  BY <1>2
<1> QED
  BY <1>2, <1>3, <1>4, <1>5 DEF IsSeq, c

LEMMA SeqLength ==
    ASSUME NEW s, IsSeq(s)
    PROVE  Len(s) \in Nat
BY LenProperties DEF IsSeq

-----------------------------------------------------------------------------
(* Rows.                                                                    *)

RowOK(o, r) ==
    /\ r = [fields |-> [f \in FieldsOf[o] |-> r.fields[f]], lines |-> r.lines, alter |-> r.alter]
    /\ \A f \in FieldsOf[o] : r.fields[f] \in Shape(o, f)
    /\ r.lines \in Seq(Line) /\ r.alter \in Nat

RowsOK ==
    /\ DOMAIN row \subseteq Object
    /\ row = [o \in DOMAIN row |-> row[o]]
    /\ \A o \in DOMAIN row : RowOK(o, row[o])

\* What any edit of an object does.
Edited(o) ==
    /\ o \in DOMAIN row /\ DOMAIN row' = DOMAIN row
    /\ row' = [p \in DOMAIN row |-> row'[p]]
    /\ \A p \in DOMAIN row \ {o} : row'[p] = row[p]
    /\ RowOK(o, row'[o])
    /\ row'[o].alter = row[o].alter + 1
    /\ \A f \in FieldsOf[o] \ Editable[o] : row'[o].fields[f] = row[o].fields[f]
    /\ UNCHANGED <<site, cache, queue>>

LEMMA EditEffect ==
    ASSUME RowsOK, NEW o \in DOMAIN row, Edit(o)
    PROVE  Edited(o)
<1> DEFINE r == row[o]
<1>1. RowOK(o, r)
  BY DEF RowsOK
<1>2. o \in Object /\ Editable[o] \subseteq FieldsOf[o]
  BY RecordPathAssumption DEF RowsOK
<1>3. UNCHANGED <<site, cache, queue>>
  BY DEF Edit
<1>4. CASE EditField(o)
  <2>1. PICK f \in Editable[o] : \E shape \in Shape(o, f) :
            row' = [row EXCEPT ![o].fields[f] = shape, ![o].alter = @ + 1]
    BY <1>4 DEF EditField
  <2>2. PICK shape \in Shape(o, f) :
            row' = [row EXCEPT ![o].fields[f] = shape, ![o].alter = @ + 1]
    BY <2>1
  <2> DEFINE q == [fields |-> [g \in FieldsOf[o] |-> IF g = f THEN shape ELSE r.fields[g]],
                   lines |-> r.lines, alter |-> r.alter + 1]
  <2>3. row'[o] = q
    <3>1. r = [fields |-> [g \in FieldsOf[o] |-> r.fields[g]],
               lines |-> r.lines, alter |-> r.alter]
      BY <1>1 DEF RowOK
    <3>2. row'[o] = [r EXCEPT !.fields[f] = shape, !.alter = @ + 1]
      BY <2>2
    <3> HIDE DEF r
    <3>3. r = [fields |-> r.fields, lines |-> r.lines, alter |-> r.alter]
      <4>1. \E F, L, A : r = [fields |-> F, lines |-> L, alter |-> A]
        BY <3>1
      <4> QED
        BY <4>1
    <3>4. r.fields = [g \in FieldsOf[o] |-> r.fields[g]]
      BY <3>1
    <3>5. row'[o] = [fields |-> [r.fields EXCEPT ![f] = shape],
                     lines |-> r.lines, alter |-> r.alter + 1]
      BY <3>2, <3>3
    <3> QED
      BY <3>4, <3>5
  <2>4. /\ DOMAIN row' = DOMAIN row /\ row' = [p \in DOMAIN row |-> row'[p]]
        /\ \A p \in DOMAIN row \ {o} : row'[p] = row[p]
    BY <2>2 DEF RowsOK
  <2> HIDE DEF r
  <2>5. RowOK(o, q) /\ q.alter = r.alter + 1
    BY <1>1, <1>2, <2>1 DEF RowOK
  <2>6. \A g \in FieldsOf[o] \ Editable[o] : q.fields[g] = r.fields[g]
    BY <2>1
  <2> QED
    BY <1>3, <2>3, <2>4, <2>5, <2>6 DEF Edited, r
<1>5. CASE EditLines(o)
  <2>0. row[o].lines \in Seq(Line)
    BY DEF RowsOK, RowOK
  <2>1. PICK lines \in Seq(Line) : row' = [row EXCEPT ![o].lines = lines, ![o].alter = @ + 1]
    <3>1. CASE \E line \in Line :
                 row' = [row EXCEPT ![o].lines = Append(@, line), ![o].alter = @ + 1]
      <4>1. PICK line \in Line :
                row' = [row EXCEPT ![o].lines = Append(@, line), ![o].alter = @ + 1]
        BY <3>1
      <4>2. Append(row[o].lines, line) \in Seq(Line)
        BY <2>0
      <4> QED
        BY <4>1, <4>2
    <3>2. CASE \E i \in 1 .. Len(row[o].lines) :
                 row' = [row EXCEPT ![o].lines = RemoveAt(@, i), ![o].alter = @ + 1]
      BY <2>0, <3>2, RemoveKeepsSeq
    <3> QED
      BY <1>5, <3>1, <3>2 DEF EditLines
  <2> DEFINE q == [fields |-> r.fields, lines |-> lines, alter |-> r.alter + 1]
  <2>2. row'[o] = q
    <3>1. r = [fields |-> r.fields, lines |-> r.lines, alter |-> r.alter]
      <4>1. \E F, L, A : r = [fields |-> F, lines |-> L, alter |-> A]
        BY <1>1 DEF RowOK
      <4> HIDE DEF r
      <4> QED
        BY <4>1
    <3>2. row'[o] = [r EXCEPT !.lines = lines, !.alter = @ + 1]
      BY <2>1
    <3> HIDE DEF r
    <3> QED
      BY <3>1, <3>2
  <2>3. /\ DOMAIN row' = DOMAIN row /\ row' = [p \in DOMAIN row |-> row'[p]]
        /\ \A p \in DOMAIN row \ {o} : row'[p] = row[p]
    BY <2>1 DEF RowsOK
  <2> HIDE DEF r
  <2>4. RowOK(o, q) /\ q.alter = r.alter + 1 /\ q.fields = r.fields
    BY <1>1 DEF RowOK
  <2> QED
    BY <1>3, <2>2, <2>3, <2>4 DEF Edited, r
<1> QED
  BY <1>4, <1>5 DEF Edit

LEMMA RowsStep ==
    ASSUME RowsOK, NEW o, Edited(o)
    PROVE  RowsOK'
<1>1. \A p \in DOMAIN row' : RowOK(p, row'[p])
  BY DEF RowsOK, Edited
<1> QED
  BY <1>1 DEF RowsOK, Edited, RowOK, Shape

-----------------------------------------------------------------------------
(* Records.                                                                 *)

RecordOK(o, r) ==
    /\ Pushable(o, r)
    /\ Key(o, r) \in TextOf[o][KeyOf[o]]
    /\ r.alter \in Nat

LEMMA CurrentOK ==
    ASSUME RowsOK, NEW o \in DOMAIN row, Pushable(o, Current(o))
    PROVE  RecordOK(o, Current(o)) /\ Current(o).alter = row[o].alter
<1> DEFINE f == KeyOf[o]
           shape == row[o].fields[f]
           text == TextOf[o][f] \cup {Blank, NoText}
           key == Key(o, Current(o))
<1>1. o \in Object /\ f \in FieldsOf[o]
  BY RecordPathAssumption DEF RowsOK
<1>2. shape \in Shape(o, f)
  BY <1>1 DEF RowsOK, RowOK
<1>3. shape.child \in text /\ shape.attr \in text
  BY <1>2 DEF Shape
<1>4. key = IF f = "name" THEN NameValue(shape) ELSE FieldValue(shape)
  BY <1>1 DEF Key, Current, Parsed
<1>5. Current(o).alter = row[o].alter /\ row[o].alter \in Nat
  BY DEF RowsOK, RowOK, Current, Parsed
<1>6. key \notin {NoText, Blank}
  BY DEF Pushable
<1> HIDE DEF shape, f, key
<1>7. FieldValue(shape) \in text /\ NameValue(shape) \in text
  BY <1>3 DEF FieldValue, NameValue, Stripped
<1>8. key \in TextOf[o][f]
  BY <1>4, <1>6, <1>7
<1> QED
  BY <1>5, <1>8 DEF RecordOK, key, f

ModelLines(lines) == [i \in 1 .. Len(lines) |-> ModelLine(lines[i])]

LEMMA PayloadDomain ==
    ASSUME NEW o, NEW r
    PROVE  LET p == Payload(o, r) IN
           /\ \A f : f \in DOMAIN p <=>
                  \/ f \in MappedOf[o] /\ Validated(f, r.fields[f]) # NoText
                  \/ f = Lines /\ o \in WithLines
                  \/ f = AlterId /\ o \in Stamped
           /\ \A f \in DOMAIN p \ {Lines, AlterId} : p[f] = Validated(f, r.fields[f])
           /\ Lines \in DOMAIN p => p[Lines] = ModelLines(r.lines)
           /\ AlterId \in DOMAIN p => p[AlterId] = r.alter
BY DEF Payload, Lines, AlterId, ModelLines

LEMMA PayloadOfRecord ==
    ASSUME NEW o \in Object, NEW r, RecordOK(o, r)
    PROVE  LET p == Payload(o, r) IN
           /\ KeyOf[o] \in DOMAIN p /\ p[KeyOf[o]] = Key(o, r)
           /\ RequiredOf[o] \cap MappedOf[o] \subseteq DOMAIN p
           /\ Lines \in DOMAIN p <=> o \in WithLines
           /\ AlterId \in DOMAIN p <=> o \in Stamped
           /\ AlterId \in DOMAIN p => p[AlterId] = r.alter
<1> DEFINE p == Payload(o, r)
<1>1. /\ KeyOf[o] \in MappedOf[o] /\ MappedOf[o] \subseteq FieldsOf[o]
      /\ Lines \notin MappedOf[o] /\ AlterId \notin MappedOf[o]
  BY RecordPathAssumption
<1>2. Parseable(o, r) /\ Key(o, r) \notin {NoText, Blank}
  BY DEF RecordOK, Pushable
<1>3. Key(o, r) = r.fields[KeyOf[o]]
  BY DEF Key
<1>4. Validated(KeyOf[o], Key(o, r)) = Key(o, r)
  <2>1. Key(o, r) \in TextOf[o][KeyOf[o]]
    BY DEF RecordOK
  <2> QED
    BY <1>1, <1>2, <2>1, RecordPathAssumption DEF Validated
<1>5. \A f \in RequiredOf[o] \cap MappedOf[o] : Validated(f, r.fields[f]) # NoText
  BY <1>1, <1>2 DEF Parseable, ValidField
<1>6. /\ \A f : f \in DOMAIN p <=>
             \/ f \in MappedOf[o] /\ Validated(f, r.fields[f]) # NoText
             \/ f = Lines /\ o \in WithLines
             \/ f = AlterId /\ o \in Stamped
      /\ \A f \in DOMAIN p \ {Lines, AlterId} : p[f] = Validated(f, r.fields[f])
      /\ AlterId \in DOMAIN p => p[AlterId] = r.alter
  BY PayloadDomain
<1> HIDE DEF p
<1>7. Lines # AlterId
  BY DEF Lines, AlterId
<1>8. KeyOf[o] \in DOMAIN p /\ p[KeyOf[o]] = Key(o, r)
  BY <1>1, <1>2, <1>3, <1>4, <1>6
<1>9. /\ RequiredOf[o] \cap MappedOf[o] \subseteq DOMAIN p
      /\ Lines \in DOMAIN p <=> o \in WithLines
      /\ AlterId \in DOMAIN p <=> o \in Stamped
  BY <1>1, <1>5, <1>6, <1>7
<1> QED
  BY <1>6, <1>8, <1>9 DEF p

\* The fields a doc has after an update.
LEMMA MergedFields ==
    ASSUME NEW d, NEW p
    PROVE  LET m == Merged(d, p) IN
           /\ DOMAIN m = DOMAIN d \cup DOMAIN p
           /\ \A f \in DOMAIN p : m[f] = p[f]
           /\ \A f \in DOMAIN d \ DOMAIN p : m[f] = d[f]
           /\ Shows(m, p)
BY DEF Merged, Shows

-----------------------------------------------------------------------------
-----------------------------------------------------------------------------
(* Pushes.                                                                  *)

DocOK(d) ==
    /\ d = [of |-> d.of, doctype |-> d.doctype, fields |-> d.fields]
    /\ d.of \in DOMAIN row /\ d.doctype = DoctypeOf[d.of]

SiteOK ==
    /\ IsSeq(site)
    /\ \A i \in 1 .. Len(site) : DocOK(site[i])

CacheOK == \A k \in DOMAIN cache : cache[k].doc \in 1 .. Len(site)

StoredOK(k, q) ==
    q.of \in DOMAIN row /\ RecordOK(q.of, q.record) /\ k = CacheKey(q.of, q.record)

QueueOK == \A k \in DOMAIN queue : StoredOK(k, queue[k])

Base == RowsOK /\ SiteOK /\ CacheOK /\ QueueOK

\* The documents find_existing may name, and those a POST may leave.
Source(o, r, j) ==
    /\ j \in 1 .. Len(site)
    /\ (Known(o, r) /\ j = cache[CacheKey(o, r)].doc) \/ j \in Found(o, r)

Fresh(o, r, j) ==
    j \in (Len(site) + 1) .. Len(site') /\ ~Known(o, r) /\ Found(o, r) = {}

Rewritten(o, r, j) ==
    [of |-> site[j].of, doctype |-> site[j].doctype,
     fields |-> Merged(site[j].fields, Payload(o, r))]

NewDoc(o, r) == [of |-> o, doctype |-> DoctypeOf[o], fields |-> Payload(o, r)]

\* What a push may do to the site, ...
Sites(o, r) ==
    /\ IsSeq(site') /\ Len(site') \in Len(site) .. (Len(site) + MaxAttempts)
    /\ \A j \in 1 .. Len(site') :
           \/ j \in 1 .. Len(site) /\ site'[j] = site[j]
           \/ Source(o, r, j) /\ site'[j] = Rewritten(o, r, j)
           \/ Fresh(o, r, j) /\ site'[j] = NewDoc(o, r)

\* ... to the cache, whose entry names a document of the object, with no hash or with
\* that of what the document shows, ...
Entered(o, r, e) ==
    /\ Source(o, r, e.doc) \/ Fresh(o, r, e.doc)
    /\ \/ e.hash = NoHash
       \/ e.hash = Payload(o, r) /\ Shows(site'[e.doc].fields, Payload(o, r))

Caches(o, r) ==
    \A k \in DOMAIN cache' :
        \/ k \in DOMAIN cache /\ cache'[k] = cache[k]
        \/ k = CacheKey(o, r) /\ Entered(o, r, cache'[k])

Remembered(o, r) ==
    CacheKey(o, r) \in DOMAIN cache' /\ cache'[CacheKey(o, r)].hash = Payload(o, r)

\* ... and to the queue.
Queues(o, r) ==
    \A k \in DOMAIN queue' :
        \/ k \in DOMAIN queue /\ queue'[k] = queue[k]
        \/ k = CacheKey(o, r) /\ r = Current(o) /\ queue'[k] = [of |-> o, record |-> r]

KeepsOthers(o, r) == \A k \in DOMAIN queue \ {CacheKey(o, r)} : k \in DOMAIN queue'

\* The record is Tally's or a stored one, which goes only when it is in the cache.
Stored(o, r) ==
    LET k == CacheKey(o, r)
    IN  k \in DOMAIN queue /\ queue[k].of = o /\ queue[k].record = r

PushOf(o, r) ==
    /\ o \in DOMAIN row /\ RecordOK(o, r) /\ UNCHANGED row
    /\ Sites(o, r) /\ Caches(o, r) /\ Queues(o, r) /\ KeepsOthers(o, r)
    /\ Unchanged(o, r) => UNCHANGED <<site, cache>>
    /\ \/ r = Current(o) /\ ~Unchanged(o, r)
       \/ /\ Stored(o, r)
          /\ Remembered(o, r) \/ UNCHANGED queue

LEMMA SiteFacts ==
    ASSUME SiteOK
    PROVE  Len(site) \in Nat /\ DOMAIN site = 1 .. Len(site)
BY SeqLength, LenProperties DEF SiteOK, IsSeq

LEMMA ExistingIs ==
    ASSUME SiteOK, CacheOK, NEW o, NEW r
    PROVE  LET i == Existing(o, r) IN
           /\ i # 0 => Source(o, r, i)
           /\ i = 0 => ~Known(o, r) /\ Found(o, r) = {}
<1>1. Len(site) \in Nat /\ Found(o, r) \subseteq 1 .. Len(site)
  BY SiteFacts DEF Found
<1>2. CASE Known(o, r)
  BY <1>1, <1>2 DEF Existing, Source, CacheOK, Known
<1>3. CASE ~Known(o, r) /\ Found(o, r) # {}
  <2>1. Found(o, r) \in SUBSET Nat
    BY <1>1
  <2>2. First(Found(o, r)) \in Found(o, r)
    BY <1>3, <2>1, FirstIsOne
  <2> QED
    BY <1>1, <1>3, <2>2 DEF Existing, Source
<1>4. CASE ~Known(o, r) /\ Found(o, r) = {}
  BY <1>4 DEF Existing
<1> QED
  BY <1>2, <1>3, <1>4

LEMMA NoSites ==
    ASSUME SiteOK, NEW o, NEW r, UNCHANGED site
    PROVE  Sites(o, r)
<1>1. Len(site) \in Nat /\ MaxAttempts \in Nat \ {0}
  BY SiteFacts, RecordPathAssumption
<1> QED
  BY <1>1 DEF SiteOK, Sites

LEMMA WriteEffect ==
    ASSUME SiteOK, CacheOK, NEW o, NEW r, Write(o, r)
    PROVE  LET i == IF Existing(o, r) # 0 THEN Existing(o, r) ELSE Len(site') IN
           /\ Sites(o, r)
           /\ Source(o, r, i) \/ Fresh(o, r, i)
           /\ Shows(site'[i].fields, Payload(o, r))
<1> DEFINE e == Existing(o, r)
           p == Payload(o, r)
<1>0. Len(site) \in Nat /\ DOMAIN site = 1 .. Len(site) /\ IsSeq(site)
  BY SiteFacts DEF SiteOK
<1>1. CASE e # 0
  <2>1. Source(o, r, e) /\ e \in 1 .. Len(site)
    BY <1>1, ExistingIs DEF Source
  <2>2. site' = [site EXCEPT ![e] = [site[e] EXCEPT !.fields = Merged(@, p)]]
    BY <1>0, <1>1, <2>1 DEF Write
  <2>3. [site[e] EXCEPT !.fields = Merged(@, p)] = Rewritten(o, r, e)
    <3>1. \E O, D, F : site[e] = [of |-> O, doctype |-> D, fields |-> F]
      <4>1. DocOK(site[e])
        BY <2>1 DEF SiteOK
      <4> QED
        BY <4>1 DEF DocOK
    <3> QED
      BY <3>1 DEF Rewritten
  <2> HIDE DEF e
  <2>4. site' = Replaced(site, e, Rewritten(o, r, e))
    BY <2>2, <2>3 DEF Replaced
  <2>5. /\ IsSeq(site') /\ Len(site') = Len(site)
        /\ \A j \in 1 .. Len(site) :
               site'[j] = IF j = e THEN Rewritten(o, r, e) ELSE site[j]
    BY <1>0, <2>1, <2>4, ReplaceInSeq
  <2>6. Sites(o, r)
    <3>1. MaxAttempts \in Nat
      BY RecordPathAssumption
    <3> QED
      BY <1>0, <2>1, <2>5, <3>1 DEF Sites
  <2>7. Shows(site'[e].fields, p)
    <3>1. site'[e].fields = Merged(site[e].fields, p)
      BY <2>1, <2>5 DEF Rewritten
    <3> QED
      BY <3>1, MergedFields
  <2> QED
    BY <1>1, <2>1, <2>6, <2>7 DEF e
<1>2. CASE e = 0
  <2>1. ~Known(o, r) /\ Found(o, r) = {}
    BY <1>2, ExistingIs
  <2>2. PICK copies \in 1 .. MaxAttempts :
            site' = site \o [n \in 1 .. copies |-> NewDoc(o, r)]
    BY <1>2, Zenon DEF Write, NewDoc
  <2>3. copies \in Nat /\ copies >= 1 /\ copies <= MaxAttempts /\ MaxAttempts \in Nat
    BY <2>2, RecordPathAssumption
  <2> DEFINE d == NewDoc(o, r)
  <2> HIDE DEF d
  <2>4. /\ IsSeq(site') /\ Len(site') = Len(site) + copies
        /\ \A j \in 1 .. Len(site) : site'[j] = site[j]
        /\ \A j \in (Len(site) + 1) .. Len(site') : site'[j] = d
    <3>1. site' = site \o [n \in 1 .. copies |-> d]
      BY <2>2, Zenon DEF d
    <3>2. IsSeq(site) /\ copies \in Nat
      BY <1>0, <2>3
    <3> DEFINE t == site \o Copies(d, copies)
    <3>3. /\ IsSeq(t) /\ Len(t) = Len(site) + copies
          /\ \A j \in 1 .. Len(site) : t[j] = site[j]
          /\ \A j \in (Len(site) + 1) .. Len(t) : t[j] = d
      BY <3>2, AppendCopies
    <3> HIDE DEF t
    <3>4. site' = t
      BY <3>1 DEF t, Copies
    <3> QED
      BY <3>3, <3>4
  <2>5. \A j \in 1 .. Len(site') : j \in 1 .. Len(site) \/ j \in (Len(site) + 1) .. Len(site')
    BY <1>0, <2>3, <2>4
  <2>6. Len(site') \in (Len(site) + 1) .. Len(site')
    BY <1>0, <2>3, <2>4
  <2>7. Sites(o, r)
    BY <1>0, <2>1, <2>3, <2>4, <2>5 DEF Sites, Fresh, d
  <2>8. Fresh(o, r, Len(site'))
    BY <2>1, <2>6 DEF Fresh
  <2>9. Shows(site'[Len(site')].fields, p)
    BY <2>4, <2>6 DEF Shows, NewDoc, d
  <2> QED
    BY <1>2, <2>7, <2>8, <2>9
<1> QED
  BY <1>1, <1>2

LEMMA AnsweredEffect ==
    ASSUME SiteOK, CacheOK, NEW o, NEW r, Answered(o, r)
    PROVE  Sites(o, r) /\ Caches(o, r) /\ Remembered(o, r) /\ ~Unchanged(o, r)
<1> DEFINE i == IF Existing(o, r) # 0 THEN Existing(o, r) ELSE Len(site')
<1>1. /\ Sites(o, r)
      /\ Source(o, r, i) \/ Fresh(o, r, i)
      /\ Shows(site'[i].fields, Payload(o, r))
  BY WriteEffect DEF Answered
<1>2. cache' = Upserted(o, r, i, Payload(o, r)) /\ ~Unchanged(o, r)
  BY Zenon DEF Answered, ContentHash
<1> HIDE DEF i
<1>3. /\ CacheKey(o, r) \in DOMAIN cache'
      /\ cache'[CacheKey(o, r)] = [doc |-> i, hash |-> Payload(o, r)]
      /\ \A k \in DOMAIN cache' \ {CacheKey(o, r)} : k \in DOMAIN cache /\ cache'[k] = cache[k]
  BY <1>2 DEF Upserted
<1> QED
  BY <1>1, <1>2, <1>3 DEF Caches, Entered, Remembered

LEMMA CutOffEffect ==
    ASSUME SiteOK, CacheOK, NEW o, NEW r, CutOff(o, r)
    PROVE  Sites(o, r) /\ Caches(o, r) /\ ~Unchanged(o, r)
<1>1. ~Unchanged(o, r)
  BY DEF CutOff
<1>2. CASE UNCHANGED <<site, cache>>
  BY <1>1, <1>2, NoSites DEF Caches
<1>3. CASE /\ cache' = IF ~Known(o, r) /\ Existing(o, r) # 0
                       THEN Upserted(o, r, Existing(o, r), NoHash) ELSE cache
           /\ UNCHANGED site \/ Write(o, r)
  <2>1. Sites(o, r)
    BY <1>3, NoSites, WriteEffect
  <2>2. CASE cache' = cache
    BY <1>1, <2>1, <2>2 DEF Caches
  <2>3. CASE cache' = Upserted(o, r, Existing(o, r), NoHash) /\ Existing(o, r) # 0
    <3> DEFINE i == Existing(o, r)
    <3>1. Source(o, r, i)
      BY <2>3, ExistingIs
    <3> HIDE DEF i
    <3>2. /\ cache'[CacheKey(o, r)] = [doc |-> i, hash |-> NoHash]
          /\ \A k \in DOMAIN cache' \ {CacheKey(o, r)} :
                 k \in DOMAIN cache /\ cache'[k] = cache[k]
      BY <2>3 DEF Upserted, i
    <3>3. Entered(o, r, cache'[CacheKey(o, r)])
      BY <3>1, <3>2 DEF Entered
    <3> QED
      BY <1>1, <2>1, <3>2, <3>3 DEF Caches
  <2> QED
    BY <1>3, <2>2, <2>3
<1> QED
  BY <1>2, <1>3 DEF CutOff

LEMMA SyncEffect ==
    ASSUME Base, NEW o \in DOMAIN row, Sync(o)
    PROVE  PushOf(o, Current(o))
<1> DEFINE r == Current(o)
<1>1. RecordOK(o, r) /\ UNCHANGED row
  BY CurrentOK DEF Sync, Base
<1>2. CASE Answered(o, r) /\ UNCHANGED queue
  <2>1. Sites(o, r) /\ Caches(o, r) /\ ~Unchanged(o, r)
    BY <1>2, AnsweredEffect DEF Base
  <2>2. Queues(o, r) /\ KeepsOthers(o, r)
    BY <1>2 DEF Queues, KeepsOthers
  <2> QED
    BY <1>1, <2>1, <2>2 DEF PushOf
<1>3. CASE CutOff(o, r) /\ queue' \in {queue, Enqueued(o, r)}
  <2>1. Sites(o, r) /\ Caches(o, r) /\ ~Unchanged(o, r)
    BY <1>3, CutOffEffect DEF Base
  <2> HIDE DEF r
  <2>2. CASE UNCHANGED queue
    <3>1. Queues(o, r) /\ KeepsOthers(o, r)
      BY <2>2 DEF Queues, KeepsOthers
    <3> QED
      BY <1>1, <2>1, <3>1 DEF PushOf, r
  <2>3. CASE queue' = Enqueued(o, r)
    <3>1. /\ DOMAIN queue' = DOMAIN queue \cup {CacheKey(o, r)}
          /\ \A k \in DOMAIN queue' : queue'[k] = IF k = CacheKey(o, r)
                                                  THEN [of |-> o, record |-> r] ELSE queue[k]
      BY <2>3 DEF Enqueued
    <3>2. r = Current(o)
      BY DEF r
    <3>3. Queues(o, r) /\ KeepsOthers(o, r)
      BY <3>1, <3>2 DEF Queues, KeepsOthers
    <3> QED
      BY <1>1, <2>1, <3>3 DEF PushOf, r
  <2> QED
    BY <1>3, <2>2, <2>3
<1> QED
  BY <1>2, <1>3 DEF Sync

LEMMA RetryEffect ==
    ASSUME Base, NEW key \in DOMAIN queue, Retry(key)
    PROVE  PushOf(queue[key].of, queue[key].record)
<1> DEFINE o == queue[key].of
           r == queue[key].record
<1>1. o \in DOMAIN row /\ RecordOK(o, r) /\ key = CacheKey(o, r) /\ UNCHANGED row
  BY DEF Base, QueueOK, StoredOK, Retry
<1>2. Stored(o, r)
  BY <1>1, Zenon DEF Stored
<1>3. \/ /\ Answered(o, r) \/ (Unchanged(o, r) /\ UNCHANGED <<site, cache>>)
         /\ queue' \in {queue, [k \in DOMAIN queue \ {key} |-> queue[k]]}
      \/ CutOff(o, r) /\ UNCHANGED queue
  BY DEF Retry
<1> HIDE DEF o, r
<1>4. ASSUME queue' \in {queue, [k \in DOMAIN queue \ {key} |-> queue[k]]}
      PROVE  Queues(o, r) /\ KeepsOthers(o, r)
  BY <1>1, <1>4 DEF Queues, KeepsOthers
<1>5. CASE Answered(o, r) /\ queue' \in {queue, [k \in DOMAIN queue \ {key} |-> queue[k]]}
  <2>1. Sites(o, r) /\ Caches(o, r) /\ Remembered(o, r) /\ ~Unchanged(o, r)
    BY <1>5, AnsweredEffect DEF Base
  <2> QED
    BY <1>1, <1>2, <1>4, <1>5, <2>1 DEF PushOf, o, r
<1>6. CASE /\ Unchanged(o, r) /\ UNCHANGED <<site, cache>>
           /\ queue' \in {queue, [k \in DOMAIN queue \ {key} |-> queue[k]]}
  <2>1. Sites(o, r) /\ Caches(o, r)
    BY <1>6, NoSites DEF Caches, Base
  <2>2. Remembered(o, r)
    BY <1>6 DEF Remembered, Unchanged, Known, ContentHash
  <2> QED
    BY <1>1, <1>2, <1>4, <1>6, <2>1, <2>2 DEF PushOf, o, r
<1>7. CASE CutOff(o, r) /\ UNCHANGED queue
  <2>1. Sites(o, r) /\ Caches(o, r) /\ ~Unchanged(o, r)
    BY <1>7, CutOffEffect DEF Base
  <2>2. Queues(o, r) /\ KeepsOthers(o, r)
    BY <1>7 DEF Queues, KeepsOthers
  <2> QED
    BY <1>1, <1>2, <1>7, <2>1, <2>2 DEF PushOf, o, r
<1> QED
  BY <1>3, <1>5, <1>6, <1>7

NextEffect ==
    \/ UNCHANGED <<row, site, cache, queue>>
    \/ \E o \in DOMAIN row : Edited(o)
    \/ \E o \in DOMAIN row : \E r : PushOf(o, r)

LEMMA NextIsOne ==
    ASSUME Base, [RecordNext]_recordVars
    PROVE  NextEffect
<1>1. CASE UNCHANGED recordVars
  BY <1>1 DEF recordVars, NextEffect
<1>2. ASSUME NEW o \in DOMAIN row, Edit(o) PROVE NextEffect
  <2>1. Edited(o)
    BY <1>2, EditEffect DEF Base
  <2> QED
    BY <2>1 DEF NextEffect
<1>3. ASSUME NEW o \in DOMAIN row, Sync(o) PROVE NextEffect
  <2>1. PushOf(o, Current(o))
    BY <1>3, SyncEffect
  <2> QED
    BY <2>1 DEF NextEffect
<1>4. ASSUME NEW key \in DOMAIN queue, Retry(key) PROVE NextEffect
  <2>1. PushOf(queue[key].of, queue[key].record)
    BY <1>4, RetryEffect
  <2>2. queue[key].of \in DOMAIN row
    BY DEF Base, QueueOK, StoredOK
  <2> QED
    BY <2>1, <2>2 DEF NextEffect
<1> QED
  BY <1>1, <1>2, <1>3, <1>4 DEF RecordNext

\* A document stays what it is.
LEMMA DocStays ==
    ASSUME SiteOK, NEW o, NEW r, PushOf(o, r), NEW j \in 1 .. Len(site)
    PROVE  /\ j \in 1 .. Len(site')
           /\ site'[j].of = site[j].of /\ site'[j].doctype = site[j].doctype
<1>1. Len(site) \in Nat /\ MaxAttempts \in Nat
  BY SiteFacts, RecordPathAssumption
<1>2. Sites(o, r)
  BY DEF PushOf
<1>3. j \in 1 .. Len(site')
  BY <1>1, <1>2 DEF Sites
<1>4. ~Fresh(o, r, j)
  BY <1>1 DEF Fresh
<1>5. CASE Source(o, r, j) /\ site'[j] = Rewritten(o, r, j)
  BY <1>3, <1>5 DEF Rewritten
<1>6. CASE site'[j] = site[j]
  BY <1>3, <1>6
<1> QED
  BY <1>2, <1>3, <1>4, <1>5, <1>6 DEF Sites

\* Rows have their shape, documents and stored records their object, and the cache
\* names documents.
LEMMA BaseInit == RecordInit => Base
<1> SUFFICES ASSUME RecordInit PROVE Base
  OBVIOUS
<1>1. PICK objects \in Companies : row = [o \in objects |-> FirstRow[o]]
  BY DEF RecordInit
<1>2. objects \subseteq Object
  BY RecordPathAssumption
<1>3. RowsOK
  BY <1>1, <1>2, FirstRowAssumption DEF RowsOK, RowOK
<1>4. IsSeq(<<>>) /\ Len(<<>>) = 0
  BY EmptySeq DEF IsSeq
<1>5. SiteOK /\ CacheOK /\ QueueOK
  BY <1>4 DEF RecordInit, SiteOK, CacheOK, QueueOK
<1> QED
  BY <1>3, <1>5 DEF Base

LEMMA BaseStep == Base /\ [RecordNext]_recordVars => Base'
<1> SUFFICES ASSUME Base, [RecordNext]_recordVars PROVE Base'
  OBVIOUS
<1> USE DEF Base
<1>1. CASE UNCHANGED <<row, site, cache, queue>>
  BY <1>1 DEF RowsOK, RowOK, Shape, SiteOK, DocOK, CacheOK, QueueOK, StoredOK
<1>2. ASSUME NEW o \in DOMAIN row, Edited(o) PROVE Base'
  <2>1. RowsOK'
    BY <1>2, RowsStep
  <2>2. SiteOK' /\ CacheOK' /\ QueueOK'
    BY <1>2 DEF Edited, SiteOK, DocOK, CacheOK, QueueOK, StoredOK
  <2> QED
    BY <2>1, <2>2
<1>3. ASSUME NEW o \in DOMAIN row, NEW r, PushOf(o, r) PROVE Base'
  <2>1. Len(site) \in Nat /\ MaxAttempts \in Nat
    BY SiteFacts, RecordPathAssumption
  <2>2. RowsOK'
    BY <1>3 DEF RowsOK, RowOK, Shape, PushOf
  <2>3. SiteOK'
    <3>1. Sites(o, r) /\ UNCHANGED row
      BY <1>3 DEF PushOf
    <3>2. ASSUME NEW j \in 1 .. Len(site') PROVE DocOK(site[j])'
      <4>1. CASE j \in 1 .. Len(site) /\ site'[j] = site[j]
        BY <3>1, <4>1 DEF SiteOK, DocOK
      <4>2. CASE Source(o, r, j) /\ site'[j] = Rewritten(o, r, j)
        <5>1. DocOK(site[j])
          BY <4>2 DEF Source, SiteOK
        <5> QED
          BY <3>1, <4>2, <5>1 DEF Rewritten, DocOK
      <4>3. CASE site'[j] = NewDoc(o, r)
        BY <3>1, <4>3 DEF NewDoc, DocOK
      <4> QED
        BY <3>1, <4>1, <4>2, <4>3 DEF Sites
    <3> QED
      BY <3>1, <3>2 DEF SiteOK, Sites
  <2>4. CacheOK'
    <3> SUFFICES ASSUME NEW k \in DOMAIN cache' PROVE cache'[k].doc \in 1 .. Len(site')
      BY DEF CacheOK
    <3>1. Len(site') \in Len(site) .. (Len(site) + MaxAttempts)
      BY <1>3 DEF PushOf, Sites
    <3>2. CASE k \in DOMAIN cache /\ cache'[k] = cache[k]
      BY <2>1, <3>1, <3>2 DEF CacheOK
    <3>3. CASE Entered(o, r, cache'[k])
      BY <2>1, <3>1, <3>3 DEF Entered, Source, Fresh
    <3> QED
      BY <1>3, <3>2, <3>3 DEF PushOf, Caches
  <2>5. QueueOK'
    <3> SUFFICES ASSUME NEW k \in DOMAIN queue' PROVE StoredOK(k, queue[k])'
      BY DEF QueueOK
    <3>1. UNCHANGED row /\ RecordOK(o, r) /\ o \in DOMAIN row
      BY <1>3 DEF PushOf
    <3>2. CASE k \in DOMAIN queue /\ queue'[k] = queue[k]
      BY <3>1, <3>2 DEF QueueOK, StoredOK
    <3>3. CASE k = CacheKey(o, r) /\ queue'[k] = [of |-> o, record |-> r]
      BY <3>1, <3>3 DEF StoredOK
    <3> QED
      BY <1>3, <3>2, <3>3 DEF PushOf, Queues
  <2> QED
    BY <2>2, <2>3, <2>4, <2>5
<1> QED
  BY <1>1, <1>2, <1>3, NextIsOne DEF NextEffect

LEMMA BaseAlways == RecordSpec => []Base
BY BaseInit, BaseStep, PTL DEF RecordSpec

-----------------------------------------------------------------------------
(* Half a voucher is not pushed.                                            *)

Whole(lines) ==
    \A n \in DOMAIN lines : \A f \in RequiredInLine : lines[n][f] \notin {NoText, Invalid}

WholeFields(o, fields) ==
    /\ RequiredOf[o] \cap MappedOf[o] \subseteq DOMAIN fields
    /\ o \in WithLines => Lines \in DOMAIN fields
    /\ Lines \in DOMAIN fields => Whole(fields[Lines])

WholeInv == \A i \in 1 .. Len(site) : WholeFields(site[i].of, site[i].fields)

LEMMA RecordIsWhole ==
    ASSUME NEW o \in Object, NEW r, RecordOK(o, r)
    PROVE  WholeFields(o, Payload(o, r))
<1> DEFINE p == Payload(o, r)
           lines == r.lines
<1>1. /\ RequiredOf[o] \cap MappedOf[o] \subseteq DOMAIN p
      /\ Lines \in DOMAIN p <=> o \in WithLines
  BY PayloadOfRecord
<1>2. \A i \in 1 .. Len(lines) : ValidLine(lines[i])
  BY DEF RecordOK, Pushable, Parseable
<1>3. Lines \in DOMAIN p => p[Lines] = ModelLines(lines)
  BY PayloadDomain
<1> HIDE DEF p, lines
<1>4. Lines \in DOMAIN p => Whole(p[Lines])
  <2> SUFFICES ASSUME Lines \in DOMAIN p, NEW n \in 1 .. Len(lines), NEW f \in RequiredInLine
               PROVE  p[Lines][n][f] \notin {NoText, Invalid}
    BY <1>3 DEF Whole, ModelLines
  <2>1. p[Lines][n] = ModelLine(lines[n])
    BY <1>3 DEF ModelLines
  <2>2. f \in LineField
    BY RecordPathAssumption
  <2>3. p[Lines][n][f] = Validated(f, lines[n][f])
    BY <2>1, <2>2 DEF ModelLine
  <2>4. ValidField(f, lines[n][f], TRUE)
    BY <1>2, <2>2 DEF ValidLine
  <2> QED
    BY <2>3, <2>4 DEF ValidField
<1> QED
  BY <1>1, <1>4 DEF WholeFields, p

LEMMA WholeStep == Base /\ WholeInv /\ [RecordNext]_recordVars => WholeInv'
<1> SUFFICES ASSUME Base, WholeInv, [RecordNext]_recordVars PROVE WholeInv'
  OBVIOUS
<1>1. CASE UNCHANGED <<row, site, cache, queue>>
  BY <1>1 DEF WholeInv, WholeFields, Whole
<1>2. ASSUME NEW o \in DOMAIN row, Edited(o) PROVE WholeInv'
  BY <1>2 DEF Edited, WholeInv, WholeFields, Whole
<1>3. ASSUME NEW o \in DOMAIN row, NEW r, PushOf(o, r) PROVE WholeInv'
  <2> DEFINE payload == Payload(o, r)
  <2>1. WholeFields(o, payload)
    BY <1>3, RecordIsWhole DEF Base, RowsOK, PushOf
  <2> SUFFICES ASSUME NEW j \in 1 .. Len(site')
               PROVE  WholeFields(site'[j].of, site'[j].fields)
    BY DEF WholeInv, WholeFields, Whole
  <2>2. CASE j \in 1 .. Len(site) /\ site'[j] = site[j]
    BY <2>2 DEF WholeInv
  <2>3. CASE Source(o, r, j) /\ site'[j] = Rewritten(o, r, j)
    <3> DEFINE d == site[j]
               m == Merged(d.fields, payload)
    <3>1. WholeFields(d.of, d.fields)
      BY <2>3 DEF Source, WholeInv
    <3>2. site'[j].of = d.of /\ site'[j].fields = m
      BY <2>3 DEF Rewritten
    <3>3. /\ DOMAIN m = DOMAIN d.fields \cup DOMAIN payload
          /\ \A f \in DOMAIN payload : m[f] = payload[f]
          /\ \A f \in DOMAIN d.fields \ DOMAIN payload : m[f] = d.fields[f]
      BY MergedFields
    <3> HIDE DEF d, m, payload
    <3>4. WholeFields(d.of, m)
      BY <2>1, <3>1, <3>3 DEF WholeFields
    <3> QED
      BY <3>2, <3>4
  <2>4. CASE site'[j] = NewDoc(o, r)
    BY <2>1, <2>4 DEF NewDoc
  <2> QED
    BY <1>3, <2>2, <2>3, <2>4 DEF PushOf, Sites
<1> QED
  BY <1>1, <1>2, <1>3, NextIsOne DEF NextEffect

\* No document has an entry that Tally shows only in part, and none lacks a field its
\* model requires, whatever the mapping and the texts, and after any retries of stored
\* records: half a voucher is not pushed.
THEOREM WholeDocumentsAlways == RecordSpec => []OnlyWholeDocuments
<1>1. RecordInit => WholeInv
  BY EmptySeq DEF RecordInit, WholeInv
<1>2. WholeInv => OnlyWholeDocuments
  BY DEF WholeInv, WholeFields, Whole, OnlyWholeDocuments
<1> QED
  BY <1>1, <1>2, BaseAlways, WholeStep, PTL DEF RecordSpec

-----------------------------------------------------------------------------
(* Each object has documents of its own.                                    *)

\* Objects of one doctype have natural keys no other of them ever has.
Distinct ==
    \A o, p \in Object :
        DoctypeOf[o] = DoctypeOf[p] =>
            /\ KeyOf[o] = KeyOf[p]
            /\ o # p => TextOf[o][KeyOf[o]] \cap TextOf[p][KeyOf[p]] = {}

\* A document holds a natural key of its object, and so does its entry of the cache.
DocKeyed(d) ==
    /\ KeyOf[d.of] \in DOMAIN d.fields
    /\ d.fields[KeyOf[d.of]] \in TextOf[d.of][KeyOf[d.of]]

EntryKeyed(k, d) == k = <<d.doctype, d.fields[KeyOf[d.of]]>>

KeyedInv ==
    /\ \A i \in 1 .. Len(site) : DocKeyed(site[i])
    /\ \A k \in DOMAIN cache : EntryKeyed(k, site[cache[k].doc])

\* What find_existing names is a document of the object with the record's key.
LEMMA SourceIsOwn ==
    ASSUME Distinct, Base, KeyedInv, NEW o \in DOMAIN row, NEW r, RecordOK(o, r), NEW j,
           Source(o, r, j)
    PROVE  site[j].of = o /\ site[j].fields[KeyOf[o]] = Key(o, r)
<1> DEFINE d == site[j]
<1>1. o \in Object /\ d.of \in Object /\ DocOK(d) /\ DocKeyed(d)
  BY DEF Base, RowsOK, SiteOK, DocOK, KeyedInv, Source
<1>2. Key(o, r) \in TextOf[o][KeyOf[o]]
  BY DEF RecordOK
<1>3. d.doctype = DoctypeOf[o] /\ d.fields[KeyOf[d.of]] = Key(o, r)
  <2>1. CASE Known(o, r) /\ j = cache[CacheKey(o, r)].doc
    <3>1. CacheKey(o, r) = <<d.doctype, d.fields[KeyOf[d.of]]>>
      BY <2>1 DEF KeyedInv, EntryKeyed, Known
    <3> HIDE DEF d
    <3> QED
      BY <3>1 DEF CacheKey
  <2>2. CASE j \in Found(o, r)
    <3>1. d.doctype = DoctypeOf[o] /\ d.fields[KeyOf[o]] = Key(o, r)
      BY <2>2 DEF Found, LookupField, Key
    <3> HIDE DEF d
    <3>2. KeyOf[d.of] = KeyOf[o]
      BY <1>1, <3>1 DEF DocOK, Distinct
    <3> QED
      BY <3>1, <3>2
  <2> QED
    BY <2>1, <2>2 DEF Source
<1> HIDE DEF d
<1>4. d.of = o
  BY <1>1, <1>2, <1>3 DEF Distinct, DocOK, DocKeyed
<1> QED
  BY <1>3, <1>4 DEF d

\* A key belongs to one object.
LEMMA KeyIsOwn ==
    ASSUME Distinct, NEW o \in Object, NEW r, RecordOK(o, r), NEW p \in Object, NEW q,
           RecordOK(p, q), CacheKey(o, r) = CacheKey(p, q)
    PROVE  o = p
BY DEF CacheKey, RecordOK, Distinct

\* A document a push has written is the object's, under the record's key, and shows it.
LEMMA WrittenIsOwn ==
    ASSUME Distinct, Base, KeyedInv, NEW o \in DOMAIN row, NEW r, PushOf(o, r),
           NEW j \in 1 .. Len(site'),
           \/ Source(o, r, j) /\ site'[j] = Rewritten(o, r, j)
           \/ Fresh(o, r, j) /\ site'[j] = NewDoc(o, r)
    PROVE  /\ site'[j].of = o /\ site'[j].doctype = DoctypeOf[o]
           /\ Shows(site'[j].fields, Payload(o, r))
           /\ KeyOf[o] \in DOMAIN site'[j].fields /\ site'[j].fields[KeyOf[o]] = Key(o, r)
<1> DEFINE p == Payload(o, r)
<1>1. RecordOK(o, r) /\ o \in Object
  BY DEF PushOf, Base, RowsOK
<1>2. KeyOf[o] \in DOMAIN p /\ p[KeyOf[o]] = Key(o, r)
  BY <1>1, PayloadOfRecord
<1>3. CASE Source(o, r, j) /\ site'[j] = Rewritten(o, r, j)
  <2>1. site[j].of = o
    BY <1>1, <1>3, SourceIsOwn
  <2>2. DocOK(site[j])
    BY <1>3 DEF Source, Base, SiteOK
  <2>3. /\ site'[j].of = o /\ site'[j].doctype = DoctypeOf[o]
        /\ site'[j].fields = Merged(site[j].fields, p)
    BY <1>3, <2>1, <2>2 DEF Rewritten, DocOK
  <2>4. Shows(site'[j].fields, p)
    BY <2>3, MergedFields
  <2> HIDE DEF p
  <2> QED
    BY <1>2, <2>3, <2>4 DEF Shows, p
<1>4. CASE site'[j] = NewDoc(o, r)
  BY <1>2, <1>4 DEF NewDoc, Shows
<1> QED
  BY <1>3, <1>4

LEMMA KeyedStep ==
    ASSUME Distinct
    PROVE  Base /\ KeyedInv /\ [RecordNext]_recordVars => KeyedInv'
<1> SUFFICES ASSUME Base, KeyedInv, [RecordNext]_recordVars PROVE KeyedInv'
  OBVIOUS
<1>1. CASE UNCHANGED <<row, site, cache, queue>>
  BY <1>1 DEF KeyedInv, DocKeyed, EntryKeyed
<1>2. ASSUME NEW o \in DOMAIN row, Edited(o) PROVE KeyedInv'
  BY <1>2 DEF Edited, KeyedInv, DocKeyed, EntryKeyed
<1>3. ASSUME NEW o \in DOMAIN row, NEW r, PushOf(o, r) PROVE KeyedInv'
  <2>1. /\ RecordOK(o, r) /\ Key(o, r) \in TextOf[o][KeyOf[o]]
        /\ SiteOK /\ Sites(o, r) /\ Caches(o, r)
    BY <1>3 DEF PushOf, RecordOK, Base
  <2>2. ASSUME NEW j \in 1 .. Len(site')
        PROVE  /\ DocKeyed(site'[j])
               /\ j \in 1 .. Len(site) =>
                      site'[j].fields[KeyOf[site[j].of]] = site[j].fields[KeyOf[site[j].of]]
    <3>1. CASE j \in 1 .. Len(site) /\ site'[j] = site[j]
      BY <3>1 DEF KeyedInv
    <3>2. CASE \/ Source(o, r, j) /\ site'[j] = Rewritten(o, r, j)
               \/ Fresh(o, r, j) /\ site'[j] = NewDoc(o, r)
      <4>1. /\ site'[j].of = o
            /\ KeyOf[o] \in DOMAIN site'[j].fields /\ site'[j].fields[KeyOf[o]] = Key(o, r)
        BY <1>3, <3>2, WrittenIsOwn
      <4>2. DocKeyed(site'[j])
        BY <2>1, <4>1 DEF DocKeyed
      <4>3. j \in 1 .. Len(site) => Source(o, r, j)
        BY <2>1, <3>2, SiteFacts DEF Fresh
      <4>4. j \in 1 .. Len(site) => site[j].of = o /\ site[j].fields[KeyOf[o]] = Key(o, r)
        BY <2>1, <4>3, SourceIsOwn
      <4> QED
        BY <4>1, <4>2, <4>4
    <3> QED
      BY <2>1, <3>1, <3>2 DEF Sites
  <2>3. ASSUME NEW k \in DOMAIN cache' PROVE EntryKeyed(k, site'[cache'[k].doc])
    <3>1. CASE k \in DOMAIN cache /\ cache'[k] = cache[k]
      <4> DEFINE j == cache[k].doc
      <4>1. j \in 1 .. Len(site) /\ EntryKeyed(k, site[j])
        BY <3>1 DEF Base, CacheOK, KeyedInv
      <4>2. /\ j \in 1 .. Len(site')
            /\ site'[j].of = site[j].of /\ site'[j].doctype = site[j].doctype
        BY <1>3, <2>1, <4>1, DocStays
      <4>3. site'[j].fields[KeyOf[site[j].of]] = site[j].fields[KeyOf[site[j].of]]
        BY <2>2, <4>1, <4>2
      <4> QED
        BY <3>1, <4>1, <4>2, <4>3 DEF EntryKeyed
    <3>2. CASE k = CacheKey(o, r) /\ Entered(o, r, cache'[k])
      <4> DEFINE j == cache'[k].doc
      <4>1. Source(o, r, j) \/ Fresh(o, r, j)
        BY <3>2 DEF Entered
      <4> HIDE DEF j
      <4>2. /\ site'[j].of = o /\ site'[j].doctype = DoctypeOf[o]
            /\ site'[j].fields[KeyOf[o]] = Key(o, r)
        <5>1. CASE Source(o, r, j)
          <6>1. /\ site[j].of = o /\ site[j].fields[KeyOf[o]] = Key(o, r)
                /\ j \in 1 .. Len(site) /\ site[j].doctype = DoctypeOf[o]
            <7>1. /\ site[j].of = o /\ site[j].fields[KeyOf[o]] = Key(o, r)
                  /\ j \in 1 .. Len(site)
              BY <2>1, <5>1, SourceIsOwn DEF Source
            <7>2. DocOK(site[j])
              BY <2>1, <7>1 DEF SiteOK
            <7> QED
              BY <7>1, <7>2 DEF DocOK
          <6>2. /\ j \in 1 .. Len(site')
                /\ site'[j].of = site[j].of /\ site'[j].doctype = site[j].doctype
            BY <1>3, <2>1, <6>1, DocStays
          <6> QED
            BY <2>2, <6>1, <6>2
        <5>2. CASE Fresh(o, r, j)
          <6>1. j \in 1 .. Len(site') /\ j \notin 1 .. Len(site)
            BY <2>1, <5>2, SiteFacts DEF Fresh
          <6>2. site'[j] = NewDoc(o, r)
            BY <2>1, <6>1 DEF Sites, Source
          <6> QED
            BY <1>3, <5>2, <6>1, <6>2, WrittenIsOwn
        <5> QED
          BY <4>1, <5>1, <5>2
      <4> QED
        BY <3>2, <4>2 DEF EntryKeyed, CacheKey, j
    <3> QED
      BY <2>1, <3>1, <3>2 DEF Caches
  <2> QED
    BY <2>2, <2>3 DEF KeyedInv, DocKeyed, EntryKeyed
<1> QED
  BY <1>1, <1>2, <1>3, NextIsOne DEF NextEffect

LEMMA KeyedInit == RecordInit => KeyedInv
BY EmptySeq DEF RecordInit, KeyedInv

LEMMA KeyedAlways ==
    ASSUME Distinct
    PROVE  RecordSpec => [](Base /\ KeyedInv)
BY KeyedInit, KeyedStep, BaseAlways, PTL DEF RecordSpec

-----------------------------------------------------------------------------
(* The documents of each object.                                            *)

\* Nobody renames an object known by its name; a natural key may be cleared.
KeysStay == \A o \in Object : \A s, t \in TextOf[o][KeyOf[o]] : s = t

LEMMA CopiesStep ==
    ASSUME Distinct, KeysStay
    PROVE  Base /\ KeyedInv /\ CopiesOfOnePush /\ [RecordNext]_recordVars => CopiesOfOnePush'
<1> SUFFICES ASSUME Base, KeyedInv, CopiesOfOnePush, [RecordNext]_recordVars
             PROVE  CopiesOfOnePush'
  OBVIOUS
<1>1. CASE UNCHANGED <<row, site, cache, queue>>
  BY <1>1 DEF CopiesOfOnePush
<1>2. ASSUME NEW o \in DOMAIN row, Edited(o) PROVE CopiesOfOnePush'
  BY <1>2 DEF Edited, CopiesOfOnePush
<1>3. ASSUME NEW o \in DOMAIN row, NEW r, PushOf(o, r) PROVE CopiesOfOnePush'
  <2>1. /\ RecordOK(o, r) /\ o \in Object /\ SiteOK /\ Sites(o, r)
        /\ Key(o, r) \in TextOf[o][KeyOf[o]]
    BY <1>3 DEF PushOf, RecordOK, Base, RowsOK
  <2>2. Len(site) \in Nat /\ MaxAttempts \in Nat \ {0}
    BY <2>1, SiteFacts, RecordPathAssumption
  <2>3. Len(site') \in Nat /\ Len(site') <= Len(site) + MaxAttempts
    BY <2>1, <2>2 DEF Sites
  <2>4. ASSUME NEW j \in 1 .. Len(site'), j \notin 1 .. Len(site)
        PROVE  /\ Fresh(o, r, j) /\ j > Len(site)
               /\ site'[j].of = o
               /\ \A m \in 1 .. Len(site) : site[m].of # o
    <3>1. Fresh(o, r, j) /\ site'[j] = NewDoc(o, r)
      BY <2>1, <2>4 DEF Sites, Source
    <3>2. ASSUME NEW m \in 1 .. Len(site), site[m].of = o PROVE FALSE
      <4>1. DocKeyed(site[m]) /\ DocOK(site[m])
        BY DEF KeyedInv, Base, SiteOK
      <4>2. site[m].fields[KeyOf[o]] = Key(o, r)
        BY <2>1, <3>2, <4>1 DEF DocKeyed, KeysStay
      <4>3. m \in Found(o, r)
        BY <3>2, <4>1, <4>2 DEF Found, LookupField, DocKeyed, DocOK, Key
      <4> QED
        BY <3>1, <4>3 DEF Fresh
    <3>3. j > Len(site)
      BY <2>2, <2>3, <2>4
    <3> QED
      BY <3>1, <3>2, <3>3 DEF NewDoc
  <2>5. \A j \in 1 .. Len(site) : site'[j].of = site[j].of
    BY <1>3, <2>1, DocStays
  <2> SUFFICES ASSUME NEW j \in 1 .. Len(site'), NEW m \in 1 .. Len(site'),
                      site'[j].of = site'[m].of
               PROVE  j - m < MaxAttempts
    BY DEF CopiesOfOnePush
  <2>6. CASE j \in 1 .. Len(site) /\ m \in 1 .. Len(site)
    BY <2>5, <2>6 DEF CopiesOfOnePush
  <2>7. CASE j \notin 1 .. Len(site) /\ m \notin 1 .. Len(site)
    <3>1. j > Len(site) /\ m > Len(site)
      BY <2>4, <2>7
    <3> QED
      BY <2>2, <2>3, <3>1
  <2>8. CASE j \notin 1 .. Len(site) /\ m \in 1 .. Len(site)
    BY <2>4, <2>5, <2>8
  <2>9. CASE j \in 1 .. Len(site) /\ m \notin 1 .. Len(site)
    BY <2>4, <2>5, <2>9
  <2> QED
    BY <2>6, <2>7, <2>8, <2>9
<1> QED
  BY <1>1, <1>2, <1>3, NextIsOne DEF NextEffect

\* Pushes and retries, cut off anywhere and in any number, leave of an object only the
\* copies of one POST that was sent again, MaxAttempts at most, where objects have
\* natural keys of their own that nobody renames: the lookup by natural key finds one.
THEOREM CopiesOfOnePushAlways ==
    Distinct /\ KeysStay => (RecordSpec => []CopiesOfOnePush)
<1> SUFFICES ASSUME Distinct, KeysStay PROVE RecordSpec => []CopiesOfOnePush
  OBVIOUS
<1>1. RecordInit => CopiesOfOnePush
  BY EmptySeq DEF RecordInit, CopiesOfOnePush
<1> QED
  BY <1>1, KeyedAlways, CopiesStep, PTL DEF RecordSpec

-----------------------------------------------------------------------------
(* What is reported as unchanged is on the site.                            *)

\* A stored record is no newer than its row, and the same if it is as new.
StoredDated(q, r) ==
    /\ q.record.alter <= r.alter
    /\ q.record.alter = r.alter => q.record = Parsed(q.of, r)

\* The record stored under a key, if there is one.
Waiting(k) == {queue[key].record : key \in DOMAIN queue \cap {k}}

\* An entry's hash is no newer than the row r, and the payload of what is as new.  It is
\* shown by the document unless the row is newer, which has been tried in vain, or
\* an older record is stored, which may have been put back.
EntryDated(e, d, r, stored) ==
    e.hash # NoHash =>
        /\ AlterId \in DOMAIN e.hash /\ e.hash[AlterId] \in Nat
        /\ e.hash[AlterId] <= r.alter
        /\ e.hash[AlterId] = r.alter => e.hash = Payload(d.of, Parsed(d.of, r))
        /\ \A q \in stored : q.alter = e.hash[AlterId] => Payload(d.of, q) = e.hash
        /\ \/ Shows(d.fields, e.hash)
           \/ e.hash[AlterId] < r.alter
           \/ \E q \in stored : q.alter < e.hash[AlterId]

DatedInv ==
    /\ \A k \in DOMAIN queue : StoredDated(queue[k], row[queue[k].of])
    /\ \A k \in DOMAIN cache :
           LET d == site[cache[k].doc]
           IN  EntryDated(cache[k], d, row[d.of], Waiting(k))

LEMMA WaitingIs ==
    ASSUME NEW k, NEW q
    PROVE  q \in Waiting(k) <=> k \in DOMAIN queue /\ queue[k].record = q
BY DEF Waiting

\* An edit makes the row newer than all that is stored and cached.
LEMMA DatedEdit ==
    ASSUME Base, DatedInv, NEW o \in DOMAIN row, Edited(o)
    PROVE  DatedInv'
<1>1. /\ UNCHANGED <<site, cache, queue>> /\ DOMAIN row' = DOMAIN row
      /\ row[o].alter \in Nat /\ row'[o].alter = row[o].alter + 1
      /\ \A p \in DOMAIN row \ {o} : row'[p] = row[p]
  BY DEF Edited, Base, RowsOK, RowOK
<1>2. ASSUME NEW k \in DOMAIN queue PROVE StoredDated(queue[k], row'[queue[k].of])
  <2> DEFINE q == queue[k]
  <2>1. q.of \in DOMAIN row /\ q.record.alter \in Nat /\ StoredDated(q, row[q.of])
    BY DEF Base, QueueOK, StoredOK, RecordOK, DatedInv
  <2> HIDE DEF q
  <2>2. StoredDated(q, row'[q.of])
    <3>1. CASE q.of = o
      BY <1>1, <2>1, <3>1 DEF StoredDated
    <3>2. CASE q.of # o
      BY <1>1, <2>1, <3>2
    <3> QED
      BY <3>1, <3>2
  <2> QED
    BY <2>2 DEF q
<1>3. ASSUME NEW k \in DOMAIN cache
      PROVE  LET d == site[cache[k].doc] IN EntryDated(cache[k], d, row'[d.of], Waiting(k))
  <2> DEFINE e == cache[k]
             d == site[e.doc]
             W == Waiting(k)
  <2>1. d.of \in DOMAIN row /\ EntryDated(e, d, row[d.of], W)
    BY DEF Base, CacheOK, SiteOK, DocOK, DatedInv
  <2> HIDE DEF e, d, W
  <2>2. EntryDated(e, d, row'[d.of], W)
    <3>1. CASE d.of = o
      <4> SUFFICES ASSUME e.hash # NoHash PROVE EntryDated(e, d, row'[d.of], W)
        BY DEF EntryDated
      <4>1. /\ AlterId \in DOMAIN e.hash /\ e.hash[AlterId] \in Nat
            /\ e.hash[AlterId] <= row[o].alter
            /\ \A q \in W : q.alter = e.hash[AlterId] => Payload(d.of, q) = e.hash
        BY <2>1, <3>1 DEF EntryDated
      <4>2. /\ e.hash[AlterId] < row'[o].alter /\ e.hash[AlterId] <= row'[o].alter
            /\ e.hash[AlterId] # row'[o].alter
        BY <1>1, <4>1
      <4> QED
        BY <3>1, <4>1, <4>2 DEF EntryDated
    <3>2. CASE d.of # o
      BY <1>1, <2>1, <3>2
    <3> QED
      BY <3>1, <3>2
  <2> QED
    BY <2>2 DEF e, d, W
<1>4. \A k : (Waiting(k))' = Waiting(k)
  BY <1>1 DEF Waiting
<1> QED
  BY <1>1, <1>2, <1>3, <1>4 DEF DatedInv

\* What is pushed is no newer than its row, and the row's record if it is as new.
LEMMA PushedDated ==
    ASSUME Base, DatedInv, NEW o \in DOMAIN row, NEW r, PushOf(o, r)
    PROVE  /\ r.alter \in Nat /\ row[o].alter \in Nat /\ r.alter <= row[o].alter
           /\ r.alter = row[o].alter => r = Current(o)
           /\ r = Current(o) => r.alter = row[o].alter
<1>1. r.alter \in Nat /\ row[o].alter \in Nat /\ Pushable(o, r)
  BY DEF PushOf, RecordOK, Base, RowsOK, RowOK
<1>2. CASE r = Current(o)
  BY <1>1, <1>2, CurrentOK DEF Base
<1>3. CASE Stored(o, r) /\ r # Current(o)
  <2>1. PICK k \in DOMAIN queue : queue[k].of = o /\ queue[k].record = r
    BY <1>3 DEF Stored
  <2>2. StoredDated(queue[k], row[o])
    BY <2>1 DEF DatedInv
  <2> QED
    BY <1>1, <1>3, <2>1, <2>2 DEF StoredDated, Current
<1> QED
  BY <1>2, <1>3 DEF PushOf

LEMMA DatedQueue ==
    ASSUME Base, DatedInv, NEW o \in DOMAIN row, NEW r, PushOf(o, r),
           NEW k \in DOMAIN queue'
    PROVE  StoredDated(queue'[k], row[queue'[k].of])
<1>1. CASE k \in DOMAIN queue /\ queue'[k] = queue[k]
  BY <1>1 DEF DatedInv
<1>2. CASE r = Current(o) /\ queue'[k] = [of |-> o, record |-> r]
  <2>1. r.alter = row[o].alter /\ r.alter \in Nat
    BY <1>2, PushedDated
  <2> QED
    BY <1>2, <2>1 DEF StoredDated, Current
<1> QED
  BY <1>1, <1>2 DEF PushOf, Queues

\* A push in numbers: n is the row's AlterID, a that of the record, h that of a hash.
LEMMA OlderOrNewer ==
    ASSUME NEW n \in Nat, NEW a \in Nat, NEW h \in Nat, a <= n, h <= n, a # h
    PROVE  h < n \/ a < h
OBVIOUS

LEMMA DatedEntry ==
    ASSUME Distinct, Stamped = Object, Base, KeyedInv, DatedInv, NEW o \in DOMAIN row,
           NEW r, PushOf(o, r), NEW k \in DOMAIN cache'
    PROVE  LET d == site'[cache'[k].doc]
           IN  EntryDated(cache'[k], d, row[d.of], (Waiting(k))')
<1> DEFINE p == Payload(o, r)
           W == (Waiting(k))'
<1>1. /\ RecordOK(o, r) /\ o \in Object /\ SiteOK /\ Sites(o, r) /\ Caches(o, r)
      /\ Queues(o, r) /\ KeepsOthers(o, r)
  BY DEF PushOf, Base, RowsOK
<1>2. /\ AlterId \in DOMAIN p /\ p[AlterId] = r.alter
  BY <1>1, PayloadOfRecord
<1>3. /\ r.alter \in Nat /\ row[o].alter \in Nat /\ r.alter <= row[o].alter
      /\ r.alter = row[o].alter => r = Current(o)
      /\ r = Current(o) => r.alter = row[o].alter
  BY PushedDated
<1>4. \A q : q \in W <=> k \in DOMAIN queue' /\ queue'[k].record = q
  BY DEF Waiting
<1> HIDE DEF W
<1>5. \A q \in W : q \in Waiting(k) \/ (q = r /\ k = CacheKey(o, r) /\ r = Current(o))
  <2> SUFFICES ASSUME NEW q \in W
               PROVE  q \in Waiting(k) \/ (q = r /\ k = CacheKey(o, r) /\ r = Current(o))
    OBVIOUS
  <2>1. k \in DOMAIN queue' /\ queue'[k].record = q
    BY <1>4
  <2> QED
    BY <1>1, <2>1, WaitingIs DEF Queues
<1>6. CASE k = CacheKey(o, r) /\ Entered(o, r, cache'[k]) /\ cache'[k].hash = p
           /\ Shows(site'[cache'[k].doc].fields, p)
  <2> DEFINE e == cache'[k]
             d == site'[e.doc]
  <2>1. d.of = o
    <3>1. CASE Source(o, r, e.doc)
      <4>1. site[e.doc].of = o /\ e.doc \in 1 .. Len(site)
        BY <1>1, <3>1, SourceIsOwn DEF Source
      <4> QED
        BY <1>1, <4>1, DocStays
    <3>2. CASE Fresh(o, r, e.doc)
      <4>1. e.doc \in 1 .. Len(site') /\ e.doc \notin 1 .. Len(site)
        BY <1>1, <3>2, SiteFacts DEF Fresh
      <4>2. site'[e.doc] = NewDoc(o, r)
        BY <1>1, <4>1 DEF Sites, Source
      <4> QED
        BY <4>2 DEF NewDoc
    <3> QED
      BY <1>6, <3>1, <3>2 DEF Entered
  <2>2. \A q \in W : q.alter = r.alter => Payload(o, q) = p
    <3> SUFFICES ASSUME NEW q \in W, q.alter = r.alter PROVE Payload(o, q) = p
      OBVIOUS
    <3>1. CASE q = r
      BY <3>1
    <3>2. CASE q \in Waiting(k)
      <4>1. k \in DOMAIN queue /\ queue[k].record = q
        BY <3>2, WaitingIs
      <4>2. queue[k].of = o
        <5>1. /\ queue[k].of \in Object /\ RecordOK(queue[k].of, q)
              /\ k = CacheKey(queue[k].of, q)
          BY <4>1 DEF Base, QueueOK, StoredOK, RowsOK
        <5> QED
          BY <1>1, <1>6, <5>1, KeyIsOwn
      <4>3. StoredDated(queue[k], row[o])
        BY <4>1, <4>2 DEF DatedInv
      <4>4. CASE r = Current(o)
        BY <1>3, <4>1, <4>2, <4>3, <4>4 DEF StoredDated, Current
      <4>5. CASE Stored(o, r)
        BY <1>6, <4>1, <4>5 DEF Stored
      <4> QED
        BY <4>4, <4>5 DEF PushOf
    <3> QED
      BY <1>5, <3>1, <3>2
  <2>3. e.hash = p /\ Shows(d.fields, p)
    BY <1>6
  <2> HIDE DEF e, d
  <2>4. p[AlterId] = row[o].alter => p = Payload(o, Parsed(o, row[o]))
    BY <1>2, <1>3 DEF Current
  <2> HIDE DEF p
  <2>5. EntryDated(e, d, row[d.of], W)
    BY <1>2, <1>3, <2>1, <2>2, <2>3, <2>4 DEF EntryDated
  <2> QED
    BY <2>5 DEF e, d, W
<1>7. CASE cache'[k].hash = NoHash
  BY <1>7 DEF EntryDated
<1>8. CASE k \in DOMAIN cache /\ cache'[k] = cache[k] /\ cache[k].hash # NoHash
  <2> DEFINE e == cache[k]
             d == site[e.doc]
             h == e.hash
  <2>1. /\ e.doc \in 1 .. Len(site) /\ EntryDated(e, d, row[d.of], Waiting(k))
        /\ EntryKeyed(k, d) /\ DocKeyed(d) /\ DocOK(d)
    BY <1>8 DEF Base, CacheOK, SiteOK, DatedInv, KeyedInv
  <2>2. /\ e.doc \in 1 .. Len(site') /\ site'[e.doc].of = d.of
    BY <1>1, <2>1, DocStays
  <2>3. /\ AlterId \in DOMAIN h /\ h[AlterId] \in Nat /\ h[AlterId] <= row[d.of].alter
        /\ h[AlterId] = row[d.of].alter => h = Payload(d.of, Parsed(d.of, row[d.of]))
        /\ \A q \in Waiting(k) : q.alter = h[AlterId] => Payload(d.of, q) = h
        /\ \/ Shows(d.fields, h) \/ h[AlterId] < row[d.of].alter
           \/ \E q \in Waiting(k) : q.alter < h[AlterId]
    BY <1>8, <2>1 DEF EntryDated
  <2>4. CASE k = CacheKey(o, r)
    <3>1. d.of = o
      <4>1. Source(o, r, e.doc)
        BY <1>8, <2>1, <2>4 DEF Source, Known
      <4> QED
        BY <1>1, <4>1, SourceIsOwn
    <3>2. Unchanged(o, r) <=> h = p
      BY <1>8, <2>4 DEF Unchanged, Known, ContentHash
    <3> HIDE DEF p, h, d
    <3>3. CASE h # p
      <4>1. \A q \in W : q.alter = h[AlterId] => Payload(o, q) = h
        <5> SUFFICES ASSUME NEW q \in W, q.alter = h[AlterId] PROVE Payload(o, q) = h
          OBVIOUS
        <5>1. CASE q \in Waiting(k)
          BY <2>3, <3>1, <5>1
        <5>2. CASE q = r /\ r = Current(o)
          BY <1>3, <2>3, <3>1, <5>2 DEF Current
        <5> QED
          BY <1>5, <5>1, <5>2
      <4>2. h[AlterId] < row[o].alter \/ \E q \in W : q.alter < h[AlterId]
        <5>1. CASE r = Current(o)
          <6>1. p = Payload(o, Parsed(o, row[o]))
            BY <5>1 DEF p, Current
          <6>2. h[AlterId] # row[o].alter
            BY <2>3, <3>1, <3>3, <6>1
          <6> QED
            BY <1>3, <2>3, <3>1, <6>2
        <5>2. CASE Stored(o, r) /\ UNCHANGED queue
          <6>1. r \in Waiting(k) /\ r \in W
            BY <1>4, <2>4, <5>2, WaitingIs DEF Stored
          <6>2. r.alter # h[AlterId]
            BY <2>3, <3>1, <3>3, <6>1 DEF p
          <6>3. h[AlterId] < row[o].alter \/ r.alter < h[AlterId]
            BY <1>3, <2>3, <3>1, <6>2, OlderOrNewer
          <6> QED
            BY <6>1, <6>3
        <5>3. CASE Remembered(o, r)
          BY <1>8, <2>4, <3>3, <5>3 DEF Remembered, p, h
        <5> QED
          BY <5>1, <5>2, <5>3 DEF PushOf
      <4> DEFINE d2 == site'[e.doc]
      <4>3. d2.of = o
        BY <2>2, <3>1
      <4> HIDE DEF d2
      <4>4. EntryDated(e, d2, row[o], W)
        BY <2>3, <3>1, <4>1, <4>2, <4>3 DEF EntryDated, h
      <4> QED
        BY <1>8, <4>3, <4>4 DEF d2, W
    <3>4. CASE h = p
      <4>1. UNCHANGED <<site, cache>>
        BY <3>2, <3>4 DEF PushOf
      <4>2. Stored(o, r)
        BY <3>2, <3>4 DEF PushOf
      <4>3. \A q : q \in Waiting(k) <=> q = r
        BY <2>4, <4>2, WaitingIs DEF Stored
      <4>4. \A q \in W : q \in Waiting(k)
        BY <1>5, <4>3
      <4>5. h[AlterId] = r.alter
        BY <1>2, <3>4
      <4>6. \A q \in Waiting(k) : ~ (q.alter < h[AlterId])
        BY <1>3, <4>3, <4>5
      <4>7. EntryDated(e, d, row[o], W)
        BY <2>3, <3>1, <4>4, <4>6 DEF EntryDated, h
      <4> QED
        BY <1>8, <3>1, <4>1, <4>7 DEF d, W
    <3> QED
      BY <3>3, <3>4
  <2>5. CASE k # CacheKey(o, r)
    <3>1. site'[e.doc] = d
      <4>1. ~Fresh(o, r, e.doc)
        BY <1>1, <2>1, SiteFacts DEF Fresh
      <4>2. ASSUME Source(o, r, e.doc) PROVE FALSE
        <5>1. d.of = o /\ d.fields[KeyOf[o]] = Key(o, r)
          BY <1>1, <4>2, SourceIsOwn
        <5> QED
          BY <2>1, <2>5, <5>1 DEF EntryKeyed, CacheKey, DocOK
      <4> QED
        BY <1>1, <2>2, <4>1, <4>2 DEF Sites
    <3>2. \A q \in W : q \in Waiting(k)
      BY <1>5, <2>5
    <3>3. \A q \in Waiting(k) : q \in W
      <4> SUFFICES ASSUME NEW q \in Waiting(k) PROVE q \in W
        OBVIOUS
      <4>1. k \in DOMAIN queue /\ queue[k].record = q
        BY WaitingIs
      <4>2. k \in DOMAIN queue'
        BY <1>1, <2>5, <4>1 DEF KeepsOthers
      <4>3. queue'[k] = queue[k]
        BY <1>1, <2>5, <4>2 DEF Queues
      <4> QED
        BY <1>4, <4>1, <4>2, <4>3
    <3> HIDE DEF d, e
    <3>4. EntryDated(e, d, row[d.of], W)
      BY <2>1, <3>2, <3>3 DEF EntryDated
    <3> QED
      BY <1>8, <3>1, <3>4 DEF e, W
  <2> QED
    BY <2>4, <2>5
<1> QED
  BY <1>1, <1>6, <1>7, <1>8 DEF Caches, Entered

LEMMA DatedStep ==
    ASSUME Distinct, Stamped = Object
    PROVE  Base /\ KeyedInv /\ DatedInv /\ [RecordNext]_recordVars => DatedInv'
<1> SUFFICES ASSUME Base, KeyedInv, DatedInv, [RecordNext]_recordVars PROVE DatedInv'
  OBVIOUS
<1>1. CASE UNCHANGED <<row, site, cache, queue>>
  BY <1>1 DEF DatedInv, StoredDated, EntryDated, Waiting
<1>2. ASSUME NEW o \in DOMAIN row, Edited(o) PROVE DatedInv'
  BY <1>2, DatedEdit
<1>3. ASSUME NEW o \in DOMAIN row, NEW r, PushOf(o, r) PROVE DatedInv'
  <2>1. UNCHANGED row
    BY <1>3 DEF PushOf
  <2>2. \A k \in DOMAIN queue' : StoredDated(queue'[k], row'[queue'[k].of])
    BY <1>3, <2>1, DatedQueue
  <2>3. \A k \in DOMAIN cache' : EntryDated(cache'[k], site'[cache'[k].doc],
                                     row'[site'[cache'[k].doc].of], (Waiting(k))')
    BY <1>3, <2>1, DatedEntry
  <2> QED
    BY <2>2, <2>3 DEF DatedInv
<1> QED
  BY <1>1, <1>2, <1>3, NextIsOne DEF NextEffect

LEMMA DatedIsCurrent ==
    ASSUME Distinct, Stamped = Object, Base, KeyedInv, DatedInv
    PROVE  UnchangedIsCurrent
<1> SUFFICES ASSUME NEW o \in DOMAIN row, Pushable(o, Current(o)), Unchanged(o, Current(o)),
                    CacheKey(o, Current(o)) \in DOMAIN queue =>
                        queue[CacheKey(o, Current(o))].record = Current(o)
             PROVE  Shows(site[cache[CacheKey(o, Current(o))].doc].fields,
                          Payload(o, Current(o)))
  BY Zenon DEF UnchangedIsCurrent
<1> DEFINE r == Current(o)
           k == CacheKey(o, r)
           e == cache[k]
           d == site[e.doc]
           p == Payload(o, r)
<1>1. o \in Object /\ row[o].alter \in Nat /\ RecordOK(o, r) /\ r.alter = row[o].alter
  BY CurrentOK DEF Base, RowsOK, RowOK
<1>2. AlterId \in DOMAIN p /\ p[AlterId] = row[o].alter
  BY <1>1, PayloadOfRecord
<1>3. k \in DOMAIN cache /\ e.hash = p
  BY DEF Unchanged, Known, ContentHash
<1>4. EntryDated(e, d, row[d.of], Waiting(k))
  BY <1>3 DEF DatedInv
<1>5. d.of = o
  <2>1. Source(o, r, e.doc)
    BY <1>3 DEF Source, Known, Base, CacheOK
  <2> QED
    BY <1>1, <2>1, SourceIsOwn
<1>6. \A q \in Waiting(k) : q = r
  BY WaitingIs
<1>7. p # NoHash
  BY <1>2 DEF NoHash
<1> HIDE DEF e, d, p, k
<1>8. Shows(d.fields, p)
  BY <1>1, <1>2, <1>3, <1>4, <1>5, <1>6, <1>7 DEF EntryDated
<1> QED
  BY <1>8 DEF d, e, p, k

\* What a sync reports as unchanged is on the site as Tally shows it, after any edits and
\* any pushes and retries cut off half-way or sent again, unless an older record is
\* still queued, where records carry their AlterID and objects of one doctype have
\* natural keys of their own; here keys may be renamed.
THEOREM UnchangedIsCurrentAlways ==
    Distinct /\ Stamped = Object => (RecordSpec => []UnchangedIsCurrent)
<1> SUFFICES ASSUME Distinct, Stamped = Object PROVE RecordSpec => []UnchangedIsCurrent
  OBVIOUS
<1>1. RecordInit => DatedInv
  BY DEF RecordInit, DatedInv
<1>2. Base /\ KeyedInv /\ DatedInv => UnchangedIsCurrent
  BY DatedIsCurrent
<1> QED
  BY <1>1, <1>2, KeyedAlways, DatedStep, PTL DEF RecordSpec

-----------------------------------------------------------------------------
(* Blank entry tags.                                                        *)

\* One round of the loop over the entries.
Round(lines, kept, n) ==
    IF n = 0 THEN <<>>
    ELSE IF RealLine(lines[n]) THEN Append(kept[n - 1], lines[n])
    ELSE kept[n - 1]

\* What is kept of the first n entries, for n up to N.
Keeps(lines, kept, N) == kept = [n \in 0 .. N |-> Round(lines, kept, n)]

Kept(lines) == CHOOSE kept : Keeps(lines, kept, Len(lines))

LEMMA RealLinesIsKept ==
    ASSUME NEW lines
    PROVE  RealLines(lines) = Kept(lines)[Len(lines)]
BY DEF RealLines, Kept, Keeps, Round

LEMMA KeepingExists ==
    ASSUME NEW lines
    PROVE  \A N \in Nat : \E kept : Keeps(lines, kept, N)
<1> DEFINE S == {N \in Nat : \E kept : Keeps(lines, kept, N)}
<1>1. 0 \in S
  <2> DEFINE g == [n \in 0 .. 0 |-> <<>>]
  <2>1. \A n \in 0 .. 0 : n = 0
    OBVIOUS
  <2>2. Keeps(lines, g, 0)
    BY <2>1 DEF Keeps, Round
  <2> QED
    BY <2>2
<1>2. ASSUME NEW N \in S PROVE N + 1 \in S
  <2>1. N \in Nat
    OBVIOUS
  <2>2. PICK g : Keeps(lines, g, N)
    OBVIOUS
  <2> DEFINE h == [n \in 0 .. (N + 1) |-> IF n = N + 1 THEN Round(lines, g, n) ELSE g[n]]
  <2>3. ASSUME NEW n \in 0 .. (N + 1) PROVE h[n] = Round(lines, h, n)
    <3>1. n = 0 \/ n - 1 \in 0 .. N
      BY <2>1
    <3>2. n # 0 => h[n - 1] = g[n - 1]
      BY <2>1, <3>1
    <3>3. Round(lines, h, n) = Round(lines, g, n)
      BY <3>2 DEF Round
    <3>4. n # N + 1 => g[n] = Round(lines, g, n)
      BY <2>1, <2>2 DEF Keeps
    <3> QED
      BY <3>3, <3>4
  <2>4. Keeps(lines, h, N + 1)
    <3>1. h = [n \in 0 .. (N + 1) |-> h[n]]
      OBVIOUS
    <3> HIDE DEF h
    <3> QED
      BY <2>3, <3>1 DEF Keeps
  <2> QED
    BY <2>1, <2>4
<1> HIDE DEF S
<1>3. S = Nat
  <2>1. S \in SUBSET Nat
    BY DEF S
  <2> QED
    BY <1>1, <1>2, <2>1, InductionOnSet
<1> QED
  BY <1>3 DEF S

LEMMA KeptIsKept ==
    ASSUME NEW lines, Len(lines) \in Nat
    PROVE  Keeps(lines, Kept(lines), Len(lines))
BY KeepingExists DEF Kept

LEMMA KeptRounds ==
    ASSUME NEW lines, Len(lines) \in Nat
    PROVE  \A n \in 0 .. Len(lines) : Kept(lines)[n] = Round(lines, Kept(lines), n)
BY KeptIsKept DEF Keeps

\* Blank entries before and after others change nothing of what is kept.
LEMMA BlanksAreNotKept ==
    ASSUME NEW S, NEW s \in Seq(S), NEW b \in S, ~RealLine(b)
    PROVE  RealLines(<<b>> \o s \o <<b>>) = RealLines(s)
<1> DEFINE t == <<b>> \o s \o <<b>>
           N == Len(s)
<1>1. /\ N \in Nat /\ Len(t) = N + 2 /\ t[1] = b /\ t[N + 2] = b
      /\ \A n \in 1 .. N : t[n + 1] = s[n]
  OBVIOUS
<1> HIDE DEF t
<1>2. N \in Nat /\ Len(t) \in Nat
  BY <1>1
<1> DEFINE K == Kept(s)
           L == Kept(t)
<1>3. \A n \in 0 .. N : K[n] = Round(s, K, n)
  BY <1>2, KeptRounds
<1>4. \A n \in 0 .. (N + 2) : L[n] = Round(t, L, n)
  <2>1. \A n \in 0 .. Len(t) : L[n] = Round(t, L, n)
    BY <1>2, KeptRounds
  <2> QED
    BY <1>1, <2>1
<1>5. RealLines(s) = K[N] /\ RealLines(t) = L[N + 2]
  BY <1>1, RealLinesIsKept
<1> HIDE DEF N, K, L
<1> DEFINE T == {n \in Nat : n <= N => L[n + 1] = K[n]}
<1>6. 0 \in T
  <2>1. K[0] = <<>>
    BY <1>1, <1>3 DEF Round
  <2>2. L[0] = <<>> /\ L[1] = L[0]
    BY <1>1, <1>4 DEF Round
  <2> QED
    BY <2>1, <2>2
<1>7. ASSUME NEW n \in T PROVE n + 1 \in T
  <2> SUFFICES ASSUME n + 1 <= N PROVE L[n + 2] = K[n + 1]
    OBVIOUS
  <2>1. n \in Nat /\ n + 1 \in 1 .. N /\ n + 2 \in 1 .. (N + 2)
    BY <1>1
  <2>2. L[n + 1] = K[n] /\ t[n + 2] = s[n + 1]
    BY <1>1, <2>1
  <2>3. K[n + 1] = IF RealLine(s[n + 1]) THEN Append(K[n], s[n + 1]) ELSE K[n]
    BY <1>1, <1>3, <2>1 DEF Round
  <2>4. L[n + 2] = IF RealLine(t[n + 2]) THEN Append(L[n + 1], t[n + 2]) ELSE L[n + 1]
    BY <1>1, <1>4, <2>1 DEF Round
  <2> QED
    BY <2>2, <2>3, <2>4
<1> HIDE DEF T
<1>8. T = Nat
  <2>1. T \in SUBSET Nat
    BY DEF T
  <2> QED
    BY <1>6, <1>7, <2>1, InductionOnSet
<1>9. L[N + 1] = K[N]
  BY <1>1, <1>8 DEF T
<1>10. L[N + 2] = L[N + 1]
  BY <1>1, <1>4 DEF Round
<1> QED
  BY <1>5, <1>9, <1>10 DEF t
\* A blank entry tag, which Tally writes for vouchers without goods, changes neither
\* whether a voucher can be pushed nor what is pushed, whatever its other entries.
THEOREM BlankLinesNeverMatter == RecordSpec => []BlankLinesDoNotMatter
<1>1. ASSUME RowsOK PROVE BlankLinesDoNotMatter
  <2> DEFINE blank == [f \in LineField |-> NoText]
  <2>1. blank \in Line /\ ~RealLine(blank)
    <3>1. \A f \in LineField : blank[f] = NoText
      OBVIOUS
    <3>2. blank \in [LineField -> (UNION {LineTextOf[f] : f \in LineField}) \cup {NoText}]
      OBVIOUS
    <3> HIDE DEF blank
    <3> QED
      BY <3>1, <3>2 DEF Line, RealLine
  <2> HIDE DEF blank
  <2>2. ASSUME NEW o \in DOMAIN row
        PROVE  LET more == [row[o] EXCEPT !.lines = <<blank>> \o @ \o <<blank>>]
               IN  Parsed(o, more) = Current(o)
    <3> DEFINE lines == <<blank>> \o row[o].lines \o <<blank>>
               more == [row[o] EXCEPT !.lines = <<blank>> \o @ \o <<blank>>]
    <3>1. RowOK(o, row[o])
      BY <1>1 DEF RowsOK
    <3>2. more.fields = row[o].fields /\ more.lines = lines /\ more.alter = row[o].alter
      BY <3>1 DEF RowOK
    <3>3. RealLines(lines) = RealLines(row[o].lines)
      BY <2>1, <3>1, BlanksAreNotKept DEF RowOK
    <3> HIDE DEF more, lines
    <3>4. Parsed(o, more) = Current(o)
      BY <3>2, <3>3 DEF Parsed, Current
    <3> QED
      BY <3>4 DEF more
  <2> QED
    BY <2>2, Zenon DEF BlankLinesDoNotMatter, blank
<1> QED
  BY <1>1, BaseAlways, PTL DEF Base

=============================================================================
