----------------------------- MODULE RecordPath -----------------------------
(***************************************************************************)
(* The way of one record, field by field: from the row Tally exports, by   *)
(* parse_collection_response, to_model and MappingEntry.apply, to the      *)
(* fields of a document and the content hash in the cache, and again from  *)
(* the retry queue, where the record stays as it was parsed.  One process; *)
(* SyncEngine, with several, calls all of this "a version".                *)
(***************************************************************************)
EXTENDS Naturals, Sequences, FiniteSets, SequencesExt

CONSTANTS
    Object,        \* the objects of Tally under consideration
    Companies,     \* the sets of them a company may have
    DoctypeOf,     \* the Frappe doctype of each
    Field,         \* the fields of EntitySpec.fetch_fields, "name" among them
    LineField,     \* those of a nested ledger or inventory entry
    TextOf,        \* the texts each field of an object may hold in Tally
    LineTextOf,    \* those of each LineField
    Coerce,        \* what the models make of a field's texts: a text, or Invalid
    FieldsOf, MappedOf, RequiredOf, KeyOf,  \* of each object's entity
    Stamped,       \* the objects exported with an AlterID, which is mapped
    WithLines,     \* the objects with a list of entries, always mapped
    RequiredInLine,
    Editable,      \* the fields the users alter, by object
    FirstRow,      \* the rows at the start
    MaxAttempts,   \* settings.retry_max_attempts
    MaxLines, MaxEdits  \* bounds: entries of a row, edits in a behaviour

NoText == "None"
Invalid == "ValidationError"
Blank == ""        \* a text of nothing but white space
Lines == "entries"
AlterId == "alter_id"
NoHash == <<>>     \* content_hash ""

ASSUME RecordPathAssumption ==
    /\ \A o \in Object : /\ KeyOf[o] \in MappedOf[o]
                         /\ RequiredOf[o] \cup MappedOf[o] \subseteq FieldsOf[o]
                         /\ Editable[o] \subseteq FieldsOf[o] /\ FieldsOf[o] \subseteq Field
                         \* a natural key is a string to the model, and stays as it is
                         /\ \A t \in TextOf[o][KeyOf[o]] : Coerce[KeyOf[o]][t] = t
    /\ Lines \notin Field /\ AlterId \notin Field
    /\ Companies \subseteq SUBSET Object /\ RequiredInLine \subseteq LineField
    /\ MaxAttempts \in Nat \ {0} /\ MaxLines \in Nat /\ MaxEdits \in Nat

VARIABLES
    row,           \* what Tally would export of each object
    site,          \* the documents in Frappe, by the order of their creation
    cache,         \* sync_cache: a function on <<doctype, natural key>>
    queue,         \* retry_queue: the parsed records in it, by the same keys
    edits

recordVars == <<row, site, cache, queue, edits>>

\* A field is exported as a child element, as an attribute, as both or not at all.
Shape(o, f) ==
    LET text == TextOf[o][f] \cup {Blank, NoText} IN [child : text, attr : text]

Line == {l \in [LineField -> (UNION {LineTextOf[f] : f \in LineField}) \cup {NoText}] :
            \A f \in LineField : l[f] \in LineTextOf[f] \cup {NoText}}

ASSUME FirstRowAssumption ==
    \A o \in Object :
        /\ FirstRow[o] = [fields |-> [f \in FieldsOf[o] |-> FirstRow[o].fields[f]],
                          lines |-> FirstRow[o].lines, alter |-> FirstRow[o].alter]
        /\ \A f \in FieldsOf[o] : FirstRow[o].fields[f] \in Shape(o, f)
        /\ FirstRow[o].lines \in Seq(Line) /\ FirstRow[o].alter \in Nat

-----------------------------------------------------------------------------
(* tally/xml_parser.py.                                                     *)

Stripped(text) == IF text = Blank THEN NoText ELSE text

\* A child with text, blank text included, goes before the attribute.
FieldValue(shape) ==
    IF shape.child # NoText THEN Stripped(shape.child) ELSE Stripped(shape.attr)

\* The NAME attribute is the name if nothing else is, white space and all.
NameValue(shape) ==
    IF FieldValue(shape) = NoText THEN shape.attr ELSE FieldValue(shape)

\* Mutant: empty tags are entries too.
AnyLine(line) == TRUE

\* "isn't a real line item": an entry none of whose fields has a value.
RealLine(line) == \E f \in LineField : line[f] # NoText

\* The entries that count, in their order.
RealLines(lines) ==
    LET kept[n \in 0 .. Len(lines)] ==
            IF n = 0 THEN <<>>
            ELSE IF RealLine(lines[n]) THEN Append(kept[n - 1], lines[n])
            ELSE kept[n - 1]
    IN  kept[Len(lines)]

\* The record as a dict: no value, no key.
Parsed(o, r) ==
    [fields |-> [f \in FieldsOf[o] |->
                    IF f = "name" THEN NameValue(r.fields[f]) ELSE FieldValue(r.fields[f])],
     lines |-> RealLines(r.lines),
     alter |-> r.alter]

-----------------------------------------------------------------------------
(* tally/mapper.py and models/.                                             *)

\* An empty name is a string to the model, and any other value has been stripped.
Validated(f, text) == IF text \in {NoText, Blank} THEN text ELSE Coerce[f][text]

\* The type is checked after the coercion, and a required field needs a value there.
ValidField(f, text, required) ==
    /\ Validated(f, text) # Invalid
    /\ required => Validated(f, text) # NoText

\* Mutant: an entry counts if anything of it can be read.
ValidInPart(line) == \E f \in LineField : ValidField(f, line[f], TRUE)

ValidLine(line) == \A f \in LineField : ValidField(f, line[f], f \in RequiredInLine)

\* One bad field of one entry is a ValidationError of the whole record.
Parseable(o, record) ==
    /\ \A f \in FieldsOf[o] : ValidField(f, record.fields[f], f \in RequiredOf[o])
    /\ \A i \in 1 .. Len(record.lines) : ValidLine(record.lines[i])

ModelLine(line) == [f \in LineField |-> Validated(f, line[f])]

-----------------------------------------------------------------------------
(* frappe/mapping.py and _content_hash.                                     *)

\* MappingEntry.apply: the mapped fields that have a value in the model.
Payload(o, record) ==
    LET present == {f \in MappedOf[o] : Validated(f, record.fields[f]) # NoText}
        lines == IF o \in WithLines THEN {Lines} ELSE {}
        alter == IF o \in Stamped THEN {AlterId} ELSE {}
    IN  [f \in present \cup lines \cup alter |->
            CASE f = Lines -> [i \in 1 .. Len(record.lines) |-> ModelLine(record.lines[i])]
              [] f = AlterId -> record.alter
              [] OTHER -> Validated(f, record.fields[f])]

\* Mutant: a new AlterID alone is no change.
HashOfContent(payload) == [f \in DOMAIN payload \ {AlterId} |-> payload[f]]

ContentHash(payload) == payload

-----------------------------------------------------------------------------
(* Tally and Frappe.                                                        *)

RecordInit ==
    /\ row \in {[o \in objects |-> FirstRow[o]] : objects \in Companies}
    /\ site = <<>> /\ cache = <<>> /\ queue = <<>>
    /\ edits = 0

EditField(o) ==
    \E f \in Editable[o] : \E shape \in Shape(o, f) :
        row' = [row EXCEPT ![o].fields[f] = shape, ![o].alter = @ + 1]

EditLines(o) ==
    /\ o \in WithLines
    /\ \/ \E line \in Line : /\ Len(row[o].lines) < MaxLines
                             /\ row' = [row EXCEPT ![o].lines = Append(@, line), ![o].alter = @ + 1]
       \/ \E i \in 1 .. Len(row[o].lines) : 
            row' = [row EXCEPT ![o].lines = RemoveAt(@, i), ![o].alter = @ + 1]

Edit(o) ==
    /\ edits < MaxEdits
    /\ edits' = edits + 1
    /\ EditField(o) \/ EditLines(o)
    /\ UNCHANGED <<site, cache, queue>>

\* A PUT sets the fields it is given and leaves the others.
Merged(doc, payload) ==
    [f \in DOMAIN doc \cup DOMAIN payload |-> IF f \in DOMAIN payload THEN payload[f] ELSE doc[f]]

-----------------------------------------------------------------------------
(* _push_record and find_existing, of a record of o that is parsed.         *)

Current(o) == Parsed(o, row[o])

Key(o, record) == record.fields[KeyOf[o]]

\* A record is pushed if the model takes it and it has a key.
Pushable(o, record) == Parseable(o, record) /\ Key(o, record) \notin {NoText, Blank}

CacheKey(o, record) == <<DoctypeOf[o], Key(o, record)>>

\* Mutant: Frappe is asked by the title.
ByName(o) == "name"

LookupField(o) == KeyOf[o]

\* The documents client.get finds by the mapped natural key, the first one first.
Found(o, record) ==
    {i \in 1 .. Len(site) :
        /\ site[i].doctype = DoctypeOf[o]
        /\ LookupField(o) \in DOMAIN site[i].fields
        /\ site[i].fields[LookupField(o)] = record.fields[LookupField(o)]}

First(S) == CHOOSE i \in S : \A j \in S : i <= j

Known(o, record) == CacheKey(o, record) \in DOMAIN cache

\* find_existing, 0 for None.
Existing(o, record) ==
    IF Known(o, record) THEN cache[CacheKey(o, record)].doc
    ELSE IF Found(o, record) # {} THEN First(Found(o, record)) ELSE 0

Upserted(o, record, i, hash) ==
    LET key == CacheKey(o, record)
    IN  [k \in DOMAIN cache \cup {key} |-> IF k = key THEN [doc |-> i, hash |-> hash] ELSE cache[k]]

\* Nothing of the record has changed since it was last pushed.
Unchanged(o, record) ==
    /\ Known(o, record)
    /\ cache[CacheKey(o, record)].hash = ContentHash(Payload(o, record))

\* What the site does with the requests of one push.  A PUT can be sent again; of a
\* POST each attempt whose answer is lost may leave a document, with no GET in between.
Write(o, record) ==
    LET i == Existing(o, record)
        payload == Payload(o, record)
        doc == [of |-> o, doctype |-> DoctypeOf[o], fields |-> payload]
    IN  IF i # 0 THEN site' = [site EXCEPT ![i].fields = Merged(@, payload)]
        ELSE \E copies \in 1 .. MaxAttempts : site' = site \o [n \in 1 .. copies |-> doc]

\* A push to its end: the document is updated, or the last one created is remembered.
Answered(o, record) ==
    /\ ~Unchanged(o, record)
    /\ Write(o, record)
    /\ LET i == Existing(o, record)
       IN  cache' = Upserted(o, record, IF i # 0 THEN i ELSE Len(site'),
                             ContentHash(Payload(o, record)))

\* A push that raises, or with which the process dies: in the GET, or later, when
\* find_existing has cached what it found, and whether or not the site has acted.
CutOff(o, record) ==
    /\ ~Unchanged(o, record)
    /\ \/ UNCHANGED <<site, cache>>
       \/ /\ cache' = IF ~Known(o, record) /\ Existing(o, record) # 0
                      THEN Upserted(o, record, Existing(o, record), NoHash) ELSE cache
          /\ UNCHANGED site \/ Write(o, record)

-----------------------------------------------------------------------------
(* The two callers of _push_record.                                         *)

\* enqueue_retry: one row for a key, which takes the new record.
Enqueued(o, record) ==
    LET key == CacheKey(o, record)
    IN  [k \in DOMAIN queue \cup {key} |-> IF k = key THEN [of |-> o, record |-> record] ELSE queue[k]]

\* A sync fetches an object and pushes it; a push that raises is queued, one with which
\* the process dies is not.
Sync(o) ==
    /\ o \in DOMAIN row /\ Pushable(o, Current(o))
    /\ \/ Answered(o, Current(o)) /\ UNCHANGED queue
       \/ CutOff(o, Current(o)) /\ queue' \in {queue, Enqueued(o, Current(o))}
    /\ UNCHANGED <<row, edits>>

\* A drain pushes the record as it was stored, after the checks of a fetched one.  The
\* row is deleted at the end, if the process lives to do it, and only then.
Retry(key) ==
    LET o == queue[key].of
        record == queue[key].record
    IN  /\ Pushable(o, record)
        /\ \/ /\ Answered(o, record) \/ (Unchanged(o, record) /\ UNCHANGED <<site, cache>>)
              /\ queue' \in {queue, [k \in DOMAIN queue \ {key} |-> queue[k]]}
           \/ CutOff(o, record) /\ UNCHANGED queue
        /\ UNCHANGED <<row, edits>>

RecordNext ==
    (\E o \in DOMAIN row : Edit(o) \/ Sync(o)) \/ (\E key \in DOMAIN queue : Retry(key))

RecordSpec == RecordInit /\ [][RecordNext]_recordVars

-----------------------------------------------------------------------------
\* The document holds what Tally shows of the object, in the fields that have a value.
Shows(doc, payload) ==
    /\ DOMAIN payload \subseteq DOMAIN doc
    /\ \A f \in DOMAIN payload : doc[f] = payload[f]

\* What a sync would report as unchanged is on the site as it is in Tally, nested
\* entries included, unless an older record of the object is still queued, whose
\* retries may have put it back (_push_record, _content_hash, process_retry_queue).
UnchangedIsCurrent ==
    \A o \in DOMAIN row :
        LET record == Current(o)
            key == CacheKey(o, record)
        IN  /\ Pushable(o, record) /\ Unchanged(o, record)
            /\ key \in DOMAIN queue => queue[key].record = record
            => Shows(site[cache[key].doc].fields, Payload(o, record))

\* All documents of an object come from one push: they are the copies its POST left
\* when it was sent again, next to each other and MaxAttempts at most.  Later pushes
\* and retries, whatever was cut off before, find one of them (find_existing, create).
CopiesOfOnePush ==
    \A i, j \in 1 .. Len(site) : site[i].of = site[j].of => i - j < MaxAttempts

\* As long as no answer is lost, an object has one document ("deduplicating on a
\* stable GUID").
OneDocument ==
    \A i, j \in 1 .. Len(site) : site[i].of = site[j].of => i = j

\* No document has an entry that Tally shows only in part, and none lacks a field its
\* model requires: half a voucher is not pushed (to_model, _extract_entry_list).
OnlyWholeDocuments ==
    \A i \in 1 .. Len(site) :
        LET doc == site[i] IN
        /\ RequiredOf[doc.of] \cap MappedOf[doc.of] \subseteq DOMAIN doc.fields
        /\ doc.of \in WithLines =>
               /\ Lines \in DOMAIN doc.fields
               /\ \A n \in DOMAIN doc.fields[Lines] : \A f \in RequiredInLine :
                      doc.fields[Lines][n][f] \notin {NoText, Invalid}

\* A blank entry tag, which Tally writes for vouchers without goods, changes neither
\* whether a voucher can be pushed nor what is pushed (_extract_entry_list).
BlankLinesDoNotMatter ==
    \A o \in WithLines \cap DOMAIN row :
        LET blank == [f \in LineField |-> NoText]
            more == [row[o] EXCEPT !.lines = <<blank>> \o @ \o <<blank>>]
            record == Parsed(o, more)
        IN  /\ Parseable(o, record) <=> Parseable(o, Current(o))
            /\ Parseable(o, record) => Payload(o, record) = Payload(o, Current(o))

=============================================================================
