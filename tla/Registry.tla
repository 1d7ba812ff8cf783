------------------------------ MODULE Registry ------------------------------
(***************************************************************************)
(* The static side of the connector: which entities it knows, in which     *)
(* order it syncs them, which of them have a Frappe mapping, and what the  *)
(* parser and the pydantic models make of each Tally record.               *)
(*                                                                         *)
(* A record stands for one natural key (a Tally GUID; a name for           *)
(* "company"), so the pair (entity_name, record key) of the store's tables *)
(* is written here as the record alone.                                    *)
(***************************************************************************)
EXTENDS Naturals, Sequences, FiniteSets

CONSTANTS
    Record,        \* the Tally records, by natural key
    Entity,        \* every entity name a record or a stored row can carry
    EntityOf,      \* EntityOf[r]: the entity a record belongs to
    Order,         \* resolve_sync_order(): the registered entities, in sync order
    Mapped,        \* the entities with an entry in frappe/mapping.yaml
    Voucher,       \* the entities whose export honours a date range
    Unparseable,   \* records to_model rejects with a ValidationError
    Keyless,       \* records whose natural key field is empty
    Target         \* the Frappe sites FRAPPE_BASE_URL is pointed at over time

Registered == {Order[i] : i \in 1 .. Len(Order)}

ASSUME RegistryAssumption ==
    /\ IsFiniteSet(Record)
    /\ Record # {}
    /\ EntityOf \in [Record -> Entity]
    /\ Order \in Seq(Entity)
    /\ Mapped \subseteq Entity
    /\ Voucher \subseteq Entity
    /\ Unparseable \subseteq Record
    /\ Keyless \subseteq Record

RecordsOf(e) == {r \in Record : EntityOf[r] = e}

\* A record that _push_record sends to Frappe: it is parsed into a model, it
\* has a natural key and its entity has a mapping.
Pushable(r) ==
    /\ r \notin Unparseable \cup Keyless
    /\ EntityOf[r] \in Mapped

=============================================================================
