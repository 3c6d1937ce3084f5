-------------------------------- MODULE Tracking --------------------------------
(***************************************************************************)
(* The tracking contract (tracking.rs) beside the registry, with the pause *)
(* switch of the main contract it asks before every event.  The storage    *)
(* below it (storage_contract.rs) keeps the events, the list of a          *)
(* product's events, and a 0-based index of them by type.                  *)
(***************************************************************************)
EXTENDS ProductRegistry

CONSTANTS
  EventType,   \* event types that validate_event_type accepts
  MaxEvents    \* bound on the number of events

ASSUME TrackingAssumption == MaxEvents \in Nat

VARIABLES
  tracking_on,     \* tracking: DataKey::MainContract is set
  main_paused,     \* main contract: DataKey::Paused
  events,          \* tracking: DataKey::Event(id) for ids 1 .. DataKey::EventSeq
  product_events,  \* tracking: DataKey::ProductEventIds(product)
  type_index       \* tracking: DataKey::EventTypeIndex(product, type, n)

tracking_vars == <<tracking_on, main_paused, events, product_events, type_index>>

NextEventId == Len(events) + 1

\* index_event_by_type: at the index that is the count so far.
IndexEventByType(id, type) ==
  type_index' = [type_index EXCEPT ![id][type] =
    [n \in DOMAIN @ \union {Cardinality(DOMAIN @)} |->
       IF n = Cardinality(DOMAIN @) THEN NextEventId ELSE @[n]]]

TrackingInitContract ==
  /\ ~tracking_on
  /\ tracking_on' = TRUE
  /\ UNCHANGED <<main_paused, events, product_events, type_index>>

\* Any account, any product id: the registry is not asked.
TrackingAddEvent(id, type) ==
  /\ Len(events) < MaxEvents
  /\ tracking_on
  /\ ~main_paused
  /\ events' = Append(events, [product |-> id, type |-> type])
  /\ product_events' = [product_events EXCEPT ![id] = Append(@, NextEventId)]
  /\ IndexEventByType(id, type)
  /\ UNCHANGED <<tracking_on, main_paused>>

\* pause and unpause of the main contract.
SetMainPaused ==
  /\ main_paused' = ~main_paused
  /\ UNCHANGED <<tracking_on, events, product_events, type_index>>

\* Mutant: the page ends where the first page would.
FirstPageEnd(id, type, offset, limit) ==
  LET count == Cardinality(DOMAIN type_index[id][type])
      end   == SmallerOf(limit, count)
  IN [i \in 1 .. (IF offset < end THEN end - offset ELSE 0) |->
        type_index[id][type][offset + i - 1]]

\* get_event_ids_by_type of the storage contract: a page of the type index.
EventIdsByType(id, type, offset, limit) ==
  LET count == Cardinality(DOMAIN type_index[id][type])
      end   == SmallerOf(offset + limit, count)
  IN [i \in 1 .. (IF offset < end THEN end - offset ELSE 0) |->
        type_index[id][type][offset + i - 1]]

TrackingInit ==
  /\ RegistryInit
  /\ tracking_on = FALSE /\ main_paused = FALSE
  /\ events = <<>>
  /\ product_events = [id \in ProductId |-> <<>>]
  /\ type_index = [id \in ProductId |-> [type \in EventType |-> [n \in {} |-> 0]]]

TrackingStep ==
  \/ TrackingInitContract
  \/ \E id \in ProductId, type \in EventType : TrackingAddEvent(id, type)
  \/ SetMainPaused

TrackingNext ==
  \/ TrackingStep /\ UNCHANGED registry_vars
  \/ RegistryNext /\ UNCHANGED tracking_vars

TrackingSpec == TrackingInit /\ [][TrackingNext]_<<registry_vars, tracking_vars>>

------------------------------------------------------------------------------

\* A deactivated product gets no new tracking events (the doc comment of
\* deactivate_product: "Deactivation prevents new tracking events").
NoEventsWhileInactive ==
  [][\A id \in Registered :
       product_events'[id] # product_events[id] => products[id].active]_<<registry_vars, tracking_vars>>

==============================================================================
