------------------------------- MODULE Queries -------------------------------
(***************************************************************************)
(* What can be read of the event log: the event query, product query and   *)
(* statistics contracts (event_query.rs, product_query.rs, stats.rs), each *)
(* at an address of its own, and the main contract's own event API         *)
(* (contract.rs), whose pages are read off the same lists of ids.  A       *)
(* client walks the pages of one query while events are added.             *)
(*                                                                         *)
(* The time and the place of the n-th event are constants: the instance    *)
(* says when the ledgers close.                                            *)
(***************************************************************************)
EXTENDS Tracking, Filtering

CONSTANTS
  EventTime,     \* timestamp of the n-th event
  EventPlace,    \* its location
  PageLimits,    \* limits that clients ask for
  Filters,       \* filters that clients walk with
  MaxPageLimit   \* MAX_PAGE_LIMIT

\* u64::MAX, and the fields that mean "any".
Forever == -1
AnyType == "any"
AnyPlace == "anywhere"

ASSUME QueriesAssumption ==
  /\ EventTime \in [1 .. MaxEvents -> Nat]
  /\ \A n \in 1 .. MaxEvents - 1 : EventTime[n] <= EventTime[n + 1]
  /\ PageLimits \subseteq Nat
  /\ \A f \in Filters : f.from \in Nat
  /\ MaxPageLimit \in 0 .. 1000
  /\ AnyType \notin EventType

VARIABLES
  query_on,   \* the contracts whose init has been called
  reader      \* the walk of a client

query_vars == <<query_on, reader>>

NoReader == [state |-> "idle"]

Now == IF events = <<>> THEN 0 ELSE EventTime[Len(events)]

------------------------------------------------------------------------------
(* Init of the query contracts, once each. *)

EventQueryInit ==
  "event_query" \notin query_on /\ query_on' = query_on \union {"event_query"}

QueryInit == "product_query" \notin query_on /\ query_on' = query_on \union {"product_query"}

StatsInit == "stats" \notin query_on /\ query_on' = query_on \union {"stats"}

------------------------------------------------------------------------------
(* Pages. *)

EmptyPage(total_count) == [events |-> <<>>, total_count |-> total_count, has_more |-> FALSE]

ValidLimit(limit) == limit \in 1 .. MaxPageLimit

\* validate_time_range: an open end needs only a start that is not in the future.
ValidTimeRange(from, to) ==
  IF to = Forever THEN from <= Now ELSE from <= to /\ to <= Now

\* Mutant: off by one.
HasMoreButOne(offset, taken, total_count) == offset + taken + 1 < total_count

HasMore(offset, taken, total_count) == offset + taken < total_count

PageOf(ids, offset, limit) ==
  LET taken == SubSeq(ids, offset + 1, SmallerOf(offset + limit, Len(ids)))
  IN  IF offset >= Len(ids) THEN EmptyPage(Len(ids))
      ELSE [events |-> taken, total_count |-> Len(ids),
            has_more |-> HasMore(offset, Len(taken), Len(ids))]

\* A filter of the composite query; the others are special cases of it.
Matches(n, f) ==
  /\ f.type # AnyType => events[n].type = f.type
  /\ f.from > 0 => EventTime[n] >= f.from
  /\ f.to # Forever => EventTime[n] <= f.to
  /\ f.place # AnyPlace => EventPlace[n] = f.place

Passing(f) == {n \in 1 .. Len(events) : Matches(n, f)}

MatchingIds(id, f) == Kept(product_events[id], Passing(f))

EverythingOf == [type |-> AnyType, from |-> 0, to |-> Forever, place |-> AnyPlace]

\* ensure_product_exists: through the registry.
Readable(id) == "event_query" \in query_on /\ id \in Registered

\* An error of the call; 0 is the id of no event.
Refused == [EmptyPage(0) EXCEPT !.events = <<0>>]

\* A limit out of range is answered before anything else, by an empty page.
Answer(id, limit, valid, page) ==
  IF ~ValidLimit(limit) THEN EmptyPage(0)
  ELSE IF ~valid \/ ~Readable(id) THEN Refused ELSE page

QueryGetProductEvents(id, offset, limit) ==
  Answer(id, limit, TRUE, PageOf(product_events[id], offset, limit))

QueryGetEventsByType(id, type, offset, limit) ==
  Answer(id, limit, TRUE, PageOf(MatchingIds(id, [EverythingOf EXCEPT !.type = type]), offset, limit))

QueryGetEventsByTimeRange(id, from, to, offset, limit) ==
  Answer(id, limit, ValidTimeRange(from, to),
         PageOf(Kept(product_events[id],
                     {n \in 1 .. Len(events) :
                        EventTime[n] >= from /\ (to # Forever => EventTime[n] <= to)}),
                offset, limit))

QueryGetFilteredEvents(id, f, offset, limit) ==
  Answer(id, limit, (f.from > 0 \/ f.to # Forever) => ValidTimeRange(f.from, f.to),
         PageOf(MatchingIds(id, f), offset, limit))

QueryGetEventCount(id) == Len(product_events[id])

\* DataKey::EventTypeCount.
QueryGetEventCountByType(id, type) == Cardinality(DOMAIN type_index[id][type])

------------------------------------------------------------------------------
(* The main contract's API, were the log in its storage: a bad limit is an  *)
(* error, the ids of a page come from the storage's own pages.              *)

EventIdsPaginated(id, offset, limit) ==
  IF limit = 0 \/ limit > 1000 \/ offset >= Len(product_events[id]) THEN <<>>
  ELSE SubSeq(product_events[id], offset + 1,
              SmallerOf(offset + limit, Len(product_events[id])))

\* At most 100 ids, however many are asked for.
GetProductEventIdsPaginated(id, offset, limit) ==
  EventIdsPaginated(id, offset, SmallerOf(limit, 100))

MainPage(ids, offset, limit, total_count) ==
  IF ~ValidLimit(limit) THEN Refused
  ELSE [events |-> ids, total_count |-> total_count,
        has_more |-> HasMore(offset, Len(ids), total_count)]

GetProductEvents(id, offset, limit) ==
  MainPage(EventIdsPaginated(id, offset, limit), offset, limit, Len(product_events[id]))

GetEventsByType(id, type, offset, limit) ==
  MainPage(EventIdsByType(id, type, offset, limit), offset, limit, QueryGetEventCountByType(id, type))

GetEventsByTimeRange(id, from, to, offset, limit) ==
  IF ~ValidTimeRange(from, to) THEN Refused
  ELSE LET ids == MatchingIds(id, [EverythingOf EXCEPT !.from = from, !.to = to])
       IN  MainPage(SubSeq(ids, offset + 1, SmallerOf(offset + limit, Len(ids))),
                    offset, limit, Len(ids))

GetFilteredEvents(id, f, offset, limit) ==
  IF (f.from > 0 \/ f.to # Forever) /\ ~ValidTimeRange(f.from, f.to) THEN Refused
  ELSE LET ids == MatchingIds(id, f)
       IN  MainPage(SubSeq(ids, offset + 1, SmallerOf(offset + limit, Len(ids))),
                    offset, limit, Len(ids))

------------------------------------------------------------------------------
(* Products and statistics. *)

QueryProduct(id) == IF id \in Registered THEN products[id] ELSE "ProductNotFound"

QueryProductExists(id) == id \in Registered

QueryStats == [total |-> total, active |-> active]

GetInactiveProducts == IF active > total THEN 0 ELSE total - active

\* DataKey::EventSeq of the statistics contract's own storage, where no event is ever counted.
GetTotalEvents == 0

GetAverageEventsPerProduct == IF total = 0 THEN 0 ELSE GetTotalEvents \div total

GetProductStats(id) == <<QueryGetEventCount(id), products[id].active>>

CommonTypes == {"created", "shipped", "received", "transferred", "updated"}

GetEventTypeDistribution(id) ==
  {<<type, QueryGetEventCountByType(id, type)>> :
     type \in {t \in CommonTypes \intersect EventType : QueryGetEventCountByType(id, t) > 0}}

------------------------------------------------------------------------------
(* A client that reads a query page by page, on from the events it was      *)
(* given, while has_more says so.                                           *)

StartWalk(id, f, limit) ==
  /\ reader = NoReader
  /\ reader' = [state |-> "walking", product |-> id, filter |-> f, limit |-> limit,
                seen |-> <<>>, total_count |-> 0]

ReadPage ==
  /\ reader.state = "walking"
  /\ LET page == QueryGetFilteredEvents(reader.product, reader.filter, Len(reader.seen), reader.limit)
     IN  /\ page # Refused
         /\ reader' = [reader EXCEPT !.seen = @ \o page.events, !.total_count = page.total_count,
                                     !.state = IF page.has_more THEN "walking" ELSE "done"]

QueriesInit == TrackingInit /\ query_on = {} /\ reader = NoReader

QueriesStep ==
  \/ (EventQueryInit \/ QueryInit \/ StatsInit) /\ UNCHANGED reader
  \/ /\ \/ \E id \in ProductId, f \in Filters, limit \in PageLimits : StartWalk(id, f, limit)
        \/ ReadPage
     /\ UNCHANGED query_on

\* The contracts and a reader, on their own.
QueriesNext ==
  \/ TrackingNext /\ UNCHANGED query_vars
  \/ QueriesStep /\ UNCHANGED <<registry_vars, tracking_vars>>

QueriesSpec == QueriesInit /\ [][QueriesNext]_<<registry_vars, tracking_vars, query_vars>>

------------------------------------------------------------------------------

\* The log by its numbers, and what in it is of one product.
Numbers == [n \in 1 .. Len(events) |-> n]

OfProduct(id) == {n \in 1 .. Len(events) : events[n].product = id}

\* What a page should hold: the stretch of the log's matching events.
Stretch(id, f, offset, limit) ==
  LET log == Kept(Numbers, OfProduct(id) \intersect Passing(f))
  IN  SubSeq(log, offset + 1, SmallerOf(offset + limit, Len(log)))

(***************************************************************************)
(* Every page of every query of both contracts is its stretch of the log   *)
(* in the order of the events -- also where it is read off the type index, *)
(* the list of ids or the events one by one --, the two contracts page     *)
(* alike, and the counts of the statistics are those of the pages.         *)
(***************************************************************************)
PagesMatchLog ==
  query_on = {"event_query", "product_query", "stats"} => \A id \in ProductId, offset \in 0 .. MaxEvents + 1, limit \in PageLimits :
    LET Alike(theirs, ours, f) ==
          /\ Readable(id) /\ theirs # Refused => theirs.events = Stretch(id, f, offset, limit)
          /\ ValidLimit(limit) /\ Readable(id) => theirs = ours
    IN  /\ ValidLimit(limit) =>
             /\ Alike(QueryGetProductEvents(id, offset, limit),
                      GetProductEvents(id, offset, limit), EverythingOf)
             /\ \A type \in EventType :
                  Alike(QueryGetEventsByType(id, type, offset, limit),
                        GetEventsByType(id, type, offset, limit),
                        [EverythingOf EXCEPT !.type = type])
             /\ \A f \in Filters :
                  /\ Alike(QueryGetFilteredEvents(id, f, offset, limit),
                           GetFilteredEvents(id, f, offset, limit), f)
                  /\ Alike(QueryGetEventsByTimeRange(id, f.from, f.to, offset, limit),
                           GetEventsByTimeRange(id, f.from, f.to, offset, limit),
                           [EverythingOf EXCEPT !.from = f.from, !.to = f.to])
        /\ GetProductEventIdsPaginated(id, offset, limit)
             = Stretch(id, EverythingOf, offset, SmallerOf(limit, 100))
        /\ id \in Registered =>
             /\ GetProductStats(id)[1] = Len(Stretch(id, EverythingOf, 0, MaxEvents))
             /\ \A entry \in GetEventTypeDistribution(id) :
                  entry[2] = Len(Stretch(id, [EverythingOf EXCEPT !.type = entry[1]], 0, MaxEvents))
             /\ QueryProduct(id).active => QueryProductExists(id)
        /\ QueryStats.active + GetInactiveProducts = QueryStats.total

(***************************************************************************)
(* Nothing is skipped and nothing repeated by a client that reads page by  *)
(* page while events come in: when has_more tells it to stop it has seen,  *)
(* in order, as many matching events as its last page counted, each once.  *)
(***************************************************************************)
WalkSeesAll ==
  reader.state = "done" =>
    /\ Len(reader.seen) = reader.total_count
    /\ reader.seen = SubSeq(MatchingIds(reader.product, reader.filter), 1, Len(reader.seen))

==============================================================================
