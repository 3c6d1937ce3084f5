------------------------------ MODULE Listings ------------------------------
(***************************************************************************)
(* The backend's lists (handlers/product.rs, batch.rs, event.rs, carbon.rs,*)
(* recall.rs, compliance.rs and their services): a client asks for page    *)
(* after page, each a statement of its own with LIMIT and OFFSET, while    *)
(* rows come, change and go.  The statements are ordered by a time that    *)
(* rows may share, and rows that share it come in any order.               *)
(*                                                                         *)
(* One table stands behind the run's list.  A row is what it belongs to    *)
(* (owner, product, credit, user), its kind (category, status, type) and   *)
(* the time it is sorted by.                                               *)
(***************************************************************************)
EXTENDS Integers, Sequences, FiniteSets, Functions

CONSTANTS
  List,          \* names of the lists that are walked
  RowSort,       \* what rows belong to, and are: records of of and kind
  Filter,        \* the same with fields that are not given
  Instant,       \* times of rows, numbers
  Unasked,       \* a field of a filter that is not given
  RowLimit,      \* bound on rows ever written
  MaxWrites,     \* bound on writes
  Asked,         \* limits that are asked for: <<n>>, or <<>> for none
  DefaultLimit, CapLimit  \* a list's limit when none is asked for, and its highest

ListName == {"products", "search", "batches", "events", "events by type", "credits", "trades",
             "recalls", "audit logs", "footprints", "verifications", "reports", "devices"}

ASSUME ListingsAssumption ==
  /\ List \subseteq ListName /\ Instant \subseteq Int
  /\ \A asked \in Asked : asked = <<>> \/ asked[1] \in Int
  /\ {DefaultLimit, CapLimit, RowLimit} \subseteq Nat

VARIABLES
  list,     \* the list of the run
  rows,     \* its table: every row ever written, in order of their ids
  writes,   \* history: number of writes
  walk      \* the client: where it is, and what it has seen

listing_vars == <<list, rows, writes, walk>>

Subject == {s.of : s \in RowSort}
Kind == {s.kind : s \in RowSort}
There == {r \in DOMAIN rows : rows[r].there}

Wants(asked, has) == asked = Unasked \/ asked = has

------------------------------------------------------------------------------
(***************************************************************************)
(* WHERE of each list.                                                     *)
(***************************************************************************)

ListProducts(f) == {r \in There : Wants(f.of, rows[r].of) /\ Wants(f.kind, rows[r].kind)}
SearchProducts(f) == {r \in There : Wants(f.kind, rows[r].kind)}
ListBatches(f) == {r \in There : Wants(f.of, rows[r].of) /\ Wants(f.kind, rows[r].kind)}
ListEventsByProduct(f) == {r \in There : rows[r].of = f.of}
ListEventsByType(f) == {r \in There : rows[r].of = f.of /\ rows[r].kind = f.kind}
ListCredits(f) == {r \in There : rows[r].of = f.of /\ Wants(f.kind, rows[r].kind)}
ListMarketplace(f) == {r \in There : Wants(f.kind, rows[r].kind)}
ListRecallsByProduct(f) == {r \in There : rows[r].of = f.of}
AuditQuery(f) == {r \in There : Wants(f.of, rows[r].of) /\ Wants(f.kind, rows[r].kind)}
ListFootprints(f) == {r \in There : rows[r].of = f.of}
ListVerifications(f) == {r \in There : rows[r].of = f.of}
ListReports(f) == {r \in There : rows[r].of = f.of}
ListDevices(f) == {r \in There : Wants(f.of, rows[r].of) /\ Wants(f.kind, rows[r].kind)}

Matching(f) ==
  CASE list = "products" -> ListProducts(f)
    [] list = "search" -> SearchProducts(f)
    [] list = "batches" -> ListBatches(f)
    [] list = "events" -> ListEventsByProduct(f)
    [] list = "events by type" -> ListEventsByType(f)
    [] list = "credits" -> ListCredits(f)
    [] list = "trades" -> ListMarketplace(f)
    [] list = "recalls" -> ListRecallsByProduct(f)
    [] list = "audit logs" -> AuditQuery(f)
    [] list = "footprints" -> ListFootprints(f)
    [] list = "verifications" -> ListVerifications(f)
    [] list = "reports" -> ListReports(f)
    [] list = "devices" -> ListDevices(f)

\* A list by product has to be told which, one by type also the type.
Needed ==
  CASE list \in {"events", "credits", "recalls", "footprints", "verifications", "reports"} -> {"of"}
    [] list = "events by type" -> {"of", "kind"}
    [] OTHER -> {}
Askable == {f \in Filter : \A field \in Needed : f[field] # Unasked}

\* The statements beside a page that count the rows of the whole list.
CountProducts(f) == Cardinality(ListProducts(f))
CountBatches(f) == Cardinality(ListBatches(f))
CountEventsByProduct(f) == Cardinality(ListEventsByProduct(f))

CountsAll == list \in {"products", "batches", "events"}
Count(f) ==
  CASE list = "products" -> CountProducts(f)
    [] list = "batches" -> CountBatches(f)
    [] list = "events" -> CountEventsByProduct(f)

\* Lists without a LIMIT.
Unpaged == list \in {"footprints", "verifications", "reports", "devices"}

AtMost(n, bound) == IF n < bound THEN n ELSE bound

\* The LIMIT of a statement.  That of batches has no cap, that of the audit log a floor.
Limit(asked) ==
  LET n == IF asked = <<>> THEN DefaultLimit ELSE asked[1]
  IN  CASE Unpaged -> RowLimit + 1
        [] list = "batches" -> n
        [] list = "audit logs" -> IF n < 1 THEN 1 ELSE AtMost(n, CapLimit)
        [] OTHER -> AtMost(n, CapLimit)

\* Mutant: the answer names the limit that was asked for.
AnsweredAsAsked(asked) == IF asked = <<>> THEN DefaultLimit ELSE asked[1]

\* The limit the answer names, or that a client of the others has read of.
AnsweredLimit(asked) == Limit(asked)

\* ORDER BY ... DESC: any order of rows that share their time.  A search is by rank, and starts
\* over with every call.
Orders(S) == {s \in Injection(1 .. Cardinality(S), S) : \A i, j \in 1 .. Len(s) :
                 (i < j /\ list # "search") => rows[s[i]].at >= rows[s[j]].at}
Offset(n) == IF list = "search" THEN 0 ELSE n
Pages(f, offset, limit) ==
  {SubSeq(s, offset + 1, AtMost(offset + limit, Len(s))) : s \in Orders(Matching(f))}

------------------------------------------------------------------------------
(***************************************************************************)
(* The client's walk.                                                      *)
(***************************************************************************)

Asleep == [step |-> "idle", filter |-> [of |-> Unasked, kind |-> Unasked], asked |-> <<>>, offset |-> 0,
           page |-> <<>>, seen |-> {}, kept |-> {}, moved |-> FALSE]
Walking == walk.step \in {"page", "total"}

BeginWalk(f, asked) ==
  /\ walk = Asleep /\ rows # <<>>
  /\ IF Unpaged THEN asked = <<>> ELSE Limit(asked) > 0
  /\ walk' = [Asleep EXCEPT !.step = "page", !.filter = f, !.asked = asked, !.kept = Matching(f)]
  /\ UNCHANGED <<list, rows, writes>>

\* The client goes on where the page ended, until one is shorter than the limit it was told.
Turned(page) ==
  [walk EXCEPT !.step = IF Len(page) < AnsweredLimit(walk.asked) THEN "ended" ELSE "page",
               !.offset = Offset(@ + Len(page)), !.seen = @ \union Range(page), !.page = <<>>]

NextPage ==
  /\ walk.step = "page"
  /\ \E page \in Pages(walk.filter, walk.offset, Limit(walk.asked)) :
       walk' = IF CountsAll THEN [walk EXCEPT !.step = "total", !.page = page] ELSE Turned(page)
  /\ UNCHANGED <<list, rows, writes>>

\* Where the answer counts the whole list, its end is also where the count is reached.
ReadTotal ==
  /\ walk.step = "total"
  /\ LET turned == Turned(walk.page)
     IN  walk' = IF turned.offset >= Count(walk.filter) THEN [turned EXCEPT !.step = "ended"]
                 ELSE turned
  /\ UNCHANGED <<list, rows, writes>>

------------------------------------------------------------------------------
(***************************************************************************)
(* Writes by others.                                                       *)
(***************************************************************************)

\* Rows of the walk's list that the write took out of their places.
Displaced(new) ==
  {r \in Matching(walk.filter) : ~new[r].there \/ new[r].at # rows[r].at \/
     ~Wants(walk.filter.of, new[r].of) \/ ~Wants(walk.filter.kind, new[r].kind)}

\* Others move up when a row before one of them goes.
WriteRows(new) ==
  LET gone == IF Walking THEN Displaced(new) ELSE {}
      left == (IF Walking THEN Matching(walk.filter) ELSE {}) \ gone
  IN  /\ writes < MaxWrites /\ walk.step # "ended"
      /\ writes' = writes + 1
      /\ rows' = new
      /\ walk' = [walk EXCEPT !.kept = @ \ gone,
                    !.moved = @ \/ \E g \in gone, k \in left : rows[g].at >= rows[k].at]
      /\ UNCHANGED list

\* Events and batches bring the time they are sorted by; other rows are written now.
RowComes(sort, at) ==
  /\ Len(rows) < RowLimit
  /\ list \notin {"events", "events by type", "batches"} =>
       \A r \in DOMAIN rows : rows[r].at <= at
  /\ WriteRows(Append(rows, [there |-> TRUE, of |-> sort.of, kind |-> sort.kind, at |-> at]))

\* A product's category, a batch's, a credit's or a trade's status.
KindChanges(r, kind) ==
  /\ list \in {"products", "search", "batches", "credits", "trades"}
  /\ kind # rows[r].kind
  /\ WriteRows([rows EXCEPT ![r].kind = kind])

\* A product and a credit pass to another owner.
RowPasses(r, of) ==
  /\ list \in {"products", "search", "credits"}
  /\ of # rows[r].of
  /\ WriteRows([rows EXCEPT ![r].of = of])

\* update_batch writes the production date.
BatchRedated(r, at) == list = "batches" /\ at # rows[r].at /\ WriteRows([rows EXCEPT ![r].at = at])

Without(gone) == [r \in DOMAIN rows |-> [rows[r] EXCEPT !.there = @ /\ r \notin gone]]

RowDeleted(r) == list \in {"products", "search", "batches"} /\ WriteRows(Without({r}))

\* A product takes its events, recalls and footprints along.
ProductGoes(p) ==
  LET its == {r \in There : rows[r].of = p}
  IN  /\ list \in {"events", "events by type", "recalls", "footprints"} /\ its # {}
      /\ WriteRows(Without(its))

\* purge_expired: everything before a time.
AuditPurged(t) ==
  LET old == {r \in There : rows[r].at < t}
  IN  list = "audit logs" /\ old # {} /\ WriteRows(Without(old))

------------------------------------------------------------------------------

ListingsInit ==
  /\ list \in List
  /\ rows = <<>> /\ writes = 0 /\ walk = Asleep

ListingsNext ==
  \/ \E f \in Askable, asked \in Asked : BeginWalk(f, asked)
  \/ NextPage \/ ReadTotal
  \/ \E sort \in RowSort, at \in Instant : RowComes(sort, at)
  \/ \E r \in There, kind \in Kind : KindChanges(r, kind)
  \/ \E r \in There, of \in Subject : RowPasses(r, of)
  \/ \E r \in There, at \in Instant : BatchRedated(r, at)
  \/ \E r \in There : RowDeleted(r)
  \/ \E p \in Subject : ProductGoes(p)
  \/ \E t \in Instant : AuditPurged(t)

ListingsSpec == ListingsInit /\ [][ListingsNext]_listing_vars

------------------------------------------------------------------------------

\* A row whose place the order leaves open.
Tied(r) == \E s \in Matching(walk.filter) \ {r} : rows[s].at = rows[r].at

(***************************************************************************)
(* Whoever walks a list to its end has seen every row that matched from    *)
(* the beginning to the end, whatever rows came meanwhile, unless the order *)
(* leaves its place open or a row before one of the list left its place:   *)
(* then later ones move up and are passed over.  Neither the audit log's   *)
(* purge nor a product that takes its rows along does that.                *)
(***************************************************************************)
WalkMissesNothing ==
  walk.step = "ended" /\ ~walk.moved => \A r \in walk.kept \ walk.seen : Tied(r)

==============================================================================
