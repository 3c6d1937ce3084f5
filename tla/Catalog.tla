------------------------------- MODULE Catalog -------------------------------
(***************************************************************************)
(* Products and events of the backend (services/product.rs, event.rs,      *)
(* sync.rs and their handlers), and the numbers of users and API keys that *)
(* the global figures count: rows in PostgreSQL, copies of products and    *)
(* of the global figures in Redis.  A read takes the copy or else the row, *)
(* and leaves a copy; a write changes the row and drops the copies.  Every *)
(* statement and every Redis call is an action: calls interleave, a Redis  *)
(* call may fail unnoticed, and a call may be dropped between two of them. *)
(*                                                                         *)
(* A product is its owner and the batch its custom fields name; an event   *)
(* is its product, the batch its metadata names and whether it is a        *)
(* quality check that failed.  Lists and pages are in Listings.            *)
(***************************************************************************)
EXTENDS Integers, FiniteSets

CONSTANTS
  Client, CatalogProduct,
  Owner, OwnedByNone,
  BatchName, NoBatchNamed,
  RecallId,      \* recalls that are opened (module Recalls)
  MaxCalls,      \* bound on calls
  MaxTroubles    \* bound on Redis calls that fail and calls that are dropped

ASSUME CatalogAssumption == OwnedByNone \notin Owner

VARIABLES
  productRow,    \* products: the row of each, or NoProduct
  productCopy,   \* cache:product:<id>
  eventRows,     \* tracking_events
  accounts,      \* how many users there are, and how many active API keys
  statsCopy,     \* cache:global_stats
  request,       \* the call each client has in flight
  started,       \* calls so far
  lastEvent,     \* the serial id of the last event
  troubles,      \* Redis calls that failed and calls that were dropped
  overlapped,    \* history: two calls that were in flight together
  recalls        \* recalls with what hangs on them (module Recalls)

catalogVars == <<productRow, productCopy, eventRows, accounts, statsCopy, request, started,
                 lastEvent, troubles, overlapped, recalls>>

\* What a call that is under way leaves alone.
tally == <<started, overlapped, accounts>>

NoProduct == [owner |-> OwnedByNone, batch |-> NoBatchNamed]
ProductRows == [owner : Owner, batch : BatchName \union {NoBatchNamed}]
NoCount == [products |-> 0, events |-> MaxCalls + 1, users |-> 0, keys |-> 0]
NoRecall == [product |-> "none"]

\* get_global_stats; which of the products are active is left out.
Figures ==
  [products |-> Cardinality({p \in CatalogProduct : productRow[p] # NoProduct}),
   events |-> Cardinality(eventRows),
   users |-> accounts.users, keys |-> accounts.keys]

------------------------------------------------------------------------------
(* Calls.  at names the statement that comes next.                         *)

Quiet == [op |-> "none", at |-> "none", product |-> "none", seen |-> NoProduct,
          new |-> NoProduct, failed |-> FALSE, batch |-> NoBatchNamed,
          figures |-> NoCount, recall |-> "none", count |-> 0]

Goto(c, where) == request' = [request EXCEPT ![c].at = where]
Return(c) == request' = [request EXCEPT ![c] = Quiet]

Call(c, new) ==
  /\ request[c] = Quiet /\ started < MaxCalls /\ started' = started + 1
  /\ request' = [request EXCEPT ![c] = new]
  /\ overlapped' = (overlapped \/ \E d \in Client : request[d] # Quiet)
  /\ UNCHANGED <<productRow, productCopy, eventRows, accounts, statsCopy, lastEvent, troubles,
                 recalls>>

Trouble == troubles < MaxTroubles /\ troubles' = troubles + 1

\* let _: Result<(), _> = conn.del(..), set_ex(..): done, or not and nobody told.
Redis(copy, new) ==
  \/ copy' = new /\ UNCHANGED troubles
  \/ Trouble /\ UNCHANGED copy

\* The handlers of create and update ask a request they have just built for
\* its AuthContext: 401, whoever calls.  Rows come from the contract's sync.
HasContext(op) == op \notin {"create", "update"}

ProductCall(c, op, p) ==
  /\ op \in {"get", "delete", "create", "update"} /\ HasContext(op)
  /\ Call(c, [Quiet EXCEPT !.op = op, !.at = "look up", !.product = p])

SyncProduct(c, p, new) ==
  Call(c, [Quiet EXCEPT !.op = "sync", !.at = "look up", !.product = p, !.new = new])

CreateEvent(c, p, b, failed) ==
  Call(c, [Quiet EXCEPT !.op = "event", !.at = "insert event", !.product = p, !.batch = b,
                        !.failed = failed])

GetGlobalStats(c) == Call(c, [Quiet EXCEPT !.op = "stats", !.at = "look up stats"])

------------------------------------------------------------------------------
(* get_product, which every call but create_event starts with.             *)

\* Where a call goes on when it has the product, or knows there is none.
Afterwards(op, seen) ==
  CASE op = "sync" -> IF seen = NoProduct THEN "insert" ELSE "update"
    [] op = "delete" /\ seen # NoProduct -> "delete"
    [] op = "event" /\ seen # NoProduct -> "open recall"
    [] OTHER -> "return"

Proceed(c, seen) ==
  LET next == Afterwards(request[c].op, seen)
  IN  IF next = "return" THEN Return(c)
      ELSE request' = [request EXCEPT ![c].at = next, ![c].seen = seen]

LookUp(c) ==
  /\ request[c].at = "look up"
  /\ LET copy == productCopy[request[c].product]
     IN  \/ copy # NoProduct /\ Proceed(c, copy) /\ UNCHANGED troubles
         \/ copy = NoProduct /\ Goto(c, "select") /\ UNCHANGED troubles
         \/ Trouble /\ Goto(c, "select")
  /\ UNCHANGED <<productRow, productCopy, eventRows, statsCopy, tally, lastEvent, recalls>>

Select(c) ==
  /\ request[c].at = "select"
  /\ LET row == productRow[request[c].product]
     IN  IF row = NoProduct THEN Proceed(c, row)
         ELSE request' = [request EXCEPT ![c].at = "leave copy", ![c].seen = row]
  /\ UNCHANGED <<productRow, productCopy, eventRows, statsCopy, tally, lastEvent, troubles,
                 recalls>>

LeaveCopy(c) ==
  /\ request[c].at = "leave copy"
  /\ Redis(productCopy, [productCopy EXCEPT ![request[c].product] = request[c].seen])
  /\ Proceed(c, request[c].seen)
  /\ UNCHANGED <<productRow, eventRows, statsCopy, tally, lastEvent, recalls>>

------------------------------------------------------------------------------
(* Writes.                                                                 *)

\* Mutant: a write leaves the copy of the product where it is.
DropStatsOnly(op) == "drop stats"

\* What a write drops first: a new product has no copy.
DropFirst(op) == IF op = "insert" THEN "drop stats" ELSE "drop copy"

\* A taken key, or an update of a row that is gone, is an error.
SyncWrite(c) ==
  LET p == request[c].product
  IN  /\ request[c].at \in {"insert", "update"}
      /\ IF (request[c].at = "insert") = (productRow[p] = NoProduct)
         THEN /\ productRow' = [productRow EXCEPT ![p] = request[c].new]
              /\ Goto(c, DropFirst(request[c].at))
         ELSE Return(c) /\ UNCHANGED productRow
  /\ UNCHANGED <<productCopy, eventRows, statsCopy, tally, lastEvent, troubles, recalls>>

\* ON DELETE CASCADE: events, recalls and affected items go with the product,
\* while a recall of another product stays.
WithoutProduct(p) ==
  [r \in RecallId |->
     IF recalls[r] = NoRecall THEN NoRecall
     ELSE IF recalls[r].product = p THEN NoRecall
     ELSE [recalls[r] EXCEPT !.items = @ \ {p}]]

DeleteProduct(c) ==
  LET p == request[c].product
  IN  /\ request[c].at = "delete"
      /\ productRow' = [productRow EXCEPT ![p] = NoProduct]
      /\ eventRows' = {e \in eventRows : e.product # p}
      /\ recalls' = WithoutProduct(p)
      /\ Goto(c, DropFirst("delete"))
      /\ UNCHANGED <<productCopy, statsCopy, tally, lastEvent, troubles>>

DropCopy(c) ==
  /\ request[c].at = "drop copy"
  /\ Redis(productCopy, [productCopy EXCEPT ![request[c].product] = NoProduct])
  /\ Goto(c, "drop stats")
  /\ UNCHANGED <<productRow, eventRows, statsCopy, tally, lastEvent, recalls>>

Naming(b) == {e \in eventRows : e.batch = b}

\* The foreign key: no event of a product that has no row.
InsertEvent(c) ==
  LET call == request[c]
  IN  /\ call.at = "insert event"
      /\ IF productRow[call.product] = NoProduct
         THEN Return(c) /\ UNCHANGED <<eventRows, lastEvent>>
         ELSE /\ lastEvent' = lastEvent + 1
              /\ eventRows' = eventRows \union
                   {[id |-> lastEvent + 1, product |-> call.product, batch |-> call.batch]}
              /\ request' = [request EXCEPT ![c].at = "drop stats"]
      /\ UNCHANGED <<productRow, productCopy, statsCopy, tally, troubles, recalls>>

\* The end of a write; a failed quality check goes on to look up its product.
DropStats(c) ==
  /\ request[c].at = "drop stats"
  /\ Redis(statsCopy, NoCount)
  /\ IF request[c].failed THEN Goto(c, "look up") ELSE Return(c)
  /\ UNCHANGED <<productRow, productCopy, eventRows, tally, lastEvent, recalls>>

------------------------------------------------------------------------------
(* get_global_stats.                                                       *)

LookUpStats(c) ==
  /\ request[c].at = "look up stats"
  /\ \/ statsCopy # NoCount /\ Return(c) /\ UNCHANGED troubles
     \/ statsCopy = NoCount /\ Goto(c, "count") /\ UNCHANGED troubles
     \/ Trouble /\ Goto(c, "count")
  /\ UNCHANGED <<productRow, productCopy, eventRows, statsCopy, tally, lastEvent, recalls>>

CountStats(c) ==
  /\ request[c].at = "count"
  /\ request' = [request EXCEPT ![c].at = "leave stats", ![c].figures = Figures]
  /\ UNCHANGED <<productRow, productCopy, eventRows, statsCopy, tally, lastEvent, troubles,
                 recalls>>

LeaveStats(c) ==
  /\ request[c].at = "leave stats"
  /\ Redis(statsCopy, request[c].figures)
  /\ Return(c)
  /\ UNCHANGED <<productRow, productCopy, eventRows, tally, lastEvent, recalls>>

------------------------------------------------------------------------------
(* Users and API keys: each call is one statement.  None drops the copy of *)
(* the figures that counts them.                                           *)

AccountCall(new) ==
  /\ started < MaxCalls /\ started' = started + 1
  /\ accounts' = new
  /\ UNCHANGED <<productRow, productCopy, eventRows, statsCopy, request, lastEvent, troubles,
                 overlapped, recalls>>

\* No statement deletes a user.
CreateUser == AccountCall([accounts EXCEPT !.users = @ + 1])

CreateApiKey == AccountCall([accounts EXCEPT !.keys = @ + 1])

\* revoke_api_key one, disable_inactive_keys any number.
DisableKeys == \E n \in 0 .. accounts.keys : AccountCall([accounts EXCEPT !.keys = n])

AccountStep == CreateUser \/ CreateApiKey \/ DisableKeys

------------------------------------------------------------------------------

\* An hour for a product, five minutes for the figures.
Expire ==
  /\ \/ \E p \in CatalogProduct :
          /\ productCopy[p] # NoProduct
          /\ productCopy' = [productCopy EXCEPT ![p] = NoProduct] /\ UNCHANGED statsCopy
     \/ statsCopy # NoCount /\ statsCopy' = NoCount /\ UNCHANGED productCopy
  /\ UNCHANGED <<productRow, eventRows, request, tally, lastEvent, troubles, recalls>>

\* The server drops the call of a client that has gone.
Dropped(c) ==
  /\ request[c] # Quiet /\ Trouble /\ Return(c)
  /\ UNCHANGED <<productRow, productCopy, eventRows, statsCopy, tally, lastEvent, recalls>>

\* Some rows, at most one event, one user with one key, and no copies.
CatalogInit ==
  /\ productRow \in [CatalogProduct -> ProductRows \union {NoProduct}]
  /\ productCopy = [p \in CatalogProduct |-> NoProduct]
  /\ \/ eventRows = {}
     \/ \E p \in CatalogProduct, b \in BatchName :
          productRow[p] # NoProduct /\ eventRows = {[id |-> 0, product |-> p, batch |-> b]}
  /\ accounts = [users |-> 1, keys |-> 1]
  /\ statsCopy = NoCount /\ lastEvent = 0 /\ started = 0
  /\ request = [c \in Client |-> Quiet] /\ troubles = 0 /\ overlapped = FALSE
  /\ recalls = [r \in RecallId |-> NoRecall]

CatalogStep(c) ==
  \/ \E p \in CatalogProduct :
       \/ \E op \in {"get", "delete"} : ProductCall(c, op, p)
       \/ \E new \in ProductRows : SyncProduct(c, p, new)
       \/ \E b \in BatchName \union {NoBatchNamed}, failed \in BOOLEAN : CreateEvent(c, p, b, failed)
  \/ GetGlobalStats(c)
  \/ LookUp(c) \/ Select(c) \/ LeaveCopy(c)
  \/ SyncWrite(c) \/ DeleteProduct(c) \/ DropCopy(c) \/ InsertEvent(c) \/ DropStats(c)
  \/ LookUpStats(c) \/ CountStats(c) \/ LeaveStats(c)
  \/ Dropped(c)

------------------------------------------------------------------------------

(***************************************************************************)
(* What is read is current: as long as no two calls overlap, none is       *)
(* dropped and Redis answers, a copy of a product that no call is about to *)
(* drop says what the tables say, after any sequence of reads, syncs,      *)
(* deletions and events; and so do the numbers of products and events in   *)
(* the copy of the figures.  The number of users in that copy may lag but  *)
(* not lead; of the number of active keys nothing holds until it expires.  *)
(***************************************************************************)
SerialReadsCurrent ==
  ~overlapped /\ troubles = 0 /\ (\A c \in Client : request[c] = Quiet)
    => /\ \A p \in CatalogProduct : productCopy[p] \in {NoProduct, productRow[p]}
       /\ statsCopy # NoCount => /\ statsCopy.products = Figures.products
                                 /\ statsCopy.events = Figures.events
                                 /\ statsCopy.users <= Figures.users
=============================================================================
