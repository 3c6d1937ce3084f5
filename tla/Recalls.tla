------------------------------- MODULE Recalls -------------------------------
(***************************************************************************)
(* Recalls of the backend (services/recall.rs, handlers/recall.rs and the  *)
(* automatic recall of handlers/event.rs): a recall is opened by hand or   *)
(* by a failed quality check, the products that name its batch are written *)
(* down as affected, and notices are queued.  None of it is a transaction: *)
(* the steps interleave with those of Catalog, whose tables they read.     *)
(*                                                                         *)
(* The deltas of update_effectiveness are one counter's; recipients are    *)
(* not told apart.                                                         *)
(***************************************************************************)
EXTENDS Catalog

CONSTANT Delta  \* deltas of recovered_count that are asked for

ASSUME RecallsAssumption == Delta \subseteq Int

recallRest == <<productRow, productCopy, eventRows, statsCopy, lastEvent, troubles, tally>>

Opened(p, b) ==
  [product |-> p, batch |-> b, items |-> {}, notices |-> 0, effectiveness |-> FALSE,
   affected |-> 0, notified |-> 0, recovered |-> 0, finished |-> FALSE,
   named |-> {e.id : e \in Naming(b)}]

Stage(c, where) == request[c].at = where /\ request[c].op \in {"event", "recall", "notify"}

\* The recall of a call went with its product: the next insert breaks a foreign key.
Gone(c) == recalls[request[c].recall] = NoRecall

CreateRecallHandler(c, p, b) ==
  Call(c, [Quiet EXCEPT !.op = "recall", !.at = "open recall", !.product = p, !.batch = b])

NotifyRecall(c, r, recipients) ==
  /\ recalls[r] # NoRecall /\ recipients > 0
  /\ Call(c, [Quiet EXCEPT !.op = "notify", !.at = "queue notice", !.recall = r,
                           !.count = recipients])

\* The id of a new row is one that no row has and no call holds.
FreshRecall(r) == recalls[r] = NoRecall /\ \A c \in Client : request[c].recall # r

CreateRecall(c) ==
  LET call == request[c]
  IN  /\ Stage(c, "open recall")
      /\ IF productRow[call.product] = NoProduct THEN Return(c) /\ UNCHANGED recalls
         ELSE \E r \in RecallId :
                /\ FreshRecall(r)
                /\ recalls' = [recalls EXCEPT ![r] = Opened(call.product, call.batch)]
                /\ request' = [request EXCEPT ![c].at = "open counts", ![c].recall = r]
      /\ UNCHANGED recallRest

OpenCounts(c) ==
  /\ Stage(c, "open counts")
  /\ IF Gone(c) THEN Return(c) /\ UNCHANGED recalls
     ELSE /\ recalls' = [recalls EXCEPT ![request[c].recall].effectiveness = TRUE]
          /\ Goto(c, "identify")
  /\ UNCHANGED recallRest

\* Mutant: products whose events name the batch are forgotten.
AffectedByFields(b) ==
  {p \in CatalogProduct :
     productRow[p] # NoProduct /\ (b = NoBatchNamed \/ productRow[p].batch = b)}

\* The CTE: products whose fields or events name the batch; all, without one.
AffectedProducts(b) ==
  {p \in CatalogProduct :
     /\ productRow[p] # NoProduct
     /\ \/ b = NoBatchNamed
        \/ productRow[p].batch = b
        \/ \E e \in Naming(b) : e.product = p}

\* Without a batch the recall concerns its product alone.
Identified(p, b) == IF b = NoBatchNamed THEN AffectedProducts(b) \intersect {p} ELSE AffectedProducts(b)

IdentifyAffectedItems(c) ==
  LET r == request[c].recall
  IN  /\ Stage(c, "identify")
      /\ IF Gone(c) THEN Return(c) /\ UNCHANGED recalls
         ELSE /\ recalls' = [recalls EXCEPT ![r].items =
                               @ \union Identified(recalls[r].product, recalls[r].batch)]
              /\ Goto(c, "read items")
      /\ UNCHANGED recallRest

ReadItems(c) ==
  /\ Stage(c, "read items")
  /\ request' = [request EXCEPT ![c].at = "write affected",
                   ![c].count = IF Gone(c) THEN 0
                                ELSE Cardinality(recalls[request[c].recall].items)]
  /\ UNCHANGED recallRest /\ UNCHANGED recalls

\* An update of a row that is gone changes nothing and is no error.
Write(c, new) ==
  recalls' = IF Gone(c) THEN recalls ELSE [recalls EXCEPT ![request[c].recall] = new]

\* An automatic recall goes on to notify the actor and the owner it has seen.
WriteAffected(c) ==
  /\ Stage(c, "write affected")
  /\ Write(c, [recalls[request[c].recall] EXCEPT !.affected = request[c].count,
                 !.finished = request[c].op = "recall"])
  /\ IF request[c].op = "event"
     THEN request' = [request EXCEPT ![c].at = "queue notice", ![c].count = 2]
     ELSE Return(c)
  /\ UNCHANGED recallRest

QueueNotice(c) ==
  LET r == request[c].recall
  IN  /\ Stage(c, "queue notice")
      /\ IF Gone(c) THEN Return(c) /\ UNCHANGED recalls
         ELSE /\ recalls' = [recalls EXCEPT ![r].notices = @ + 1]
              /\ request' = [request EXCEPT ![c].count = @ - 1,
                               ![c].at = IF request[c].count = 1 THEN "read notices" ELSE @]
      /\ UNCHANGED recallRest

ReadNotices(c) ==
  /\ Stage(c, "read notices")
  /\ request' = [request EXCEPT ![c].at = "write notified",
                   ![c].count = IF Gone(c) THEN 0 ELSE recalls[request[c].recall].notices]
  /\ UNCHANGED recallRest /\ UNCHANGED recalls

WriteNotified(c) ==
  LET row == recalls[request[c].recall]
  IN  /\ Stage(c, "write notified")
      /\ Write(c, [row EXCEPT !.notified = request[c].count,
                     !.finished = @ \/ request[c].op = "event"])
      /\ Return(c)
      /\ UNCHANGED recallRest

\* GREATEST(0, count + delta), in one statement.
UpdateEffectiveness(c, r, delta) ==
  /\ request[c] = Quiet /\ started < MaxCalls /\ started' = started + 1
  /\ recalls[r] # NoRecall
  /\ recalls[r].effectiveness
  /\ recalls' = [recalls EXCEPT ![r].recovered = IF @ + delta < 0 THEN 0 ELSE @ + delta]
  /\ UNCHANGED <<productRow, productCopy, eventRows, statsCopy, request, lastEvent, troubles,
                 overlapped, accounts>>

RecallStep(c) ==
  \/ \E p \in CatalogProduct, b \in BatchName \union {NoBatchNamed} : CreateRecallHandler(c, p, b)
  \/ \E r \in RecallId : \/ \E n \in 1 .. 2 : NotifyRecall(c, r, n)
                         \/ \E delta \in Delta : UpdateEffectiveness(c, r, delta)
  \/ CreateRecall(c) \/ OpenCounts(c) \/ IdentifyAffectedItems(c) \/ ReadItems(c)
  \/ WriteAffected(c) \/ QueueNotice(c) \/ ReadNotices(c) \/ WriteNotified(c)

CatalogNext == Expire \/ AccountStep \/ \E c \in Client : CatalogStep(c) \/ RecallStep(c)

CatalogSpec == CatalogInit /\ [][CatalogNext]_catalogVars

------------------------------------------------------------------------------

ReachesNamed(r) ==
  recalls[r].finished /\ recalls[r].batch # NoBatchNamed
    => \A e \in eventRows : e.id \in recalls[r].named => e.product \in recalls[r].items

NotOverstated(r) == recalls[r].notified <= recalls[r].notices /\ recalls[r].recovered >= 0

(***************************************************************************)
(* A recall's row is true of its batch and of what was done.  It reaches   *)
(* what named the batch: when a failed quality check has had its recall    *)
(* opened and finished, or one was opened by hand, every product with an   *)
(* event that named the batch by then is among the affected items,         *)
(* whatever was deleted, synced or recorded meanwhile.  And its figures    *)
(* never claim more than there is: as many notices were queued as are      *)
(* counted, although notifications of one recall race, are dropped, and    *)
(* each writes what it read; and none falls below zero.                    *)
(***************************************************************************)
RecallRecordTrue ==
  \A r \in RecallId : recalls[r] # NoRecall => ReachesNamed(r) /\ NotOverstated(r)
=============================================================================
