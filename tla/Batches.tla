------------------------------- MODULE Batches -------------------------------
(***************************************************************************)
(* Batches of the backend (services/batch_service.rs, handlers/batch.rs):  *)
(* rows with a copy in Redis, the genealogy between them, and what hangs   *)
(* on a batch: quality attributes, recalls, inventory.  As in Catalog each *)
(* statement is an action and a Redis call may fail; an update writes the  *)
(* row its caller sends.  Lists and pages are in Listings.                 *)
(*                                                                         *)
(* A row is its number and its status; an attribute is what was measured   *)
(* and whether it is within the tolerances; quantities are left out.       *)
(***************************************************************************)
EXTENDS Integers, FiniteSets

CONSTANTS
  BatchId, BatchNumber, NoNumber,
  BatchStatus,    \* statuses a row is written with
  BatchClient,
  Tolerance,      \* <<min, max>>, or <<>> when one of them is not given
  Measured,       \* values that are measured
  MaxBatchCalls,  \* bound on calls
  MaxBatchTroubles  \* bound on Redis calls that fail and calls that are dropped

VARIABLES
  batchRow,      \* batches: the row of each, or NoBatchRow
  batchCopy,     \* cache:batch:<id>
  genealogy,     \* batch_genealogy: <<parent, child>>
  attributes,    \* batch_quality_attributes
  batchRecalls,  \* batch_recalls: the status of the one of a batch, or "none"
  inventory,     \* batch_inventory: batches with a transaction
  batchCall,     \* the call each client has in flight
  batchTally     \* calls, troubles; history: two calls overlapped, a product was deleted

batchVars == <<batchRow, batchCopy, genealogy, attributes, batchRecalls, inventory, batchCall,
               batchTally>>
hanging == <<genealogy, attributes, batchRecalls, inventory>>

NoBatchRow == [number |-> NoNumber, status |-> "none"]
Existing == {b \in BatchId : batchRow[b] # NoBatchRow}

\* UNIQUE (batch_number), and get_batch_by_number.
ByNumber(n) == {b \in Existing : batchRow[b].number = n}

Resting == [op |-> "none", at |-> "none", batch |-> "none", row |-> NoBatchRow, left |-> {}]

------------------------------------------------------------------------------

Counted ==
  /\ batchTally.calls < MaxBatchCalls
  /\ batchTally' = [batchTally EXCEPT !.calls = @ + 1,
                      !.overlap = @ \/ \E d \in BatchClient : batchCall[d] # Resting]

BatchTrouble ==
  /\ batchTally.troubles < MaxBatchTroubles
  /\ batchTally' = [batchTally EXCEPT !.troubles = @ + 1]

BatchCallBegins(c, op, at, b, row) ==
  /\ batchCall[c] = Resting /\ Counted
  /\ batchCall' = [batchCall EXCEPT ![c] =
                     [op |-> op, at |-> at, batch |-> b, row |-> row, left |-> {}]]
  /\ UNCHANGED <<batchRow, batchCopy>> /\ UNCHANGED hanging

BatchAnswers(c) == batchCall' = [batchCall EXCEPT ![c] = Resting]
BatchStep(c, at) == batchCall' = [batchCall EXCEPT ![c].at = at]

BatchRedis(new) ==
  \/ batchCopy' = new /\ UNCHANGED batchTally
  \/ BatchTrouble /\ UNCHANGED batchCopy

CreateBatch(b, row) ==
  /\ Counted
  /\ b \notin Existing /\ ByNumber(row.number) = {}
  /\ batchRow' = [batchRow EXCEPT ![b] = row]
  /\ UNCHANGED <<batchCopy, batchCall>> /\ UNCHANGED hanging

GetBatch(c, b) == BatchCallBegins(c, "get", "read copy", b, NoBatchRow)
GetGenealogyTree(c, b) == BatchCallBegins(c, "tree", "read copy", b, NoBatchRow)

\* get_batch_parents and get_batch_children, which get each batch they name.
Relatives(b) == {r \in BatchId : <<r, b>> \in genealogy \/ <<b, r>> \in genealogy}

\* A get answers; a tree goes on with the relatives of a batch it has found.
Have(c, row) ==
  LET call == batchCall[c]
      left == IF call.op = "tree" /\ row # NoBatchRow THEN Relatives(call.batch) ELSE call.left
  IN  IF left = {} THEN BatchAnswers(c)
      ELSE \E r \in left :
             batchCall' = [batchCall EXCEPT ![c] =
               [op |-> "relatives", at |-> "read copy", batch |-> r, row |-> NoBatchRow,
                left |-> left \ {r}]]

ReadCopy(c) ==
  LET copy == batchCopy[batchCall[c].batch]
  IN  /\ batchCall[c].at = "read copy"
      /\ \/ copy # NoBatchRow /\ Have(c, copy) /\ UNCHANGED batchTally
         \/ copy = NoBatchRow /\ BatchStep(c, "read row") /\ UNCHANGED batchTally
         \/ BatchTrouble /\ BatchStep(c, "read row")
      /\ UNCHANGED <<batchRow, batchCopy>> /\ UNCHANGED hanging

ReadRow(c) ==
  LET row == batchRow[batchCall[c].batch]
  IN  /\ batchCall[c].at = "read row"
      /\ IF row = NoBatchRow THEN Have(c, row)
         ELSE batchCall' = [batchCall EXCEPT ![c].at = "write copy", ![c].row = row]
      /\ UNCHANGED <<batchRow, batchCopy, batchTally>> /\ UNCHANGED hanging

WriteCopy(c) ==
  /\ batchCall[c].at = "write copy"
  /\ BatchRedis([batchCopy EXCEPT ![batchCall[c].batch] = batchCall[c].row])
  /\ Have(c, batchCall[c].row)
  /\ UNCHANGED batchRow /\ UNCHANGED hanging

UpdateBatch(c, b, row) == BatchCallBegins(c, "update", "write row", b, row)
DeleteBatch(c, b) == BatchCallBegins(c, "delete", "write row", b, NoBatchRow)

\* Mutant: only a deletion drops the copy.
InvalidatesDeleted(op) == op = "delete"

Invalidates(op) == op \in {"update", "delete"}

\* ON DELETE CASCADE of what refers to the batches gone.
CascadeFrom(gone) ==
  /\ genealogy' = {g \in genealogy : g[1] \notin gone /\ g[2] \notin gone}
  /\ attributes' = {a \in attributes : a.batch \notin gone}
  /\ batchRecalls' = [b \in BatchId |-> IF b \in gone THEN "none" ELSE batchRecalls[b]]
  /\ inventory' = inventory \ gone

\* An update of a row that is gone, or to a number that is taken, is an error.
WriteRow(c) ==
  LET call == batchCall[c]
      fails == call.op = "update"
                 /\ (call.batch \notin Existing \/ ByNumber(call.row.number) \ {call.batch} # {})
  IN  /\ call.at = "write row"
      /\ IF fails THEN BatchAnswers(c) /\ UNCHANGED batchRow /\ UNCHANGED hanging
         ELSE /\ batchRow' = [batchRow EXCEPT ![call.batch] = call.row]
              /\ IF call.op = "delete" THEN CascadeFrom({call.batch}) ELSE UNCHANGED hanging
              /\ IF Invalidates(call.op) THEN BatchStep(c, "drop copy") ELSE BatchAnswers(c)
      /\ UNCHANGED <<batchCopy, batchTally>>

InvalidateBatchCache(c) ==
  /\ batchCall[c].at = "drop copy"
  /\ BatchRedis([batchCopy EXCEPT ![batchCall[c].batch] = NoBatchRow])
  /\ BatchAnswers(c)
  /\ UNCHANGED batchRow /\ UNCHANGED hanging

\* DELETE FROM products: its batches go, and nobody drops their copies.
ProductDeleted(gone) ==
  /\ gone # {} /\ gone \subseteq Existing /\ ~batchTally.cascade
  /\ batchRow' = [b \in BatchId |-> IF b \in gone THEN NoBatchRow ELSE batchRow[b]]
  /\ CascadeFrom(gone)
  /\ batchTally' = [batchTally EXCEPT !.cascade = TRUE]
  /\ UNCHANGED <<batchCopy, batchCall>>

BatchExpires(b) ==
  /\ batchCopy[b] # NoBatchRow
  /\ batchCopy' = [batchCopy EXCEPT ![b] = NoBatchRow]
  /\ UNCHANGED <<batchRow, batchCall, batchTally>> /\ UNCHANGED hanging

BatchDropped(c) ==
  /\ batchCall[c] # Resting /\ BatchTrouble /\ BatchAnswers(c)
  /\ UNCHANGED <<batchRow, batchCopy>> /\ UNCHANGED hanging

------------------------------------------------------------------------------
(* What hangs on a batch: one insert or update each.                       *)

CreateGenealogy(b, child) ==
  /\ {b, child} \subseteq Existing /\ <<b, child>> \notin genealogy /\ Counted
  /\ genealogy' = genealogy \union {<<b, child>>}
  /\ UNCHANGED <<batchRow, batchCopy, attributes, batchRecalls, inventory, batchCall>>

WithinTolerance(value, t) == t = <<>> \/ (t[1] <= value /\ value <= t[2])

CreateQualityAttribute(b, value, t) ==
  /\ b \in Existing /\ Counted
  /\ attributes' = attributes \union
       {[batch |-> b, value |-> value, tolerance |-> t, within |-> WithinTolerance(value, t)]}
  /\ UNCHANGED <<batchRow, batchCopy, genealogy, batchRecalls, inventory, batchCall>>

\* The flag is stored as it was sent.
UpdateQualityAttribute(a, value, within) ==
  /\ a \in attributes /\ Counted
  /\ attributes' = (attributes \ {a}) \union {[a EXCEPT !.value = value, !.within = within]}
  /\ UNCHANGED <<batchRow, batchCopy, genealogy, batchRecalls, inventory, batchCall>>

CreateBatchRecall(b) ==
  /\ b \in Existing /\ batchRecalls[b] = "none" /\ Counted
  /\ batchRecalls' = [batchRecalls EXCEPT ![b] = "active"]
  /\ UNCHANGED <<batchRow, batchCopy, genealogy, attributes, inventory, batchCall>>

UpdateBatchRecall(b, status) ==
  /\ batchRecalls[b] # "none" /\ Counted
  /\ batchRecalls' = [batchRecalls EXCEPT ![b] = status]
  /\ UNCHANGED <<batchRow, batchCopy, genealogy, attributes, inventory, batchCall>>

CreateInventoryTransaction(b) ==
  /\ b \in Existing \ inventory /\ Counted
  /\ inventory' = inventory \union {b}
  /\ UNCHANGED <<batchRow, batchCopy, genealogy, attributes, batchRecalls, batchCall>>

\* Some rows and some genealogy between them; copies have expired.
BatchesInit ==
  /\ batchRow \in [BatchId -> [number : BatchNumber, status : BatchStatus] \union {NoBatchRow}]
  /\ \A b \in Existing : ByNumber(batchRow[b].number) = {b}
  /\ genealogy \in {{}, Existing \X Existing}
  /\ batchCopy = [b \in BatchId |-> NoBatchRow]
  /\ attributes = {} /\ inventory = {} /\ batchRecalls = [b \in BatchId |-> "none"]
  /\ batchCall = [c \in BatchClient |-> Resting]
  /\ batchTally = [calls |-> 0, troubles |-> 0, overlap |-> FALSE, cascade |-> FALSE]

BatchesNext ==
  \/ \E c \in BatchClient :
       \/ ReadCopy(c) \/ ReadRow(c) \/ WriteCopy(c) \/ WriteRow(c) \/ InvalidateBatchCache(c)
       \/ BatchDropped(c)
       \/ \E b \in BatchId :
            \/ GetBatch(c, b) \/ GetGenealogyTree(c, b) \/ DeleteBatch(c, b)
            \/ \E n \in BatchNumber, s \in BatchStatus :
                 UpdateBatch(c, b, [number |-> n, status |-> s])
  \/ \E gone \in SUBSET BatchId : ProductDeleted(gone)
  \/ \E b \in BatchId :
       \/ BatchExpires(b) \/ CreateBatchRecall(b) \/ CreateInventoryTransaction(b)
       \/ \E n \in BatchNumber, s \in BatchStatus : CreateBatch(b, [number |-> n, status |-> s])
       \/ \E child \in BatchId : CreateGenealogy(b, child)
       \/ \E v \in Measured, t \in Tolerance : CreateQualityAttribute(b, v, t)
       \/ \E s \in {"active", "completed"} : UpdateBatchRecall(b, s)
  \/ \E a \in attributes, v \in Measured, w \in BOOLEAN : UpdateQualityAttribute(a, v, w)

BatchesSpec == BatchesInit /\ [][BatchesNext]_batchVars

------------------------------------------------------------------------------

(***************************************************************************)
(* As long as no two calls overlap, none is dropped and Redis answers, a   *)
(* copy of a batch is its row once no call is in flight, also after a      *)
(* tree has read the relatives -- unless a product was deleted, whose      *)
(* batches stay in the cache (delete_product drops the product's only).    *)
(***************************************************************************)
SerialBatchesCurrent ==
  /\ ~batchTally.overlap /\ batchTally.troubles = 0 /\ ~batchTally.cascade
  /\ \A c \in BatchClient : batchCall[c] = Resting
  => \A b \in BatchId : batchCopy[b] \in {NoBatchRow, batchRow[b]}
=============================================================================
