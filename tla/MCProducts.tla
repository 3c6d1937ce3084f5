------------------------------ MODULE MCProducts ------------------------------
(***************************************************************************)
(* Small instances of what is kept about products, on chain and off, for   *)
(* TLC.  The run has parts, which share nothing but time: in one products  *)
(* change hands, in another events are recorded and read; the audit        *)
(* trail's and the quality control contract's; and the backend's products, *)
(* events and recalls, and its batches.                                    *)
(***************************************************************************)
EXTENDS Queries, RingSignature, QualityControl, Recalls, Batches, Listings, TLC

CONSTANTS p1, p2, alice, bob, carol, coffee, none, short, no_batch

VARIABLE part

\* Accounts and clients of the backend; rows of the backend.
Alike == Permutations(Client) \union Permutations(CatalogProduct)

\* Two fields with the same word, and one too short to be indexed.
SomeConfigs == {[name |-> coffee, origin |-> short, category |-> coffee]}

\* A batch that names a product twice.
SomeBatches == {<<p1, p2, p1>>}

\* The second and third event are in one ledger.
LedgerTimes == <<1, 2, 2>>
Places == <<"port", "depot", "port">>

SomeFilters == {EverythingOf,
  [EverythingOf EXCEPT !.type = "shipped", !.place = "port", !.from = 2],
  [EverythingOf EXCEPT !.from = 1, !.to = 1]}

\* Two rings, one with a member twice, one with a point off the subgroup.
SomeRings == {<<2, 5>>, <<5, 2, 3>>, <<2, 2>>, <<2, 8000>>}

\* No two rings and statements of this instance share a hash: the last digit to base 8 tells
\* them apart, and there are 989 scalars below 7919 to each.
RingDigit(r) == CASE r[2] = 5 -> 0 [] r[2] = 8000 -> 1 [] Len(r) = 3 -> 2 [] OTHER -> 3
SomeHash(r, m, l) == 8 * ((31 * l * l + 509 * m * l + 13) % 989) + 2 * RingDigit(r) + (m % 2)

\* A deep freezer.
SomeValues == {-20, -19, 7}
SomeBands == {<<1000, 1000>>, <<-18, 5>>}

\* Items recovered, or found to be missing after all.
Deltas == {-1, 1}

\* An attribute without tolerances, and one that is measured out of them.
SomeTolerances == {<<>>, <<1, 5>>}

\* Two of one owner, of two kinds, and one of another.
SomeSorts == {[of |-> 1, kind |-> 1], [of |-> 1, kind |-> 2], [of |-> 2, kind |-> 1]}
SomeAsking == [of : {0, 1}, kind : {0, 1}]
SomeAsked == {<<>>, <<0>>, <<3>>}

\* A part that is not the run's stands still, at one of its initial states.
MCInit ==
  /\ part \in {"products", "events", "audit trail", "quality", "catalog", "batches", "lists"}
  /\ QueriesInit /\ RingInit /\ QualityInit /\ CatalogInit /\ BatchesInit
  /\ ListingsInit
  /\ part # "lists" => list = "products"
  /\ part # "catalog" => productRow = [p \in CatalogProduct |-> NoProduct]
  /\ part # "batches" => batchRow = [b \in BatchId |-> NoBatchRow] /\ genealogy = {}

\* Enough of the registry for a product to be there, and to be deactivated.
Deploy ==
  \/ ConfigureInitializer \/ ConfigureAuthContract
  \/ \E a \in Address, c \in ConfigChoices : RegisterProduct(a, p1, c)
  \/ \E a \in Address, id \in Registered : DeactivateProduct(a, id)

chain_vars == <<registry_vars, tracking_vars, query_vars>>

OthersStill ==
  /\ part \notin {"products", "events"} => UNCHANGED chain_vars
  /\ part # "audit trail" => UNCHANGED trail_vars
  /\ part # "quality" => UNCHANGED qc_vars
  /\ part # "catalog" => UNCHANGED catalogVars
  /\ part # "batches" => UNCHANGED batchVars
  /\ part # "lists" => UNCHANGED listing_vars
  /\ UNCHANGED part

MCNext ==
  /\ \/ part = "products" /\ RegistryNext /\ UNCHANGED <<tracking_vars, query_vars>>
     \/ part = "events" /\ Deploy /\ UNCHANGED <<tracking_vars, query_vars>>
     \/ part = "events" /\ TrackingStep /\ UNCHANGED <<registry_vars, query_vars>>
     \/ part = "events" /\ QueriesStep /\ UNCHANGED <<registry_vars, tracking_vars>>
     \/ part = "audit trail" /\ RingNext
     \/ part = "quality" /\ QualityNext
     \/ part = "catalog" /\ CatalogNext
     \/ part = "batches" /\ BatchesNext
     \/ part = "lists" /\ ListingsNext
  /\ OthersStill

MCSpec == MCInit /\ [][MCNext]_<<chain_vars, trail_vars, qc_vars, catalogVars, batchVars, listing_vars,
                              part>>

==============================================================================
