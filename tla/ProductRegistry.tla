---------------------------- MODULE ProductRegistry ----------------------------
(***************************************************************************)
(* Registration, ownership and lifecycle of products across the three      *)
(* contracts that keep a part of it: ProductRegistryContract               *)
(* (product_registry.rs), AuthorizationContract (authorization.rs) and     *)
(* ProductTransferContract (product_transfer.rs), deployed and linked as   *)
(* in the integration tests.  A call that fails anywhere undoes all of it. *)
(* Of a product's data only the three indexed fields are kept.             *)
(***************************************************************************)
EXTENDS Integers, Sequences, FiniteSets

CONSTANTS
  ProductId,
  Address,        \* accounts that own products
  Actor,          \* accounts that owners authorize
  NoOwner,        \* AuthDataKey::Owner(id) is absent
  Word,           \* values of a field long enough to be indexed
  Short,          \* a field of at most two characters
  ConfigChoices,  \* fields callers register products with
  BatchChoices,   \* sequences of product ids that a client transfers
  ChunkChoices,   \* chunk sizes it asks for
  NoBatch,
  MaxBatchSize    \* MAX_BATCH_SIZE

Config == [name : Word \union {Short}, origin : Word \union {Short},
           category : Word \union {Short}]

ASSUME RegistryAssumption ==
  /\ IsFiniteSet(ProductId)
  /\ NoOwner \notin Address /\ Short \notin Word
  /\ ConfigChoices \subseteq Config
  /\ BatchChoices \subseteq Seq(ProductId)
  /\ ChunkChoices \subseteq Nat
  /\ MaxBatchSize \in Nat \ {0}

VARIABLES
  links,       \* which contracts know each other
  products,    \* registry: DataKey::Product(id) of the registered products
  total,       \* registry: DataKey::TotalProducts
  active,      \* registry: DataKey::ActiveProducts
  index,       \* registry: DataKey::SearchIndex(word)
  auth_owner,  \* authorization: AuthDataKey::Owner(id)
  authorized,  \* authorization: the actors with AuthDataKey::Authorized(id, actor)
  batch,       \* the batch transfer a client is working through
  direct       \* history: products whose owner called update_product_owner itself

registry_vars ==
  <<links, products, total, active, index, auth_owner, authorized, batch, direct>>

Product == [owner : Address, active : BOOLEAN, config : Config]

Registered == DOMAIN products

Contains(s, x) == \E i \in 1 .. Len(s) : s[i] = x

------------------------------------------------------------------------------
(* The search index. *)

AddToSearchIndex(idx, w, id) ==
  IF w = Short \/ Contains(idx[w], id) THEN idx ELSE [idx EXCEPT ![w] = Append(@, id)]

\* A list without the first occurrence of x.
WithoutFirst(s, x) ==
  LET first == CHOOSE i \in 1 .. Len(s) : s[i] = x /\ \A j \in 1 .. i - 1 : s[j] # x
  IN  SubSeq(s, 1, first - 1) \o SubSeq(s, first + 1, Len(s))

RemoveFromSearchIndex(idx, w, id) ==
  IF w # Short /\ Contains(idx[w], id) THEN [idx EXCEPT ![w] = WithoutFirst(@, id)] ELSE idx

IndexProduct(idx, id, c) ==
  AddToSearchIndex(AddToSearchIndex(AddToSearchIndex(idx, c.name, id), c.origin, id),
                   c.category, id)

DeindexProduct(idx, id, c) ==
  RemoveFromSearchIndex(RemoveFromSearchIndex(RemoveFromSearchIndex(idx, c.name, id),
                                              c.origin, id), c.category, id)

------------------------------------------------------------------------------
(* Deployment: every link is set once and never to another contract. *)

ConfigureInitializer ==
  /\ links' = links \union {"initializer"}
  /\ UNCHANGED <<products, total, active, index, auth_owner, authorized, batch, direct>>

ConfigureAuthContract ==
  /\ links' = links \union {"auth"}
  /\ UNCHANGED <<products, total, active, index, auth_owner, authorized, batch, direct>>

\* pt_init also makes itself the registry's transfer contract.
PtInit ==
  /\ "transfer" \notin links
  /\ links' = links \union {"transfer"}
  /\ UNCHANGED <<products, total, active, index, auth_owner, authorized, batch, direct>>

------------------------------------------------------------------------------
(* The registry. *)

NewProduct(owner, id, c) == [owner |-> owner, active |-> TRUE, config |-> c]

\* init_product_owner, called by the registry.
MayInitOwner(id) == "initializer" \in links /\ auth_owner[id] = NoOwner

RegisterProduct(owner, id, c) ==
  /\ id \notin Registered
  /\ "auth" \in links
  /\ MayInitOwner(id)
  /\ products' = [p \in Registered \union {id} |->
       IF p = id THEN NewProduct(owner, id, c) ELSE products[p]]
  /\ index' = IndexProduct(index, id, c)
  /\ auth_owner' = [auth_owner EXCEPT ![id] = owner]
  /\ total' = total + 1
  /\ active' = active + 1
  /\ UNCHANGED <<links, authorized, batch, direct>>

\* Mutant: a product is deactivated once more.
MayDeactivateAgain(owner, id) == products[id].owner = owner

MayDeactivate(owner, id) == products[id].owner = owner /\ products[id].active

DeactivateProduct(owner, id) ==
  /\ MayDeactivate(owner, id)
  /\ products' = [products EXCEPT ![id].active = FALSE]
  /\ index' = DeindexProduct(index, id, products[id].config)
  /\ active' = IF active = 0 THEN 0 ELSE active - 1
  /\ UNCHANGED <<links, total, auth_owner, authorized, batch, direct>>

ReactivateProduct(owner, id) ==
  /\ products[id].owner = owner
  /\ ~products[id].active
  /\ products' = [products EXCEPT ![id].active = TRUE]
  /\ index' = IndexProduct(index, id, products[id].config)
  /\ active' = active + 1
  /\ UNCHANGED <<links, total, auth_owner, authorized, batch, direct>>

------------------------------------------------------------------------------
(* The authorization contract, called by owners themselves. *)

UpdateProductOwner(old, id, new) ==
  /\ auth_owner[id] = old
  /\ auth_owner' = [auth_owner EXCEPT ![id] = new]
  /\ direct' = direct \union {id}
  /\ UNCHANGED <<links, products, total, active, index, authorized, batch>>

AddAuthorizedActor(owner, id, actor) ==
  /\ auth_owner[id] = owner
  /\ authorized' = [authorized EXCEPT ![id] = @ \union {actor}]
  /\ UNCHANGED <<links, products, total, active, index, auth_owner, batch, direct>>

RemoveAuthorizedActor(owner, id, actor) ==
  /\ auth_owner[id] = owner
  /\ authorized' = [authorized EXCEPT ![id] = @ \ {actor}]
  /\ UNCHANGED <<links, products, total, active, index, auth_owner, batch, direct>>

------------------------------------------------------------------------------
(* The transfer contract. *)

\* A product a transfer from owner would move; a batch skips the others.
Transferable(owner, id) ==
  id \in Registered /\ products[id].owner = owner /\ products[id].active

\* Mutant: the registry is updated and the authorization contract is not.
TransferInRegistry(ids, owner, new) ==
  /\ \A id \in ids : auth_owner[id] = owner
  /\ products' = [id \in Registered |->
       IF id \in ids THEN [products[id] EXCEPT !.owner = new] ELSE products[id]]
  /\ UNCHANGED auth_owner

\* update_product_owner and transfer_owner for each of the products: the first
\* traps when the authorization contract knows another owner, and with it the
\* whole call.
TransferAll(ids, owner, new) ==
  /\ \A id \in ids : auth_owner[id] = owner
  /\ products' = [id \in Registered |->
       IF id \in ids THEN [products[id] EXCEPT !.owner = new] ELSE products[id]]
  /\ auth_owner' = [id \in ProductId |-> IF id \in ids THEN new ELSE auth_owner[id]]

TransferProduct(owner, id, new) ==
  /\ owner # new
  /\ "transfer" \in links
  /\ Transferable(owner, id)
  /\ TransferAll({id}, owner, new)
  /\ UNCHANGED <<links, total, active, index, authorized, batch, direct>>

SmallerOf(a, b) == IF a < b THEN a ELSE b

NextCursor(cursor, chunk, items) == SmallerOf(cursor + chunk, items)

\* A client sets out to move some products in chunks; batch_transfer_products
\* is the batch of one chunk.
StartBatch(owner, new, ids, chunk) ==
  /\ batch = NoBatch
  /\ batch' = [owner |-> owner, new |-> new, ids |-> ids, chunk |-> chunk, cursor |-> 0, complete |-> FALSE]
  /\ UNCHANGED <<links, products, total, active, index, auth_owner, authorized, direct>>

\* transfer_batch_chunk from the cursor the last call returned.
BatchTransferChunk ==
  /\ batch # NoBatch /\ ~batch.complete
  /\ LET end == NextCursor(batch.cursor, batch.chunk, Len(batch.ids))
         ids == {batch.ids[i] : i \in batch.cursor + 1 .. end}
     IN /\ batch.owner # batch.new
        /\ Len(batch.ids) \in 1 .. MaxBatchSize
        /\ batch.chunk \in 1 .. MaxBatchSize
        /\ "transfer" \in links
        /\ TransferAll({id \in ids : Transferable(batch.owner, id)}, batch.owner, batch.new)
        /\ batch' = [batch EXCEPT !.cursor = end, !.complete = end = Len(batch.ids)]
  /\ UNCHANGED <<links, total, active, index, authorized, direct>>

------------------------------------------------------------------------------

RegistryInit ==
  /\ links = {}
  /\ products = [id \in {} |-> NoOwner]
  /\ total = 0 /\ active = 0
  /\ index = [w \in Word |-> <<>>]
  /\ auth_owner = [id \in ProductId |-> NoOwner]
  /\ authorized = [id \in ProductId |-> {}]
  /\ batch = NoBatch
  /\ direct = {}

RegistryNext ==
  \/ ConfigureInitializer \/ ConfigureAuthContract \/ PtInit
  \/ \E a \in Address, id \in ProductId, c \in ConfigChoices : RegisterProduct(a, id, c)
  \/ \E a \in Address, id \in Registered : DeactivateProduct(a, id) \/ ReactivateProduct(a, id)
  \/ \E a, b \in Address, id \in ProductId :
       UpdateProductOwner(a, id, b) \/ TransferProduct(a, id, b)
  \/ \E a \in Address, id \in ProductId, b \in Actor :
       AddAuthorizedActor(a, id, b) \/ RemoveAuthorizedActor(a, id, b)
  \/ \E a, b \in Address, ids \in BatchChoices, chunk \in ChunkChoices : StartBatch(a, b, ids, chunk)
  \/ BatchTransferChunk

RegistrySpec == RegistryInit /\ [][RegistryNext]_registry_vars

------------------------------------------------------------------------------

CountersExact ==
  /\ total = Cardinality(Registered)
  /\ active = Cardinality({id \in Registered : products[id].active})

IndexExact ==
  \A w \in Word :
    /\ \A i, j \in 1 .. Len(index[w]) : index[w][i] = index[w][j] => i = j
    /\ \A id \in ProductId :
         Contains(index[w], id) <=>
           /\ id \in Registered /\ products[id].active
           /\ w \in {products[id].config.name, products[id].config.origin,
                     products[id].config.category}

\* The two counters are what counting the products would give, after any
\* number of registrations, deactivations and reactivations, and the saturating
\* subtraction never hides a miscount; the search index lists a product under
\* each of its words exactly once while it is active and not at all while it is
\* not (register_product, deactivate_product, reactivate_product).
BookkeepingExact == CountersExact /\ IndexExact

\* The registry and the authorization contract name the same owner unless the
\* owner has gone to the authorization contract directly: registrations and
\* transfers, single or in batches, write both or neither.
OwnersAgree ==
  \A id \in ProductId \ direct :
    auth_owner[id] = IF id \in Registered THEN products[id].owner ELSE NoOwner

==============================================================================
