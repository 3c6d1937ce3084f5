---------------------------- MODULE ProductProofs ----------------------------
(***************************************************************************)
(* Proofs about products and what is kept of them: the registry of the     *)
(* chain, for any number of products and owners; the backend's catalog     *)
(* with its recalls, and its batches, for any number of clients whose      *)
(* calls interleave statement by statement; the pages the chain's          *)
(* contracts answer of their event log, for any log, filter and limit; and *)
(* walks through the backend's lists while their rows change.              *)
(***************************************************************************)
EXTENDS Queries, Recalls, Batches, Listings, Recursion

(***************************************************************************)
(* The registry.                                                           *)
(***************************************************************************)

Batch == [owner : Address, new : Address, ids : Seq(ProductId), chunk : Nat,
          cursor : Nat, complete : BOOLEAN]

RegistryTypeOK ==
  /\ Registered \subseteq ProductId
  /\ products \in [Registered -> Product]
  /\ total \in Nat /\ active \in Nat
  /\ index \in [Word -> Seq(ProductId)]
  /\ auth_owner \in [ProductId -> Address \union {NoOwner}]
  /\ authorized \in [ProductId -> SUBSET Actor]
  /\ batch \in Batch \union {NoBatch}

------------------------------------------------------------------------------
(* What the search index lists. *)

Lists(idx, w, id) == Contains(idx[w], id)

ListsOnce(idx) ==
  \A w \in Word : \A i, j \in 1 .. Len(idx[w]) : idx[w][i] = idx[w][j] => i = j

\* Adding appends to a list without the product and leaves another as it is.
LEMMA Added ==
  ASSUME NEW idx \in [Word -> Seq(ProductId)], ListsOnce(idx),
         NEW w \in Word \union {Short}, NEW id \in ProductId
  PROVE  LET new == AddToSearchIndex(idx, w, id) IN
         /\ new \in [Word -> Seq(ProductId)]
         /\ ListsOnce(new)
         /\ \A v \in Word, p \in ProductId :
              Lists(new, v, p) <=> Lists(idx, v, p) \/ (v = w /\ p = id)
<1> DEFINE new == AddToSearchIndex(idx, w, id)
<1>1. CASE w = Short
  BY <1>1, RegistryAssumption DEF AddToSearchIndex
<1>2. CASE w \in Word /\ Contains(idx[w], id)
  BY <1>2 DEF AddToSearchIndex, Lists
<1>3. CASE w \in Word /\ ~Contains(idx[w], id)
  <2> DEFINE ids == idx[w]
             longer == Append(ids, id)
  <2>1. new = [idx EXCEPT ![w] = longer]
    BY <1>3, RegistryAssumption DEF AddToSearchIndex
  <2>2. ids \in Seq(ProductId)
    BY <1>3
  <2>3. /\ longer \in Seq(ProductId) /\ Len(ids) \in Nat /\ Len(longer) = Len(ids) + 1
        /\ \A i \in 1 .. Len(ids) : longer[i] = ids[i]
        /\ longer[Len(ids) + 1] = id
    BY <2>2, AppendProperties, LenProperties
  <2>4. \A i, j \in 1 .. Len(longer) : longer[i] = longer[j] => i = j
    <3> SUFFICES ASSUME NEW i \in 1 .. Len(longer), NEW j \in 1 .. Len(longer),
                        longer[i] = longer[j]
                 PROVE  i = j
      OBVIOUS
    <3>1. \A k \in 1 .. Len(ids) : longer[k] # id
      BY <1>3, <2>3 DEF Contains
    <3>2. CASE i \in 1 .. Len(ids) /\ j \in 1 .. Len(ids)
      BY <3>2, <2>3, <1>3 DEF ListsOnce
    <3>3. CASE i = Len(ids) + 1 \/ j = Len(ids) + 1
      BY <3>1, <3>3, <2>3
    <3> QED
      BY <3>2, <3>3, <2>3
  <2>5. \A p \in ProductId : Contains(longer, p) <=> Contains(ids, p) \/ p = id
    <3> SUFFICES ASSUME NEW p \in ProductId
                 PROVE  Contains(longer, p) <=> Contains(ids, p) \/ p = id
      OBVIOUS
    <3>1. ASSUME Contains(longer, p) PROVE Contains(ids, p) \/ p = id
      <4>1. PICK i \in 1 .. Len(longer) : longer[i] = p
        BY <3>1 DEF Contains
      <4> QED
        BY <4>1, <2>3 DEF Contains
    <3>2. ASSUME Contains(ids, p) PROVE Contains(longer, p)
      <4>1. PICK i \in 1 .. Len(ids) : ids[i] = p
        BY <3>2 DEF Contains
      <4>2. i \in 1 .. Len(longer) /\ longer[i] = p
        BY <4>1, <2>3
      <4> QED
        BY <4>2 DEF Contains
    <3>3. Contains(longer, id)
      <4>1. Len(ids) + 1 \in 1 .. Len(longer) /\ longer[Len(ids) + 1] = id
        BY <2>3
      <4> QED
        BY <4>1 DEF Contains
    <3> QED
      BY <3>1, <3>2, <3>3
  <2>6. \A v \in Word : new[v] = IF v = w THEN longer ELSE idx[v]
    BY <2>1
  <2> HIDE DEF new, longer
  <2>7. new \in [Word -> Seq(ProductId)]
    BY <2>1, <2>3
  <2>8. ListsOnce(new)
    BY <2>4, <2>6 DEF ListsOnce
  <2>9. \A v \in Word, p \in ProductId :
          Lists(new, v, p) <=> Lists(idx, v, p) \/ (v = w /\ p = id)
    BY <2>5, <2>6 DEF Lists
  <2> QED
    BY <2>7, <2>8, <2>9 DEF new
<1> QED
  BY <1>1, <1>2, <1>3

\* A sequence without its kth element.
LEMMA CutOut ==
  ASSUME NEW S, NEW s \in Seq(S), NEW k \in 1 .. Len(s)
  PROVE  LET t == SubSeq(s, 1, k - 1) \o SubSeq(s, k + 1, Len(s)) IN
         /\ t \in Seq(S) /\ Len(t) = Len(s) - 1
         /\ \A i \in 1 .. Len(s) - 1 : t[i] = IF i < k THEN s[i] ELSE s[i + 1]
<1>1. Len(s) \in Nat /\ \A i \in 1 .. Len(s) : s[i] \in S
  BY LenProperties, ElementOfSeq
<1>2. PICK a : a = SubSeq(s, 1, k - 1)
  OBVIOUS
<1>3. PICK b : b = SubSeq(s, k + 1, Len(s))
  OBVIOUS
<1>4. /\ a \in Seq(S) /\ Len(a) = k - 1
      /\ \A i \in 1 .. k - 1 : a[i] = s[i]
  <2>1. \A i \in 1 .. k - 1 : s[i] \in S
    BY <1>1
  <2>2. /\ a \in Seq(S)
        /\ Len(a) = IF 1 <= k - 1 THEN (k - 1) - 1 + 1 ELSE 0
        /\ \A i \in 1 .. (k - 1) - 1 + 1 : a[i] = s[1 + i - 1]
    BY <2>1, <1>1, <1>2, SubSeqProperties
  <2> QED
    BY <2>2, <1>1
<1>5. /\ b \in Seq(S) /\ Len(b) = Len(s) - k
      /\ \A i \in 1 .. Len(s) - k : b[i] = s[k + i]
  <2>1. \A i \in k + 1 .. Len(s) : s[i] \in S
    BY <1>1
  <2>2. /\ b \in Seq(S)
        /\ Len(b) = IF k + 1 <= Len(s) THEN Len(s) - (k + 1) + 1 ELSE 0
        /\ \A i \in 1 .. Len(s) - (k + 1) + 1 : b[i] = s[(k + 1) + i - 1]
    BY <2>1, <1>1, <1>3, SubSeqProperties
  <2>3. PICK n \in Nat : n = Len(s) /\ k \in 1 .. n
    BY <1>1
  <2>4. n - (k + 1) + 1 = n - k /\ (k + 1 > n => n - k = 0)
    BY <2>3
  <2>5. Len(b) = n - k
    BY <2>2, <2>3, <2>4
  <2>6. \A i \in 1 .. n - k : (k + 1) + i - 1 = k + i
    BY <2>3
  <2>7. \A i \in 1 .. n - k : b[i] = s[k + i]
    BY <2>2, <2>3, <2>4, <2>6
  <2> QED
    BY <2>2, <2>3, <2>5, <2>7
<1>6. PICK t : t = a \o b
  OBVIOUS
<1>7. /\ t \in Seq(S) /\ Len(t) = Len(a) + Len(b)
      /\ \A i \in 1 .. Len(a) + Len(b) : t[i] = IF i <= Len(a) THEN a[i] ELSE b[i - Len(a)]
  BY <1>4, <1>5, <1>6, ConcatProperties
<1>8. Len(a) + Len(b) = Len(s) - 1
  BY <1>1, <1>4, <1>5
<1>9. ASSUME NEW i \in 1 .. Len(s) - 1
      PROVE  t[i] = IF i < k THEN s[i] ELSE s[i + 1]
  <2>1. i \in Int /\ k \in Int
    BY <1>1
  <2>2. CASE i < k
    BY <2>1, <2>2, <1>1, <1>4, <1>7, <1>8
  <2>3. CASE k <= i
    <3>1. i - Len(a) \in 1 .. Len(s) - k /\ k + (i - Len(a)) = i + 1
      BY <2>3, <1>1, <1>4
    <3>2. t[i] = b[i - Len(a)]
      BY <2>3, <1>1, <1>4, <1>7, <1>8
    <3>3. b[i - Len(a)] = s[i + 1]
      BY <3>1, <1>5
    <3> QED
      BY <2>1, <2>3, <3>2, <3>3
  <2> QED
    BY <2>1, <2>2, <2>3
<1> QED
  BY <1>2, <1>3, <1>6, <1>7, <1>8, <1>9

\* Of a list that names x once, what is left names all but x, each once.
LEMMA OneFewer ==
  ASSUME NEW s \in Seq(ProductId), NEW x, Contains(s, x),
         \A i, j \in 1 .. Len(s) : s[i] = s[j] => i = j
  PROVE  LET t == WithoutFirst(s, x) IN
         /\ t \in Seq(ProductId)
         /\ \A i, j \in 1 .. Len(t) : t[i] = t[j] => i = j
         /\ \A p : Contains(t, p) <=> Contains(s, p) /\ p # x
<1>1. PICK k \in 1 .. Len(s) : s[k] = x
  BY DEF Contains
<1>2. Len(s) \in Nat /\ \A i \in 1 .. Len(s) : s[i] \in ProductId
  BY LenProperties, ElementOfSeq
<1> DEFINE isFirst(i) == s[i] = x /\ \A j \in 1 .. i - 1 : s[j] # x
           first == CHOOSE i \in 1 .. Len(s) : isFirst(i)
<1>3. first = k
  <2>1. isFirst(k)
    <3>1. \A j \in 1 .. k - 1 : j \in 1 .. Len(s) /\ j # k
      BY <1>2
    <3> QED
      BY <1>1, <3>1
  <2>2. \A i \in 1 .. Len(s) : isFirst(i) => i = k
    BY <1>1
  <2> QED
    BY <2>1, <2>2
<1> DEFINE t == SubSeq(s, 1, k - 1) \o SubSeq(s, k + 1, Len(s))
<1>4. WithoutFirst(s, x) = t
  BY <1>3 DEF WithoutFirst
<1>7. /\ t \in Seq(ProductId) /\ Len(t) = Len(s) - 1
      /\ \A i \in 1 .. Len(s) - 1 : t[i] = IF i < k THEN s[i] ELSE s[i + 1]
  BY CutOut
<1> HIDE DEF t
<1>8. \A i, j \in 1 .. Len(t) : t[i] = t[j] => i = j
  <2> SUFFICES ASSUME NEW i \in 1 .. Len(t), NEW j \in 1 .. Len(t), t[i] = t[j]
               PROVE  i = j
    OBVIOUS
  <2> DEFINE at(n) == IF n < k THEN n ELSE n + 1
  <2>1. at(i) \in 1 .. Len(s) /\ at(j) \in 1 .. Len(s)
    BY <1>2, <1>7
  <2>2. s[at(i)] = s[at(j)]
    BY <1>7
  <2>3. at(i) = at(j)
    BY <2>1, <2>2
  <2> QED
    BY <2>3, <1>2, <1>7
<1>9. ASSUME NEW p PROVE Contains(t, p) <=> Contains(s, p) /\ p # x
  <2>1. ASSUME Contains(t, p) PROVE Contains(s, p) /\ p # x
    <3>1. PICK i \in 1 .. Len(t) : t[i] = p
      BY <2>1 DEF Contains
    <3>2. PICK m \in 1 .. Len(s) : m # k /\ s[m] = p
      <4>1. CASE i < k
        BY <4>1, <3>1, <1>2, <1>7
      <4>2. CASE i >= k
        <5>1. i + 1 \in 1 .. Len(s) /\ i + 1 # k /\ s[i + 1] = p
          BY <4>2, <3>1, <1>2, <1>7
        <5> QED
          BY <5>1
      <4> QED
        BY <4>1, <4>2, <1>2
    <3> QED
      BY <3>2, <1>1 DEF Contains
  <2>2. ASSUME Contains(s, p), p # x PROVE Contains(t, p)
    <3>1. PICK m \in 1 .. Len(s) : s[m] = p
      BY <2>2 DEF Contains
    <3>2. m # k
      BY <3>1, <2>2, <1>1
    <3>3. CASE m < k
      <4>1. m \in 1 .. Len(t) /\ t[m] = p
        BY <3>1, <3>3, <1>2, <1>7
      <4> QED
        BY <4>1 DEF Contains
    <3>4. CASE m > k
      <4>1. m - 1 \in 1 .. Len(t) /\ t[m - 1] = p
        BY <3>1, <3>4, <1>2, <1>7
      <4> QED
        BY <4>1 DEF Contains
    <3> QED
      BY <3>2, <3>3, <3>4, <1>2
  <2> QED
    BY <2>1, <2>2
<1> QED
  BY <1>4, <1>7, <1>8, <1>9

\* Removing takes the product off the list of the word and off no other.
LEMMA Removed ==
  ASSUME NEW idx \in [Word -> Seq(ProductId)], ListsOnce(idx),
         NEW w \in Word \union {Short}, NEW id \in ProductId
  PROVE  LET new == RemoveFromSearchIndex(idx, w, id) IN
         /\ new \in [Word -> Seq(ProductId)]
         /\ ListsOnce(new)
         /\ \A v \in Word, p \in ProductId :
              Lists(new, v, p) <=> Lists(idx, v, p) /\ ~(v = w /\ p = id)
<1> DEFINE new == RemoveFromSearchIndex(idx, w, id)
<1>1. CASE w = Short
  BY <1>1, RegistryAssumption DEF RemoveFromSearchIndex
<1>2. CASE w \in Word /\ ~Contains(idx[w], id)
  BY <1>2 DEF RemoveFromSearchIndex, Lists
<1>3. CASE w \in Word /\ Contains(idx[w], id)
  <2> DEFINE shorter == WithoutFirst(idx[w], id)
  <2>1. new = [idx EXCEPT ![w] = shorter]
    BY <1>3, RegistryAssumption DEF RemoveFromSearchIndex
  <2>2. /\ shorter \in Seq(ProductId)
        /\ \A i, j \in 1 .. Len(shorter) : shorter[i] = shorter[j] => i = j
        /\ \A p : Contains(shorter, p) <=> Contains(idx[w], p) /\ p # id
    <3>1. /\ idx[w] \in Seq(ProductId)
          /\ \A i, j \in 1 .. Len(idx[w]) : idx[w][i] = idx[w][j] => i = j
      BY <1>3 DEF ListsOnce
    <3> QED
      BY <1>3, <3>1, OneFewer
  <2>3. \A v \in Word : new[v] = IF v = w THEN shorter ELSE idx[v]
    BY <2>1
  <2> HIDE DEF new, shorter
  <2>4. new \in [Word -> Seq(ProductId)]
    BY <2>1, <2>2
  <2>5. ListsOnce(new)
    BY <2>2, <2>3 DEF ListsOnce
  <2>6. \A v \in Word, p \in ProductId :
          Lists(new, v, p) <=> Lists(idx, v, p) /\ ~(v = w /\ p = id)
    BY <2>2, <2>3 DEF Lists
  <2> QED
    BY <2>4, <2>5, <2>6 DEF new
<1> QED
  BY <1>1, <1>2, <1>3

WordsOf(c) == {c.name, c.origin, c.category}

\* index_product puts a product on the list of each of its words.
LEMMA Indexed ==
  ASSUME NEW idx \in [Word -> Seq(ProductId)], ListsOnce(idx),
         NEW id \in ProductId, NEW c \in Config
  PROVE  LET new == IndexProduct(idx, id, c) IN
         /\ new \in [Word -> Seq(ProductId)]
         /\ ListsOnce(new)
         /\ \A v \in Word, p \in ProductId :
              Lists(new, v, p) <=> Lists(idx, v, p) \/ (v \in WordsOf(c) /\ p = id)
<1>1. /\ c.name \in Word \union {Short} /\ c.origin \in Word \union {Short}
      /\ c.category \in Word \union {Short}
  BY DEF Config
<1> DEFINE one == AddToSearchIndex(idx, c.name, id)
           two == AddToSearchIndex(one, c.origin, id)
           three == AddToSearchIndex(two, c.category, id)
<1>2. /\ one \in [Word -> Seq(ProductId)] /\ ListsOnce(one)
      /\ \A v \in Word, p \in ProductId :
           Lists(one, v, p) <=> Lists(idx, v, p) \/ (v = c.name /\ p = id)
  BY <1>1, Added
<1> HIDE DEF one
<1>3. /\ two \in [Word -> Seq(ProductId)] /\ ListsOnce(two)
      /\ \A v \in Word, p \in ProductId :
           Lists(two, v, p) <=> Lists(one, v, p) \/ (v = c.origin /\ p = id)
  BY <1>1, <1>2, Added, ZenonT(30)
<1> HIDE DEF two
<1>4. /\ three \in [Word -> Seq(ProductId)] /\ ListsOnce(three)
      /\ \A v \in Word, p \in ProductId :
           Lists(three, v, p) <=> Lists(two, v, p) \/ (v = c.category /\ p = id)
  BY <1>1, <1>3, Added, ZenonT(30)
<1> HIDE DEF three
<1>5. IndexProduct(idx, id, c) = three
  BY DEF IndexProduct, one, two, three
<1> QED
  BY <1>2, <1>3, <1>4, <1>5 DEF WordsOf

\* deindex_product takes it off all of them.
LEMMA Deindexed ==
  ASSUME NEW idx \in [Word -> Seq(ProductId)], ListsOnce(idx),
         NEW id \in ProductId, NEW c \in Config
  PROVE  LET new == DeindexProduct(idx, id, c) IN
         /\ new \in [Word -> Seq(ProductId)]
         /\ ListsOnce(new)
         /\ \A v \in Word, p \in ProductId :
              Lists(new, v, p) <=> Lists(idx, v, p) /\ ~(v \in WordsOf(c) /\ p = id)
<1>1. /\ c.name \in Word \union {Short} /\ c.origin \in Word \union {Short}
      /\ c.category \in Word \union {Short}
  BY DEF Config
<1> DEFINE one == RemoveFromSearchIndex(idx, c.name, id)
           two == RemoveFromSearchIndex(one, c.origin, id)
           three == RemoveFromSearchIndex(two, c.category, id)
<1>2. /\ one \in [Word -> Seq(ProductId)] /\ ListsOnce(one)
      /\ \A v \in Word, p \in ProductId :
           Lists(one, v, p) <=> Lists(idx, v, p) /\ ~(v = c.name /\ p = id)
  BY <1>1, Removed
<1> HIDE DEF one
<1>3. /\ two \in [Word -> Seq(ProductId)] /\ ListsOnce(two)
      /\ \A v \in Word, p \in ProductId :
           Lists(two, v, p) <=> Lists(one, v, p) /\ ~(v = c.origin /\ p = id)
  BY <1>1, <1>2, Removed
<1> HIDE DEF two
<1>4. /\ three \in [Word -> Seq(ProductId)] /\ ListsOnce(three)
      /\ \A v \in Word, p \in ProductId :
           Lists(three, v, p) <=> Lists(two, v, p) /\ ~(v = c.category /\ p = id)
  BY <1>1, <1>3, Removed
<1> HIDE DEF three
<1>5. DeindexProduct(idx, id, c) = three
  BY DEF DeindexProduct, one, two, three
<1> QED
  BY <1>2, <1>3, <1>4, <1>5 DEF WordsOf

------------------------------------------------------------------------------
(* Every step keeps the types.  What it does to the products is all that the *)
(* proofs below need to know of it.                                          *)

LEMMA TypedProduct ==
  ASSUME RegistryTypeOK, NEW id \in Registered
  PROVE  /\ id \in ProductId
         /\ products[id].owner \in Address /\ products[id].active \in BOOLEAN
         /\ products[id].config \in Config
BY DEF RegistryTypeOK, Product

\* A registration adds an active product and indexes it.
LEMMA Registering ==
  ASSUME RegistryTypeOK, ListsOnce(index), NEW a \in Address, NEW id \in ProductId,
         NEW c \in ConfigChoices, RegisterProduct(a, id, c)
  PROVE  /\ RegistryTypeOK' /\ ListsOnce(index)'
         /\ id \notin Registered /\ Registered' = Registered \union {id}
         /\ products'[id] = [owner |-> a, active |-> TRUE, config |-> c]
         /\ \A p \in Registered : products'[p] = products[p]
<1>1. c \in Config
  BY RegistryAssumption
<1>2. NewProduct(a, id, c) \in Product /\ NewProduct(a, id, c) = [owner |-> a, active |-> TRUE, config |-> c]
  BY <1>1 DEF NewProduct, Product
<1>3. index' \in [Word -> Seq(ProductId)] /\ ListsOnce(index)'
  BY <1>1, Indexed DEF RegisterProduct, RegistryTypeOK
<1>4. /\ Registered' = Registered \union {id} /\ id \notin Registered
      /\ products' \in [Registered' -> Product]
      /\ products'[id] = NewProduct(a, id, c)
      /\ \A p \in Registered : products'[p] = products[p]
  BY <1>2 DEF RegisterProduct, Registered, RegistryTypeOK
<1>5. auth_owner' \in [ProductId -> Address \union {NoOwner}]
  BY DEF RegisterProduct, RegistryTypeOK
<1>6. total' \in Nat /\ active' \in Nat /\ authorized' = authorized /\ batch' = batch
  BY DEF RegisterProduct, RegistryTypeOK
<1> QED
  BY <1>2, <1>3, <1>4, <1>5, <1>6 DEF RegistryTypeOK

\* Deactivating and reactivating change the flag of one product.
LEMMA Switching ==
  ASSUME RegistryTypeOK, ListsOnce(index), NEW a \in Address, NEW id \in Registered,
         DeactivateProduct(a, id) \/ ReactivateProduct(a, id)
  PROVE  /\ RegistryTypeOK' /\ ListsOnce(index)'
         /\ Registered' = Registered
         /\ products'[id].active = ~products[id].active
         /\ \A p \in Registered : /\ products'[p].owner = products[p].owner
                                  /\ products'[p].config = products[p].config
                                  /\ p # id => products'[p] = products[p]
<1>1. products[id] \in Product /\ id \in ProductId /\ products[id].config \in Config
  BY TypedProduct DEF RegistryTypeOK
<1>2. PICK flag \in BOOLEAN : /\ flag = ~products[id].active
                              /\ products' = [products EXCEPT ![id].active = flag]
  <2>1. CASE DeactivateProduct(a, id)
    BY <2>1 DEF DeactivateProduct, MayDeactivate
  <2>2. CASE ReactivateProduct(a, id)
    BY <2>2 DEF ReactivateProduct
  <2> QED
    BY <2>1, <2>2
<1>3. /\ Registered' = Registered
      /\ products'[id] = [products[id] EXCEPT !.active = flag]
      /\ \A p \in Registered : p # id => products'[p] = products[p]
  BY <1>2 DEF RegistryTypeOK, Registered
<1>4. /\ products'[id] \in Product
      /\ products'[id].active = flag
      /\ products'[id].owner = products[id].owner
      /\ products'[id].config = products[id].config
  BY <1>1, <1>3 DEF Product
<1>5. products' \in [Registered -> Product]
  <2>1. products' = [p \in Registered |-> products'[p]]
    BY <1>2 DEF RegistryTypeOK, Registered
  <2>2. \A p \in Registered : products'[p] \in Product
    BY <1>3, <1>4 DEF RegistryTypeOK
  <2> QED
    BY <2>1, <2>2
<1>6. index' \in [Word -> Seq(ProductId)] /\ ListsOnce(index)'
  <2>1. CASE DeactivateProduct(a, id)
    BY <1>1, <2>1, Deindexed DEF DeactivateProduct, RegistryTypeOK
  <2>2. CASE ReactivateProduct(a, id)
    BY <1>1, <2>2, Indexed DEF ReactivateProduct, RegistryTypeOK
  <2> QED
    BY <2>1, <2>2
<1>7. /\ total' = total /\ active' \in Nat
      /\ UNCHANGED <<auth_owner, authorized, batch>>
  BY DEF DeactivateProduct, ReactivateProduct, RegistryTypeOK
<1> QED
  BY <1>2, <1>3, <1>4, <1>5, <1>6, <1>7 DEF RegistryTypeOK

\* A transfer gives products of one owner, known to both contracts, another.
LEMMA Transferring ==
  ASSUME RegistryTypeOK, NEW ids \in SUBSET Registered, NEW a \in Address, NEW b \in Address,
         TransferAll(ids, a, b)
  PROVE  /\ Registered' = Registered
         /\ products' \in [Registered -> Product]
         /\ auth_owner' \in [ProductId -> Address \union {NoOwner}]
         /\ \A p \in Registered :
              /\ products'[p].active = products[p].active
              /\ products'[p].config = products[p].config
              /\ products'[p].owner = IF p \in ids THEN b ELSE products[p].owner
         /\ \A p \in ProductId : auth_owner'[p] = IF p \in ids THEN b ELSE auth_owner[p]
<1>1. products' = [p \in Registered |->
         IF p \in ids THEN [products[p] EXCEPT !.owner = b] ELSE products[p]]
  BY DEF TransferAll
<1>2. \A p \in Registered :
        /\ products'[p] = IF p \in ids THEN [products[p] EXCEPT !.owner = b] ELSE products[p]
        /\ products[p] \in Product
  BY <1>1 DEF RegistryTypeOK
<1>3. ASSUME NEW p \in Registered
      PROVE  /\ products'[p] \in Product
             /\ products'[p].active = products[p].active
             /\ products'[p].config = products[p].config
             /\ products'[p].owner = IF p \in ids THEN b ELSE products[p].owner
  BY <1>2 DEF Product
<1>4. Registered' = Registered /\ products' \in [Registered -> Product]
  BY <1>1, <1>3 DEF Registered
<1>5. /\ auth_owner' \in [ProductId -> Address \union {NoOwner}]
      /\ \A p \in ProductId : auth_owner'[p] = IF p \in ids THEN b ELSE auth_owner[p]
  BY DEF TransferAll, RegistryTypeOK
<1> QED
  BY <1>3, <1>4, <1>5

\* transfer_product and a chunk of a batch are transfers of registered products.
LEMMA TransferSteps ==
  ASSUME RegistryTypeOK,
         \/ \E a, b \in Address, id \in ProductId : TransferProduct(a, id, b)
         \/ BatchTransferChunk
  PROVE  /\ \E ids \in SUBSET Registered, a, b \in Address : TransferAll(ids, a, b)
         /\ UNCHANGED <<total, active, index, authorized, direct>>
         /\ batch' \in Batch \union {NoBatch}
<1>1. CASE \E a, b \in Address, id \in ProductId : TransferProduct(a, id, b)
  <2>1. PICK a \in Address, b \in Address, id \in ProductId : TransferProduct(a, id, b)
    BY <1>1
  <2>2. {id} \in SUBSET Registered /\ TransferAll({id}, a, b)
    BY <2>1 DEF TransferProduct, Transferable
  <2>3. UNCHANGED <<total, active, index, authorized, batch, direct>>
    BY <2>1 DEF TransferProduct
  <2> QED
    BY <2>2, <2>3 DEF RegistryTypeOK
<1>2. CASE BatchTransferChunk
  <2>1. batch \in Batch
    BY <1>2 DEF BatchTransferChunk, RegistryTypeOK
  <2> DEFINE end == NextCursor(batch.cursor, batch.chunk, Len(batch.ids))
             ids == {batch.ids[i] : i \in batch.cursor + 1 .. end}
             moved == {id \in ids : Transferable(batch.owner, id)}
  <2>2. TransferAll(moved, batch.owner, batch.new)
    BY <1>2 DEF BatchTransferChunk
  <2>3. moved \in SUBSET Registered
    BY DEF Transferable
  <2>4. batch.owner \in Address /\ batch.new \in Address
    BY <2>1 DEF Batch
  <2>5. batch' \in Batch
    <3>1. batch.ids \in Seq(ProductId) /\ batch.cursor \in Nat /\ batch.chunk \in Nat
      BY <2>1 DEF Batch
    <3>2. Len(batch.ids) \in Nat
      BY <3>1, LenProperties
    <3>3. end \in Nat
      BY <3>1, <3>2 DEF NextCursor, SmallerOf
    <3>4. batch' = [batch EXCEPT !.cursor = end, !.complete = end = Len(batch.ids)]
      BY <1>2 DEF BatchTransferChunk
    <3> QED
      BY <2>1, <3>3, <3>4 DEF Batch
  <2>6. UNCHANGED <<total, active, index, authorized, direct>>
    BY <1>2 DEF BatchTransferChunk
  <2> HIDE DEF moved
  <2> QED
    BY <2>2, <2>3, <2>4, <2>5, <2>6
<1> QED
  BY <1>1, <1>2

\* What is left touches no product: links, actors, the start of a batch, and
\* the owners that the authorization contract keeps.
LEMMA OtherSteps ==
  ASSUME RegistryTypeOK,
         \/ ConfigureInitializer \/ ConfigureAuthContract \/ PtInit
         \/ \E a \in Address, id \in ProductId, b \in Actor :
              AddAuthorizedActor(a, id, b) \/ RemoveAuthorizedActor(a, id, b)
         \/ \E a, b \in Address, ids \in BatchChoices, chunk \in ChunkChoices :
              StartBatch(a, b, ids, chunk)
         \/ \E a, b \in Address, id \in ProductId : UpdateProductOwner(a, id, b)
         \/ UNCHANGED registry_vars
  PROVE  /\ RegistryTypeOK'
         /\ UNCHANGED <<products, total, active, index>>
<1>1. UNCHANGED <<products, total, active, index>> /\ Registered' = Registered
  BY DEF ConfigureInitializer, ConfigureAuthContract, PtInit, AddAuthorizedActor,
         RemoveAuthorizedActor, StartBatch, UpdateProductOwner, registry_vars, Registered
<1>2. authorized' \in [ProductId -> SUBSET Actor]
  <2>1. CASE \E a \in Address, id \in ProductId, b \in Actor :
               AddAuthorizedActor(a, id, b) \/ RemoveAuthorizedActor(a, id, b)
    <3>1. PICK id \in ProductId, actors \in SUBSET Actor :
                 authorized' = [authorized EXCEPT ![id] = actors]
      <4>1. PICK a \in Address, id \in ProductId, b \in Actor :
                   AddAuthorizedActor(a, id, b) \/ RemoveAuthorizedActor(a, id, b)
        BY <2>1
      <4>2. authorized[id] \union {b} \in SUBSET Actor /\ authorized[id] \ {b} \in SUBSET Actor
        BY DEF RegistryTypeOK
      <4> QED
        BY <4>1, <4>2 DEF AddAuthorizedActor, RemoveAuthorizedActor
    <3> QED
      BY <3>1 DEF RegistryTypeOK
  <2>2. CASE authorized' = authorized
    BY <2>2 DEF RegistryTypeOK
  <2> QED
    BY <2>1, <2>2 DEF ConfigureInitializer, ConfigureAuthContract, PtInit, StartBatch,
         UpdateProductOwner, registry_vars
<1>3. auth_owner' \in [ProductId -> Address \union {NoOwner}]
  BY DEF ConfigureInitializer, ConfigureAuthContract, PtInit, AddAuthorizedActor,
         RemoveAuthorizedActor, StartBatch, UpdateProductOwner, registry_vars, RegistryTypeOK
<1>4. batch' \in Batch \union {NoBatch}
  <2>1. CASE \E a, b \in Address, ids \in BatchChoices, chunk \in ChunkChoices :
               StartBatch(a, b, ids, chunk)
    BY <2>1, RegistryAssumption DEF StartBatch, Batch
  <2>2. CASE batch' = batch
    BY <2>2 DEF RegistryTypeOK
  <2> QED
    BY <2>1, <2>2 DEF ConfigureInitializer, ConfigureAuthContract, PtInit, AddAuthorizedActor,
         RemoveAuthorizedActor, UpdateProductOwner, registry_vars
<1> QED
  BY <1>1, <1>2, <1>3, <1>4 DEF RegistryTypeOK

------------------------------------------------------------------------------

ListsActive ==
  \A w \in Word, id \in ProductId :
    Lists(index, w, id) <=>
      id \in Registered /\ products[id].active /\ w \in WordsOf(products[id].config)

ActiveProducts == {id \in Registered : products[id].active}

\* Only a registered product has an owner in the authorization contract.
OwnedIffRegistered ==
  \A id \in ProductId : auth_owner[id] = NoOwner <=> id \notin Registered

RegistryInv ==
  /\ RegistryTypeOK
  /\ ListsOnce(index) /\ ListsActive
  /\ CountersExact
  /\ OwnedIffRegistered /\ OwnersAgree

LEMMA TotalsRead ==
  ASSUME RegistryTypeOK
  PROVE  /\ IsFiniteSet(Registered) /\ Cardinality(Registered) \in Nat
         /\ IsFiniteSet(ActiveProducts) /\ Cardinality(ActiveProducts) \in Nat
<1>1. Registered \subseteq ProductId /\ ActiveProducts \subseteq ProductId
  BY DEF RegistryTypeOK, ActiveProducts
<1> QED
  BY <1>1, RegistryAssumption, FS_Subset, FS_CardinalityType

LEMMA RegistrationKeepsInv ==
  ASSUME RegistryInv, NEW a \in Address, NEW id \in ProductId, NEW c \in ConfigChoices,
         RegisterProduct(a, id, c)
  PROVE  RegistryInv'
<1>1. /\ RegistryTypeOK' /\ ListsOnce(index)'
      /\ id \notin Registered /\ Registered' = Registered \union {id}
      /\ products'[id] = [owner |-> a, active |-> TRUE, config |-> c]
      /\ \A p \in Registered : products'[p] = products[p]
  BY Registering DEF RegistryInv
<1>2. c \in Config /\ a # NoOwner
  BY RegistryAssumption
<1>3. ListsActive'
  <2>1. \A v \in Word, p \in ProductId :
          Lists(index', v, p) <=> Lists(index, v, p) \/ (v \in WordsOf(c) /\ p = id)
    BY <1>2, Indexed DEF RegisterProduct, RegistryInv, RegistryTypeOK
  <2> SUFFICES ASSUME NEW w \in Word, NEW p \in ProductId
               PROVE  Lists(index', w, p) <=>
                        p \in Registered' /\ products'[p].active /\ w \in WordsOf(products'[p].config)
    BY DEF ListsActive
  <2>2. CASE p = id
    BY <2>1, <2>2, <1>1 DEF ListsActive, RegistryInv
  <2>3. CASE p # id
    BY <2>1, <2>3, <1>1 DEF ListsActive, RegistryInv
  <2> QED
    BY <2>2, <2>3
<1>4. CountersExact'
  <2>1. ActiveProducts' = ActiveProducts \union {id} /\ id \notin ActiveProducts
    BY <1>1 DEF ActiveProducts
  <2>2. /\ Cardinality(Registered') = Cardinality(Registered) + 1
        /\ Cardinality(ActiveProducts') = Cardinality(ActiveProducts) + 1
    BY <1>1, <2>1, TotalsRead, FS_AddElement DEF RegistryInv
  <2>3. total' = total + 1 /\ active' = active + 1
    BY DEF RegisterProduct
  <2> QED
    BY <2>2, <2>3 DEF CountersExact, ActiveProducts, RegistryInv
<1>5. /\ \A p \in ProductId : auth_owner'[p] = IF p = id THEN a ELSE auth_owner[p]
      /\ direct' = direct
  BY DEF RegisterProduct, RegistryInv, RegistryTypeOK
<1>6. OwnedIffRegistered'
  BY <1>1, <1>2, <1>5 DEF OwnedIffRegistered, RegistryInv
<1>7. OwnersAgree'
  BY <1>1, <1>5 DEF OwnersAgree, RegistryInv
<1> QED
  BY <1>1, <1>3, <1>4, <1>6, <1>7 DEF RegistryInv

\* The saturating subtraction of deactivate_product never saturates: the
\* product it deactivates was counted.
LEMMA SwitchingKeepsInv ==
  ASSUME RegistryInv, NEW a \in Address, NEW id \in Registered,
         DeactivateProduct(a, id) \/ ReactivateProduct(a, id)
  PROVE  RegistryInv'
<1>1. /\ RegistryTypeOK' /\ ListsOnce(index)'
      /\ Registered' = Registered
      /\ products'[id].active = ~products[id].active
      /\ \A p \in Registered : /\ products'[p].owner = products[p].owner
                               /\ products'[p].config = products[p].config
                               /\ p # id => products'[p] = products[p]
  BY Switching DEF RegistryInv
<1>2. /\ id \in ProductId /\ products[id].config \in Config /\ products[id].active \in BOOLEAN
  BY TypedProduct DEF RegistryInv
<1>3. OwnedIffRegistered' /\ OwnersAgree'
  <2>1. auth_owner' = auth_owner /\ direct' = direct
    BY DEF DeactivateProduct, ReactivateProduct
  <2> QED
    BY <1>1, <2>1 DEF OwnedIffRegistered, OwnersAgree, RegistryInv
<1>4. CASE DeactivateProduct(a, id)
  <2>1. products[id].active
    BY <1>4 DEF DeactivateProduct, MayDeactivate
  <2>2. ListsActive'
    <3>1. \A v \in Word, p \in ProductId :
            Lists(index', v, p) <=>
              Lists(index, v, p) /\ ~(v \in WordsOf(products[id].config) /\ p = id)
      BY <1>2, <1>4, Deindexed DEF DeactivateProduct, RegistryInv, RegistryTypeOK
    <3> QED
      BY <1>1, <1>2, <2>1, <3>1 DEF ListsActive, RegistryInv
  <2>3. ActiveProducts' = ActiveProducts \ {id} /\ id \in ActiveProducts
    BY <1>1, <2>1 DEF ActiveProducts
  <2>4. Cardinality(ActiveProducts') = Cardinality(ActiveProducts) - 1
    BY <2>3, TotalsRead, FS_RemoveElement DEF RegistryInv
  <2>5. Cardinality(ActiveProducts) # 0
    BY <2>3, TotalsRead, FS_EmptySet DEF RegistryInv
  <2>6. total' = total /\ active' = IF active = 0 THEN 0 ELSE active - 1
    BY <1>4 DEF DeactivateProduct
  <2>7. CountersExact'
    BY <1>1, <2>4, <2>5, <2>6 DEF CountersExact, ActiveProducts, RegistryInv
  <2> QED
    BY <1>1, <1>3, <2>2, <2>7 DEF RegistryInv
<1>5. CASE ReactivateProduct(a, id)
  <2>1. ~products[id].active
    BY <1>5 DEF ReactivateProduct
  <2>2. ListsActive'
    <3>1. \A v \in Word, p \in ProductId :
            Lists(index', v, p) <=>
              Lists(index, v, p) \/ (v \in WordsOf(products[id].config) /\ p = id)
      BY <1>2, <1>5, Indexed DEF ReactivateProduct, RegistryInv, RegistryTypeOK
    <3> QED
      BY <1>1, <1>2, <2>1, <3>1 DEF ListsActive, RegistryInv
  <2>3. ActiveProducts' = ActiveProducts \union {id} /\ id \notin ActiveProducts
    BY <1>1, <2>1 DEF ActiveProducts
  <2>4. Cardinality(ActiveProducts') = Cardinality(ActiveProducts) + 1
    BY <2>3, TotalsRead, FS_AddElement DEF RegistryInv
  <2>5. total' = total /\ active' = active + 1
    BY <1>5 DEF ReactivateProduct
  <2>6. CountersExact'
    BY <1>1, <2>4, <2>5 DEF CountersExact, ActiveProducts, RegistryInv
  <2> QED
    BY <1>1, <1>3, <2>2, <2>6 DEF RegistryInv
<1> QED
  BY <1>4, <1>5

LEMMA TransferKeepsInv ==
  ASSUME RegistryInv,
         \/ \E a, b \in Address, id \in ProductId : TransferProduct(a, id, b)
         \/ BatchTransferChunk
  PROVE  RegistryInv'
<1>1. PICK ids \in SUBSET Registered, a \in Address, b \in Address : TransferAll(ids, a, b)
  BY TransferSteps DEF RegistryInv
<1>2. /\ UNCHANGED <<total, active, index, authorized, direct>>
      /\ batch' \in Batch \union {NoBatch}
  BY TransferSteps DEF RegistryInv
<1>3. /\ Registered' = Registered
      /\ products' \in [Registered -> Product]
      /\ auth_owner' \in [ProductId -> Address \union {NoOwner}]
      /\ \A p \in Registered :
           /\ products'[p].active = products[p].active
           /\ products'[p].config = products[p].config
           /\ products'[p].owner = IF p \in ids THEN b ELSE products[p].owner
      /\ \A p \in ProductId : auth_owner'[p] = IF p \in ids THEN b ELSE auth_owner[p]
  BY <1>1, Transferring DEF RegistryInv
<1>4. RegistryTypeOK'
  BY <1>2, <1>3 DEF RegistryInv, RegistryTypeOK
<1>5. ListsOnce(index)' /\ ListsActive'
  BY <1>2, <1>3 DEF RegistryInv, ListsOnce, ListsActive
<1>6. CountersExact'
  <2>1. ActiveProducts' = ActiveProducts
    BY <1>3 DEF ActiveProducts
  <2> QED
    BY <1>2, <1>3, <2>1 DEF RegistryInv, CountersExact, ActiveProducts
<1>7. OwnedIffRegistered'
  BY <1>3, RegistryAssumption DEF RegistryInv, OwnedIffRegistered
<1>8. OwnersAgree'
  BY <1>2, <1>3 DEF RegistryInv, OwnersAgree
<1> QED
  BY <1>4, <1>5, <1>6, <1>7, <1>8 DEF RegistryInv

LEMMA OthersKeepInv ==
  ASSUME RegistryInv,
         \/ ConfigureInitializer \/ ConfigureAuthContract \/ PtInit
         \/ \E a \in Address, id \in ProductId, b \in Actor :
              AddAuthorizedActor(a, id, b) \/ RemoveAuthorizedActor(a, id, b)
         \/ \E a, b \in Address, ids \in BatchChoices, chunk \in ChunkChoices :
              StartBatch(a, b, ids, chunk)
         \/ \E a, b \in Address, id \in ProductId : UpdateProductOwner(a, id, b)
         \/ UNCHANGED registry_vars
  PROVE  RegistryInv'
<1>1. RegistryTypeOK' /\ UNCHANGED <<products, total, active, index>>
  BY OtherSteps DEF RegistryInv
<1>2. ListsOnce(index)' /\ ListsActive' /\ CountersExact'
  BY <1>1 DEF RegistryInv, ListsOnce, ListsActive, CountersExact, Registered
<1>3. OwnedIffRegistered' /\ OwnersAgree'
  <2>1. CASE auth_owner' = auth_owner /\ direct' = direct
    BY <1>1, <2>1 DEF RegistryInv, OwnedIffRegistered, OwnersAgree, Registered
  <2>2. CASE \E a, b \in Address, id \in ProductId : UpdateProductOwner(a, id, b)
    <3>1. PICK a \in Address, b \in Address, id \in ProductId : UpdateProductOwner(a, id, b)
      BY <2>2
    <3>2. /\ auth_owner[id] = a /\ direct' = direct \union {id}
          /\ \A p \in ProductId : auth_owner'[p] = IF p = id THEN b ELSE auth_owner[p]
      BY <3>1 DEF UpdateProductOwner, RegistryInv, RegistryTypeOK
    <3> QED
      BY <1>1, <3>2, RegistryAssumption
         DEF RegistryInv, OwnedIffRegistered, OwnersAgree, Registered
  <2> QED
    BY <2>1, <2>2 DEF ConfigureInitializer, ConfigureAuthContract, PtInit, AddAuthorizedActor,
         RemoveAuthorizedActor, StartBatch, registry_vars
<1> QED
  BY <1>1, <1>2, <1>3 DEF RegistryInv

\* The registry begins with no product, and each of its calls keeps the invariant.
LEMMA RegistryBegins ==
  ASSUME RegistryInit
  PROVE  RegistryInv
<1>1. Registered = {} /\ ActiveProducts = {}
  BY DEF RegistryInit, Registered, ActiveProducts
<1>2. RegistryTypeOK
  BY <1>1 DEF RegistryInit, RegistryTypeOK, Registered
<1>3. ListsOnce(index) /\ ListsActive
  BY <1>1 DEF RegistryInit, ListsOnce, ListsActive, Lists, Contains
<1>4. CountersExact
  BY <1>1, FS_EmptySet DEF RegistryInit, CountersExact, ActiveProducts
<1>5. OwnedIffRegistered /\ OwnersAgree
  BY <1>1 DEF RegistryInit, OwnedIffRegistered, OwnersAgree
<1> QED
  BY <1>2, <1>3, <1>4, <1>5 DEF RegistryInv

LEMMA RegistryStepKeepsInv ==
  ASSUME RegistryInv, [RegistryNext]_registry_vars
  PROVE  RegistryInv'
BY RegistrationKeepsInv, SwitchingKeepsInv, TransferKeepsInv, OthersKeepInv DEF RegistryNext

\* Inventory: stored products, the search index, the counters and the owners of the
\* authorization contract stay consistent with one another through every call, and
\* between the chunks of a batch (register_product, the authorization contract's
\* owner updates, transfer_product and batch transfers).
THEOREM RegistryInvariant == RegistrySpec => []RegistryInv
<1>1. RegistryInit => RegistryInv
  BY RegistryBegins
<1>2. RegistryInv /\ [RegistryNext]_registry_vars => RegistryInv'
  BY RegistryStepKeepsInv
<1> QED
  BY <1>1, <1>2, PTL DEF RegistrySpec

\* Bookkeeping: for every set of products, accounts and words and after any
\* number of calls, the two counters are what counting the products would give
\* and the search index lists a product under each of its words once while it
\* is active and not at all while it is not (register_product,
\* deactivate_product, reactivate_product and their index helpers).
THEOREM Bookkeeping == RegistrySpec => []BookkeepingExact
<1>1. RegistryInv => BookkeepingExact
  BY DEF RegistryInv, BookkeepingExact, IndexExact, ListsOnce, ListsActive, Lists, WordsOf
<1> QED
  BY <1>1, RegistryInvariant, PTL

\* One owner: whatever is registered, handed over directly or transferred,
\* alone or in batches of any length, the registry and the authorization
\* contract name the same owner of every product whose owner has not gone to
\* the authorization contract itself (update_product_owner, transfer_owner).
THEOREM OneOwner == RegistrySpec => []OwnersAgree
<1>1. RegistryInv => OwnersAgree
  BY DEF RegistryInv
<1> QED
  BY <1>1, RegistryInvariant, PTL

(***************************************************************************)
(* Products, events and recalls.                                           *)
(***************************************************************************)

AnyProductRow == ProductRows \union {NoProduct}

IsCall(x) ==
  /\ x = [op |-> x.op, at |-> x.at, product |-> x.product, seen |-> x.seen, new |-> x.new,
          failed |-> x.failed, batch |-> x.batch, figures |-> x.figures, recall |-> x.recall,
          count |-> x.count]
  /\ x.failed \in BOOLEAN

AboutProduct == {"get", "delete", "sync", "event", "recall"}
AtProduct == {"look up", "select", "leave copy", "insert", "update", "delete", "drop copy",
              "insert event", "open recall"}
AtRecall == {"open counts", "identify", "read items", "write affected", "queue notice",
             "read notices", "write notified"}

\* Which fields a call has set by the time it is at a statement.
CallFilled(x) ==
  /\ x.op \in AboutProduct => x.product \in CatalogProduct
  /\ x.op = "sync" => x.new \in ProductRows
  /\ x.at \in AtProduct => x.op \in AboutProduct
  /\ x.at \in {"insert", "update"} => x.op = "sync"
  /\ x.at = "drop stats" /\ x.failed => x.op \in AboutProduct
  /\ x.at \in AtRecall => x.recall \in RecallId

RecallRow(x) ==
  /\ x = [product |-> x.product, batch |-> x.batch, items |-> x.items, notices |-> x.notices,
          effectiveness |-> x.effectiveness, affected |-> x.affected, notified |-> x.notified,
          recovered |-> x.recovered, finished |-> x.finished, named |-> x.named]
  /\ x.notices \in Nat /\ x.notified \in Nat /\ x.notified <= x.notices /\ x.recovered \in Nat
  /\ x.finished \in BOOLEAN

\* The events a recall has written down are those of its batch.
NamedRight(x, es, last) ==
  /\ \A n \in x.named : n \in Nat /\ n <= last
  /\ \A e \in es : e.id \in x.named => e.batch = x.batch

\* Every product that named the batch is among the affected ones.
Reached(x, es) ==
  x.batch # NoBatchNamed => \A e \in es : e.id \in x.named => e.product \in x.items

RecallHolds(x, es, last) == RecallRow(x) /\ NamedRight(x, es, last) /\ (x.finished => Reached(x, es))

\* A call that is past the affected products has written them down, and the
\* notices it has counted are there.
CallOnRecall(x, row, es) ==
  /\ x.at \in {"read items", "write affected"} => Reached(row, es)
  /\ x.op = "event" /\ x.at \in {"queue notice", "read notices", "write notified"} => Reached(row, es)
  /\ x.at = "write notified" => x.count \in Nat /\ x.count <= row.notices

OnRecall(x) ==
  x.recall \in RecallId /\ recalls[x.recall] # NoRecall
    => CallOnRecall(x, recalls[x.recall], eventRows)

CallHoldsHere(x) == IsCall(x) /\ CallFilled(x) /\ OnRecall(x)

\* Ids are dealt out once, and an event's product has a row.
EventsRight ==
  /\ lastEvent \in Nat
  /\ \A e \in eventRows : /\ e.id \in Nat /\ e.id <= lastEvent
                          /\ e.product \in CatalogProduct /\ productRow[e.product] # NoProduct
  /\ \A e, f \in eventRows : e.id = f.id => e = f

CallsInOrder ==
  /\ request = [c \in Client |-> request[c]]
  /\ \A c \in Client : CallHoldsHere(request[c])

RecallsInOrder ==
  /\ recalls = [r \in RecallId |-> recalls[r]]
  /\ \A r \in RecallId : recalls[r] = NoRecall \/ RecallHolds(recalls[r], eventRows, lastEvent)

RecallInv ==
  /\ productRow = [p \in CatalogProduct |-> productRow[p]]
  /\ EventsRight /\ CallsInOrder /\ RecallsInOrder

LEMMA RecallIsNone ==
  ASSUME NEW x, RecallRow(x)
  PROVE  x # NoRecall
<1>1. "batch" \in DOMAIN x
  BY DEF RecallRow
<1>2. DOMAIN NoRecall = {"product"}
  BY DEF NoRecall
<1> QED
  BY <1>1, <1>2

LEMMA QuietHolds == CallHoldsHere(Quiet) /\ Quiet.op = "none" /\ Quiet.at = "none"
<1>1. IsCall(Quiet)
  BY DEF IsCall, Quiet
<1>2. CallFilled(Quiet)
  BY DEF CallFilled, Quiet, AboutProduct, AtProduct, AtRecall
<1>3. OnRecall(Quiet)
  BY DEF OnRecall, CallOnRecall, Quiet
<1> QED
  BY <1>1, <1>2, <1>3 DEF CallHoldsHere, Quiet

\* A call takes a step; events and recalls stay, and products are not deleted.
LEMMA CallSteps ==
  ASSUME RecallInv, NEW c \in Client, NEW x, CallHoldsHere(x),
         request' = [request EXCEPT ![c] = x],
         UNCHANGED <<eventRows, lastEvent, recalls>>,
         productRow' = [p \in CatalogProduct |-> productRow'[p]],
         \A p \in CatalogProduct : productRow[p] # NoProduct => productRow'[p] # NoProduct
  PROVE  RecallInv'
<1>1. EventsRight'
  BY DEF RecallInv, EventsRight
<1>2. \A d \in Client : OnRecall(request'[d]) => OnRecall(request[d])'
  BY DEF OnRecall, CallOnRecall, Reached
<1>3. \A d \in Client : request'[d] = IF d = c THEN x ELSE request[d]
  BY DEF RecallInv, CallsInOrder
<1>4. CallsInOrder'
  <2>1. \A d \in Client : CallHoldsHere(request'[d])
    BY <1>3 DEF RecallInv, CallsInOrder
  <2>2. \A d \in Client : CallHoldsHere(request[d])'
    <3>1. \A d \in Client : IsCall(request'[d]) => IsCall(request[d])'
      BY DEF IsCall
    <3>2. \A d \in Client : CallFilled(request'[d]) => CallFilled(request[d])'
      BY DEF CallFilled
    <3>. QED BY <1>2, <2>1, <3>1, <3>2 DEF CallHoldsHere
  <2>3. request' = [d \in Client |-> request'[d]]
    BY DEF RecallInv, CallsInOrder
  <2> QED
    BY <2>2, <2>3 DEF CallsInOrder
<1>5. RecallsInOrder'
  BY DEF RecallInv, RecallsInOrder, RecallHolds, RecallRow, NamedRight, Reached
<1> QED
  BY <1>1, <1>4, <1>5 DEF RecallInv

\* The fields a step of a call does not write.
Follows(x, y) ==
  /\ IsCall(x) /\ x.op = y.op /\ x.product = y.product /\ x.new = y.new /\ x.failed = y.failed
  /\ x.recall = y.recall

LEMMA Following ==
  ASSUME NEW x, NEW y, CallFilled(y), Follows(x, y), x.at \notin AtRecall,
         x.at \in AtProduct => y.op \in AboutProduct,
         x.at \in {"insert", "update"} => y.op = "sync",
         x.at = "drop stats" /\ y.failed => y.op \in AboutProduct
  PROVE  CallHoldsHere(x)
BY DEF CallHoldsHere, CallFilled, Follows, OnRecall, CallOnRecall, AtRecall

LEMMA Fields ==
  ASSUME NEW y, IsCall(y), NEW at
  PROVE  Follows([y EXCEPT !.at = at], y) /\ [y EXCEPT !.at = at].at = at
<1>1. PICK z : z = [y EXCEPT !.at = at]
  OBVIOUS
<1>2. Follows(z, y) /\ z.at = at
  BY <1>1 DEF Follows, IsCall
<1> QED
  BY <1>1, <1>2

LEMMA CallStepsAlone ==
  ASSUME RecallInv, NEW c \in Client, NEW x, CallHoldsHere(x),
         request' = [request EXCEPT ![c] = x],
         UNCHANGED <<productRow, eventRows, lastEvent, recalls>>
  PROVE  RecallInv'
BY CallSteps DEF RecallInv

LEMMA CallBegins ==
  ASSUME RecallInv, NEW c \in Client,
         \/ \E p \in CatalogProduct :
              \/ \E op \in {"get", "delete"} : ProductCall(c, op, p)
              \/ \E new \in ProductRows : SyncProduct(c, p, new)
              \/ \E b \in BatchName \union {NoBatchNamed}, failed \in BOOLEAN : CreateEvent(c, p, b, failed)
              \/ \E b \in BatchName \union {NoBatchNamed} : CreateRecallHandler(c, p, b)
         \/ GetGlobalStats(c)
         \/ \E r \in RecallId : \E n \in 1 .. 2 : NotifyRecall(c, r, n)
  PROVE  RecallInv'
<1>1. ASSUME NEW x, Call(c, x), CallHoldsHere(x) PROVE RecallInv'
  BY <1>1, CallStepsAlone DEF Call
<1>2. IsCall(Quiet)
  BY QuietHolds DEF CallHoldsHere
<1>3. ASSUME NEW p \in CatalogProduct, NEW op \in {"get", "delete"}, ProductCall(c, op, p) PROVE RecallInv'
  <2>1. PICK x : x = [Quiet EXCEPT !.op = op, !.at = "look up", !.product = p]
    OBVIOUS
  <2>2. IsCall(x) /\ x.op = op /\ x.at = "look up" /\ x.product = p
    BY <1>2, <2>1 DEF IsCall
  <2>3. CallHoldsHere(x)
    BY <2>2 DEF CallHoldsHere, CallFilled, AboutProduct, AtProduct, AtRecall, OnRecall, CallOnRecall
  <2> QED
    BY <1>1, <1>3, <2>1, <2>3 DEF ProductCall
<1>4. ASSUME NEW p \in CatalogProduct, NEW new \in ProductRows, SyncProduct(c, p, new) PROVE RecallInv'
  <2>1. PICK x : x = [Quiet EXCEPT !.op = "sync", !.at = "look up", !.product = p, !.new = new]
    OBVIOUS
  <2>2. IsCall(x) /\ x.op = "sync" /\ x.at = "look up" /\ x.product = p /\ x.new = new
    BY <1>2, <2>1 DEF IsCall
  <2>3. CallHoldsHere(x)
    BY <2>2 DEF CallHoldsHere, CallFilled, AboutProduct, AtProduct, AtRecall, OnRecall, CallOnRecall
  <2> QED
    BY <1>1, <1>4, <2>1, <2>3 DEF SyncProduct
<1>5. ASSUME NEW p \in CatalogProduct, NEW b, NEW failed \in BOOLEAN, CreateEvent(c, p, b, failed)
      PROVE  RecallInv'
  <2>1. PICK x : x = [Quiet EXCEPT !.op = "event", !.at = "insert event", !.product = p, !.batch = b,
                        !.failed = failed]
    OBVIOUS
  <2>2. IsCall(x) /\ x.op = "event" /\ x.at = "insert event" /\ x.product = p
    BY <1>2, <2>1 DEF IsCall
  <2>3. CallHoldsHere(x)
    BY <2>2 DEF CallHoldsHere, CallFilled, AboutProduct, AtProduct, AtRecall, OnRecall, CallOnRecall
  <2> QED
    BY <1>1, <1>5, <2>1, <2>3 DEF CreateEvent
<1>6. ASSUME NEW p \in CatalogProduct, NEW b, CreateRecallHandler(c, p, b) PROVE RecallInv'
  <2>1. PICK x : x = [Quiet EXCEPT !.op = "recall", !.at = "open recall", !.product = p, !.batch = b]
    OBVIOUS
  <2>2. IsCall(x) /\ x.op = "recall" /\ x.at = "open recall" /\ x.product = p
    BY <1>2, <2>1 DEF IsCall
  <2>3. CallHoldsHere(x)
    BY <2>2 DEF CallHoldsHere, CallFilled, AboutProduct, AtProduct, AtRecall, OnRecall, CallOnRecall
  <2> QED
    BY <1>1, <1>6, <2>1, <2>3 DEF CreateRecallHandler
<1>7. ASSUME GetGlobalStats(c) PROVE RecallInv'
  <2>1. PICK x : x = [Quiet EXCEPT !.op = "stats", !.at = "look up stats"]
    OBVIOUS
  <2>2. IsCall(x) /\ x.op = "stats" /\ x.at = "look up stats"
    BY <1>2, <2>1 DEF IsCall
  <2>3. CallHoldsHere(x)
    BY <2>2 DEF CallHoldsHere, CallFilled, AboutProduct, AtProduct, AtRecall, OnRecall, CallOnRecall
  <2> QED
    BY <1>1, <1>7, <2>1, <2>3 DEF GetGlobalStats
<1>8. ASSUME NEW r \in RecallId, NEW n \in 1 .. 2, NotifyRecall(c, r, n) PROVE RecallInv'
  <2>1. PICK x : x = [Quiet EXCEPT !.op = "notify", !.at = "queue notice", !.recall = r, !.count = n]
    OBVIOUS
  <2>2. IsCall(x) /\ x.op = "notify" /\ x.at = "queue notice" /\ x.recall = r
    BY <1>2, <2>1 DEF IsCall
  <2>3. CallHoldsHere(x)
    BY <2>2 DEF CallHoldsHere, CallFilled, AboutProduct, AtProduct, AtRecall, OnRecall, CallOnRecall
  <2> QED
    BY <1>1, <1>8, <2>1, <2>3 DEF NotifyRecall
<1> QED
  BY <1>3, <1>4, <1>5, <1>6, <1>7, <1>8

LEMMA ReturnKeeps ==
  ASSUME RecallInv, NEW c \in Client, Return(c),
         UNCHANGED <<productRow, eventRows, lastEvent, recalls>>
  PROVE  RecallInv'
BY QuietHolds, CallStepsAlone DEF Return

LEMMA GotoKeeps ==
  ASSUME RecallInv, NEW c \in Client, NEW at, Goto(c, at), at \notin AtRecall,
         at \in AtProduct => request[c].op \in AboutProduct,
         at \in {"insert", "update"} => request[c].op = "sync",
         at = "drop stats" /\ request[c].failed => request[c].op \in AboutProduct,
         UNCHANGED <<eventRows, lastEvent, recalls>>,
         productRow' = [p \in CatalogProduct |-> productRow'[p]],
         \A p \in CatalogProduct : productRow[p] # NoProduct => productRow'[p] # NoProduct
  PROVE  RecallInv'
<1>1. PICK x : x = [request[c] EXCEPT !.at = at]
  OBVIOUS
<1>2. request' = [request EXCEPT ![c] = x]
  BY <1>1 DEF Goto
<1>3. CallHoldsHere(request[c])
  BY DEF RecallInv, CallsInOrder
<1>4. Follows(x, request[c]) /\ x.at = at
  BY <1>1, <1>3, Fields DEF CallHoldsHere
<1>5. CallHoldsHere(x)
  BY <1>3, <1>4, Following DEF CallHoldsHere
<1> QED
  BY <1>2, <1>5, CallSteps

LEMMA ProceedKeeps ==
  ASSUME RecallInv, NEW c \in Client, NEW seen, Proceed(c, seen),
         request[c].op \in AboutProduct,
         UNCHANGED <<productRow, eventRows, lastEvent, recalls>>
  PROVE  RecallInv'
<1>1. PICK next : next = Afterwards(request[c].op, seen)
  OBVIOUS
<1>2. next \in {"insert", "update", "delete", "open recall", "return"}
      /\ (next \in {"insert", "update"} => request[c].op = "sync")
  BY <1>1 DEF Afterwards
<1>3. CASE next = "return"
  BY <1>1, <1>3, ReturnKeeps DEF Proceed
<1>4. CASE next # "return"
  <2>1. PICK x : x = [request[c] EXCEPT !.at = next, !.seen = seen]
    OBVIOUS
  <2>2. request' = [request EXCEPT ![c] = x]
    BY <1>1, <1>4, <2>1 DEF Proceed
  <2>3. CallHoldsHere(request[c])
    BY DEF RecallInv, CallsInOrder
  <2>4. Follows(x, request[c]) /\ x.at = next
    BY <2>1, <2>3 DEF CallHoldsHere, IsCall, Follows
  <2>5. CallFilled(request[c])
    BY <2>3 DEF CallHoldsHere
  <2>6. x.at \notin AtRecall /\ x.at # "drop stats"
    BY <1>2, <2>4 DEF AtRecall
  <2>7. CallHoldsHere(x)
    BY <1>2, <2>4, <2>5, <2>6, Following
  <2> QED
    BY <2>2, <2>7, CallStepsAlone
<1> QED
  BY <1>3, <1>4

LEMMA ReadsKeep ==
  ASSUME RecallInv, NEW c \in Client,
         \/ LookUp(c) \/ Select(c) \/ LeaveCopy(c) \/ DropCopy(c) \/ DropStats(c)
         \/ LookUpStats(c) \/ CountStats(c) \/ LeaveStats(c) \/ Dropped(c)
  PROVE  RecallInv'
<1>1. CallHoldsHere(request[c]) /\ CallFilled(request[c]) /\ IsCall(request[c])
  BY DEF RecallInv, CallsInOrder, CallHoldsHere
<1>2. UNCHANGED <<productRow, eventRows, lastEvent, recalls>>
  BY DEF LookUp, Select, LeaveCopy, DropCopy, DropStats, LookUpStats, CountStats, LeaveStats, Dropped
<1>3. request[c].at \in {"look up", "select", "leave copy", "drop copy"} => request[c].op \in AboutProduct
  BY <1>1 DEF CallFilled, AtProduct
<1>4. \A x : CallHoldsHere(x) /\ request' = [request EXCEPT ![c] = x] => RecallInv'
  BY <1>2, CallStepsAlone
<1>5. \A at \in {"select", "drop stats", "look up", "count"} :
        Goto(c, at) /\ (at # "count" => request[c].op \in AboutProduct) => RecallInv'
  <2> SUFFICES ASSUME NEW at \in {"select", "drop stats", "look up", "count"}, Goto(c, at),
                      at # "count" => request[c].op \in AboutProduct
               PROVE  RecallInv'
    OBVIOUS
  <2>1. at \notin AtRecall /\ (at \in AtProduct => request[c].op \in AboutProduct)
    BY DEF AtRecall, AtProduct
  <2>2. at \notin {"insert", "update"} /\ (at = "drop stats" => request[c].op \in AboutProduct)
    OBVIOUS
  <2>3. productRow' = [p \in CatalogProduct |-> productRow'[p]]
    BY <1>2 DEF RecallInv
  <2>4. \A p \in CatalogProduct : productRow[p] # NoProduct => productRow'[p] # NoProduct
    BY <1>2
  <2> QED
    BY <1>2, <2>1, <2>2, <2>3, <2>4, GotoKeeps
<1>6. CASE LookUp(c)
  BY <1>2, <1>3, <1>5, <1>6, ProceedKeeps DEF LookUp
<1>7. CASE Select(c)
  <2>1. CASE Proceed(c, NoProduct)
    BY <1>2, <1>3, <1>7, <2>1, ProceedKeeps DEF Select
  <2>2. ASSUME NEW row, request' = [request EXCEPT ![c].at = "leave copy", ![c].seen = row]
        PROVE  RecallInv'
    <3>1. PICK x : x = [request[c] EXCEPT !.at = "leave copy", !.seen = row]
      OBVIOUS
    <3>2. request' = [request EXCEPT ![c] = x]
      BY <2>2, <3>1
    <3>3. Follows(x, request[c]) /\ x.at = "leave copy"
      BY <1>1, <3>1 DEF IsCall, Follows
    <3>4. x.at \notin AtRecall /\ request[c].op \in AboutProduct
      BY <1>3, <1>7, <3>3 DEF AtRecall, Select
    <3>5. CallHoldsHere(x)
      BY <1>1, <3>3, <3>4, Following
    <3> QED
      BY <1>4, <3>2, <3>5
  <2> QED
    BY <1>7, <2>1, <2>2 DEF Select
<1>8. CASE LeaveCopy(c)
  BY <1>2, <1>3, <1>8, ProceedKeeps DEF LeaveCopy
<1>9. CASE DropCopy(c)
  BY <1>2, <1>3, <1>5, <1>9 DEF DropCopy
<1>10. CASE DropStats(c)
  <2>1. request[c].failed => request[c].op \in AboutProduct
    BY <1>1, <1>10 DEF DropStats, CallFilled
  <2> QED
    BY <1>2, <1>5, <1>10, <2>1, ReturnKeeps DEF DropStats
<1>11. CASE LookUpStats(c)
  BY <1>2, <1>5, <1>11, ReturnKeeps DEF LookUpStats
<1>12. CASE CountStats(c)
  <2>1. PICK x : x = [request[c] EXCEPT !.at = "leave stats", !.figures = Figures]
    OBVIOUS
  <2>2. request' = [request EXCEPT ![c] = x]
    BY <1>12, <2>1 DEF CountStats
  <2>3. Follows(x, request[c]) /\ x.at = "leave stats"
    BY <1>1, <2>1 DEF IsCall, Follows
  <2>4. x.at \notin AtRecall /\ x.at \notin AtProduct
    BY <2>3 DEF AtRecall, AtProduct
  <2>5. CallHoldsHere(x)
    BY <1>1, <2>3, <2>4, Following
  <2> QED
    BY <1>4, <2>2, <2>5
<1>13. CASE LeaveStats(c) \/ Dropped(c)
  BY <1>2, <1>13, ReturnKeeps DEF LeaveStats, Dropped
<1> QED
  BY <1>6, <1>7, <1>8, <1>9, <1>10, <1>11, <1>12, <1>13


LEMMA SyncWriteKeeps ==
  ASSUME RecallInv, NEW c \in Client, SyncWrite(c)
  PROVE  RecallInv'
<1> DEFINE p == request[c].product
<1>1. CallFilled(request[c]) /\ request[c].op = "sync" /\ p \in CatalogProduct /\ request[c].new \in ProductRows
  <2>1. CallFilled(request[c])
    BY DEF RecallInv, CallsInOrder, CallHoldsHere
  <2>2. request[c].op = "sync"
    BY <2>1 DEF CallFilled, SyncWrite
  <2>3. request[c].op \in AboutProduct
    BY <2>2 DEF AboutProduct
  <2> QED
    BY <2>1, <2>2, <2>3 DEF CallFilled
<1>2. request[c].new # NoProduct
  BY <1>1, CatalogAssumption DEF ProductRows, NoProduct
<1>3. CASE productRow' = productRow /\ Return(c)
  BY <1>3, ReturnKeeps DEF SyncWrite
<1>4. CASE productRow' = [productRow EXCEPT ![p] = request[c].new] /\ Goto(c, DropFirst(request[c].at))
  <2>1. PICK at \in {"drop stats", "drop copy"} : Goto(c, at)
    BY <1>4 DEF DropFirst
  <2>2. request[c].op \in AboutProduct
    BY <1>1 DEF AboutProduct
  <2>3. at \notin AtRecall /\ at \notin {"insert", "update"}
    BY DEF AtRecall
  <2>4. /\ productRow' = [q \in CatalogProduct |-> productRow'[q]]
        /\ \A q \in CatalogProduct : productRow[q] # NoProduct => productRow'[q] # NoProduct
    BY <1>2, <1>4 DEF RecallInv
  <2>5. UNCHANGED <<eventRows, lastEvent, recalls>>
    BY DEF SyncWrite
  <2> QED
    BY <2>1, <2>2, <2>3, <2>4, <2>5, GotoKeeps
<1> QED
  BY <1>3, <1>4 DEF SyncWrite

\* What a step may do to a recall: to delete it, to write down more, or to open
\* one under an id that no call holds.
Continues(new, old, es) ==
  /\ old # NoRecall /\ RecallHolds(new, es, lastEvent')
  /\ Reached(old, eventRows) => Reached(new, es)
  /\ new.notices >= old.notices

Opens(new, r, es) == RecallHolds(new, es, lastEvent') /\ \A d \in Client : request[d].recall # r

\* What holds of a call and a recall's row still holds when the row continues.
LEMMA CallContinues ==
  ASSUME NEW y, NEW old, NEW new, NEW es, CallOnRecall(y, old, eventRows), Continues(new, old, es),
         RecallRow(old), RecallRow(new)
  PROVE  CallOnRecall(y, new, es)
<1>1. Reached(old, eventRows) => Reached(new, es)
  BY DEF Continues
<1>2. new.notices >= old.notices /\ old.notices \in Nat /\ new.notices \in Nat
  BY DEF Continues, RecallRow
<1>3. y.at = "write notified" => y.count \in Nat /\ y.count <= old.notices
  BY DEF CallOnRecall
<1>4. ASSUME y.at = "write notified" PROVE y.count \in Nat /\ y.count <= new.notices
  <2>1. PICK i : i = y.count
    OBVIOUS
  <2>2. i \in Nat /\ i <= old.notices
    BY <1>3, <1>4, <2>1
  <2> QED
    BY <1>2, <2>1, <2>2
<1>5. y.at \in {"read items", "write affected"} => Reached(new, es)
  BY <1>1 DEF CallOnRecall
<1>6. y.op = "event" /\ y.at \in {"queue notice", "read notices", "write notified"} => Reached(new, es)
  BY <1>1 DEF CallOnRecall
<1> QED
  BY <1>4, <1>5, <1>6 DEF CallOnRecall

\* A call takes a step that continues some recalls, deletes others and opens one.
LEMMA RecallsContinue ==
  ASSUME RecallInv, NEW c \in Client, NEW x, IsCall(x), CallFilled(x),
         request' = [request EXCEPT ![c] = x],
         productRow' = [p \in CatalogProduct |-> productRow'[p]],
         EventsRight',
         recalls' = [r \in RecallId |-> recalls'[r]],
         \A r \in RecallId : \/ recalls'[r] = NoRecall
                             \/ Continues(recalls'[r], recalls[r], eventRows')
                             \/ Opens(recalls'[r], r, eventRows'),
         x.recall \in RecallId /\ recalls'[x.recall] # NoRecall
           => CallOnRecall(x, recalls'[x.recall], eventRows')
  PROVE  RecallInv'
<1>1. RecallsInOrder'
  BY DEF RecallsInOrder, Continues, Opens
<1>2. \A d \in Client : request'[d] = IF d = c THEN x ELSE request[d]
  BY DEF RecallInv, CallsInOrder
<1>3. ASSUME NEW d \in Client PROVE CallHoldsHere(request[d])'
  <2>1. CASE d = c
    <3>1. request'[d] = x
      BY <1>2, <2>1
    <3> QED
      BY <3>1 DEF CallHoldsHere, IsCall, CallFilled, OnRecall
  <2>2. CASE d # c
    <3>1. PICK y : y = request[d] /\ request'[d] = y
      BY <1>2, <2>2
    <3>2. IsCall(y) /\ CallFilled(y) /\ OnRecall(y)
      BY <3>1 DEF RecallInv, CallsInOrder, CallHoldsHere
    <3>3. ASSUME y.recall \in RecallId, recalls'[y.recall] # NoRecall
          PROVE  CallOnRecall(y, recalls'[y.recall], eventRows')
      <4>1. PICK new : new = recalls'[y.recall]
        OBVIOUS
      <4>2. PICK old : old = recalls[y.recall]
        OBVIOUS
      <4>3. Continues(new, old, eventRows')
        BY <3>1, <3>3, <4>1, <4>2 DEF Opens
      <4>4. CallOnRecall(y, old, eventRows)
        BY <3>2, <3>3, <4>2, <4>3 DEF OnRecall, Continues
      <4>5. RecallRow(old)
        BY <3>3, <4>2, <4>3 DEF RecallInv, RecallsInOrder, RecallHolds, Continues
      <4>6. RecallRow(new)
        BY <4>3 DEF Continues, RecallHolds
      <4> QED
        BY <4>1, <4>3, <4>4, <4>5, <4>6, CallContinues
    <3> QED
      BY <3>1, <3>2, <3>3 DEF CallHoldsHere, IsCall, CallFilled, OnRecall
  <2> QED
    BY <2>1, <2>2
<1>4. request' = [d \in Client |-> request'[d]]
  BY DEF RecallInv, CallsInOrder
<1>5. CallsInOrder'
  BY <1>3, <1>4 DEF CallsInOrder
<1> QED
  BY <1>1, <1>5 DEF RecallInv

\* A recall that is left alone continues, while events are deleted or get new ids.
LEMMA SameContinues ==
  ASSUME NEW x, NEW es, x # NoRecall, RecallHolds(x, eventRows, lastEvent),
         \A e \in es : e \in eventRows \/ e.id \notin x.named,
         lastEvent \in Nat, lastEvent' \in Nat, lastEvent' >= lastEvent
  PROVE  Continues(x, x, es)
<1>1. RecallRow(x) /\ NamedRight(x, eventRows, lastEvent) /\ (x.finished => Reached(x, eventRows))
  BY DEF RecallHolds
<1>2. NamedRight(x, es, lastEvent')
  BY <1>1 DEF NamedRight
<1>3. Reached(x, eventRows) => Reached(x, es)
  BY DEF Reached
<1>4. x.notices >= x.notices
  BY <1>1 DEF RecallRow
<1> QED
  BY <1>1, <1>2, <1>3, <1>4 DEF Continues, RecallHolds

\* Nothing that a recall has written down is taken back.
LEMMA RowGrows ==
  ASSUME NEW x, NEW y, x # NoRecall, RecallHolds(x, eventRows, lastEvent), RecallRow(y),
         y.named = x.named, y.batch = x.batch, x.items \subseteq y.items, y.notices >= x.notices,
         y.finished => x.finished \/ Reached(y, eventRows),
         lastEvent' = lastEvent
  PROVE  Continues(y, x, eventRows)
<1>1. NamedRight(x, eventRows, lastEvent) /\ (x.finished => Reached(x, eventRows))
  BY DEF RecallHolds
<1>2. NamedRight(y, eventRows, lastEvent')
  BY <1>1 DEF NamedRight
<1>3. Reached(x, eventRows) => Reached(y, eventRows)
  BY DEF Reached
<1>4. y.finished => Reached(y, eventRows)
  BY <1>1, <1>3
<1> QED
  BY <1>2, <1>3, <1>4 DEF Continues, RecallHolds

\* A call that writes a recall's row, and goes on with it or returns.
LEMMA RowWritten ==
  ASSUME RecallInv, NEW c \in Client, NEW r \in RecallId, recalls[r] # NoRecall,
         NEW x, IsCall(x), CallFilled(x), NEW y, Continues(y, recalls[r], eventRows),
         \/ x = Quiet
         \/ x.recall = r /\ CallOnRecall(x, y, eventRows),
         request' = [request EXCEPT ![c] = x], recalls' = [recalls EXCEPT ![r] = y],
         UNCHANGED <<productRow, eventRows, lastEvent>>
  PROVE  RecallInv'
<1>1. productRow' = [p \in CatalogProduct |-> productRow'[p]]
  BY DEF RecallInv
<1>2. EventsRight'
  BY DEF RecallInv, EventsRight
<1>3. recalls' = [s \in RecallId |-> recalls'[s]] /\ recalls'[r] = y
  BY DEF RecallInv, RecallsInOrder
<1>4. ASSUME NEW s \in RecallId
      PROVE  recalls'[s] = NoRecall \/ Continues(recalls'[s], recalls[s], eventRows')
  <2>1. CASE s = r
    <3>1. eventRows' = eventRows
      OBVIOUS
    <3> QED
      BY <1>3, <2>1, <3>1
  <2>2. CASE s # r
    <3>1. PICK z : z = recalls[s] /\ recalls'[s] = z
      BY <2>2 DEF RecallInv, RecallsInOrder
    <3>2. z = NoRecall \/ RecallHolds(z, eventRows, lastEvent)
      BY <3>1 DEF RecallInv, RecallsInOrder
    <3>3. lastEvent \in Nat
      BY DEF RecallInv, EventsRight
    <3>4. z # NoRecall => Continues(z, z, eventRows')
      BY <3>2, <3>3, SameContinues
    <3> QED
      BY <3>1, <3>4
  <2> QED
    BY <2>1, <2>2
<1>5. (CallOnRecall(x, y, eventRows') /\ x.recall = r) \/ x = Quiet
  BY DEF CallOnRecall, Reached
<1>6. \A z : CallOnRecall(Quiet, z, eventRows')
  BY DEF CallOnRecall, Quiet
<1>7. x.recall \in RecallId /\ recalls'[x.recall] # NoRecall
        => CallOnRecall(x, recalls'[x.recall], eventRows')
  BY <1>3, <1>5, <1>6
<1> QED
  BY <1>1, <1>2, <1>3, <1>4, <1>7, RecallsContinue

LEMMA InsertEventKeeps ==
  ASSUME RecallInv, NEW c \in Client, InsertEvent(c)
  PROVE  RecallInv'
<1>1. PICK call : call = request[c]
  OBVIOUS
<1>2. IsCall(call) /\ CallFilled(call) /\ call.at = "insert event"
  BY <1>1 DEF RecallInv, CallsInOrder, CallHoldsHere, InsertEvent
<1>3. call.op \in AboutProduct /\ call.product \in CatalogProduct
  BY <1>2 DEF CallFilled, AtProduct
<1>4. CASE productRow[call.product] = NoProduct
  BY <1>1, <1>4, ReturnKeeps DEF InsertEvent
<1>5. CASE productRow[call.product] # NoProduct
  <2>1. PICK new : new = [id |-> lastEvent + 1, product |-> call.product, batch |-> call.batch]
    OBVIOUS
  <2>2. /\ lastEvent' = lastEvent + 1 /\ eventRows' = eventRows \union {new}
        /\ request' = [request EXCEPT ![c].at = "drop stats"]
        /\ UNCHANGED <<productRow, recalls>>
    BY <1>1, <1>5, <2>1 DEF InsertEvent
  <2>3. lastEvent \in Nat /\ lastEvent' \in Nat /\ lastEvent' >= lastEvent
    <3>1. lastEvent \in Nat
      BY DEF RecallInv, EventsRight
    <3>2. lastEvent' = lastEvent + 1
      BY <2>2
    <3> QED
      BY <3>1, <3>2
  <2>4. EventsRight'
    <3>1. \A e \in eventRows' : e \in eventRows \/ e = new
      BY <2>2
    <3>2. \A e \in eventRows' : /\ e.id \in Nat /\ e.id <= lastEvent'
                                /\ e.product \in CatalogProduct /\ productRow'[e.product] # NoProduct
      <4> SUFFICES ASSUME NEW e \in eventRows'
                   PROVE  /\ e.id \in Nat /\ e.id <= lastEvent'
                          /\ e.product \in CatalogProduct /\ productRow'[e.product] # NoProduct
        OBVIOUS
      <4>1. lastEvent \in Nat /\ lastEvent' = lastEvent + 1 /\ productRow' = productRow
        BY <2>2, <2>3
      <4>2. CASE e = new
        <5>1. e.id = lastEvent + 1 /\ e.product = call.product
          BY <2>1, <4>2
        <5> QED
          BY <1>3, <1>5, <4>1, <5>1
      <4>3. CASE e \in eventRows
        <5>1. /\ e.id \in Nat /\ e.id <= lastEvent
              /\ e.product \in CatalogProduct /\ productRow[e.product] # NoProduct
          BY <4>3 DEF RecallInv, EventsRight
        <5> QED
          BY <4>1, <5>1
      <4> QED
        BY <3>1, <4>2, <4>3
    <3>3. \A e, f \in eventRows' : e.id = f.id => e = f
      <4> SUFFICES ASSUME NEW e \in eventRows', NEW f \in eventRows', e.id = f.id PROVE e = f
        OBVIOUS
      <4>1. \A g \in eventRows : g.id # new.id
        BY <2>1 DEF RecallInv, EventsRight
      <4> QED
        BY <3>1, <4>1 DEF RecallInv, EventsRight
    <3> QED
      BY <2>3, <3>2, <3>3 DEF EventsRight
  <2>5. PICK x : x = [call EXCEPT !.at = "drop stats"]
    OBVIOUS
  <2>6. request' = [request EXCEPT ![c] = x]
    BY <1>1, <2>2, <2>5
  <2>7. Follows(x, call) /\ x.at = "drop stats"
    BY <1>2, <2>5, Fields
  <2>8. x.at \notin AtRecall /\ x.at \notin AtProduct
    BY <2>7 DEF AtRecall, AtProduct
  <2>9. CallHoldsHere(x)
    BY <1>2, <1>3, <2>7, <2>8, Following
  <2>10. productRow' = [p \in CatalogProduct |-> productRow'[p]]
         /\ recalls' = [r \in RecallId |-> recalls'[r]]
    BY <2>2 DEF RecallInv, RecallsInOrder
  <2>11. ASSUME NEW r \in RecallId
         PROVE  recalls'[r] = NoRecall \/ Continues(recalls'[r], recalls[r], eventRows')
    <3>1. PICK z : z = recalls[r] /\ recalls'[r] = z
      BY <2>2
    <3>2. z = NoRecall \/ RecallHolds(z, eventRows, lastEvent)
      BY <3>1 DEF RecallInv, RecallsInOrder
    <3>3. CASE z # NoRecall
      <4>1. ASSUME new.id \in z.named PROVE FALSE
        BY <2>1, <2>3, <3>2, <3>3, <4>1 DEF RecallHolds, NamedRight
      <4>2. \A e \in eventRows' : e \in eventRows \/ e.id \notin z.named
        BY <2>2, <4>1
      <4>3. Continues(z, z, eventRows')
        BY <2>3, <3>2, <3>3, <4>2, SameContinues
      <4> QED
        BY <3>1, <4>3
    <3> QED
      BY <3>1, <3>3
  <2>12. CallOnRecall(x, recalls'[x.recall], eventRows')
    BY <2>7 DEF CallOnRecall
  <2> QED
    BY <2>4, <2>6, <2>9, <2>10, <2>11, <2>12, RecallsContinue DEF CallHoldsHere
<1> QED
  BY <1>4, <1>5

\* A recall of another product goes on without the one that is deleted.
LEMMA RowWithout ==
  ASSUME NEW x, NEW y, NEW p, NEW es, x # NoRecall, RecallHolds(x, eventRows, lastEvent),
         y = [x EXCEPT !.items = x.items \ {p}],
         es = {e \in eventRows : e.product # p},
         lastEvent' = lastEvent
  PROVE  Continues(y, x, es)
<1>1. RecallRow(x) /\ NamedRight(x, eventRows, lastEvent) /\ (x.finished => Reached(x, eventRows))
  BY DEF RecallHolds
<1>2. RecallRow(y)
  BY <1>1 DEF RecallRow
<1>3. y.named = x.named /\ y.batch = x.batch /\ y.items = x.items \ {p} /\ y.finished = x.finished
      /\ y.notices = x.notices
  BY <1>1 DEF RecallRow
<1>4. NamedRight(y, es, lastEvent')
  BY <1>1, <1>3 DEF NamedRight
<1>5. Reached(x, eventRows) => Reached(y, es)
  BY <1>3 DEF Reached
<1>6. y.notices >= x.notices
  BY <1>1, <1>3 DEF RecallRow
<1> QED
  BY <1>1, <1>2, <1>3, <1>4, <1>5, <1>6 DEF Continues, RecallHolds

LEMMA DeleteProductKeeps ==
  ASSUME RecallInv, NEW c \in Client, DeleteProduct(c)
  PROVE  RecallInv'
<1>1. PICK p : p = request[c].product
  OBVIOUS
<1>2. IsCall(request[c]) /\ CallFilled(request[c]) /\ request[c].at = "delete"
  BY DEF RecallInv, CallsInOrder, CallHoldsHere, DeleteProduct
<1>3. request[c].op \in AboutProduct /\ p \in CatalogProduct
  BY <1>1, <1>2 DEF CallFilled, AtProduct
<1>4. /\ productRow' = [productRow EXCEPT ![p] = NoProduct]
      /\ eventRows' = {e \in eventRows : e.product # p}
      /\ recalls' = WithoutProduct(p)
      /\ Goto(c, "drop copy") /\ lastEvent' = lastEvent
  BY <1>1 DEF DeleteProduct, DropFirst
<1>5. PICK x : x = [request[c] EXCEPT !.at = "drop copy"]
  OBVIOUS
<1>6. request' = [request EXCEPT ![c] = x]
  BY <1>4, <1>5 DEF Goto
<1>7. Follows(x, request[c]) /\ x.at = "drop copy"
  BY <1>2, <1>5, Fields
<1>8. x.at \notin AtRecall
  BY <1>7 DEF AtRecall
<1>9. CallHoldsHere(x)
  BY <1>2, <1>3, <1>7, <1>8, Following
<1>10. EventsRight'
  BY <1>3, <1>4 DEF RecallInv, EventsRight
<1>11. productRow' = [q \in CatalogProduct |-> productRow'[q]]
  BY <1>4 DEF RecallInv
<1>12. recalls' = [r \in RecallId |-> recalls'[r]]
  BY <1>4 DEF WithoutProduct
<1>13. ASSUME NEW r \in RecallId
       PROVE  recalls'[r] = NoRecall \/ Continues(recalls'[r], recalls[r], eventRows')
  <2>1. PICK z : z = recalls[r]
    OBVIOUS
  <2>2. recalls'[r] = NoRecall \/ (z # NoRecall /\ recalls'[r] = [z EXCEPT !.items = z.items \ {p}])
    <3>1. recalls'[r] = IF z = NoRecall THEN NoRecall ELSE IF z.product = p THEN NoRecall
                        ELSE [z EXCEPT !.items = @ \ {p}]
      BY <1>4, <2>1 DEF WithoutProduct
    <3> QED
      BY <3>1
  <2>3. PICK y : y = [z EXCEPT !.items = z.items \ {p}]
    OBVIOUS
  <2>4. z = NoRecall \/ RecallHolds(z, eventRows, lastEvent)
    BY <2>1 DEF RecallInv, RecallsInOrder
  <2>5. PICK es : es = eventRows'
    OBVIOUS
  <2>6. z # NoRecall => Continues(y, z, es)
    BY <1>4, <2>3, <2>4, <2>5, RowWithout
  <2> QED
    BY <2>1, <2>2, <2>3, <2>5, <2>6
<1>14. CallOnRecall(x, recalls'[x.recall], eventRows')
  BY <1>7 DEF CallOnRecall
<1> QED
  BY <1>6, <1>9, <1>10, <1>11, <1>12, <1>13, <1>14, RecallsContinue DEF CallHoldsHere

LEMMA CreateRecallKeeps ==
  ASSUME RecallInv, NEW c \in Client, CreateRecall(c)
  PROVE  RecallInv'
<1>1. PICK call : call = request[c]
  OBVIOUS
<1>2. IsCall(call) /\ CallFilled(call) /\ call.at = "open recall"
  BY <1>1 DEF RecallInv, CallsInOrder, CallHoldsHere, CreateRecall, Stage
<1>3. UNCHANGED <<productRow, eventRows, lastEvent>>
  BY DEF CreateRecall, recallRest
<1>4. CASE productRow[call.product] = NoProduct
  BY <1>1, <1>3, <1>4, ReturnKeeps DEF CreateRecall
<1>5. CASE productRow[call.product] # NoProduct
  <2>1. PICK r \in RecallId :
          /\ FreshRecall(r)
          /\ recalls' = [recalls EXCEPT ![r] = Opened(call.product, call.batch)]
          /\ request' = [request EXCEPT ![c].at = "open counts", ![c].recall = r]
    BY <1>1, <1>5 DEF CreateRecall
  <2>2. PICK y : y = Opened(call.product, call.batch)
    OBVIOUS
  <2>3. RecallRow(y) /\ y.batch = call.batch /\ y.named = {e.id : e \in Naming(call.batch)}
        /\ ~y.finished
    BY <2>2 DEF Opened, RecallRow
  <2>4. NamedRight(y, eventRows, lastEvent)
    <3>1. \A n \in y.named : \E e \in eventRows : e.id = n /\ e.batch = y.batch
      BY <2>3 DEF Naming
    <3> QED
      BY <3>1 DEF NamedRight, RecallInv, EventsRight
  <2>5. RecallHolds(y, eventRows', lastEvent')
    BY <1>3, <2>3, <2>4 DEF RecallHolds
  <2>6. PICK x : x = [call EXCEPT !.at = "open counts", !.recall = r]
    OBVIOUS
  <2>7. request' = [request EXCEPT ![c] = x]
    BY <1>1, <2>1, <2>6
  <2>8. /\ IsCall(x) /\ x.at = "open counts" /\ x.recall = r
        /\ x.op = call.op /\ x.product = call.product /\ x.new = call.new
    BY <1>2, <2>6 DEF IsCall
  <2>9. CallFilled(x)
    BY <1>2, <2>8 DEF CallFilled, AtProduct, AtRecall
  <2>10. CallOnRecall(x, y, eventRows')
    BY <2>8 DEF CallOnRecall
  <2>11. recalls' = [s \in RecallId |-> recalls'[s]] /\ recalls'[r] = y
    BY <2>1, <2>2 DEF RecallInv, RecallsInOrder
  <2>12. Opens(y, r, eventRows')
    BY <2>1, <2>5 DEF Opens, FreshRecall
  <2>13. ASSUME NEW s \in RecallId
         PROVE  \/ recalls'[s] = NoRecall
                \/ Continues(recalls'[s], recalls[s], eventRows')
                \/ Opens(recalls'[s], s, eventRows')
    <3>1. CASE s = r
      BY <2>11, <2>12, <3>1
    <3>2. CASE s # r
      <4>1. PICK z : z = recalls[s] /\ recalls'[s] = z
        BY <2>1, <3>2 DEF RecallInv, RecallsInOrder
      <4>2. z = NoRecall \/ RecallHolds(z, eventRows, lastEvent)
        BY <4>1 DEF RecallInv, RecallsInOrder
      <4>3. lastEvent \in Nat /\ lastEvent' = lastEvent
        BY <1>3 DEF RecallInv, EventsRight
      <4>4. z # NoRecall => Continues(z, z, eventRows')
        BY <1>3, <4>2, <4>3, SameContinues
      <4> QED
        BY <4>1, <4>4
    <3> QED
      BY <3>1, <3>2
  <2>14. EventsRight' /\ productRow' = [p \in CatalogProduct |-> productRow'[p]]
    BY <1>3 DEF RecallInv, EventsRight
  <2> QED
    BY <2>7, <2>8, <2>9, <2>10, <2>11, <2>13, <2>14, RecallsContinue
<1> QED
  BY <1>4, <1>5

\* A call at a statement about a recall, and the recall's row if it is there.
LEMMA AtARecall ==
  ASSUME RecallInv, NEW c \in Client, request[c].at \in AtRecall
  PROVE  /\ IsCall(request[c]) /\ CallFilled(request[c]) /\ OnRecall(request[c])
         /\ request[c].recall \in RecallId
         /\ ~Gone(c) => /\ recalls[request[c].recall] # NoRecall
                        /\ RecallHolds(recalls[request[c].recall], eventRows, lastEvent)
                        /\ CallOnRecall(request[c], recalls[request[c].recall], eventRows)
<1>1. IsCall(request[c]) /\ CallFilled(request[c]) /\ OnRecall(request[c])
  BY DEF RecallInv, CallsInOrder, CallHoldsHere
<1>2. request[c].recall \in RecallId
  BY <1>1 DEF CallFilled
<1> QED
  BY <1>1, <1>2 DEF Gone, OnRecall, RecallInv, RecallsInOrder

LEMMA OneMore ==
  ASSUME NEW a \in Nat, NEW b \in Nat, b <= a
  PROVE  a + 1 \in Nat /\ a + 1 >= a /\ b <= a + 1
OBVIOUS

LEMMA NoMore ==
  ASSUME NEW a, NEW b, b \in Nat, a = b
  PROVE  a \in Nat /\ a <= b
OBVIOUS

\* A call goes on with its recall.
GoesOn(x, call) ==
  /\ IsCall(x) /\ x.op = call.op /\ x.product = call.product /\ x.new = call.new
  /\ x.recall = call.recall /\ x.at \in AtRecall

LEMMA GoingOn ==
  ASSUME NEW x, NEW call, CallFilled(call), GoesOn(x, call), call.recall \in RecallId
  PROVE  CallFilled(x)
BY DEF CallFilled, GoesOn, AtRecall, AtProduct, AboutProduct

LEMMA OpenCountsKeeps ==
  ASSUME RecallInv, NEW c \in Client, OpenCounts(c)
  PROVE  RecallInv'
<1>1. PICK call : call = request[c]
  OBVIOUS
<1>2. PICK r : r = call.recall
  OBVIOUS
<1>3. UNCHANGED <<productRow, eventRows, lastEvent>>
  BY DEF OpenCounts, recallRest
<1>4. request[c].at = "open counts" /\ call.at \in AtRecall
  BY <1>1 DEF OpenCounts, Stage, AtRecall
<1>5. CASE Gone(c)
  BY <1>3, <1>5, ReturnKeeps DEF OpenCounts
<1>6. CASE ~Gone(c)
  <2>1. /\ IsCall(call) /\ CallFilled(call) /\ r \in RecallId /\ recalls[r] # NoRecall
        /\ RecallHolds(recalls[r], eventRows, lastEvent)
    BY <1>1, <1>2, <1>4, <1>6, AtARecall
  <2>2. PICK row : row = recalls[r]
    OBVIOUS
  <2>3. PICK y : y = [row EXCEPT !.effectiveness = TRUE]
    OBVIOUS
  <2>4. PICK x : x = [call EXCEPT !.at = "identify"]
    OBVIOUS
  <2>5. recalls' = [recalls EXCEPT ![r] = y] /\ request' = [request EXCEPT ![c] = x]
    BY <1>1, <1>2, <1>6, <2>2, <2>3, <2>4 DEF OpenCounts, Goto
  <2>6. RecallRow(row)
    BY <2>1, <2>2 DEF RecallHolds
  <2>7. RecallRow(y) /\ y.named = row.named /\ y.batch = row.batch /\ y.items = row.items
        /\ y.notices = row.notices /\ y.finished = row.finished
    BY <2>3, <2>6 DEF RecallRow
  <2>8. y.notices >= row.notices
    BY <2>6, <2>7 DEF RecallRow
  <2>9. Continues(y, row, eventRows)
    BY <1>3, <2>1, <2>2, <2>7, <2>8, RowGrows
  <2>10. GoesOn(x, call) /\ x.at = "identify"
    BY <2>1, <2>4 DEF GoesOn, IsCall, AtRecall
  <2>11. CallFilled(x) /\ IsCall(x) /\ x.recall = r
    BY <1>2, <2>1, <2>10, GoingOn DEF GoesOn
  <2>12. CallOnRecall(x, y, eventRows)
    BY <2>10 DEF CallOnRecall
  <2> QED
    BY <1>3, <2>1, <2>2, <2>5, <2>9, <2>11, <2>12, RowWritten
<1> QED
  BY <1>5, <1>6

\* What identify_affected_items writes down reaches every product that named the batch.
LEMMA IdentifiedReaches ==
  ASSUME RecallInv, NEW row, RecallHolds(row, eventRows, lastEvent),
         NEW y, y.batch = row.batch, y.named = row.named,
         Identified(row.product, row.batch) \subseteq y.items
  PROVE  Reached(y, eventRows)
<1> SUFFICES ASSUME y.batch # NoBatchNamed, NEW e \in eventRows, e.id \in y.named
             PROVE  e.product \in y.items
  BY DEF Reached
<1>1. e.batch = row.batch
  BY DEF RecallHolds, NamedRight
<1>2. e.product \in CatalogProduct /\ productRow[e.product] # NoProduct
  BY DEF RecallInv, EventsRight
<1>3. e \in Naming(row.batch)
  BY <1>1 DEF Naming
<1>4. e.product \in AffectedProducts(row.batch)
  BY <1>2, <1>3 DEF AffectedProducts
<1> QED
  BY <1>4 DEF Identified

LEMMA IdentifyKeeps ==
  ASSUME RecallInv, NEW c \in Client, IdentifyAffectedItems(c)
  PROVE  RecallInv'
<1>1. PICK call : call = request[c]
  OBVIOUS
<1>2. PICK r : r = call.recall
  OBVIOUS
<1>3. UNCHANGED <<productRow, eventRows, lastEvent>>
  BY DEF IdentifyAffectedItems, recallRest
<1>4. request[c].at = "identify" /\ call.at \in AtRecall
  BY <1>1 DEF IdentifyAffectedItems, Stage, AtRecall
<1>5. CASE Gone(c)
  BY <1>3, <1>5, ReturnKeeps DEF IdentifyAffectedItems
<1>6. CASE ~Gone(c)
  <2>1. /\ IsCall(call) /\ CallFilled(call) /\ r \in RecallId /\ recalls[r] # NoRecall
        /\ RecallHolds(recalls[r], eventRows, lastEvent)
    BY <1>1, <1>2, <1>4, <1>6, AtARecall
  <2>2. PICK row : row = recalls[r]
    OBVIOUS
  <2>3. PICK items : items = row.items \union Identified(row.product, row.batch)
    OBVIOUS
  <2>4. PICK y : y = [row EXCEPT !.items = items]
    OBVIOUS
  <2>5. PICK x : x = [call EXCEPT !.at = "read items"]
    OBVIOUS
  <2>6. recalls' = [recalls EXCEPT ![r] = y] /\ request' = [request EXCEPT ![c] = x]
    BY <1>1, <1>2, <1>6, <2>2, <2>3, <2>4, <2>5 DEF IdentifyAffectedItems, Goto
  <2>7. RecallRow(row)
    BY <2>1, <2>2 DEF RecallHolds
  <2>8. RecallRow(y) /\ y.named = row.named /\ y.batch = row.batch /\ y.items = items
        /\ y.notices = row.notices /\ y.finished = row.finished
    BY <2>4, <2>7 DEF RecallRow
  <2>9. y.notices >= row.notices
    BY <2>7, <2>8 DEF RecallRow
  <2>10. Continues(y, row, eventRows)
    BY <1>3, <2>1, <2>2, <2>3, <2>8, <2>9, RowGrows
  <2>11. GoesOn(x, call) /\ x.at = "read items"
    BY <2>1, <2>5 DEF GoesOn, IsCall, AtRecall
  <2>12. CallFilled(x) /\ IsCall(x) /\ x.recall = r
    BY <1>2, <2>1, <2>11, GoingOn DEF GoesOn
  <2>13. Reached(y, eventRows)
    BY <2>1, <2>2, <2>3, <2>8, IdentifiedReaches
  <2>14. CallOnRecall(x, y, eventRows)
    BY <2>11, <2>13 DEF CallOnRecall
  <2> QED
    BY <1>3, <2>1, <2>2, <2>6, <2>10, <2>12, <2>14, RowWritten
<1> QED
  BY <1>5, <1>6

LEMMA CountsRead ==
  ASSUME RecallInv, NEW c \in Client, ReadItems(c) \/ ReadNotices(c)
  PROVE  RecallInv'
<1>1. PICK call : call = request[c]
  OBVIOUS
<1>2. PICK at : at = IF call.at = "read items" THEN "write affected" ELSE "write notified"
  OBVIOUS
<1>3. UNCHANGED <<productRow, eventRows, lastEvent, recalls>>
  BY DEF ReadItems, ReadNotices, recallRest
<1>4. call.at \in {"read items", "read notices"} /\ call.at \in AtRecall
  BY <1>1 DEF ReadItems, ReadNotices, Stage, AtRecall
<1>5. PICK n : /\ request' = [request EXCEPT ![c].at = at, ![c].count = n]
               /\ call.at = "read notices" => n = IF Gone(c) THEN 0 ELSE recalls[call.recall].notices
  BY <1>1, <1>2, <1>4 DEF ReadItems, ReadNotices, Stage
<1>6. PICK x : x = [call EXCEPT !.at = at, !.count = n]
  OBVIOUS
<1>7. request' = [request EXCEPT ![c] = x]
  BY <1>1, <1>5, <1>6
<1>8. IsCall(call) /\ CallFilled(call) /\ call.recall \in RecallId
  BY <1>1, <1>4, AtARecall
<1>9. GoesOn(x, call) /\ x.at = at /\ x.count = n
  BY <1>2, <1>6, <1>8 DEF GoesOn, IsCall, AtRecall
<1>10. CallFilled(x) /\ IsCall(x) /\ x.recall = call.recall
  BY <1>8, <1>9, GoingOn DEF GoesOn
<1>11. ASSUME recalls[x.recall] # NoRecall PROVE CallOnRecall(x, recalls[x.recall], eventRows)
  <2>1. PICK row : row = recalls[x.recall]
    OBVIOUS
  <2>2. ~Gone(c)
    BY <1>1, <1>10, <1>11 DEF Gone
  <2>3. RecallHolds(row, eventRows, lastEvent) /\ CallOnRecall(call, row, eventRows)
    BY <1>1, <1>4, <1>10, <2>1, <2>2, AtARecall
  <2>4. call.at = "read notices" => n = row.notices
    BY <1>5, <1>10, <2>1, <2>2
  <2>5. row.notices \in Nat
    BY <2>3 DEF RecallHolds, RecallRow
  <2>6. x.at = "write notified" => x.count \in Nat /\ x.count <= row.notices
    <3> SUFFICES ASSUME x.at = "write notified" PROVE x.count \in Nat /\ x.count <= row.notices
      OBVIOUS
    <3>1. call.at = "read notices"
      BY <1>2, <1>4, <1>9
    <3>2. PICK i \in Nat : i = row.notices
      BY <2>5
    <3>3. x.count = i
      BY <1>9, <2>4, <3>1, <3>2
    <3>4. x.count \in Nat /\ row.notices \in Nat /\ x.count = row.notices
      BY <3>2, <3>3
    <3> QED
      BY <3>4, NoMore
  <2>7. x.at \in {"read items", "write affected"} => Reached(row, eventRows)
    BY <1>2, <1>4, <1>9, <2>3 DEF CallOnRecall
  <2>8. x.op = "event" /\ x.at \in {"queue notice", "read notices", "write notified"}
          => Reached(row, eventRows)
    BY <1>2, <1>4, <1>9, <2>3 DEF CallOnRecall, GoesOn
  <2> QED
    BY <2>1, <2>6, <2>7, <2>8 DEF CallOnRecall
<1>12. CallHoldsHere(x)
  BY <1>10, <1>11 DEF CallHoldsHere, OnRecall
<1> QED
  BY <1>3, <1>7, <1>12, CallStepsAlone

LEMMA WriteAffectedKeeps ==
  ASSUME RecallInv, NEW c \in Client, WriteAffected(c)
  PROVE  RecallInv'
<1>1. PICK call : call = request[c]
  OBVIOUS
<1>2. PICK r : r = call.recall
  OBVIOUS
<1>3. UNCHANGED <<productRow, eventRows, lastEvent>>
  BY DEF WriteAffected, recallRest
<1>4. /\ call.at = "write affected" /\ call.at \in AtRecall
      /\ IsCall(call) /\ CallFilled(call) /\ r \in RecallId
  <2>1. call.at = "write affected" /\ call.at \in AtRecall
    BY <1>1 DEF WriteAffected, Stage, AtRecall
  <2> QED
    BY <1>1, <1>2, <2>1, AtARecall
<1>5. PICK x : /\ request' = [request EXCEPT ![c] = x]
               /\ x = IF call.op = "event"
                      THEN [call EXCEPT !.at = "queue notice", !.count = 2] ELSE Quiet
  BY <1>1 DEF WriteAffected, Return
<1>6. /\ IsCall(x) /\ CallFilled(x)
      /\ x = Quiet \/ (x.recall = r /\ x.at = "queue notice" /\ x.op = "event")
  <2>1. CASE call.op = "event"
    <3>1. GoesOn(x, call) /\ x.at = "queue notice"
      BY <1>4, <1>5, <2>1 DEF GoesOn, IsCall, AtRecall
    <3> QED
      BY <1>2, <1>4, <2>1, <3>1, GoingOn DEF GoesOn
  <2>2. CASE call.op # "event"
    BY <1>5, <2>2, QuietHolds DEF CallHoldsHere
  <2> QED
    BY <2>1, <2>2
<1>7. CASE Gone(c)
  <2>1. recalls' = recalls
    BY <1>7 DEF WriteAffected, Write
  <2>2. OnRecall(x)
    <3>1. CASE x = Quiet
      BY <3>1, QuietHolds DEF CallHoldsHere
    <3>2. CASE x # Quiet
      BY <1>1, <1>2, <1>6, <1>7, <3>2 DEF OnRecall, Gone
    <3> QED
      BY <3>1, <3>2
  <2> QED
    BY <1>3, <1>5, <1>6, <2>1, <2>2, CallStepsAlone DEF CallHoldsHere
<1>8. CASE ~Gone(c)
  <2>1. PICK row : row = recalls[r]
    OBVIOUS
  <2>2. row # NoRecall /\ RecallHolds(row, eventRows, lastEvent) /\ CallOnRecall(call, row, eventRows)
    BY <1>1, <1>2, <1>4, <1>8, <2>1, AtARecall
  <2>3. PICK done : done = (call.op = "recall")
    OBVIOUS
  <2>4. PICK y : y = [row EXCEPT !.affected = call.count, !.finished = (call.op = "recall")]
    OBVIOUS
  <2>5. recalls' = [recalls EXCEPT ![r] = y]
    BY <1>1, <1>2, <1>8, <2>1, <2>4 DEF WriteAffected, Write
  <2>6. RecallRow(row) /\ Reached(row, eventRows)
    BY <1>4, <2>2 DEF RecallHolds, CallOnRecall
  <2>7. RecallRow(y) /\ y.named = row.named /\ y.batch = row.batch /\ y.items = row.items
        /\ y.notices = row.notices
    BY <2>4, <2>6 DEF RecallRow
  <2>8. y.notices >= row.notices
    BY <2>6, <2>7 DEF RecallRow
  <2>9. Reached(y, eventRows)
    BY <2>6, <2>7 DEF Reached
  <2>10. Continues(y, row, eventRows)
    BY <1>3, <2>2, <2>7, <2>8, <2>9, RowGrows
  <2>11. x = Quiet \/ (x.recall = r /\ CallOnRecall(x, y, eventRows))
    BY <1>6, <2>9 DEF CallOnRecall
  <2> QED
    BY <1>3, <1>4, <1>5, <1>6, <2>1, <2>2, <2>5, <2>10, <2>11, RowWritten
<1> QED
  BY <1>7, <1>8

LEMMA QueueNoticeKeeps ==
  ASSUME RecallInv, NEW c \in Client, QueueNotice(c)
  PROVE  RecallInv'
<1>1. PICK call : call = request[c]
  OBVIOUS
<1>2. PICK r : r = call.recall
  OBVIOUS
<1>3. UNCHANGED <<productRow, eventRows, lastEvent>>
  BY DEF QueueNotice, recallRest
<1>4. /\ call.at = "queue notice" /\ call.at \in AtRecall
      /\ IsCall(call) /\ CallFilled(call) /\ r \in RecallId
  <2>1. call.at = "queue notice" /\ call.at \in AtRecall
    BY <1>1 DEF QueueNotice, Stage, AtRecall
  <2> QED
    BY <1>1, <1>2, <2>1, AtARecall
<1>5. CASE Gone(c)
  BY <1>3, <1>5, ReturnKeeps DEF QueueNotice
<1>6. CASE ~Gone(c)
  <2>1. PICK row : row = recalls[r]
    OBVIOUS
  <2>2. row # NoRecall /\ RecallHolds(row, eventRows, lastEvent) /\ CallOnRecall(call, row, eventRows)
    BY <1>1, <1>2, <1>4, <1>6, <2>1, AtARecall
  <2>3. PICK y, i : i = row.notices + 1 /\ y = [row EXCEPT !.notices = i]
    OBVIOUS
  <2>4. PICK at \in {"read notices", "queue notice"} :
          at = IF call.count = 1 THEN "read notices" ELSE call.at
    BY <1>4
  <2>5. PICK n : n = call.count - 1
    OBVIOUS
  <2>6. PICK x : x = [call EXCEPT !.count = n, !.at = at]
    OBVIOUS
  <2>7. recalls' = [recalls EXCEPT ![r] = y] /\ request' = [request EXCEPT ![c] = x]
    BY <1>1, <1>2, <1>6, <2>1, <2>3, <2>4, <2>5, <2>6 DEF QueueNotice
  <2>8. GoesOn(x, call) /\ x.at = at
    BY <1>4, <2>6 DEF GoesOn, IsCall, AtRecall
  <2>9. CallFilled(x) /\ IsCall(x) /\ x.recall = r /\ x.op = call.op
    BY <1>2, <1>4, <2>8, GoingOn DEF GoesOn
  <2>10. RecallRow(row)
    BY <2>2 DEF RecallHolds
  <2>11. /\ y.named = row.named /\ y.batch = row.batch /\ y.items = row.items
         /\ y.finished = row.finished /\ y.notices = i /\ y.notified = row.notified
         /\ y.recovered = row.recovered
         /\ y = [product |-> y.product, batch |-> y.batch, items |-> y.items, notices |-> y.notices,
                 effectiveness |-> y.effectiveness, affected |-> y.affected, notified |-> y.notified,
                 recovered |-> y.recovered, finished |-> y.finished, named |-> y.named]
    BY <2>3, <2>10 DEF RecallRow
  <2>12. i \in Nat /\ i >= row.notices /\ row.notified <= i
    <3>1. PICK a \in Nat, b \in Nat : a = row.notices /\ b = row.notified /\ b <= a
      BY <2>10 DEF RecallRow
    <3>2. i = a + 1
      BY <2>3, <3>1
    <3>3. a + 1 \in Nat /\ a + 1 >= a /\ b <= a + 1
      BY <3>1, OneMore
    <3>4. i \in Nat
      BY <3>2, <3>3
    <3>5. i >= row.notices
      BY <3>1, <3>2, <3>3, <3>4
    <3>6. row.notified <= i
      BY <3>1, <3>2, <3>3, <3>4
    <3> QED
      BY <3>4, <3>5, <3>6
  <2>13. Continues(y, row, eventRows)
    <3>1. RecallRow(y)
      BY <2>10, <2>11, <2>12 DEF RecallRow
    <3> QED
      BY <1>3, <2>2, <2>11, <2>12, <3>1, RowGrows
  <2>14. call.op = "event" => Reached(y, eventRows)
    BY <1>4, <2>2, <2>11 DEF CallOnRecall, Reached
  <2>15. CallOnRecall(x, y, eventRows)
    BY <2>8, <2>9, <2>14 DEF CallOnRecall
  <2> QED
    BY <1>3, <1>4, <2>1, <2>2, <2>7, <2>9, <2>13, <2>15, RowWritten
<1> QED
  BY <1>5, <1>6

LEMMA WriteNotifiedKeeps ==
  ASSUME RecallInv, NEW c \in Client, WriteNotified(c)
  PROVE  RecallInv'
<1>1. PICK call : call = request[c]
  OBVIOUS
<1>2. PICK r : r = call.recall
  OBVIOUS
<1>3. UNCHANGED <<productRow, eventRows, lastEvent>> /\ Return(c)
  BY DEF WriteNotified, recallRest
<1>4. /\ call.at = "write notified" /\ call.at \in AtRecall
      /\ IsCall(call) /\ CallFilled(call) /\ r \in RecallId
  <2>1. call.at = "write notified" /\ call.at \in AtRecall
    BY <1>1 DEF WriteNotified, Stage, AtRecall
  <2> QED
    BY <1>1, <1>2, <2>1, AtARecall
<1>5. CASE Gone(c)
  <2>1. recalls' = recalls
    BY <1>5 DEF WriteNotified, Write
  <2> QED
    BY <1>3, <2>1, ReturnKeeps
<1>6. CASE ~Gone(c)
  <2>1. PICK row : row = recalls[r]
    OBVIOUS
  <2>2. row # NoRecall /\ RecallHolds(row, eventRows, lastEvent) /\ CallOnRecall(call, row, eventRows)
    BY <1>1, <1>2, <1>4, <1>6, <2>1, AtARecall
  <2>3. PICK done : done = (row.finished \/ call.op = "event")
    OBVIOUS
  <2>4. PICK y : y = [row EXCEPT !.notified = call.count, !.finished = done]
    OBVIOUS
  <2>5. recalls' = [recalls EXCEPT ![r] = y]
    BY <1>1, <1>2, <1>6, <2>1, <2>3, <2>4 DEF WriteNotified, Write
  <2>6. RecallRow(row)
    BY <2>2 DEF RecallHolds
  <2>7. call.count \in Nat /\ call.count <= row.notices
    BY <1>4, <2>2 DEF CallOnRecall
  <2>8. /\ y = [product |-> y.product, batch |-> y.batch, items |-> y.items, notices |-> y.notices,
                effectiveness |-> y.effectiveness, affected |-> y.affected, notified |-> y.notified,
                recovered |-> y.recovered, finished |-> y.finished, named |-> y.named]
        /\ y.named = row.named /\ y.batch = row.batch /\ y.items = row.items
        /\ y.notices = row.notices /\ y.notified = call.count /\ y.recovered = row.recovered
        /\ y.finished = done
    BY <2>4, <2>6 DEF RecallRow
  <2>9. done \in BOOLEAN
    BY <2>3, <2>6 DEF RecallRow
  <2>10. RecallRow(y)
    BY <2>6, <2>7, <2>8, <2>9 DEF RecallRow
  <2>11. y.notices >= row.notices
    BY <2>6, <2>8 DEF RecallRow
  <2>12. call.op = "event" => Reached(y, eventRows)
    BY <1>4, <2>2, <2>8 DEF CallOnRecall, Reached
  <2>13. y.finished => row.finished \/ Reached(y, eventRows)
    BY <2>3, <2>8, <2>12
  <2>14. Continues(y, row, eventRows)
    BY <1>3, <2>2, <2>8, <2>10, <2>11, <2>13, RowGrows
  <2>15. request' = [request EXCEPT ![c] = Quiet] /\ IsCall(Quiet) /\ CallFilled(Quiet)
    BY <1>3, QuietHolds DEF Return, CallHoldsHere
  <2> QED
    BY <1>3, <1>4, <2>1, <2>2, <2>5, <2>14, <2>15, RowWritten
<1> QED
  BY <1>5, <1>6

LEMMA UpdateEffectivenessKeeps ==
  ASSUME RecallInv, NEW c \in Client, NEW r \in RecallId, NEW delta \in Delta,
         UpdateEffectiveness(c, r, delta)
  PROVE  RecallInv'
<1>1. PICK row : row = recalls[r]
  OBVIOUS
<1>2. row # NoRecall /\ RecallHolds(row, eventRows, lastEvent)
  BY <1>1 DEF UpdateEffectiveness, RecallInv, RecallsInOrder
<1>3. RecallRow(row)
  BY <1>2 DEF RecallHolds
<1>4. PICK n : n = IF row.recovered + delta < 0 THEN 0 ELSE row.recovered + delta
  OBVIOUS
<1>5. n \in Nat
  BY <1>3, <1>4, RecallsAssumption DEF RecallRow
<1>6. PICK y : y = [row EXCEPT !.recovered = n]
  OBVIOUS
<1>7. recalls' = [recalls EXCEPT ![r] = y]
  BY <1>1, <1>4, <1>6 DEF UpdateEffectiveness
<1>8. RecallRow(y) /\ y.named = row.named /\ y.batch = row.batch /\ y.items = row.items
      /\ y.notices = row.notices /\ y.finished = row.finished
  BY <1>3, <1>5, <1>6 DEF RecallRow
<1>9. y.notices >= row.notices
  BY <1>3, <1>8 DEF RecallRow
<1>10. UNCHANGED <<productRow, eventRows, lastEvent, request>> /\ request[c] = Quiet
  BY DEF UpdateEffectiveness
<1>11. Continues(y, row, eventRows)
  BY <1>2, <1>8, <1>9, <1>10, RowGrows
<1>12. request' = [request EXCEPT ![c] = Quiet] /\ IsCall(Quiet) /\ CallFilled(Quiet)
  BY <1>10, QuietHolds DEF RecallInv, CallsInOrder, CallHoldsHere
<1> QED
  BY <1>1, <1>2, <1>7, <1>10, <1>11, <1>12, RowWritten

LEMMA RecallStepKeeps ==
  ASSUME RecallInv, [CatalogNext]_catalogVars
  PROVE  RecallInv'
<1>1. CASE UNCHANGED <<productRow, eventRows, request, lastEvent, recalls>>
  <2>1. EventsRight' /\ RecallsInOrder'
    BY <1>1 DEF RecallInv, EventsRight, RecallsInOrder
  <2>2. CallsInOrder'
    BY <1>1 DEF RecallInv, CallsInOrder, CallHoldsHere, OnRecall
  <2> QED
    BY <1>1, <2>1, <2>2 DEF RecallInv
<1>2. CASE UNCHANGED catalogVars \/ Expire
  BY <1>1, <1>2 DEF catalogVars, Expire
<1>3. CASE AccountStep
  BY <1>1, <1>3 DEF AccountStep, CreateUser, CreateApiKey, DisableKeys, AccountCall
<1>4. ASSUME NEW c \in Client, CatalogStep(c) PROVE RecallInv'
  BY <1>4, CallBegins, ReadsKeep, SyncWriteKeeps, DeleteProductKeeps, InsertEventKeeps
     DEF CatalogStep
<1>5. ASSUME NEW c \in Client, RecallStep(c) PROVE RecallInv'
  BY <1>5, CallBegins, CreateRecallKeeps, OpenCountsKeeps, IdentifyKeeps, CountsRead,
     WriteAffectedKeeps, QueueNoticeKeeps, WriteNotifiedKeeps, UpdateEffectivenessKeeps
     DEF RecallStep
<1> QED
  BY <1>2, <1>3, <1>4, <1>5 DEF CatalogNext

LEMMA RecallInvInit ==
  ASSUME CatalogInit
  PROVE  RecallInv
<1>1. productRow = [p \in CatalogProduct |-> productRow[p]]
  BY DEF CatalogInit
<1>2. EventsRight
  <2>1. CASE eventRows = {}
    BY <2>1 DEF CatalogInit, EventsRight
  <2>2. ASSUME NEW p \in CatalogProduct, NEW b \in BatchName, productRow[p] # NoProduct,
               eventRows = {[id |-> 0, product |-> p, batch |-> b]}
        PROVE  EventsRight
    BY <2>2 DEF CatalogInit, EventsRight
  <2> QED
    BY <2>1, <2>2 DEF CatalogInit
<1>3. CallsInOrder
  BY QuietHolds DEF CatalogInit, CallsInOrder
<1>4. RecallsInOrder
  BY DEF CatalogInit, RecallsInOrder
<1> QED
  BY <1>1, <1>2, <1>3, <1>4 DEF RecallInv

\* A recall's row is true of its batch and of what was done: every product
\* that named the batch when the recall was opened is among the affected items
\* of a finished recall, and no figure claims more than there is, however the
\* statements of services/recall.rs interleave with writes and deletions.
THEOREM RecallsAreTrue == CatalogSpec => []RecallRecordTrue
<1>1. CatalogInit => RecallInv
  BY RecallInvInit
<1>2. RecallInv /\ [CatalogNext]_catalogVars => RecallInv'
  BY RecallStepKeeps
<1>3. RecallInv => RecallRecordTrue
  <2> SUFFICES ASSUME RecallInv, NEW r \in RecallId, recalls[r] # NoRecall
               PROVE  ReachesNamed(r) /\ NotOverstated(r)
    BY DEF RecallRecordTrue
  <2>1. PICK row : row = recalls[r]
    OBVIOUS
  <2>2. RecallHolds(row, eventRows, lastEvent)
    BY <2>1 DEF RecallInv, RecallsInOrder
  <2>3. row.notified <= row.notices /\ row.recovered >= 0
    BY <2>2 DEF RecallHolds, RecallRow
  <2>4. row.finished /\ row.batch # NoBatchNamed
          => \A e \in eventRows : e.id \in row.named => e.product \in row.items
    BY <2>2 DEF RecallHolds, Reached
  <2> QED
    BY <2>1, <2>3, <2>4 DEF ReachesNamed, NotOverstated
<1> QED
  BY <1>1, <1>2, <1>3, PTL DEF CatalogSpec

(***************************************************************************)
(* Reads.                                                                  *)
(***************************************************************************)

Undisturbed == ~overlapped /\ troubles = 0

\* Figures f as good as g: of products and events the same, and users no more.
CountedRight(f, g) ==
  f.products = g.products /\ f.events = g.events /\ f.users \in 0 .. g.users

\* What a call has read and is about to leave as a copy is what the tables say.
ReadRight(x) ==
  /\ x.at = "leave copy" => x.seen = productRow[x.product]
  /\ x.at = "leave stats" => CountedRight(x.figures, Figures)

\* Every copy is current that the call is not about to drop.
CopiesCurrent(x) ==
  /\ \A p \in CatalogProduct : \/ productCopy[p] \in {NoProduct, productRow[p]}
                               \/ x.at = "drop copy" /\ x.product = p
  /\ \/ statsCopy = NoCount \/ CountedRight(statsCopy, Figures)
     \/ x.at \in {"drop copy", "drop stats"}

RightFor(x) == ReadRight(x) /\ CopiesCurrent(x)

OneCall == \A c, d \in Client : request[c] # Quiet /\ request[d] # Quiet => c = d

ReadsRight ==
  /\ troubles \in Nat /\ accounts \in [users : Nat, keys : Nat]
  /\ productCopy = [p \in CatalogProduct |-> productCopy[p]]
  /\ Undisturbed => /\ OneCall
                    /\ \A c \in Client : request[c] # Quiet => RightFor(request[c])
                    /\ (\A c \in Client : request[c] = Quiet) => RightFor(Quiet)

\* The one call that is in flight takes a step.
LEMMA ReadStep ==
  ASSUME RecallInv, ReadsRight, NEW c \in Client, request[c] # Quiet, NEW x,
         request' = [request EXCEPT ![c] = x],
         troubles' \in Nat,
         productCopy' = [p \in CatalogProduct |-> productCopy'[p]],
         Undisturbed' => Undisturbed, UNCHANGED accounts,
         Undisturbed' /\ RightFor(request[c]) => RightFor(x)'
  PROVE  ReadsRight'
<1>1. \A d \in Client : request'[d] = IF d = c THEN x ELSE request[d]
  BY DEF RecallInv, CallsInOrder
<1>2. ASSUME Undisturbed'
      PROVE  /\ OneCall'
             /\ \A d \in Client : (request[d] # Quiet => RightFor(request[d]))'
             /\ ((\A d \in Client : request[d] = Quiet) => RightFor(Quiet))'
  <2>1. \A d \in Client : d # c => request[d] = Quiet
    BY <1>2 DEF ReadsRight, OneCall
  <2>2. RightFor(x)'
    BY <1>2 DEF ReadsRight
  <2>3. \A d \in Client : d # c => request'[d] = Quiet
    BY <1>1, <2>1
  <2>4. request'[c] = x
    BY <1>1
  <2>5. OneCall'
    BY <2>3 DEF OneCall
  <2>6. ASSUME NEW d \in Client, request'[d] # Quiet PROVE RightFor(request[d])'
    <3>1. d = c
      BY <2>3, <2>6
    <3>2. request'[d] = x
      BY <2>4, <3>1
    <3> QED
      BY <2>2, <3>2 DEF RightFor, ReadRight, CopiesCurrent
  <2>7. ASSUME \A d \in Client : request'[d] = Quiet PROVE RightFor(Quiet)'
    <3>1. x = Quiet
      BY <2>4, <2>7
    <3> QED
      BY <2>2, <3>1 DEF RightFor, ReadRight, CopiesCurrent
  <2> QED
    BY <2>5, <2>6, <2>7
<1> QED
  BY <1>2 DEF ReadsRight

LEMMA Counting ==
  ASSUME NEW m \in Nat, NEW n, n = m \/ n = m + 1
  PROVE  n \in Nat /\ (n = 0 => m = 0) /\ (n = m + 1 => n # 0)
OBVIOUS

\* A step that writes no row and no copy.
LEMMA QuietStep ==
  ASSUME RecallInv, ReadsRight, NEW c \in Client, request[c] # Quiet, NEW x,
         request' = [request EXCEPT ![c] = x],
         x.at \notin {"leave copy", "leave stats"},
         request[c].at \notin {"drop copy", "drop stats"},
         troubles' = troubles \/ troubles' = troubles + 1,
         UNCHANGED <<productRow, productCopy, eventRows, statsCopy, overlapped, accounts>>
  PROVE  ReadsRight'
<1>1. troubles \in Nat /\ productCopy = [p \in CatalogProduct |-> productCopy[p]]
  BY DEF ReadsRight
<1>2. troubles' \in Nat /\ (Undisturbed' => Undisturbed)
  BY <1>1, Counting DEF Undisturbed
<1>3. RightFor(request[c]) => RightFor(x)'
  <2>1. Figures' = Figures
    BY DEF Figures
  <2>2. CopiesCurrent(request[c]) => CopiesCurrent(x)'
    BY <2>1 DEF CopiesCurrent
  <2>3. ReadRight(x)'
    BY DEF ReadRight
  <2> QED
    BY <2>2, <2>3 DEF RightFor
<1> QED
  BY <1>1, <1>2, <1>3, ReadStep

LEMMA NotQuiet == Quiet.at = "none" /\ Quiet.op = "none"
BY DEF Quiet

\* A call that begins finds every copy current.
LEMMA ReadsBegin ==
  ASSUME RecallInv, ReadsRight, NEW c \in Client, NEW x, Call(c, x),
         x.at \notin {"leave copy", "leave stats"}
  PROVE  ReadsRight'
<1>1. /\ request' = [request EXCEPT ![c] = x] /\ request[c] = Quiet
      /\ overlapped' = (overlapped \/ \E d \in Client : request[d] # Quiet)
      /\ UNCHANGED <<productRow, productCopy, eventRows, accounts, statsCopy, troubles>>
  BY DEF Call
<1>2. \A d \in Client : request'[d] = IF d = c THEN x ELSE request[d]
  BY <1>1 DEF RecallInv, CallsInOrder
<1>3. Figures' = Figures
  BY <1>1 DEF Figures
<1>4. ASSUME Undisturbed'
      PROVE  /\ OneCall'
             /\ \A d \in Client : (request[d] # Quiet => RightFor(request[d]))'
             /\ ((\A d \in Client : request[d] = Quiet) => RightFor(Quiet))'
  <2>1. \A d \in Client : request[d] = Quiet
    BY <1>1, <1>4 DEF Undisturbed
  <2>2. RightFor(Quiet)
    BY <1>1, <1>4, <2>1 DEF ReadsRight, Undisturbed
  <2>3. \A y : y.at \notin {"leave copy", "leave stats"} => RightFor(y)'
    BY <1>1, <1>3, <2>2, NotQuiet DEF RightFor, ReadRight, CopiesCurrent
  <2>4. \A d \in Client : d # c => request'[d] = Quiet
    BY <1>2, <2>1
  <2>5. \A d \in Client : request'[d].at \notin {"leave copy", "leave stats"}
    BY <1>2, <2>1, NotQuiet
  <2>6. OneCall'
    BY <2>4 DEF OneCall
  <2>7. ASSUME NEW d \in Client PROVE RightFor(request[d])'
    <3>1. PICK y : y = request'[d]
      OBVIOUS
    <3>2. RightFor(y)'
      BY <2>3, <2>5, <3>1
    <3> QED
      BY <3>1, <3>2 DEF RightFor, ReadRight, CopiesCurrent
  <2>8. RightFor(Quiet)'
    BY <2>3, NotQuiet
  <2> QED
    BY <2>6, <2>7, <2>8
<1> QED
  BY <1>1, <1>4 DEF ReadsRight

\* A Redis call that fails ends what is claimed.
LEMMA TroubleCounts ==
  ASSUME ReadsRight, troubles' = troubles \/ troubles' = troubles + 1, overlapped' = overlapped
  PROVE  /\ troubles' \in Nat /\ (Undisturbed' => Undisturbed)
         /\ troubles' = troubles + 1 => ~Undisturbed'
<1>1. troubles \in Nat
  BY DEF ReadsRight
<1>2. troubles' \in Nat /\ (troubles' = 0 => troubles = 0) /\ (troubles' = troubles + 1 => troubles' # 0)
  BY <1>1, Counting
<1> QED
  BY <1>2 DEF Undisturbed

LEMMA Moves ==
  ASSUME RecallInv, NEW c \in Client, NEW at, Goto(c, at)
  PROVE  \E x : request' = [request EXCEPT ![c] = x] /\ x.at = at /\ x.product = request[c].product
<1>1. IsCall(request[c])
  BY DEF RecallInv, CallsInOrder, CallHoldsHere
<1>2. PICK x : x = [request[c] EXCEPT !.at = at]
  OBVIOUS
<1>3. Follows(x, request[c]) /\ x.at = at
  BY <1>1, <1>2, Fields
<1> QED
  BY <1>2, <1>3 DEF Goto, Follows

LEMMA Proceeds ==
  ASSUME RecallInv, NEW c \in Client, NEW seen, Proceed(c, seen)
  PROVE  \E x : /\ request' = [request EXCEPT ![c] = x]
                /\ x.at \in {"insert", "update", "delete", "open recall", "none"}
<1>1. PICK next : next = Afterwards(request[c].op, seen)
  OBVIOUS
<1>2. next \in {"insert", "update", "delete", "open recall", "return"}
  BY <1>1 DEF Afterwards
<1>3. CASE next = "return"
  BY <1>1, <1>3, NotQuiet DEF Proceed, Return
<1>4. CASE next # "return"
  <2>1. PICK x : x = [request[c] EXCEPT !.at = next, !.seen = seen]
    OBVIOUS
  <2>2. request' = [request EXCEPT ![c] = x]
    BY <1>1, <1>4, <2>1 DEF Proceed
  <2>3. IsCall(request[c])
    BY DEF RecallInv, CallsInOrder, CallHoldsHere
  <2>4. x.at = next
    BY <2>1, <2>3 DEF IsCall
  <2> QED
    BY <1>2, <1>4, <2>2, <2>4
<1> QED
  BY <1>3, <1>4

LEMMA LookUpReads ==
  ASSUME RecallInv, ReadsRight, NEW c \in Client, LookUp(c) \/ LookUpStats(c)
  PROVE  ReadsRight'
<1>1. UNCHANGED <<productRow, productCopy, eventRows, statsCopy, overlapped, accounts>>
  BY DEF LookUp, LookUpStats, tally
<1>2. troubles' = troubles \/ troubles' = troubles + 1
  BY DEF LookUp, LookUpStats, Trouble
<1>3. request[c].at \in {"look up", "look up stats"}
  BY DEF LookUp, LookUpStats
<1>4. request[c] # Quiet
  BY <1>3, NotQuiet
<1>5. \/ \E seen : Proceed(c, seen)
      \/ \E at \in {"select", "count"} : Goto(c, at)
      \/ Return(c)
  BY DEF LookUp, LookUpStats
<1>6. PICK x : request' = [request EXCEPT ![c] = x] /\ x.at \notin {"leave copy", "leave stats"}
  <2>1. CASE \E seen : Proceed(c, seen)
    BY <2>1, Proceeds
  <2>2. ASSUME NEW at \in {"select", "count"}, Goto(c, at)
        PROVE  \E x : request' = [request EXCEPT ![c] = x] /\ x.at \notin {"leave copy", "leave stats"}
    <3>1. PICK x : request' = [request EXCEPT ![c] = x] /\ x.at = at
      BY <2>2, Moves
    <3> QED
      BY <3>1
  <2>3. CASE Return(c)
    BY <2>3, NotQuiet DEF Return
  <2> QED
    BY <1>5, <2>1, <2>2, <2>3
<1> QED
  BY <1>1, <1>2, <1>3, <1>4, <1>6, QuietStep

LEMMA SelectReads ==
  ASSUME RecallInv, ReadsRight, NEW c \in Client, Select(c)
  PROVE  ReadsRight'
<1>1. UNCHANGED <<productRow, productCopy, eventRows, statsCopy, overlapped, accounts, troubles>>
  BY DEF Select, tally
<1>2. request[c].at = "select" /\ request[c] # Quiet
  BY NotQuiet DEF Select
<1>3. PICK row : row = productRow[request[c].product]
  OBVIOUS
<1>4. CASE row = NoProduct
  <2>1. PICK x : request' = [request EXCEPT ![c] = x] /\ x.at \notin {"leave copy", "leave stats"}
    BY <1>3, <1>4, Proceeds DEF Select
  <2> QED
    BY <1>1, <1>2, <2>1, QuietStep
<1>5. CASE row # NoProduct
  <2>1. PICK x : x = [request[c] EXCEPT !.at = "leave copy", !.seen = row]
    OBVIOUS
  <2>2. request' = [request EXCEPT ![c] = x]
    BY <1>3, <1>5, <2>1 DEF Select
  <2>3. IsCall(request[c])
    BY DEF RecallInv, CallsInOrder, CallHoldsHere
  <2>4. x.at = "leave copy" /\ x.seen = row /\ x.product = request[c].product
    BY <2>1, <2>3 DEF IsCall
  <2>5. Figures' = Figures
    BY <1>1 DEF Figures
  <2>6. RightFor(request[c]) => RightFor(x)'
    BY <1>1, <1>2, <1>3, <2>4, <2>5 DEF RightFor, ReadRight, CopiesCurrent
  <2>7. Undisturbed' => Undisturbed
    BY <1>1 DEF Undisturbed
  <2> QED
    BY <1>1, <1>2, <2>2, <2>6, <2>7, ReadStep DEF ReadsRight
<1> QED
  BY <1>4, <1>5

LEMMA LeaveCopyReads ==
  ASSUME RecallInv, ReadsRight, NEW c \in Client, LeaveCopy(c)
  PROVE  ReadsRight'
<1>1. PICK p : p = request[c].product
  OBVIOUS
<1>2. UNCHANGED <<productRow, eventRows, statsCopy, overlapped, accounts>>
  BY DEF LeaveCopy, tally
<1>3. request[c].at = "leave copy" /\ request[c] # Quiet
  BY NotQuiet DEF LeaveCopy
<1>4. \/ productCopy' = [productCopy EXCEPT ![p] = request[c].seen] /\ troubles' = troubles
      \/ productCopy' = productCopy /\ troubles' = troubles + 1
  BY <1>1 DEF LeaveCopy, Redis, Trouble
<1>5. PICK x : /\ request' = [request EXCEPT ![c] = x]
               /\ x.at \in {"insert", "update", "delete", "open recall", "none"}
  BY Proceeds DEF LeaveCopy
<1>6. troubles' \in Nat /\ (Undisturbed' => Undisturbed)
  BY <1>2, <1>4, TroubleCounts
<1>7. productCopy' = [q \in CatalogProduct |-> productCopy'[q]]
  BY <1>4 DEF ReadsRight
<1>8. ASSUME Undisturbed', RightFor(request[c]) PROVE RightFor(x)'
  <2>1. productCopy' = [productCopy EXCEPT ![p] = productRow[p]]
    BY <1>1, <1>2, <1>3, <1>4, <1>8, TroubleCounts DEF RightFor, ReadRight
  <2>2. Figures' = Figures
    BY <1>2 DEF Figures
  <2>3. \A q \in CatalogProduct : productCopy'[q] = IF q = p THEN productRow[p] ELSE productCopy[q]
    BY <2>1 DEF ReadsRight
  <2>4. \A q \in CatalogProduct : productCopy'[q] \in {NoProduct, productRow'[q]}
    BY <1>2, <1>3, <1>8, <2>3 DEF RightFor, CopiesCurrent
  <2>5. statsCopy' = NoCount \/ CountedRight(statsCopy', Figures')
    BY <1>2, <1>3, <1>8, <2>2 DEF RightFor, CopiesCurrent
  <2> QED
    BY <1>5, <2>4, <2>5 DEF RightFor, ReadRight, CopiesCurrent
<1> QED
  BY <1>2, <1>3, <1>5, <1>6, <1>7, <1>8, ReadStep

LEMMA SyncWriteReads ==
  ASSUME RecallInv, ReadsRight, NEW c \in Client, SyncWrite(c)
  PROVE  ReadsRight'
<1>1. PICK p : p = request[c].product
  OBVIOUS
<1>2. UNCHANGED <<productCopy, eventRows, statsCopy, overlapped, accounts, troubles>>
  BY DEF SyncWrite, tally
<1>3. request[c].at \in {"insert", "update"} /\ request[c] # Quiet
  BY NotQuiet DEF SyncWrite
<1>4. CASE Return(c) /\ productRow' = productRow
  BY <1>2, <1>3, <1>4, QuietStep, NotQuiet DEF Return
<1>5. CASE /\ (request[c].at = "insert") = (productRow[p] = NoProduct)
           /\ productRow' = [productRow EXCEPT ![p] = request[c].new]
           /\ Goto(c, DropFirst(request[c].at))
  <2>1. PICK at : at = DropFirst(request[c].at)
    OBVIOUS
  <2>2. PICK x : request' = [request EXCEPT ![c] = x] /\ x.at = at /\ x.product = p
    BY <1>1, <1>5, <2>1, Moves
  <2>3. \/ at = "drop copy"
        \/ at = "drop stats" /\ productRow[p] = NoProduct
    BY <1>3, <1>5, <2>1 DEF DropFirst
  <2>4. \A q \in CatalogProduct : q # p => productRow'[q] = productRow[q]
    BY <1>5 DEF RecallInv
  <2>5. ASSUME RightFor(request[c]) PROVE RightFor(x)'
    <3>1. \A q \in CatalogProduct : productCopy[q] \in {NoProduct, productRow[q]}
      BY <1>3, <2>5 DEF RightFor, CopiesCurrent
    <3>2. ASSUME NEW q \in CatalogProduct
          PROVE  productCopy'[q] \in {NoProduct, productRow'[q]} \/ (x.at = "drop copy" /\ x.product = q)
      <4>1. CASE q = p
        BY <1>2, <2>2, <2>3, <3>1, <4>1
      <4>2. CASE q # p
        BY <1>2, <2>4, <3>1, <4>2
      <4> QED
        BY <4>1, <4>2
    <3>3. x.at \in {"drop copy", "drop stats"}
      BY <2>2, <2>3
    <3> QED
      BY <3>2, <3>3 DEF RightFor, ReadRight, CopiesCurrent
  <2>6. Undisturbed' => Undisturbed
    BY <1>2 DEF Undisturbed
  <2> QED
    BY <1>2, <1>3, <2>2, <2>5, <2>6, ReadStep DEF ReadsRight
<1> QED
  BY <1>1, <1>4, <1>5 DEF SyncWrite

LEMMA DeleteProductReads ==
  ASSUME RecallInv, ReadsRight, NEW c \in Client, DeleteProduct(c)
  PROVE  ReadsRight'
<1>1. PICK p : p = request[c].product
  OBVIOUS
<1>2. UNCHANGED <<productCopy, statsCopy, overlapped, accounts, troubles>>
  BY DEF DeleteProduct, tally
<1>3. request[c].at = "delete" /\ request[c] # Quiet
  BY NotQuiet DEF DeleteProduct
<1>4. productRow' = [productRow EXCEPT ![p] = NoProduct] /\ Goto(c, "drop copy")
  BY <1>1 DEF DeleteProduct, DropFirst
<1>5. PICK x : request' = [request EXCEPT ![c] = x] /\ x.at = "drop copy" /\ x.product = p
  <2>1. PICK at : at = "drop copy"
    OBVIOUS
  <2>2. Goto(c, at)
    BY <1>4, <2>1
  <2>3. PICK x : request' = [request EXCEPT ![c] = x] /\ x.at = at /\ x.product = request[c].product
    BY <2>2, Moves
  <2> QED
    BY <1>1, <2>1, <2>3
<1>6. \A q \in CatalogProduct : q # p => productRow'[q] = productRow[q]
  BY <1>4 DEF RecallInv
<1>7. RightFor(request[c]) => RightFor(x)'
  BY <1>2, <1>3, <1>5, <1>6 DEF RightFor, ReadRight, CopiesCurrent
<1>8. Undisturbed' => Undisturbed
  BY <1>2 DEF Undisturbed
<1> QED
  BY <1>2, <1>3, <1>5, <1>7, <1>8, ReadStep DEF ReadsRight

LEMMA DropCopyReads ==
  ASSUME RecallInv, ReadsRight, NEW c \in Client, DropCopy(c)
  PROVE  ReadsRight'
<1>1. PICK p : p = request[c].product
  OBVIOUS
<1>2. UNCHANGED <<productRow, eventRows, statsCopy, overlapped, accounts>>
  BY DEF DropCopy, tally
<1>3. request[c].at = "drop copy" /\ request[c] # Quiet
  BY NotQuiet DEF DropCopy
<1>4. \/ productCopy' = [productCopy EXCEPT ![p] = NoProduct] /\ troubles' = troubles
      \/ productCopy' = productCopy /\ troubles' = troubles + 1
  BY <1>1 DEF DropCopy, Redis, Trouble
<1>5. PICK x : request' = [request EXCEPT ![c] = x] /\ x.at = "drop stats"
  <2>1. PICK at : at = "drop stats"
    OBVIOUS
  <2>2. Goto(c, at)
    BY <2>1 DEF DropCopy
  <2> QED
    BY <2>1, <2>2, Moves, ZenonT(30)
<1>6. troubles' \in Nat /\ (Undisturbed' => Undisturbed)
  BY <1>2, <1>4, TroubleCounts
<1>7. productCopy' = [q \in CatalogProduct |-> productCopy'[q]]
  BY <1>4 DEF ReadsRight
<1>8. ASSUME Undisturbed', RightFor(request[c]) PROVE RightFor(x)'
  <2>1. productCopy' = [productCopy EXCEPT ![p] = NoProduct]
    BY <1>2, <1>4, <1>8, TroubleCounts
  <2>2. \A q \in CatalogProduct : productCopy'[q] = IF q = p THEN NoProduct ELSE productCopy[q]
    BY <2>1 DEF ReadsRight
  <2>3. \A q \in CatalogProduct : productCopy'[q] \in {NoProduct, productRow'[q]}
    BY <1>1, <1>2, <1>3, <1>8, <2>2 DEF RightFor, CopiesCurrent
  <2> QED
    BY <1>5, <2>3 DEF RightFor, ReadRight, CopiesCurrent
<1> QED
  BY <1>2, <1>3, <1>5, <1>6, <1>7, <1>8, ReadStep

LEMMA InsertEventReads ==
  ASSUME RecallInv, ReadsRight, NEW c \in Client, InsertEvent(c)
  PROVE  ReadsRight'
<1>1. UNCHANGED <<productRow, productCopy, statsCopy, overlapped, accounts, troubles>>
  BY DEF InsertEvent, tally
<1>2. request[c].at = "insert event" /\ request[c] # Quiet
  BY NotQuiet DEF InsertEvent
<1>3. CASE Return(c) /\ eventRows' = eventRows
  BY <1>1, <1>2, <1>3, QuietStep, NotQuiet DEF Return
<1>4. CASE Goto(c, "drop stats")
  <2>1. PICK x : request' = [request EXCEPT ![c] = x] /\ x.at = "drop stats"
    BY <1>4, Moves, ZenonT(30)
  <2>2. RightFor(request[c]) => RightFor(x)'
    BY <1>1, <1>2, <2>1 DEF RightFor, ReadRight, CopiesCurrent
  <2>3. Undisturbed' => Undisturbed
    BY <1>1 DEF Undisturbed
  <2> QED
    BY <1>1, <1>2, <2>1, <2>2, <2>3, ReadStep DEF ReadsRight
<1> QED
  BY <1>3, <1>4 DEF InsertEvent, Goto

\* A write that ends has dropped the figures, and left ones are those of the tables.
LEMMA StatsReads ==
  ASSUME RecallInv, ReadsRight, NEW c \in Client, DropStats(c) \/ LeaveStats(c)
  PROVE  ReadsRight'
<1>1. PICK n : n = IF request[c].at = "drop stats" THEN NoCount ELSE request[c].figures
  OBVIOUS
<1>2. UNCHANGED <<productRow, productCopy, eventRows, overlapped, accounts>>
  BY DEF DropStats, LeaveStats, tally
<1>3. request[c].at \in {"drop stats", "leave stats"} /\ request[c] # Quiet
  BY NotQuiet DEF DropStats, LeaveStats
<1>4. \/ statsCopy' = n /\ troubles' = troubles
      \/ statsCopy' = statsCopy /\ troubles' = troubles + 1
  BY <1>1 DEF DropStats, LeaveStats, Redis, Trouble
<1>5. PICK x : request' = [request EXCEPT ![c] = x] /\ x.at \in {"look up", "none"}
  <2>1. CASE Goto(c, "look up")
    <3>1. PICK at : at = "look up"
      OBVIOUS
    <3>2. Goto(c, at)
      BY <2>1, <3>1
    <3>3. PICK x : request' = [request EXCEPT ![c] = x] /\ x.at = at
      BY <3>2, Moves
    <3> QED
      BY <3>1, <3>3
  <2>2. CASE Return(c)
    BY <2>2, NotQuiet DEF Return
  <2> QED
    BY <2>1, <2>2 DEF DropStats, LeaveStats
<1>6. troubles' \in Nat /\ (Undisturbed' => Undisturbed)
  BY <1>2, <1>4, TroubleCounts
<1>7. Figures' = Figures
  BY <1>2 DEF Figures
<1>8. ASSUME Undisturbed', RightFor(request[c]) PROVE RightFor(x)'
  <2>1. statsCopy' = n
    BY <1>2, <1>4, <1>8, TroubleCounts
  <2>2. n = NoCount \/ CountedRight(n, Figures)
    BY <1>1, <1>3, <1>8 DEF RightFor, ReadRight
  <2>3. \A q \in CatalogProduct : productCopy'[q] \in {NoProduct, productRow'[q]}
    BY <1>2, <1>3, <1>8 DEF RightFor, CopiesCurrent
  <2> QED
    BY <1>5, <1>7, <2>1, <2>2, <2>3 DEF RightFor, ReadRight, CopiesCurrent
<1> QED
  BY <1>2, <1>3, <1>5, <1>6, <1>8, ReadStep DEF ReadsRight

LEMMA CountStatsReads ==
  ASSUME RecallInv, ReadsRight, NEW c \in Client, CountStats(c)
  PROVE  ReadsRight'
<1>1. UNCHANGED <<productRow, productCopy, eventRows, statsCopy, overlapped, accounts, troubles>>
  BY DEF CountStats, tally
<1>2. request[c].at = "count" /\ request[c] # Quiet
  BY NotQuiet DEF CountStats
<1>3. PICK n : n = Figures
  OBVIOUS
<1>4. PICK x : x = [request[c] EXCEPT !.at = "leave stats", !.figures = n]
  OBVIOUS
<1>5. request' = [request EXCEPT ![c] = x]
  BY <1>3, <1>4 DEF CountStats
<1>6. IsCall(request[c])
  BY DEF RecallInv, CallsInOrder, CallHoldsHere
<1>7. x.at = "leave stats" /\ x.figures = n
  BY <1>4, <1>6 DEF IsCall
<1>8. Figures' = Figures
  BY <1>1 DEF Figures
<1>9. RightFor(request[c]) => RightFor(x)'
  <2>1. CountedRight(n, n)
    BY <1>3 DEF ReadsRight, Figures, CountedRight
  <2> QED
    BY <1>1, <1>2, <1>3, <1>7, <1>8, <2>1 DEF RightFor, ReadRight, CopiesCurrent
<1>10. Undisturbed' => Undisturbed
  BY <1>1 DEF Undisturbed
<1> QED
  BY <1>1, <1>2, <1>5, <1>9, <1>10, ReadStep DEF ReadsRight

LEMMA DroppedReads ==
  ASSUME RecallInv, ReadsRight, NEW c \in Client, Dropped(c)
  PROVE  ReadsRight'
<1>1. troubles' = troubles + 1 /\ UNCHANGED <<overlapped, accounts, productCopy>> /\ request[c] # Quiet
      /\ request' = [request EXCEPT ![c] = Quiet]
  BY DEF Dropped, Trouble, tally, Return
<1>2. troubles' \in Nat /\ ~Undisturbed'
  BY <1>1, TroubleCounts
<1> QED
  BY <1>1, <1>2, ReadStep DEF ReadsRight

\* A step of a recall writes no product and no copy.
LEMMA RecallStepReads ==
  ASSUME RecallInv, ReadsRight, NEW c \in Client,
         \/ CreateRecall(c) \/ OpenCounts(c) \/ IdentifyAffectedItems(c) \/ ReadItems(c)
         \/ WriteAffected(c) \/ QueueNotice(c) \/ ReadNotices(c) \/ WriteNotified(c)
  PROVE  ReadsRight'
<1>1. UNCHANGED <<productRow, productCopy, eventRows, statsCopy, overlapped, accounts, troubles>>
  BY DEF CreateRecall, OpenCounts, IdentifyAffectedItems, ReadItems, WriteAffected, QueueNotice,
         ReadNotices, WriteNotified, recallRest, tally
<1>2. request[c].at \in AtRecall \union {"open recall"}
  BY DEF CreateRecall, OpenCounts, IdentifyAffectedItems, ReadItems, WriteAffected, QueueNotice,
         ReadNotices, WriteNotified, Stage, AtRecall
<1>3. request[c] # Quiet /\ request[c].at \notin {"drop copy", "drop stats"}
  BY <1>2, NotQuiet DEF AtRecall
<1>4. IsCall(request[c])
  BY DEF RecallInv, CallsInOrder, CallHoldsHere
<1>5. PICK y : y = request[c]
  OBVIOUS
<1>6. PICK x : request' = [request EXCEPT ![c] = x] /\ x.at \notin {"leave copy", "leave stats"}
  <2>0. ASSUME NEW at, Goto(c, at)
        PROVE  \E x : request' = [request EXCEPT ![c] = x] /\ x.at = at
    BY <2>0, Moves
  <2> DEFINE Fine(x) == request' = [request EXCEPT ![c] = x] /\ x.at \notin {"leave copy", "leave stats"}
  <2>1. CASE Return(c)
    BY <2>1, NotQuiet DEF Return
  <2>2. ASSUME NEW at \in {"identify", "read items"}, Goto(c, at) PROVE \E x : Fine(x)
    <3>1. PICK x : request' = [request EXCEPT ![c] = x] /\ x.at = at
      BY <2>0, <2>2
    <3> QED
      BY <3>1
  <2>3. ASSUME NEW r, request' = [request EXCEPT ![c].at = "open counts", ![c].recall = r]
        PROVE  \E x : Fine(x)
    <3>1. PICK x : x = [y EXCEPT !.at = "open counts", !.recall = r]
      OBVIOUS
    <3>2. request' = [request EXCEPT ![c] = x]
      BY <1>5, <2>3, <3>1
    <3>3. x.at = "open counts"
      BY <1>4, <1>5, <3>1 DEF IsCall
    <3> QED
      BY <3>2, <3>3
  <2>4. ASSUME NEW at \in {"write affected", "write notified", "queue notice", "read notices"}, NEW n,
               request' = [request EXCEPT ![c].at = at, ![c].count = n]
        PROVE  \E x : Fine(x)
    <3>1. PICK x : x = [y EXCEPT !.at = at, !.count = n]
      OBVIOUS
    <3>2. request' = [request EXCEPT ![c] = x]
      BY <1>5, <2>4, <3>1
    <3>3. x.at = at
      BY <1>4, <1>5, <3>1 DEF IsCall
    <3> QED
      BY <3>2, <3>3
  <2>5. CASE CreateRecall(c)
    BY <2>1, <2>3, <2>5 DEF CreateRecall
  <2>6. CASE OpenCounts(c) \/ IdentifyAffectedItems(c)
    BY <2>1, <2>2, <2>6 DEF OpenCounts, IdentifyAffectedItems
  <2>7. CASE ReadItems(c) \/ ReadNotices(c)
    BY <2>4, <2>7 DEF ReadItems, ReadNotices
  <2>8. CASE WriteAffected(c)
    BY <2>1, <2>4, <2>8 DEF WriteAffected
  <2>9. CASE WriteNotified(c)
    BY <2>1, <2>9 DEF WriteNotified
  <2>10. CASE QueueNotice(c)
    <3>1. CASE Gone(c)
      BY <2>1, <2>10, <3>1 DEF QueueNotice
    <3>2. CASE ~Gone(c)
      <4>1. y.at = "queue notice"
        BY <1>5, <2>10 DEF QueueNotice, Stage
      <4>2. PICK at \in {"read notices", "queue notice"} :
              at = IF y.count = 1 THEN "read notices" ELSE y.at
        BY <4>1
      <4>3. PICK n : n = y.count - 1
        OBVIOUS
      <4>4. PICK x : x = [y EXCEPT !.count = n, !.at = at]
        OBVIOUS
      <4>5. request' = [request EXCEPT ![c] = x]
        BY <1>5, <2>10, <3>2, <4>2, <4>3, <4>4 DEF QueueNotice
      <4>6. x.at = at
        BY <1>4, <1>5, <4>4 DEF IsCall
      <4> QED
        BY <4>2, <4>5, <4>6
    <3> QED
      BY <3>1, <3>2
  <2> QED
    BY <2>5, <2>6, <2>7, <2>8, <2>9, <2>10
<1> QED
  BY <1>1, <1>3, <1>6, QuietStep

\* A step of no call: copies expire, or a count of recovered items is written.
LEMMA OthersRead ==
  ASSUME RecallInv, ReadsRight,
         \/ UNCHANGED catalogVars \/ Expire
         \/ \E c \in Client, r \in RecallId : \E delta \in Delta : UpdateEffectiveness(c, r, delta)
  PROVE  ReadsRight'
<1>1. /\ UNCHANGED <<productRow, eventRows, request, overlapped, accounts, troubles>>
      /\ statsCopy' \in {statsCopy, NoCount}
      /\ \/ productCopy' = productCopy
         \/ \E p \in CatalogProduct : productCopy' = [productCopy EXCEPT ![p] = NoProduct]
  BY DEF catalogVars, Expire, UpdateEffectiveness, tally
<1>2. /\ productCopy' = [p \in CatalogProduct |-> productCopy'[p]]
      /\ \A p \in CatalogProduct : productCopy'[p] \in {productCopy[p], NoProduct}
  BY <1>1 DEF ReadsRight
<1>3. Figures' = Figures
  BY <1>1 DEF Figures
<1>4. ASSUME NEW x, RightFor(x) PROVE RightFor(x)'
  <2>1. ReadRight(x)'
    BY <1>1, <1>3, <1>4 DEF RightFor, ReadRight
  <2>2. CopiesCurrent(x)'
    BY <1>1, <1>2, <1>3, <1>4 DEF RightFor, CopiesCurrent
  <2> QED
    BY <2>1, <2>2 DEF RightFor
<1>5. ASSUME Undisturbed'
      PROVE  /\ OneCall'
             /\ \A d \in Client : (request[d] # Quiet => RightFor(request[d]))'
             /\ ((\A d \in Client : request[d] = Quiet) => RightFor(Quiet))'
  <2>1. Undisturbed
    BY <1>1, <1>5 DEF Undisturbed
  <2>2. OneCall'
    BY <1>1, <2>1 DEF ReadsRight, OneCall
  <2>3. ASSUME NEW d \in Client, request'[d] # Quiet PROVE RightFor(request[d])'
    <3>1. PICK y : y = request[d] /\ request'[d] = y
      BY <1>1
    <3>2. RightFor(y)'
      BY <1>4, <2>1, <2>3, <3>1 DEF ReadsRight
    <3> QED
      BY <3>1, <3>2 DEF RightFor, ReadRight, CopiesCurrent
  <2>4. (\A d \in Client : request'[d] = Quiet) => RightFor(Quiet)'
    BY <1>1, <1>4, <2>1 DEF ReadsRight
  <2> QED
    BY <2>2, <2>3, <2>4
<1> QED
  BY <1>1, <1>2, <1>5 DEF ReadsRight

\* Users and keys come and go; the figures left behind know no user too many.
LEMMA AccountReads ==
  ASSUME ReadsRight, AccountStep
  PROVE  ReadsRight'
<1>1. UNCHANGED <<productRow, productCopy, eventRows, statsCopy, request, overlapped, troubles>>
  BY DEF AccountStep, CreateUser, CreateApiKey, DisableKeys, AccountCall
<1>2. /\ accounts \in [users : Nat, keys : Nat] /\ accounts' \in [users : Nat, keys : Nat]
      /\ accounts'.users = accounts.users \/ accounts'.users = accounts.users + 1
  <2>1. accounts \in [users : Nat, keys : Nat]
    BY DEF ReadsRight
  <2>2. CASE accounts' = [accounts EXCEPT !.users = accounts.users + 1]
    BY <2>1, <2>2
  <2>3. ASSUME NEW n \in Nat, accounts' = [accounts EXCEPT !.keys = n]
        PROVE  accounts' \in [users : Nat, keys : Nat] /\ accounts'.users = accounts.users
    BY <2>1, <2>3
  <2>4. \/ accounts' = [accounts EXCEPT !.users = accounts.users + 1]
        \/ \E n \in Nat : accounts' = [accounts EXCEPT !.keys = n]
    <3>1. accounts.keys + 1 \in Nat /\ 0 .. accounts.keys \subseteq Nat
      BY <2>1
    <3> QED
      BY <3>1 DEF AccountStep, CreateUser, CreateApiKey, DisableKeys, AccountCall
  <2> QED
    BY <2>1, <2>2, <2>3, <2>4
<1>3. \A f : CountedRight(f, Figures) => CountedRight(f, Figures')
  BY <1>1, <1>2 DEF Figures, CountedRight
<1>4. ASSUME NEW x, RightFor(x) PROVE RightFor(x)'
  BY <1>1, <1>3, <1>4 DEF RightFor, ReadRight, CopiesCurrent
<1>5. ASSUME Undisturbed'
      PROVE  /\ OneCall'
             /\ \A d \in Client : (request[d] # Quiet => RightFor(request[d]))'
             /\ ((\A d \in Client : request[d] = Quiet) => RightFor(Quiet))'
  <2>1. Undisturbed /\ OneCall'
    BY <1>1, <1>5 DEF Undisturbed, ReadsRight, OneCall
  <2>2. ASSUME NEW d \in Client, request'[d] # Quiet PROVE RightFor(request[d])'
    <3>1. PICK y : y = request[d] /\ request'[d] = y
      BY <1>1
    <3>2. RightFor(y)'
      BY <1>4, <2>1, <2>2, <3>1 DEF ReadsRight
    <3> QED
      BY <3>1, <3>2 DEF RightFor, ReadRight, CopiesCurrent
  <2>3. (\A d \in Client : request'[d] = Quiet) => RightFor(Quiet)'
    BY <1>1, <1>4, <2>1 DEF ReadsRight
  <2> QED
    BY <2>1, <2>2, <2>3
<1> QED
  BY <1>1, <1>2, <1>5 DEF ReadsRight

LEMMA AnyStepReads ==
  ASSUME RecallInv, ReadsRight, [CatalogNext]_catalogVars
  PROVE  ReadsRight'
<1>1. ASSUME NEW c \in Client, NEW x, Call(c, x), x.at \in {"look up", "look up stats", "insert event",
                                                     "open recall", "queue notice"}
      PROVE  ReadsRight'
  BY <1>1, ReadsBegin
<1>2. IsCall(Quiet)
  BY QuietHolds DEF CallHoldsHere
<1>3. ASSUME NEW c \in Client, CatalogStep(c) PROVE ReadsRight'
  <2>1. ASSUME NEW p, NEW op, ProductCall(c, op, p) PROVE ReadsRight'
    <3>1. PICK x : x = [Quiet EXCEPT !.op = op, !.at = "look up", !.product = p]
      OBVIOUS
    <3>2. x.at = "look up"
      BY <1>2, <3>1 DEF IsCall
    <3> QED
      BY <1>1, <2>1, <3>1, <3>2 DEF ProductCall
  <2>2. ASSUME NEW p, NEW new, SyncProduct(c, p, new) PROVE ReadsRight'
    <3>1. PICK x : x = [Quiet EXCEPT !.op = "sync", !.at = "look up", !.product = p, !.new = new]
      OBVIOUS
    <3>2. x.at = "look up"
      BY <1>2, <3>1 DEF IsCall
    <3> QED
      BY <1>1, <2>2, <3>1, <3>2 DEF SyncProduct
  <2>3. ASSUME NEW p, NEW b, NEW failed, CreateEvent(c, p, b, failed) PROVE ReadsRight'
    <3>1. PICK x : x = [Quiet EXCEPT !.op = "event", !.at = "insert event", !.product = p,
                                     !.batch = b, !.failed = failed]
      OBVIOUS
    <3>2. x.at = "insert event"
      BY <1>2, <3>1 DEF IsCall
    <3> QED
      BY <1>1, <2>3, <3>1, <3>2 DEF CreateEvent
  <2>4. ASSUME GetGlobalStats(c) PROVE ReadsRight'
    <3>1. PICK x : x = [Quiet EXCEPT !.op = "stats", !.at = "look up stats"]
      OBVIOUS
    <3>2. x.at = "look up stats"
      BY <1>2, <3>1 DEF IsCall
    <3> QED
      BY <1>1, <2>4, <3>1, <3>2 DEF GetGlobalStats
  <2> QED
    BY <1>3, <2>1, <2>2, <2>3, <2>4, LookUpReads, SelectReads, LeaveCopyReads, SyncWriteReads,
       DeleteProductReads, DropCopyReads, InsertEventReads, StatsReads, CountStatsReads, DroppedReads
       DEF CatalogStep
<1>4. ASSUME NEW c \in Client, RecallStep(c) PROVE ReadsRight'
  <2>1. ASSUME NEW p, NEW b, CreateRecallHandler(c, p, b) PROVE ReadsRight'
    <3>1. PICK x : x = [Quiet EXCEPT !.op = "recall", !.at = "open recall", !.product = p, !.batch = b]
      OBVIOUS
    <3>2. x.at = "open recall"
      BY <1>2, <3>1 DEF IsCall
    <3> QED
      BY <1>1, <2>1, <3>1, <3>2 DEF CreateRecallHandler
  <2>2. ASSUME NEW r, NEW n, NotifyRecall(c, r, n) PROVE ReadsRight'
    <3>1. PICK x : x = [Quiet EXCEPT !.op = "notify", !.at = "queue notice", !.recall = r, !.count = n]
      OBVIOUS
    <3>2. x.at = "queue notice"
      BY <1>2, <3>1 DEF IsCall
    <3> QED
      BY <1>1, <2>2, <3>1, <3>2 DEF NotifyRecall
  <2>3. ASSUME NEW r \in RecallId, NEW delta \in Delta, UpdateEffectiveness(c, r, delta)
        PROVE  ReadsRight'
    BY <2>3, OthersRead
  <2> QED
    BY <1>4, <2>1, <2>2, <2>3, RecallStepReads DEF RecallStep
<1> QED
  BY <1>3, <1>4, OthersRead, AccountReads DEF CatalogNext

\* A copy of a product, and the products and events of the copy of the global
\* figures, say what the tables say once no call is in flight, as long as no two calls overlapped, none was dropped
\* and Redis answered: every path of get_product, sync, deletion and
\* create_event that writes a row ends by dropping what was left of it.
THEOREM ReadsAreCurrent == CatalogSpec => []SerialReadsCurrent
<1>1. CatalogInit => RecallInv /\ ReadsRight
  <2> SUFFICES ASSUME CatalogInit PROVE ReadsRight
    BY RecallInvInit
  <2>1. troubles \in Nat /\ accounts \in [users : Nat, keys : Nat] /\ productCopy = [p \in CatalogProduct |-> productCopy[p]]
    BY DEF CatalogInit
  <2>2. \A c \in Client : request[c] = Quiet
    BY DEF CatalogInit
  <2>3. RightFor(Quiet)
    BY NotQuiet DEF CatalogInit, RightFor, ReadRight, CopiesCurrent
  <2> QED
    BY <2>1, <2>2, <2>3 DEF ReadsRight, OneCall
<1>2. RecallInv /\ ReadsRight /\ [CatalogNext]_catalogVars => (RecallInv /\ ReadsRight)'
  BY RecallStepKeeps, AnyStepReads
<1>3. ReadsRight => SerialReadsCurrent
  <2> SUFFICES ASSUME ReadsRight, Undisturbed, \A c \in Client : request[c] = Quiet
               PROVE  /\ \A p \in CatalogProduct : productCopy[p] \in {NoProduct, productRow[p]}
                      /\ statsCopy # NoCount => /\ statsCopy.products = Figures.products
                                                /\ statsCopy.events = Figures.events
                                                /\ statsCopy.users <= Figures.users
    BY DEF SerialReadsCurrent, Undisturbed
  <2>1. CopiesCurrent(Quiet)
    BY DEF ReadsRight, RightFor
  <2>2. statsCopy = NoCount \/ CountedRight(statsCopy, Figures)
    BY <2>1, NotQuiet DEF CopiesCurrent
  <2>3. statsCopy # NoCount => /\ statsCopy.products = Figures.products
                               /\ statsCopy.events = Figures.events
                               /\ statsCopy.users <= Figures.users
    BY <2>2 DEF CountedRight
  <2> QED
    BY <2>1, <2>3, NotQuiet DEF CopiesCurrent
<1> QED
  BY <1>1, <1>2, <1>3, PTL DEF CatalogSpec

(***************************************************************************)
(* Batches.                                                                *)
(***************************************************************************)

IsBatchCall(x) ==
  /\ x = [op |-> x.op, at |-> x.at, batch |-> x.batch, row |-> x.row, left |-> x.left]
  /\ x.at = "write row" => x.op \in {"update", "delete"}

Unhindered == ~batchTally.overlap /\ batchTally.troubles = 0 /\ ~batchTally.cascade

\* The row a call is about to leave as a copy is the batch's, and every copy
\* is the batch's row that the call is not about to drop.
BatchRightFor(x) ==
  /\ x.at = "write copy" => x.row = batchRow[x.batch]
  /\ \A b \in BatchId : \/ batchCopy[b] \in {NoBatchRow, batchRow[b]}
                        \/ x.at = "drop copy" /\ x.batch = b

OneBatchCall == \A c, d \in BatchClient : batchCall[c] # Resting /\ batchCall[d] # Resting => c = d

BatchTables ==
  /\ batchRow = [b \in BatchId |-> batchRow[b]]
  /\ batchCopy = [b \in BatchId |-> batchCopy[b]]
  /\ batchCall = [c \in BatchClient |-> batchCall[c]]
  /\ \A c \in BatchClient : IsBatchCall(batchCall[c])
  /\ batchTally = [calls |-> batchTally.calls, troubles |-> batchTally.troubles,
                   overlap |-> batchTally.overlap, cascade |-> batchTally.cascade]
  /\ batchTally.troubles \in Nat

BatchesRight ==
  /\ BatchTables
  /\ Unhindered => /\ OneBatchCall
                   /\ \A c \in BatchClient : batchCall[c] # Resting => BatchRightFor(batchCall[c])
                   /\ (\A c \in BatchClient : batchCall[c] = Resting) => BatchRightFor(Resting)

LEMMA RestingIs == Resting.at = "none" /\ IsBatchCall(Resting)
BY DEF Resting, IsBatchCall

LEMMA TroublesCounted ==
  ASSUME BatchTables, BatchTrouble
  PROVE  /\ batchTally' = [calls |-> batchTally'.calls, troubles |-> batchTally'.troubles,
                           overlap |-> batchTally'.overlap, cascade |-> batchTally'.cascade]
         /\ batchTally'.troubles \in Nat /\ ~Unhindered'
<1>1. batchTally' = [batchTally EXCEPT !.troubles = batchTally.troubles + 1]
  BY DEF BatchTrouble
<1>2. batchTally.troubles \in Nat
  BY DEF BatchTables
<1>3. batchTally'.troubles = batchTally.troubles + 1
  BY <1>1 DEF BatchTables
<1>4. batchTally'.troubles \in Nat /\ batchTally'.troubles # 0
  BY <1>2, <1>3
<1>5. batchTally' = [calls |-> batchTally'.calls, troubles |-> batchTally'.troubles,
                     overlap |-> batchTally'.overlap, cascade |-> batchTally'.cascade]
  BY <1>1 DEF BatchTables
<1> QED
  BY <1>4, <1>5 DEF Unhindered

\* A statement that is counted as a call of its own finds every call at rest.
LEMMA CallsCounted ==
  ASSUME BatchTables, Counted
  PROVE  /\ batchTally' = [calls |-> batchTally'.calls, troubles |-> batchTally'.troubles,
                           overlap |-> batchTally'.overlap, cascade |-> batchTally'.cascade]
         /\ batchTally'.troubles \in Nat
         /\ Unhindered' => Unhindered /\ \A c \in BatchClient : batchCall[c] = Resting
<1>1. PICK over : over = (batchTally.overlap \/ \E d \in BatchClient : batchCall[d] # Resting)
  OBVIOUS
<1>2. batchTally' = [batchTally EXCEPT !.calls = batchTally.calls + 1, !.overlap = over]
  BY <1>1 DEF Counted
<1>3. batchTally'.overlap = over /\ batchTally'.troubles = batchTally.troubles
      /\ batchTally'.cascade = batchTally.cascade
  BY <1>2 DEF BatchTables
<1>4. batchTally' = [calls |-> batchTally'.calls, troubles |-> batchTally'.troubles,
                     overlap |-> batchTally'.overlap, cascade |-> batchTally'.cascade]
  BY <1>2 DEF BatchTables
<1>5. Unhindered' => Unhindered /\ ~over
  <2>1. Unhindered' => ~over
    BY <1>3, Zenon DEF Unhindered
  <2>2. ~over => ~batchTally.overlap
    BY <1>1
  <2>3. Unhindered' => batchTally.troubles = 0 /\ ~batchTally.cascade
    BY <1>3, Zenon DEF Unhindered
  <2> QED
    BY <2>1, <2>2, <2>3, Zenon DEF Unhindered
<1> QED
  BY <1>1, <1>3, <1>4, <1>5 DEF BatchTables

\* The one call that is in flight takes a step.
LEMMA BatchCallSteps ==
  ASSUME BatchesRight, NEW c \in BatchClient, batchCall[c] # Resting, NEW x, IsBatchCall(x),
         batchCall' = [batchCall EXCEPT ![c] = x],
         batchRow' = [b \in BatchId |-> batchRow'[b]],
         batchCopy' = [b \in BatchId |-> batchCopy'[b]],
         batchTally' = [calls |-> batchTally'.calls, troubles |-> batchTally'.troubles,
                        overlap |-> batchTally'.overlap, cascade |-> batchTally'.cascade],
         batchTally'.troubles \in Nat,
         Unhindered' => Unhindered,
         Unhindered' /\ BatchRightFor(batchCall[c]) => BatchRightFor(x)'
  PROVE  BatchesRight'
<1>1. \A d \in BatchClient : batchCall'[d] = IF d = c THEN x ELSE batchCall[d]
  BY DEF BatchesRight, BatchTables
<1>2. BatchTables'
  <2>1. batchCall' = [d \in BatchClient |-> batchCall'[d]]
    BY DEF BatchesRight, BatchTables
  <2>2. \A d \in BatchClient : IsBatchCall(batchCall'[d])
    BY <1>1 DEF BatchesRight, BatchTables
  <2>3. \A d \in BatchClient : IsBatchCall(batchCall[d])'
    BY <2>2 DEF IsBatchCall
  <2> QED
    BY <2>1, <2>3 DEF BatchTables
<1>3. ASSUME Unhindered'
      PROVE  /\ OneBatchCall'
             /\ \A d \in BatchClient : (batchCall[d] # Resting => BatchRightFor(batchCall[d]))'
             /\ ((\A d \in BatchClient : batchCall[d] = Resting) => BatchRightFor(Resting))'
  <2>1. \A d \in BatchClient : d # c => batchCall[d] = Resting
    BY <1>3 DEF BatchesRight, OneBatchCall
  <2>2. BatchRightFor(x)'
    BY <1>3 DEF BatchesRight
  <2>3. \A d \in BatchClient : d # c => batchCall'[d] = Resting
    BY <1>1, <2>1
  <2>4. batchCall'[c] = x
    BY <1>1
  <2>5. OneBatchCall'
    BY <2>3 DEF OneBatchCall
  <2>6. ASSUME NEW d \in BatchClient, batchCall'[d] # Resting PROVE BatchRightFor(batchCall[d])'
    <3>1. d = c
      BY <2>3, <2>6
    <3>2. batchCall'[d] = x
      BY <2>4, <3>1
    <3> QED
      BY <2>2, <3>2 DEF BatchRightFor
  <2>7. ASSUME \A d \in BatchClient : batchCall'[d] = Resting PROVE BatchRightFor(Resting)'
    <3>1. x = Resting
      BY <2>4, <2>7
    <3> QED
      BY <2>2, <3>1 DEF BatchRightFor
  <2> QED
    BY <2>5, <2>6, <2>7
<1> QED
  BY <1>2, <1>3 DEF BatchesRight

\* A call that writes no row and no copy.
LEMMA BatchCallReads ==
  ASSUME BatchesRight, NEW c \in BatchClient, batchCall[c] # Resting, NEW x, IsBatchCall(x),
         batchCall' = [batchCall EXCEPT ![c] = x], x.at # "write copy", batchCall[c].at # "drop copy",
         BatchTrouble \/ UNCHANGED batchTally,
         UNCHANGED <<batchRow, batchCopy>>
  PROVE  BatchesRight'
<1>1. /\ batchRow' = [b \in BatchId |-> batchRow'[b]]
      /\ batchCopy' = [b \in BatchId |-> batchCopy'[b]]
  BY DEF BatchesRight, BatchTables
<1>2. CASE BatchTrouble
  BY <1>1, <1>2, TroublesCounted, BatchCallSteps DEF BatchesRight
<1>3. CASE UNCHANGED batchTally
  <2>1. Unhindered' => Unhindered
    BY <1>3 DEF Unhindered
  <2>2. BatchRightFor(batchCall[c]) => BatchRightFor(x)'
    BY DEF BatchRightFor
  <2>3. /\ batchTally' = [calls |-> batchTally'.calls, troubles |-> batchTally'.troubles,
                          overlap |-> batchTally'.overlap, cascade |-> batchTally'.cascade]
        /\ batchTally'.troubles \in Nat
    BY <1>3 DEF BatchesRight, BatchTables
  <2> QED
    BY <1>1, <2>1, <2>2, <2>3, BatchCallSteps
<1> QED
  BY <1>2, <1>3

LEMMA BatchMoves ==
  ASSUME BatchTables, NEW c \in BatchClient, NEW at, BatchStep(c, at), at # "write row"
  PROVE  \E x : /\ batchCall' = [batchCall EXCEPT ![c] = x] /\ IsBatchCall(x)
                /\ x.at = at /\ x.batch = batchCall[c].batch
<1>1. IsBatchCall(batchCall[c])
  BY DEF BatchTables
<1>2. PICK x : x = [batchCall[c] EXCEPT !.at = at]
  OBVIOUS
<1>3. IsBatchCall(x) /\ x.at = at /\ x.batch = batchCall[c].batch
  BY <1>1, <1>2 DEF IsBatchCall
<1> QED
  BY <1>2, <1>3 DEF BatchStep

\* A batch that is found is answered, or its relatives are read.
LEMMA Having ==
  ASSUME BatchTables, NEW c \in BatchClient, NEW row, Have(c, row)
  PROVE  \E x : /\ batchCall' = [batchCall EXCEPT ![c] = x] /\ IsBatchCall(x)
                /\ x.at \in {"none", "read copy"}
<1>1. PICK left : left = IF batchCall[c].op = "tree" /\ row # NoBatchRow
                         THEN Relatives(batchCall[c].batch) ELSE batchCall[c].left
  OBVIOUS
<1>2. CASE left = {}
  BY <1>1, <1>2, RestingIs DEF Have, BatchAnswers
<1>3. CASE left # {}
  <2>1. PICK r \in left : batchCall' = [batchCall EXCEPT ![c] =
               [op |-> "relatives", at |-> "read copy", batch |-> r, row |-> NoBatchRow,
                left |-> left \ {r}]]
    BY <1>1, <1>3 DEF Have
  <2>2. PICK x : x = [op |-> "relatives", at |-> "read copy", batch |-> r, row |-> NoBatchRow,
                      left |-> left \ {r}]
    OBVIOUS
  <2>3. IsBatchCall(x) /\ x.at = "read copy"
    BY <2>2 DEF IsBatchCall
  <2> QED
    BY <2>1, <2>2, <2>3
<1> QED
  BY <1>2, <1>3

LEMMA ReadCopyRight ==
  ASSUME BatchesRight, NEW c \in BatchClient, ReadCopy(c)
  PROVE  BatchesRight'
<1>1. batchCall[c].at = "read copy" /\ batchCall[c] # Resting /\ BatchTables
  BY RestingIs DEF ReadCopy, BatchesRight
<1>2. UNCHANGED <<batchRow, batchCopy>> /\ (BatchTrouble \/ UNCHANGED batchTally)
  BY DEF ReadCopy
<1>4. ASSUME NEW at, BatchStep(c, at), at # "write row"
      PROVE  \E x : batchCall' = [batchCall EXCEPT ![c] = x] /\ IsBatchCall(x) /\ x.at = at
  <2>1. BatchTables
    BY <1>1
  <2>2. PICK x : /\ batchCall' = [batchCall EXCEPT ![c] = x] /\ IsBatchCall(x)
                 /\ x.at = at /\ x.batch = batchCall[c].batch
    BY <1>4, <2>1, BatchMoves
  <2> QED
    BY <2>2
<1>3. PICK x : batchCall' = [batchCall EXCEPT ![c] = x] /\ IsBatchCall(x) /\ x.at # "write copy"
  <2>1. PICK at : at = "read row"
    OBVIOUS
  <2>2. (\E row : Have(c, row)) \/ BatchStep(c, at)
    BY <2>1 DEF ReadCopy
  <2>3. CASE \E row : Have(c, row)
    BY <1>1, <2>3, Having
  <2>4. CASE BatchStep(c, at)
    <3>1. at # "write row" /\ at # "write copy"
      BY <2>1
    <3>2. PICK x : batchCall' = [batchCall EXCEPT ![c] = x] /\ IsBatchCall(x) /\ x.at = at
      BY <1>4, <2>4, <3>1
    <3> QED
      BY <3>1, <3>2
  <2> QED
    BY <2>2, <2>3, <2>4
<1> QED
  BY <1>1, <1>2, <1>3, BatchCallReads

LEMMA ReadRowRight ==
  ASSUME BatchesRight, NEW c \in BatchClient, ReadRow(c)
  PROVE  BatchesRight'
<1>1. batchCall[c].at = "read row" /\ batchCall[c] # Resting /\ BatchTables
  BY RestingIs DEF ReadRow, BatchesRight
<1>2. UNCHANGED <<batchRow, batchCopy, batchTally>>
  BY DEF ReadRow
<1>3. PICK row : row = batchRow[batchCall[c].batch]
  OBVIOUS
<1>4. CASE row = NoBatchRow
  <2>1. PICK x : batchCall' = [batchCall EXCEPT ![c] = x] /\ IsBatchCall(x) /\ x.at # "write copy"
    BY <1>1, <1>3, <1>4, Having DEF ReadRow
  <2> QED
    BY <1>1, <1>2, <2>1, BatchCallReads
<1>5. CASE row # NoBatchRow
  <2>1. PICK x : x = [batchCall[c] EXCEPT !.at = "write copy", !.row = row]
    OBVIOUS
  <2>2. batchCall' = [batchCall EXCEPT ![c] = x]
    BY <1>3, <1>5, <2>1 DEF ReadRow
  <2>3. IsBatchCall(batchCall[c])
    BY <1>1 DEF BatchTables
  <2>4. IsBatchCall(x) /\ x.at = "write copy" /\ x.row = row /\ x.batch = batchCall[c].batch
    BY <2>1, <2>3 DEF IsBatchCall
  <2>5. BatchRightFor(batchCall[c]) => BatchRightFor(x)'
    BY <1>1, <1>2, <1>3, <2>4 DEF BatchRightFor
  <2>6. Unhindered' => Unhindered
    BY <1>2 DEF Unhindered
  <2>7. /\ batchTally' = [calls |-> batchTally'.calls, troubles |-> batchTally'.troubles,
                          overlap |-> batchTally'.overlap, cascade |-> batchTally'.cascade]
        /\ batchTally'.troubles \in Nat
        /\ batchRow' = [b \in BatchId |-> batchRow'[b]]
        /\ batchCopy' = [b \in BatchId |-> batchCopy'[b]]
    BY <1>1, <1>2 DEF BatchTables
  <2> QED
    BY <1>1, <2>2, <2>4, <2>5, <2>6, <2>7, BatchCallSteps
<1> QED
  BY <1>4, <1>5

\* A Redis call that answers has written one copy.
LEMMA RedisAnswers ==
  ASSUME BatchTables, NEW b, NEW row, BatchRedis([batchCopy EXCEPT ![b] = row])
  PROVE  /\ batchTally' = [calls |-> batchTally'.calls, troubles |-> batchTally'.troubles,
                           overlap |-> batchTally'.overlap, cascade |-> batchTally'.cascade]
         /\ batchTally'.troubles \in Nat
         /\ batchCopy' = [d \in BatchId |-> batchCopy'[d]]
         /\ Unhindered' => /\ Unhindered
                           /\ \A d \in BatchId : batchCopy'[d] = IF d = b THEN row ELSE batchCopy[d]
<1>1. CASE BatchTrouble /\ UNCHANGED batchCopy
  BY <1>1, TroublesCounted DEF BatchTables
<1>2. CASE batchCopy' = [batchCopy EXCEPT ![b] = row] /\ UNCHANGED batchTally
  <2>1. Unhindered' => Unhindered
    BY <1>2 DEF Unhindered
  <2> QED
    BY <1>2, <2>1 DEF BatchTables
<1> QED
  BY <1>1, <1>2 DEF BatchRedis

LEMMA CopyWrites ==
  ASSUME BatchesRight, NEW c \in BatchClient, WriteCopy(c) \/ InvalidateBatchCache(c)
  PROVE  BatchesRight'
<1>1. /\ batchCall[c].at \in {"write copy", "drop copy"} /\ batchCall[c] # Resting /\ BatchTables
      /\ batchRow' = batchRow
  BY RestingIs DEF WriteCopy, InvalidateBatchCache, BatchesRight
<1>2. PICK b : b = batchCall[c].batch
  OBVIOUS
<1>3. PICK row : row = IF batchCall[c].at = "write copy" THEN batchCall[c].row ELSE NoBatchRow
  OBVIOUS
<1>4. BatchRedis([batchCopy EXCEPT ![b] = row])
  BY <1>2, <1>3 DEF WriteCopy, InvalidateBatchCache
<1>5. PICK x : batchCall' = [batchCall EXCEPT ![c] = x] /\ IsBatchCall(x) /\ x.at \in {"none", "read copy"}
  BY <1>1, Having, RestingIs DEF WriteCopy, InvalidateBatchCache, BatchAnswers
<1>6. /\ batchTally' = [calls |-> batchTally'.calls, troubles |-> batchTally'.troubles,
                        overlap |-> batchTally'.overlap, cascade |-> batchTally'.cascade]
      /\ batchTally'.troubles \in Nat
      /\ batchCopy' = [d \in BatchId |-> batchCopy'[d]]
      /\ Unhindered' => /\ Unhindered
                        /\ \A d \in BatchId : batchCopy'[d] = IF d = b THEN row ELSE batchCopy[d]
  BY <1>1, <1>4, RedisAnswers
<1>7. ASSUME Unhindered', BatchRightFor(batchCall[c]) PROVE BatchRightFor(x)'
  <2>1. row \in {NoBatchRow, batchRow[b]}
    BY <1>1, <1>2, <1>3, <1>7 DEF BatchRightFor
  <2>2. \A d \in BatchId : batchCopy[d] \in {NoBatchRow, batchRow[d]} \/ d = b
    BY <1>2, <1>7 DEF BatchRightFor
  <2>3. \A d \in BatchId : batchCopy'[d] \in {NoBatchRow, batchRow'[d]}
    BY <1>1, <1>6, <1>7, <2>1, <2>2
  <2> QED
    BY <1>5, <2>3 DEF BatchRightFor
<1>8. batchRow' = [d \in BatchId |-> batchRow'[d]]
  BY <1>1 DEF BatchTables
<1> QED
  BY <1>1, <1>5, <1>6, <1>7, <1>8, BatchCallSteps

LEMMA WriteRowRight ==
  ASSUME BatchesRight, NEW c \in BatchClient, WriteRow(c)
  PROVE  BatchesRight'
<1>1. batchCall[c].at = "write row" /\ batchCall[c] # Resting /\ BatchTables
      /\ UNCHANGED <<batchCopy, batchTally>>
  BY RestingIs DEF WriteRow, BatchesRight
<1>2. PICK call : call = batchCall[c]
  OBVIOUS
<1>3. CASE BatchAnswers(c) /\ UNCHANGED batchRow
  BY <1>1, <1>3, BatchCallReads, RestingIs DEF BatchAnswers
<1>4. CASE /\ batchRow' = [batchRow EXCEPT ![call.batch] = call.row]
           /\ BatchStep(c, "drop copy")
  <2>1. PICK at : at = "drop copy"
    OBVIOUS
  <2>2. BatchStep(c, at)
    BY <1>4, <2>1
  <2>3. PICK x : batchCall' = [batchCall EXCEPT ![c] = x] /\ IsBatchCall(x) /\ x.at = at
                 /\ x.batch = call.batch
    <3>1. at # "write row"
      BY <2>1
    <3>2. PICK x : batchCall' = [batchCall EXCEPT ![c] = x] /\ IsBatchCall(x) /\ x.at = at
                   /\ x.batch = batchCall[c].batch
      BY <1>1, <2>2, <3>1, BatchMoves, ZenonT(30)
    <3> QED
      BY <1>2, <3>2
  <2>4. \A d \in BatchId : d # call.batch => batchRow'[d] = batchRow[d]
    BY <1>1, <1>4 DEF BatchTables
  <2>5. BatchRightFor(batchCall[c]) => BatchRightFor(x)'
    BY <1>1, <2>1, <2>3, <2>4 DEF BatchRightFor
  <2>6. Unhindered' => Unhindered
    BY <1>1 DEF Unhindered
  <2>7. /\ batchTally' = [calls |-> batchTally'.calls, troubles |-> batchTally'.troubles,
                          overlap |-> batchTally'.overlap, cascade |-> batchTally'.cascade]
        /\ batchTally'.troubles \in Nat
        /\ batchRow' = [b \in BatchId |-> batchRow'[b]]
        /\ batchCopy' = [b \in BatchId |-> batchCopy'[b]]
    BY <1>1, <1>4 DEF BatchTables
  <2> QED
    BY <1>1, <2>3, <2>5, <2>6, <2>7, BatchCallSteps
<1>5. CASE /\ batchRow' = [batchRow EXCEPT ![call.batch] = call.row]
           /\ BatchAnswers(c) /\ ~Invalidates(call.op)
  <2>1. call.op \in {"update", "delete"}
    BY <1>1, <1>2 DEF BatchTables, IsBatchCall
  <2> QED
    BY <1>5, <2>1 DEF Invalidates
<1> QED
  BY <1>2, <1>3, <1>4, <1>5 DEF WriteRow

\* A step of no call in flight: rows stay, or a batch is created that had none.
LEMMA CountedStep ==
  ASSUME BatchesRight, Counted, UNCHANGED <<batchCall, batchCopy>>,
         \/ batchRow' = batchRow
         \/ \E b, row : batchRow[b] = NoBatchRow /\ batchRow' = [batchRow EXCEPT ![b] = row]
  PROVE  BatchesRight'
<1>1. BatchTables
  BY DEF BatchesRight
<1>2. /\ batchTally' = [calls |-> batchTally'.calls, troubles |-> batchTally'.troubles,
                        overlap |-> batchTally'.overlap, cascade |-> batchTally'.cascade]
      /\ batchTally'.troubles \in Nat
      /\ Unhindered' => Unhindered /\ \A c \in BatchClient : batchCall[c] = Resting
  BY <1>1, CallsCounted
<1>3. batchRow' = [b \in BatchId |-> batchRow'[b]]
      /\ \A b \in BatchId : batchRow'[b] = batchRow[b] \/ batchRow[b] = NoBatchRow
  BY <1>1 DEF BatchTables
<1>4. BatchTables'
  <2>1. \A c \in BatchClient : IsBatchCall(batchCall[c])'
    BY <1>1 DEF BatchTables, IsBatchCall
  <2> QED
    BY <1>1, <1>2, <1>3, <2>1 DEF BatchTables
<1>5. ASSUME Unhindered'
      PROVE  /\ \A c \in BatchClient : batchCall'[c] = Resting
             /\ BatchRightFor(Resting)'
  <2>1. \A c \in BatchClient : batchCall[c] = Resting
    BY <1>2, <1>5
  <2>2. BatchRightFor(Resting)
    BY <1>2, <1>5, <2>1 DEF BatchesRight
  <2>3. \A b \in BatchId : batchCopy'[b] \in {NoBatchRow, batchRow'[b]}
    BY <1>3, <2>2, RestingIs DEF BatchRightFor
  <2> QED
    BY <2>1, <2>3, RestingIs DEF BatchRightFor
<1> QED
  BY <1>4, <1>5 DEF BatchesRight, OneBatchCall

LEMMA BatchCallRight ==
  ASSUME BatchesRight, NEW c \in BatchClient, NEW op, NEW at, NEW b, NEW row,
         BatchCallBegins(c, op, at, b, row),
         at = "read copy" \/ (at = "write row" /\ op \in {"update", "delete"})
  PROVE  BatchesRight'
<1>1. PICK x : x = [op |-> op, at |-> at, batch |-> b, row |-> row, left |-> {}]
  OBVIOUS
<1>2. IsBatchCall(x) /\ x.at \notin {"write copy", "drop copy"}
  BY <1>1 DEF IsBatchCall
<1>3. /\ batchCall' = [batchCall EXCEPT ![c] = x] /\ Counted /\ UNCHANGED <<batchRow, batchCopy>>
  BY <1>1 DEF BatchCallBegins
<1>4. BatchTables
  BY DEF BatchesRight
<1>5. /\ batchTally' = [calls |-> batchTally'.calls, troubles |-> batchTally'.troubles,
                        overlap |-> batchTally'.overlap, cascade |-> batchTally'.cascade]
      /\ batchTally'.troubles \in Nat
      /\ Unhindered' => Unhindered /\ \A d \in BatchClient : batchCall[d] = Resting
  BY <1>3, <1>4, CallsCounted
<1>6. \A d \in BatchClient : batchCall'[d] = IF d = c THEN x ELSE batchCall[d]
  BY <1>3, <1>4 DEF BatchTables
<1>7. BatchTables'
  <2>1. \A d \in BatchClient : IsBatchCall(batchCall[d])'
    BY <1>2, <1>4, <1>6 DEF BatchTables, IsBatchCall
  <2>2. batchCall' = [d \in BatchClient |-> batchCall'[d]]
    BY <1>3, <1>4 DEF BatchTables
  <2> QED
    BY <1>3, <1>4, <1>5, <2>1, <2>2 DEF BatchTables
<1>8. ASSUME Unhindered'
      PROVE  /\ OneBatchCall' /\ BatchRightFor(Resting)'
             /\ \A d \in BatchClient : BatchRightFor(batchCall[d])'
  <2>1. \A d \in BatchClient : batchCall[d] = Resting
    BY <1>5, <1>8
  <2>2. BatchRightFor(Resting)
    BY <1>5, <1>8, <2>1 DEF BatchesRight
  <2>3. \A b_1 \in BatchId : batchCopy'[b_1] \in {NoBatchRow, batchRow'[b_1]}
    BY <1>3, <2>2, RestingIs DEF BatchRightFor
  <2>4. \A d \in BatchClient : batchCall'[d].at # "write copy"
    BY <1>2, <1>6, <2>1, RestingIs
  <2>5. OneBatchCall'
    BY <1>6, <2>1 DEF OneBatchCall
  <2> QED
    BY <2>3, <2>4, <2>5, RestingIs DEF BatchRightFor
<1> QED
  BY <1>7, <1>8 DEF BatchesRight

\* Batches go with their product, or a copy expires, or nothing happens.
LEMMA BatchesAlone ==
  ASSUME BatchesRight,
         \/ UNCHANGED batchVars \/ \E b \in BatchId : BatchExpires(b)
         \/ \E gone \in SUBSET BatchId : ProductDeleted(gone)
  PROVE  BatchesRight'
<1>1. BatchTables
  BY DEF BatchesRight
<1>2. CASE \E gone \in SUBSET BatchId : ProductDeleted(gone)
  <2>1. /\ batchTally' = [batchTally EXCEPT !.cascade = TRUE] /\ UNCHANGED <<batchCopy, batchCall>>
        /\ \E gone : batchRow' = [b \in BatchId |-> IF b \in gone THEN NoBatchRow ELSE batchRow[b]]
    BY <1>2 DEF ProductDeleted
  <2>2. /\ batchTally'.cascade /\ batchTally'.troubles = batchTally.troubles
        /\ batchTally' = [calls |-> batchTally'.calls, troubles |-> batchTally'.troubles,
                          overlap |-> batchTally'.overlap, cascade |-> batchTally'.cascade]
    BY <1>1, <2>1 DEF BatchTables
  <2>3. \A c \in BatchClient : IsBatchCall(batchCall[c])'
    BY <1>1, <2>1 DEF BatchTables, IsBatchCall
  <2>4. batchRow' = [b \in BatchId |-> batchRow'[b]]
    BY <2>1
  <2>5. BatchTables'
    BY <1>1, <2>1, <2>2, <2>3, <2>4 DEF BatchTables
  <2>6. ~Unhindered'
    BY <2>2 DEF Unhindered
  <2> QED
    BY <2>5, <2>6 DEF BatchesRight
<1>3. CASE UNCHANGED batchVars \/ \E b \in BatchId : BatchExpires(b)
  <2>1. /\ UNCHANGED <<batchRow, batchCall, batchTally>>
        /\ \/ batchCopy' = batchCopy
           \/ \E b \in BatchId : batchCopy' = [batchCopy EXCEPT ![b] = NoBatchRow]
    BY <1>3 DEF batchVars, BatchExpires
  <2>2. /\ batchCopy' = [b \in BatchId |-> batchCopy'[b]]
        /\ \A b \in BatchId : batchCopy'[b] \in {batchCopy[b], NoBatchRow}
    BY <1>1, <2>1 DEF BatchTables
  <2>3. \A c \in BatchClient : IsBatchCall(batchCall[c])'
    BY <1>1, <2>1 DEF BatchTables, IsBatchCall
  <2>4. BatchTables'
    BY <1>1, <2>1, <2>2, <2>3 DEF BatchTables
  <2>5. ASSUME NEW x, BatchRightFor(x) PROVE BatchRightFor(x)'
    BY <2>1, <2>2, <2>5 DEF BatchRightFor
  <2>6. Unhindered' => Unhindered
    BY <2>1 DEF Unhindered
  <2>7. ASSUME Unhindered', NEW c \in BatchClient, batchCall'[c] # Resting
        PROVE  BatchRightFor(batchCall[c])'
    <3>1. PICK y : y = batchCall[c] /\ batchCall'[c] = y
      BY <2>1
    <3>2. BatchRightFor(y)'
      BY <2>5, <2>6, <2>7, <3>1 DEF BatchesRight
    <3> QED
      BY <3>1, <3>2 DEF BatchRightFor
  <2>8. ASSUME Unhindered', \A c \in BatchClient : batchCall'[c] = Resting
        PROVE  BatchRightFor(Resting)'
    BY <2>1, <2>5, <2>6, <2>8 DEF BatchesRight
  <2>9. Unhindered' => OneBatchCall'
    BY <2>1, <2>6 DEF BatchesRight, OneBatchCall
  <2> QED
    BY <2>4, <2>7, <2>8, <2>9 DEF BatchesRight
<1> QED
  BY <1>2, <1>3

LEMMA BatchDroppedRight ==
  ASSUME BatchesRight, NEW c \in BatchClient, BatchDropped(c)
  PROVE  BatchesRight'
<1>1. /\ batchCall[c] # Resting /\ BatchTrouble /\ UNCHANGED <<batchRow, batchCopy>> /\ BatchTables
      /\ batchCall' = [batchCall EXCEPT ![c] = Resting]
  BY DEF BatchDropped, BatchAnswers, BatchesRight
<1>2. /\ batchTally' = [calls |-> batchTally'.calls, troubles |-> batchTally'.troubles,
                        overlap |-> batchTally'.overlap, cascade |-> batchTally'.cascade]
      /\ batchTally'.troubles \in Nat /\ ~Unhindered'
  BY <1>1, TroublesCounted
<1>3. /\ batchRow' = [b \in BatchId |-> batchRow'[b]]
      /\ batchCopy' = [b \in BatchId |-> batchCopy'[b]]
  BY <1>1 DEF BatchTables
<1> QED
  BY <1>1, <1>2, <1>3, RestingIs, BatchCallSteps

LEMMA AnyBatchStep ==
  ASSUME BatchesRight, [BatchesNext]_batchVars
  PROVE  BatchesRight'
<1>1. ASSUME NEW c \in BatchClient,
             \/ ReadCopy(c) \/ ReadRow(c) \/ WriteCopy(c) \/ WriteRow(c) \/ InvalidateBatchCache(c)
             \/ BatchDropped(c)
      PROVE  BatchesRight'
  BY <1>1, ReadCopyRight, ReadRowRight, CopyWrites, WriteRowRight, BatchDroppedRight
<1>2. ASSUME NEW c \in BatchClient, NEW b \in BatchId,
             \/ GetBatch(c, b) \/ GetGenealogyTree(c, b) \/ DeleteBatch(c, b)
             \/ \E n \in BatchNumber, s \in BatchStatus : UpdateBatch(c, b, [number |-> n, status |-> s])
      PROVE  BatchesRight'
  <2>1. PICK op, at, row : /\ BatchCallBegins(c, op, at, b, row)
                           /\ at = "read copy" \/ (at = "write row" /\ op \in {"update", "delete"})
    BY <1>2 DEF GetBatch, GetGenealogyTree, DeleteBatch, UpdateBatch
  <2> QED
    BY <2>1, BatchCallRight
<1>3. ASSUME \/ \E b \in BatchId :
                  \/ CreateBatchRecall(b) \/ CreateInventoryTransaction(b)
                  \/ \E n \in BatchNumber, s \in BatchStatus : CreateBatch(b, [number |-> n, status |-> s])
                  \/ \E child \in BatchId : CreateGenealogy(b, child)
                  \/ \E v \in Measured, t \in Tolerance : CreateQualityAttribute(b, v, t)
                  \/ \E s \in {"active", "completed"} : UpdateBatchRecall(b, s)
             \/ \E a \in attributes, v \in Measured, w \in BOOLEAN : UpdateQualityAttribute(a, v, w)
      PROVE  BatchesRight'
  <2>1. ASSUME NEW b \in BatchId, NEW row, CreateBatch(b, row) PROVE BatchesRight'
    <3>1. /\ Counted /\ UNCHANGED <<batchCall, batchCopy>>
          /\ batchRow[b] = NoBatchRow /\ batchRow' = [batchRow EXCEPT ![b] = row]
      BY <2>1 DEF CreateBatch, Existing
    <3> QED
      BY <3>1, CountedStep
  <2>2. CASE Counted /\ UNCHANGED <<batchRow, batchCall, batchCopy>>
    BY <2>2, CountedStep
  <2> QED
    BY <1>3, <2>1, <2>2 DEF CreateBatchRecall, CreateInventoryTransaction, CreateGenealogy,
       CreateQualityAttribute, UpdateBatchRecall, UpdateQualityAttribute
<1> QED
  BY <1>1, <1>2, <1>3, BatchesAlone DEF BatchesNext

\* A copy of a batch is its row once no call is in flight, as long as no two
\* calls overlapped, none was dropped, Redis answered and no product was
\* deleted: an update and a deletion end in invalidate_batch_cache, and a batch
\* is created under an id that has no copy.
THEOREM BatchesAreCurrent == BatchesSpec => []SerialBatchesCurrent
<1>1. BatchesInit => BatchesRight
  <2> SUFFICES ASSUME BatchesInit PROVE BatchesRight
    OBVIOUS
  <2>1. BatchTables
    BY RestingIs DEF BatchesInit, BatchTables
  <2>2. BatchRightFor(Resting)
    BY RestingIs DEF BatchesInit, BatchRightFor
  <2>3. \A c \in BatchClient : batchCall[c] = Resting
    BY DEF BatchesInit
  <2> QED
    BY <2>1, <2>2, <2>3 DEF BatchesRight, OneBatchCall
<1>2. BatchesRight /\ [BatchesNext]_batchVars => BatchesRight'
  BY AnyBatchStep
<1>3. BatchesRight => SerialBatchesCurrent
  BY RestingIs DEF BatchesRight, Unhindered, BatchRightFor, SerialBatchesCurrent
<1> QED
  BY <1>1, <1>2, <1>3, PTL DEF BatchesSpec

(***************************************************************************)
(* The reads of the event log.                                             *)
(***************************************************************************)

\* Two stretches that follow one another.
LEMMA Glued ==
  ASSUME NEW E, NEW s \in Seq(E), NEW k \in 0 .. Len(s), NEW j \in k .. Len(s)
  PROVE  SubSeq(s, 1, k) \o SubSeq(s, k + 1, j) = SubSeq(s, 1, j)
<1>0. PICK n \in Nat : n = Len(s) /\ k \in 0 .. n /\ j \in k .. n
  OBVIOUS
<1>1. PICK a \in Seq(E) : a = SubSeq(s, 1, k) /\ Len(a) = k /\ \A i \in 1 .. k : a[i] = s[i]
  <2>1. /\ SubSeq(s, 1, k) \in Seq(E) /\ Len(SubSeq(s, 1, k)) = k
        /\ \A i \in 1 .. k : SubSeq(s, 1, k)[i] = s[i]
    BY <1>0
  <2>. QED BY <2>1, Zenon
<1>2. PICK b \in Seq(E) : /\ b = SubSeq(s, k + 1, j) /\ Len(b) = j - k
                          /\ \A i \in 1 .. j - k : b[i] = s[k + i]
  <2>1. /\ SubSeq(s, k + 1, j) \in Seq(E) /\ Len(SubSeq(s, k + 1, j)) = j - k
        /\ \A i \in 1 .. j - k : SubSeq(s, k + 1, j)[i] = s[k + i]
    BY <1>0
  <2>. QED BY <2>1, Zenon
<1>3. PICK c \in Seq(E) : c = SubSeq(s, 1, j) /\ Len(c) = j /\ \A i \in 1 .. j : c[i] = s[i]
  <2>1. /\ SubSeq(s, 1, j) \in Seq(E) /\ Len(SubSeq(s, 1, j)) = j
        /\ \A i \in 1 .. j : SubSeq(s, 1, j)[i] = s[i]
    BY <1>0
  <2>. QED BY <2>1, Zenon
<1>4. PICK d \in Seq(E) : /\ d = a \o b /\ Len(d) = j
                          /\ \A i \in 1 .. j : d[i] = IF i <= k THEN a[i] ELSE b[i - k]
  <2>1. a \o b \in Seq(E) /\ Len(a \o b) = j
    <3>1. a \o b \in Seq(E) /\ Len(a \o b) = Len(a) + Len(b)
      BY ConcatProperties
    <3>2. Len(a) + Len(b) = j
      <4>1. k + (j - k) = j
        BY <1>0
      <4>. QED BY <1>1, <1>2, <4>1
    <3>. QED BY <3>1, <3>2
  <2>2. \A i \in 1 .. j : (a \o b)[i] = IF i <= k THEN a[i] ELSE b[i - k]
    BY <1>0, <1>1, <1>2
  <2>. QED BY <2>1, <2>2, Zenon
<1>5. \A i \in 1 .. j : d[i] = c[i]
  <2> SUFFICES ASSUME NEW i \in 1 .. j PROVE d[i] = c[i]
    OBVIOUS
  <2>1. CASE i <= k
    BY <1>1, <1>3, <1>4, <2>1
  <2>2. CASE k < i
    <3>1. i - k \in 1 .. j - k /\ k + (i - k) = i
      BY <2>2
    <3>2. b[i - k] = s[i]
      BY <1>2, <3>1
    <3>. QED BY <1>3, <1>4, <2>2, <3>2
  <2>. QED BY <2>1, <2>2
<1>6. d = c
  BY <1>3, <1>4, <1>5
<1>. QED BY <1>1, <1>2, <1>3, <1>4, <1>6

\* The numbers up to one more.
LEMMA OneMoreNumber ==
  ASSUME NEW n \in Nat, NEW T, NEW U, \A i \in 1 .. n : i \in T <=> i \in U
  PROVE  Kept([i \in 1 .. n + 1 |-> i], U)
           = IF n + 1 \in U THEN Append(Kept([i \in 1 .. n |-> i], T), n + 1) ELSE Kept([i \in 1 .. n |-> i], T)
<1> DEFINE E == 1 .. n + 1
<1>1. PICK s : s = [i \in 1 .. n |-> i]
  OBVIOUS
<1>2. s \in Seq(1 .. n) /\ s \in Seq(E) /\ n + 1 \in E
  BY <1>1
<1>3. [i \in 1 .. n + 1 |-> i] = Append(s, n + 1)
  BY <1>1
<1>4. Kept(s, T) = Kept(s, U)
  <2>1. PICK D : D = 1 .. n
    OBVIOUS
  <2>2. s \in Seq(D) /\ \A i \in D : i \in T <=> i \in U
    BY <1>2, <2>1
  <2>. QED BY <2>2, KeptAlike
<1>5. Kept(Append(s, n + 1), U) = IF n + 1 \in U THEN Append(Kept(s, U), n + 1) ELSE Kept(s, U)
  <2>1. PICK D, e : D = E /\ e = n + 1
    OBVIOUS
  <2>2. s \in Seq(D) /\ e \in D
    BY <1>2, <2>1
  <2>3. Kept(Append(s, e), U) = IF e \in U THEN Append(Kept(s, U), e) ELSE Kept(s, U)
    BY <2>2, KeptAppended
  <2>. QED BY <2>1, <2>3
<1>. QED BY <1>1, <1>3, <1>4, <1>5, Zenon

------------------------------------------------------------------------------
LogEvent == [product : ProductId, type : EventType]

LogTypeOK == events \in Seq(LogEvent) /\ Len(events) <= MaxEvents

OfType(id, type) == {n \in OfProduct(id) : events[n].type = type}

TypeIds(id, type) == Kept(Numbers, OfType(id, type))

\* The lists of ids a product has are read off the log.
ProductListed == product_events = [id \in ProductId |-> Kept(Numbers, OfProduct(id))]

\* A list as the index has it, from 0.
FromZero(s) == [n \in 0 .. Len(s) - 1 |-> s[n + 1]]

TypesListed ==
  type_index = [id \in ProductId |-> [type \in EventType |-> FromZero(TypeIds(id, type))]]

LEMMA NumbersType ==
  ASSUME LogTypeOK
  PROVE  Numbers \in Seq(1 .. Len(events)) /\ Len(events) \in Nat
BY DEF LogTypeOK, Numbers

\* What is kept of the log once it is longer.
LEMMA LogGrows ==
  ASSUME LogTypeOK, NEW id \in ProductId, NEW type \in EventType,
         events' = Append(events, [product |-> id, type |-> type]),
         NEW T, NEW U, \A n \in 1 .. Len(events) : n \in T <=> n \in U
  PROVE  Kept(Numbers', U) = IF Len(events) + 1 \in U THEN Append(Kept(Numbers, T), Len(events) + 1)
                             ELSE Kept(Numbers, T)
<1>1. PICK n \in Nat : n = Len(events)
  BY DEF LogTypeOK
<1>2. Len(events') = n + 1
  BY <1>1 DEF LogTypeOK
<1>3. Numbers' = [i \in 1 .. n + 1 |-> i] /\ Numbers = [i \in 1 .. n |-> i]
  BY <1>1, <1>2 DEF Numbers
<1>4. Kept([i \in 1 .. n + 1 |-> i], U)
           = IF n + 1 \in U THEN Append(Kept([i \in 1 .. n |-> i], T), n + 1) ELSE Kept([i \in 1 .. n |-> i], T)
  BY <1>1, OneMoreNumber
<1>. QED BY <1>1, <1>3, <1>4

\* The new event, and the others that stay as they are.
LEMMA EventsAppended ==
  ASSUME LogTypeOK, NEW id \in ProductId, NEW type \in EventType,
         events' = Append(events, [product |-> id, type |-> type])
  PROVE  /\ events' \in Seq(LogEvent) /\ Len(events') = Len(events) + 1
         /\ \A n \in 1 .. Len(events) : events'[n] = events[n]
         /\ events'[Len(events) + 1] = [product |-> id, type |-> type]
<1>1. events \in Seq(LogEvent) /\ [product |-> id, type |-> type] \in LogEvent
  BY DEF LogTypeOK, LogEvent
<1>. QED BY <1>1

LEMMA AddKeepsLog ==
  ASSUME LogTypeOK, ProductListed, NEW id \in ProductId, NEW type \in EventType,
         TrackingAddEvent(id, type)
  PROVE  LogTypeOK' /\ ProductListed'
<1>1. PICK n \in Nat : n = Len(events)
  BY DEF LogTypeOK
<1>2. events' = Append(events, [product |-> id, type |-> type])
  BY DEF TrackingAddEvent
<1>3. /\ events' \in Seq(LogEvent) /\ Len(events') = n + 1
      /\ \A i \in 1 .. n : events'[i] = events[i]
      /\ events'[n + 1] = [product |-> id, type |-> type]
  BY <1>1, <1>2, EventsAppended
<1>4. LogTypeOK'
  <2>1. n < MaxEvents /\ MaxEvents \in Nat
    BY <1>1, TrackingAssumption DEF TrackingAddEvent
  <2>. QED BY <1>3, <2>1 DEF LogTypeOK
<1>5. ASSUME NEW p \in ProductId
      PROVE  product_events'[p] = Kept(Numbers', OfProduct(p)')
  <2>1. \A i \in 1 .. n : i \in OfProduct(p) <=> i \in OfProduct(p)'
    BY <1>1, <1>3 DEF OfProduct
  <2>2. n + 1 \in OfProduct(p)' <=> p = id
    BY <1>3 DEF OfProduct
  <2>3. Kept(Numbers', OfProduct(p)')
          = IF n + 1 \in OfProduct(p)' THEN Append(Kept(Numbers, OfProduct(p)), n + 1)
            ELSE Kept(Numbers, OfProduct(p))
    <3>1. PICK T, U : T = OfProduct(p) /\ U = OfProduct(p)'
      OBVIOUS
    <3>. QED BY <1>1, <1>2, <2>1, <3>1, LogGrows
  <2>4. product_events'[p] = IF p = id THEN Append(product_events[id], n + 1) ELSE product_events[p]
    BY <1>1 DEF TrackingAddEvent, ProductListed, NextEventId
  <2>5. product_events[p] = Kept(Numbers, OfProduct(p))
    BY DEF ProductListed
  <2>6. CASE p = id
    BY <2>2, <2>3, <2>4, <2>5, <2>6, Zenon
  <2>7. CASE p # id
    BY <2>2, <2>3, <2>4, <2>5, <2>7, Zenon
  <2>. QED BY <2>6, <2>7
<1>6. product_events' = [p \in ProductId |-> product_events'[p]]
  BY DEF TrackingAddEvent, ProductListed
<1>. QED BY <1>4, <1>5, <1>6 DEF ProductListed

LEMMA FromZeroOf ==
  ASSUME NEW E, NEW s \in Seq(E), NEW e
  PROVE  /\ DOMAIN FromZero(s) = 0 .. Len(s) - 1
         /\ Cardinality(DOMAIN FromZero(s)) = Len(s)
         /\ FromZero(Append(s, e)) = [n \in DOMAIN FromZero(s) \union {Len(s)} |->
                                        IF n = Len(s) THEN e ELSE FromZero(s)[n]]
<1>1. PICK k \in Nat : k = Len(s)
  OBVIOUS
<1>2. DOMAIN FromZero(s) = 0 .. k - 1
  BY <1>1 DEF FromZero
<1>3. Cardinality(0 .. k - 1) = k
  <2>1. 0 \in Int /\ k - 1 \in Int
    OBVIOUS
  <2>2. Cardinality(0 .. k - 1) = IF 0 > k - 1 THEN 0 ELSE (k - 1) - 0 + 1
    BY <2>1, FS_Interval
  <2>. QED BY <2>2
<1>4. Len(Append(s, e)) = k + 1 /\ Append(s, e)[k + 1] = e /\ \A n \in 1 .. k : Append(s, e)[n] = s[n]
  BY <1>1
<1>5. ASSUME NEW n \in 0 .. k
      PROVE  Append(s, e)[n + 1] = IF n = k THEN e ELSE FromZero(s)[n]
  <2>1. CASE n = k
    BY <1>4, <2>1
  <2>2. CASE n # k
    <3>1. n + 1 \in 1 .. k /\ n \in 0 .. k - 1
      BY <2>2
    <3>2. FromZero(s)[n] = s[n + 1]
      BY <1>1, <3>1 DEF FromZero
    <3>. QED BY <1>4, <2>2, <3>1, <3>2
  <2>. QED BY <2>1, <2>2
<1>6. FromZero(Append(s, e)) = [n \in 0 .. k |-> Append(s, e)[n + 1]]
  BY <1>4 DEF FromZero
<1>7. 0 .. k - 1 \union {k} = 0 .. k
  OBVIOUS
<1>8. FromZero(Append(s, e)) = [n \in 0 .. k |-> IF n = k THEN e ELSE FromZero(s)[n]]
  BY <1>5, <1>6
<1>. QED BY <1>1, <1>2, <1>3, <1>7, <1>8

LEMMA TypeIdsAre ==
  ASSUME LogTypeOK, NEW id, NEW type
  PROVE  TypeIds(id, type) \in Seq(1 .. Len(events))
BY NumbersType, KeptType DEF TypeIds

LEMMA AddKeepsTypes ==
  ASSUME LogTypeOK, TypesListed, NEW id \in ProductId, NEW type \in EventType,
         TrackingAddEvent(id, type)
  PROVE  TypesListed'
<1>1. PICK n \in Nat : n = Len(events)
  BY DEF LogTypeOK
<1>2. events' = Append(events, [product |-> id, type |-> type])
  BY DEF TrackingAddEvent
<1>3. /\ events' \in Seq(LogEvent) /\ Len(events') = n + 1
      /\ \A i \in 1 .. n : events'[i] = events[i]
      /\ events'[n + 1] = [product |-> id, type |-> type]
  BY <1>1, <1>2, EventsAppended
<1>4. PICK old : old = type_index[id][type] /\ old = FromZero(TypeIds(id, type))
  BY DEF TypesListed
<1>5. PICK new : /\ new = [k \in DOMAIN old \union {Cardinality(DOMAIN old)} |->
                             IF k = Cardinality(DOMAIN old) THEN n + 1 ELSE old[k]]
                 /\ type_index' = [type_index EXCEPT ![id][type] = new]
  BY <1>1, <1>4 DEF TrackingAddEvent, IndexEventByType, NextEventId
<1>6. new = FromZero(Append(TypeIds(id, type), n + 1))
  <2>1. TypeIds(id, type) \in Seq(1 .. n)
    BY <1>1, TypeIdsAre
  <2>2. PICK s, e : s = TypeIds(id, type) /\ e = n + 1
    OBVIOUS
  <2>3. s \in Seq(1 .. n)
    BY <2>1, <2>2
  <2>4. /\ Cardinality(DOMAIN FromZero(s)) = Len(s)
        /\ FromZero(Append(s, e)) = [k \in DOMAIN FromZero(s) \union {Len(s)} |->
                                        IF k = Len(s) THEN e ELSE FromZero(s)[k]]
    BY <2>3, FromZeroOf
  <2>5. old = FromZero(s) /\ Cardinality(DOMAIN old) = Len(s)
    BY <1>4, <2>2, <2>4
  <2>6. FromZero(Append(s, e)) = [k \in DOMAIN old \union {Len(s)} |-> IF k = Len(s) THEN e ELSE old[k]]
    BY <2>4, <2>5
  <2>7. new = [k \in DOMAIN old \union {Len(s)} |-> IF k = Len(s) THEN e ELSE old[k]]
    BY <1>5, <2>2, <2>5
  <2>. QED BY <2>2, <2>6, <2>7
<1>7. ASSUME NEW p \in ProductId, NEW t \in EventType
      PROVE  type_index'[p][t] = FromZero(TypeIds(p, t)')
  <2>1. PICK T, U : T = OfType(p, t) /\ U = OfType(p, t)'
    OBVIOUS
  <2>2. \A i \in 1 .. n : i \in T <=> i \in U
    BY <1>1, <1>3, <2>1 DEF OfType, OfProduct
  <2>3. n + 1 \in U <=> p = id /\ t = type
    BY <1>3, <2>1 DEF OfType, OfProduct
  <2>4. Kept(Numbers', U) = IF n + 1 \in U THEN Append(Kept(Numbers, T), n + 1) ELSE Kept(Numbers, T)
    BY <1>1, <1>2, <2>2, LogGrows
  <2>5. type_index[p][t] = FromZero(TypeIds(p, t))
    BY DEF TypesListed
  <2>6. type_index'[p][t] = IF p = id /\ t = type THEN new ELSE type_index[p][t]
    BY <1>5 DEF TypesListed
  <2>7. CASE p = id /\ t = type
    <3>1. TypeIds(p, t)' = Append(TypeIds(id, type), n + 1)
      BY <2>1, <2>3, <2>4, <2>7, Zenon DEF TypeIds
    <3>. QED BY <1>6, <2>6, <2>7, <3>1, Zenon
  <2>8. CASE ~(p = id /\ t = type)
    <3>1. TypeIds(p, t)' = TypeIds(p, t)
      BY <2>1, <2>3, <2>4, <2>8, Zenon DEF TypeIds
    <3>. QED BY <2>5, <2>6, <2>8, <3>1, Zenon
  <2>. QED BY <2>7, <2>8
<1>8. type_index' = [p \in ProductId |-> [t \in EventType |-> type_index'[p][t]]]
  BY <1>5 DEF TypesListed
<1>. QED BY <1>7, <1>8 DEF TypesListed

------------------------------------------------------------------------------
(* The walk. *)

\* What the log has of a product that passes a filter.
LogOf(id, f) == Kept(Numbers, OfProduct(id) \intersect Passing(f))

LEMMA LogType ==
  ASSUME LogTypeOK, NEW id, NEW f
  PROVE  LogOf(id, f) \in Seq(1 .. Len(events))
BY NumbersType, KeptType DEF LogOf

\* It is what the queries find on the product's list.
LEMMA MatchingIsLog ==
  ASSUME LogTypeOK, ProductListed, NEW id \in ProductId, NEW f
  PROVE  MatchingIds(id, f) = LogOf(id, f)
<1>1. product_events[id] = Kept(Numbers, OfProduct(id))
  BY DEF ProductListed
<1>2. Kept(Kept(Numbers, OfProduct(id)), Passing(f)) = Kept(Numbers, OfProduct(id) \intersect Passing(f))
  BY NumbersType, KeptTwice
<1>. QED BY <1>1, <1>2 DEF MatchingIds, LogOf

\* It only grows at its end.
LEMMA LogOfGrows ==
  ASSUME LogTypeOK, NEW id \in ProductId, NEW type \in EventType,
         events' = Append(events, [product |-> id, type |-> type]),
         NEW p, NEW f
  PROVE  LogOf(p, f)' = LogOf(p, f) \/ LogOf(p, f)' = Append(LogOf(p, f), Len(events) + 1)
<1>1. PICK n \in Nat : n = Len(events)
  BY DEF LogTypeOK
<1>2. /\ Len(events') = n + 1
      /\ \A i \in 1 .. n : events'[i] = events[i]
  BY <1>1, EventsAppended
<1>3. PICK T, U : T = OfProduct(p) \intersect Passing(f) /\ U = (OfProduct(p) \intersect Passing(f))'
  OBVIOUS
<1>4. \A i \in 1 .. n : i \in T <=> i \in U
  <2>1. \A i \in 1 .. n : i \in OfProduct(p) <=> i \in OfProduct(p)'
    BY <1>1, <1>2 DEF OfProduct
  <2>2. \A i \in 1 .. n : i \in Passing(f) <=> i \in Passing(f)'
    BY <1>1, <1>2 DEF Passing, Matches
  <2>. QED BY <1>3, <2>1, <2>2
<1>5. Kept(Numbers', U) = IF n + 1 \in U THEN Append(Kept(Numbers, T), n + 1) ELSE Kept(Numbers, T)
  BY <1>1, <1>4, LogGrows
<1>6. LogOf(p, f)' = Kept(Numbers', U) /\ LogOf(p, f) = Kept(Numbers, T)
  BY <1>3 DEF LogOf
<1>. QED BY <1>1, <1>5, <1>6, Zenon

\* A page is a stretch of a list, with what comes of its length.
Stretched(s, offset, limit) == SubSeq(s, offset + 1, SmallerOf(offset + limit, Len(s)))

LEMMA StretchedIs ==
  ASSUME NEW E, NEW s \in Seq(E), NEW offset \in Nat, NEW limit \in Nat
  PROVE  /\ Stretched(s, offset, limit) \in Seq(E)
         /\ offset >= Len(s) => Stretched(s, offset, limit) = <<>>
         /\ offset < Len(s) => Len(Stretched(s, offset, limit)) = SmallerOf(offset + limit, Len(s)) - offset
<1>1. PICK k \in Nat : k = Len(s)
  OBVIOUS
<1>2. PICK j \in Nat : /\ j = SmallerOf(offset + limit, k) /\ j <= k /\ j <= offset + limit
                       /\ (j = k \/ j = offset + limit)
  <2>1. SmallerOf(offset + limit, k) \in Nat /\ SmallerOf(offset + limit, k) <= k
        /\ SmallerOf(offset + limit, k) <= offset + limit
        /\ (SmallerOf(offset + limit, k) = k \/ SmallerOf(offset + limit, k) = offset + limit)
    BY DEF SmallerOf
  <2>. QED BY <2>1, Zenon
<1>3. SubSeq(s, offset + 1, j) \in Seq(E)
  BY <1>1, <1>2
<1>4. CASE offset >= k
  <2>1. SubSeq(s, offset + 1, j) = <<>>
    BY <1>1, <1>2, <1>4
  <2>. QED BY <1>1, <1>2, <1>3, <1>4, <2>1 DEF Stretched
<1>5. CASE offset < k
  <2>1. offset <= j
    BY <1>2, <1>5
  <2>2. Len(SubSeq(s, offset + 1, j)) = j - offset
    BY <1>1, <1>2, <1>5, <2>1
  <2>. QED BY <1>1, <1>2, <1>3, <1>5, <2>2 DEF Stretched
<1>. QED BY <1>4, <1>5

LEMMA PageIs ==
  ASSUME NEW E, NEW s \in Seq(E), NEW offset \in Nat, NEW limit \in Nat
  PROVE  PageOf(s, offset, limit)
           = [events |-> Stretched(s, offset, limit), total_count |-> Len(s),
              has_more |-> HasMore(offset, Len(Stretched(s, offset, limit)), Len(s))]
<1>1. CASE offset >= Len(s)
  <2>1. Stretched(s, offset, limit) = <<>> /\ Len(<<>>) = 0
    BY <1>1, StretchedIs
  <2>2. HasMore(offset, 0, Len(s)) = FALSE
    BY <1>1 DEF HasMore
  <2>3. PageOf(s, offset, limit) = EmptyPage(Len(s))
    BY <1>1 DEF PageOf
  <2>. QED BY <2>1, <2>2, <2>3, Zenon DEF EmptyPage
<1>2. CASE ~(offset >= Len(s))
  BY <1>2, Zenon DEF PageOf, Stretched
<1>. QED BY <1>1, <1>2

------------------------------------------------------------------------------
\* The smaller of two numbers is at most each.
LEMMA SmallerIs ==
  ASSUME NEW n \in Nat, NEW m \in Nat
  PROVE  SmallerOf(n, m) \in Nat /\ SmallerOf(n, m) <= n /\ SmallerOf(n, m) <= m
BY DEF SmallerOf

LEMMA StretchedLength ==
  ASSUME NEW E, NEW s \in Seq(E), NEW offset \in Nat, NEW limit \in Nat, offset < Len(s)
  PROVE  Len(Stretched(s, offset, limit)) = SmallerOf(offset + limit, Len(s)) - offset
BY StretchedIs

\* What a client has seen of the log is its beginning, and all of it once it is done.
WalkRight ==
  reader # NoReader =>
    /\ reader = [state |-> reader.state, product |-> reader.product, filter |-> reader.filter,
                 limit |-> reader.limit, seen |-> reader.seen, total_count |-> reader.total_count]
    /\ reader.product \in ProductId /\ reader.limit \in Nat
    /\ \E k \in 0 .. Len(LogOf(reader.product, reader.filter)) :
         /\ reader.seen = SubSeq(LogOf(reader.product, reader.filter), 1, k)
         /\ reader.state = "done" => k = reader.total_count
         /\ k = 0 \/ ValidLimit(reader.limit)

LogInv == LogTypeOK /\ ProductListed /\ TypesListed

LEMMA StretchFollows ==
  ASSUME NEW E, NEW s \in Seq(E), NEW k \in 0 .. Len(s), NEW limit \in Nat
  PROVE  \E j \in k .. Len(s) :
           /\ SubSeq(s, 1, k) \o Stretched(s, k, limit) = SubSeq(s, 1, j)
           /\ ~HasMore(k, Len(Stretched(s, k, limit)), Len(s)) => j = Len(s)
<1>1. PICK n \in Nat : n = Len(s) /\ k \in 0 .. n
  OBVIOUS
<1>2. CASE k = n
  <2>1. Stretched(s, k, limit) = <<>>
    BY <1>1, <1>2, StretchedIs
  <2>2. SubSeq(s, 1, k) \in Seq(E)
    BY <1>1
  <2>3. SubSeq(s, 1, k) \o <<>> = SubSeq(s, 1, k)
    BY <2>2, ConcatEmptySeq
  <2>. QED BY <1>1, <1>2, <2>1, <2>3
<1>3. CASE k < n
  <2>1. PICK j : j = SmallerOf(k + limit, n)
    OBVIOUS
  <2>2. j \in k .. n
    BY <1>1, <1>3, <2>1 DEF SmallerOf
  <2>3. Len(Stretched(s, k, limit)) = j - k
    <3>1. k \in Nat /\ k < Len(s)
      BY <1>1, <1>3
    <3>2. Len(Stretched(s, k, limit)) = SmallerOf(k + limit, Len(s)) - k
      <4>1. PICK p \in Nat : p = k
        BY <3>1
      <4>2. p < Len(s) => Len(Stretched(s, p, limit)) = SmallerOf(p + limit, Len(s)) - p
        BY StretchedIs
      <4>. QED BY <3>1, <4>1, <4>2
    <3>. QED BY <1>1, <2>1, <3>2
  <2>4. SubSeq(s, 1, k) \o SubSeq(s, k + 1, j) = SubSeq(s, 1, j)
    BY <1>1, <2>2, Glued
  <2>5. ~HasMore(k, j - k, n) => j = n
    BY <1>1, <2>2 DEF HasMore
  <2>6. Stretched(s, k, limit) = SubSeq(s, k + 1, j)
    BY <1>1, <2>1 DEF Stretched
  <2>7. SubSeq(s, 1, k) \o Stretched(s, k, limit) = SubSeq(s, 1, j)
    BY <2>4, <2>6
  <2>8. ~HasMore(k, Len(Stretched(s, k, limit)), Len(s)) => j = Len(s)
    BY <1>1, <2>3, <2>5
  <2>. QED BY <1>1, <2>2, <2>7, <2>8
<1>. QED BY <1>1, <1>2, <1>3

LEMMA ReadPageWalks ==
  ASSUME LogInv, WalkRight, ReadPage, UNCHANGED events
  PROVE  WalkRight'
<1>1. PICK r : r = reader
  OBVIOUS
<1>2. r # NoReader /\ r.state = "walking"
  BY <1>1 DEF ReadPage, NoReader
<1>3. PICK L : L = LogOf(r.product, r.filter)
  OBVIOUS
<1>4. L \in Seq(1 .. Len(events)) /\ r.product \in ProductId /\ r.limit \in Nat
  BY <1>1, <1>2, <1>3, LogType DEF LogInv, WalkRight
<1>5. MatchingIds(r.product, r.filter) = L
  BY <1>3, <1>4, MatchingIsLog DEF LogInv
<1>6. PICK k \in 0 .. Len(L) : r.seen = SubSeq(L, 1, k) /\ (k = 0 \/ ValidLimit(r.limit))
  BY <1>1, <1>2, <1>3 DEF WalkRight
<1>7. Len(r.seen) = k
  BY <1>4, <1>6
<1>8. PICK page : /\ page = QueryGetFilteredEvents(r.product, r.filter, k, r.limit)
                  /\ page # Refused
                  /\ reader' = [r EXCEPT !.seen = @ \o page.events, !.total_count = page.total_count,
                                         !.state = IF page.has_more THEN "walking" ELSE "done"]
  BY <1>1, <1>7 DEF ReadPage
<1>9. \/ page = EmptyPage(0) /\ ~ValidLimit(r.limit)
      \/ page = PageOf(L, k, r.limit) /\ ValidLimit(r.limit)
  BY <1>5, <1>8, Zenon DEF QueryGetFilteredEvents, Answer
<1>10. r = [state |-> r.state, product |-> r.product, filter |-> r.filter,
            limit |-> r.limit, seen |-> r.seen, total_count |-> r.total_count]
  BY <1>1, <1>2 DEF WalkRight
<1>11. reader' = [state |-> IF page.has_more THEN "walking" ELSE "done", product |-> r.product,
                  filter |-> r.filter, limit |-> r.limit, seen |-> r.seen \o page.events,
                  total_count |-> page.total_count]
  BY <1>8, <1>10
<1>12. PICK j \in 0 .. Len(L) : /\ r.seen \o page.events = SubSeq(L, 1, j)
                                /\ ~page.has_more => j = page.total_count
                                /\ j = 0 \/ ValidLimit(r.limit)
  <2>1. CASE page = EmptyPage(0) /\ ~ValidLimit(r.limit)
    <3>1. page.events = <<>> /\ page.total_count = 0
      BY <2>1 DEF EmptyPage
    <3>2. SubSeq(L, 1, 0) = <<>> /\ <<>> \o <<>> = <<>> /\ 0 \in 0 .. Len(L)
      BY <1>4
    <3>. QED BY <1>6, <2>1, <3>1, <3>2
  <2>2. CASE page = PageOf(L, k, r.limit) /\ ValidLimit(r.limit)
    <3>1. k \in Nat
      OBVIOUS
    <3>2. page = [events |-> Stretched(L, k, r.limit), total_count |-> Len(L),
                  has_more |-> HasMore(k, Len(Stretched(L, k, r.limit)), Len(L))]
      BY <1>4, <2>2, <3>1, PageIs
    <3>3. PICK j \in k .. Len(L) : /\ SubSeq(L, 1, k) \o Stretched(L, k, r.limit) = SubSeq(L, 1, j)
                                   /\ ~HasMore(k, Len(Stretched(L, k, r.limit)), Len(L)) => j = Len(L)
      BY <1>4, StretchFollows
    <3>4. j \in 0 .. Len(L)
      BY <1>4, <3>1
    <3>5. /\ page.events = Stretched(L, k, r.limit) /\ page.total_count = Len(L)
          /\ page.has_more = HasMore(k, Len(Stretched(L, k, r.limit)), Len(L))
      BY <3>2
    <3>. QED BY <1>6, <2>2, <3>3, <3>4, <3>5
  <2>. QED BY <1>9, <2>1, <2>2
<1>13. /\ reader'.product = r.product /\ reader'.filter = r.filter /\ reader'.limit = r.limit
       /\ reader'.seen = r.seen \o page.events /\ reader'.total_count = page.total_count
       /\ reader'.state = IF page.has_more THEN "walking" ELSE "done"
  BY <1>11
<1>14. reader' = [state |-> reader'.state, product |-> reader'.product, filter |-> reader'.filter,
                  limit |-> reader'.limit, seen |-> reader'.seen, total_count |-> reader'.total_count]
  BY <1>11
<1>15. LogOf(reader.product, reader.filter)' = L
  BY <1>1, <1>3, <1>13 DEF LogOf, Numbers, OfProduct, Passing, Matches
<1>16. reader'.state = "done" => j = reader'.total_count
  BY <1>12, <1>13
<1>17. reader'.seen = SubSeq(L, 1, j) /\ (j = 0 \/ ValidLimit(reader'.limit))
  BY <1>12, <1>13
<1>18. /\ j \in 0 .. Len(LogOf(reader.product, reader.filter)')
       /\ reader'.seen = SubSeq(LogOf(reader.product, reader.filter)', 1, j)
  BY <1>12, <1>15, <1>17
<1>19. reader'.product \in ProductId /\ reader'.limit \in Nat
  BY <1>4, <1>13
<1>. QED BY <1>14, <1>16, <1>17, <1>18, <1>19 DEF WalkRight, ValidLimit

LEMMA StartWalks ==
  ASSUME LogInv, NEW id \in ProductId, NEW f \in Filters, NEW limit \in PageLimits,
         StartWalk(id, f, limit), UNCHANGED events
  PROVE  WalkRight'
<1>1. reader' = [state |-> "walking", product |-> id, filter |-> f, limit |-> limit,
                 seen |-> <<>>, total_count |-> 0]
  BY DEF StartWalk
<1>2. /\ reader'.state = "walking" /\ reader'.product = id /\ reader'.limit = limit /\ reader'.seen = <<>>
      /\ reader' = [state |-> reader'.state, product |-> reader'.product, filter |-> reader'.filter,
                    limit |-> reader'.limit, seen |-> reader'.seen, total_count |-> reader'.total_count]
  BY <1>1
<1>3. LogOf(reader.product, reader.filter)' = LogOf(id, f)
  BY <1>1 DEF LogOf, Numbers, OfProduct, Passing, Matches
<1>4. LogOf(id, f) \in Seq(1 .. Len(events))
  BY LogType DEF LogInv
<1>5. PICK L : L = LogOf(id, f)
  OBVIOUS
<1>6. 0 \in 0 .. Len(L) /\ SubSeq(L, 1, 0) = <<>>
  BY <1>4, <1>5
<1>7. limit \in Nat
  BY QueriesAssumption
<1>. QED BY <1>2, <1>3, <1>5, <1>6, <1>7 DEF WalkRight

\* A longer log begins as it did.
LEMMA AddKeepsWalk ==
  ASSUME LogInv, WalkRight, NEW id \in ProductId, NEW type \in EventType,
         TrackingAddEvent(id, type), UNCHANGED reader
  PROVE  WalkRight'
<1> SUFFICES ASSUME reader # NoReader PROVE WalkRight'
  BY DEF WalkRight
<1>1. PICK L, M : /\ L = LogOf(reader.product, reader.filter)
                  /\ M = LogOf(reader.product, reader.filter)'
  OBVIOUS
<1>2. L \in Seq(1 .. Len(events)) /\ Len(events) \in Nat
  BY <1>1, LogType, NumbersType DEF LogInv
<1>3. PICK k \in 0 .. Len(L) :
        /\ reader.seen = SubSeq(L, 1, k)
        /\ reader.state = "done" => k = reader.total_count
        /\ k = 0 \/ ValidLimit(reader.limit)
  BY <1>1 DEF WalkRight
<1>4. M = L \/ M = Append(L, Len(events) + 1)
  <2>1. PICK p, f : p = reader.product /\ f = reader.filter
    OBVIOUS
  <2>2. LogOf(p, f)' = LogOf(p, f) \/ LogOf(p, f)' = Append(LogOf(p, f), Len(events) + 1)
    BY LogOfGrows DEF LogInv, TrackingAddEvent
  <2>3. M = LogOf(p, f)' /\ L = LogOf(p, f)
    BY <1>1, <2>1 DEF LogOf, Numbers, OfProduct, Passing, Matches
  <2>. QED BY <2>2, <2>3
<1>5. k \in 0 .. Len(M) /\ SubSeq(M, 1, k) = SubSeq(L, 1, k)
  <2>1. CASE M = L
    BY <2>1
  <2>2. CASE M = Append(L, Len(events) + 1)
    <3>1. PICK e, n \in Nat : e = Len(events) + 1 /\ n = Len(L)
      BY <1>2
    <3>2. /\ Len(Append(L, e)) = n + 1
          /\ \A i \in 1 .. n : Append(L, e)[i] = L[i]
      BY <1>2, <3>1
    <3>3. SubSeq(M, 1, k) = [i \in 1 .. k |-> M[i]] /\ SubSeq(L, 1, k) = [i \in 1 .. k |-> L[i]]
      OBVIOUS
    <3>4. \A i \in 1 .. k : M[i] = L[i]
      BY <1>3, <2>2, <3>1, <3>2
    <3>5. Len(M) = n + 1 /\ k \in 0 .. n
      BY <1>3, <2>2, <3>1, <3>2
    <3>6. k \in 0 .. Len(M)
      BY <3>1, <3>5
    <3>7. [i \in 1 .. k |-> M[i]] = [i \in 1 .. k |-> L[i]]
      BY <3>4
    <3>. QED BY <3>3, <3>6, <3>7
  <2>. QED BY <1>4, <2>1, <2>2
<1>6. LogOf(reader.product, reader.filter)' = M
  BY <1>1
<1>7. /\ k \in 0 .. Len(LogOf(reader.product, reader.filter)')
      /\ reader'.seen = SubSeq(LogOf(reader.product, reader.filter)', 1, k)
      /\ reader'.state = "done" => k = reader'.total_count
      /\ k = 0 \/ ValidLimit(reader'.limit)
  BY <1>3, <1>5, <1>6
<1>8. /\ reader' = [state |-> reader'.state, product |-> reader'.product, filter |-> reader'.filter,
                   limit |-> reader'.limit, seen |-> reader'.seen, total_count |-> reader'.total_count]
      /\ reader'.product \in ProductId /\ reader'.limit \in Nat
  BY DEF WalkRight
<1>. QED BY <1>7, <1>8 DEF WalkRight, ValidLimit

LEMMA StillKeepsWalk ==
  ASSUME WalkRight, UNCHANGED <<events, reader>>
  PROVE  WalkRight'
BY DEF WalkRight, LogOf, Numbers, OfProduct, Passing, Matches, ValidLimit

LEMMA StillKeepsLog ==
  ASSUME LogInv, UNCHANGED <<events, product_events, type_index>>
  PROVE  LogInv'
BY DEF LogInv, LogTypeOK, ProductListed, TypesListed, TypeIds, OfType, Numbers, OfProduct

\* The inductive invariant of the reads.
QueriesInv == RegistryInv /\ LogInv /\ WalkRight

LEMMA QueriesBegin ==
  ASSUME QueriesInit
  PROVE  LogInv /\ WalkRight
<1>1. events = <<>> /\ Len(events) = 0
  BY DEF QueriesInit, TrackingInit
<1>2. LogTypeOK
  BY <1>1, TrackingAssumption DEF LogTypeOK
<1>3. Numbers = <<>>
  BY <1>1 DEF Numbers
<1>4. \A T : Kept(Numbers, T) = <<>>
  BY <1>3, KeptOfNone
<1>5. ProductListed
  BY <1>4 DEF ProductListed, QueriesInit, TrackingInit
<1>6. \A id, type : FromZero(TypeIds(id, type)) = [n \in {} |-> 0]
  <2>1. FromZero(<<>>) = [n \in {} |-> 0]
    BY DEF FromZero
  <2>. QED BY <1>4, <2>1, Zenon DEF TypeIds
<1>7. TypesListed
  BY <1>6 DEF TypesListed, QueriesInit, TrackingInit
<1>8. WalkRight
  BY DEF WalkRight, QueriesInit
<1>. QED BY <1>2, <1>5, <1>7, <1>8 DEF LogInv

\* The lists a product has of its events, whole and by type, are what filtering
\* the log of events gives, through every add_tracking_event, and a client that
\* walks the pages of a query has seen the beginning of the filtered log.
THEOREM QueriesInvariant == QueriesSpec => []QueriesInv
<1> DEFINE vars == <<registry_vars, tracking_vars, query_vars>>
<1>1. QueriesInit => QueriesInv
  <2>1. QueriesInit => RegistryInit
    BY DEF QueriesInit, TrackingInit
  <2>2. RegistryInit => RegistryInv
    BY RegistryBegins
  <2>. QED BY <2>1, <2>2, QueriesBegin DEF QueriesInv
<1>2. QueriesInv /\ [QueriesNext]_vars => QueriesInv'
  <2> SUFFICES ASSUME QueriesInv, [QueriesNext]_vars PROVE QueriesInv'
    OBVIOUS
  <2>1. RegistryInv /\ LogInv /\ WalkRight
    BY DEF QueriesInv
  <2>2. RegistryInv'
    <3>1. [RegistryNext]_registry_vars
      BY DEF QueriesNext, TrackingNext
    <3>. QED BY <2>1, <3>1, RegistryStepKeepsInv
  <2>3. ASSUME TrackingStep, UNCHANGED query_vars PROVE LogInv' /\ WalkRight'
    <3>1. UNCHANGED reader
      BY <2>3 DEF query_vars
    <3>2. ASSUME NEW id \in ProductId, NEW type \in EventType, TrackingAddEvent(id, type)
          PROVE  LogInv' /\ WalkRight'
      <4>1. LogTypeOK' /\ ProductListed'
        BY <2>1, <3>2, AddKeepsLog DEF LogInv
      <4>2. TypesListed'
        BY <2>1, <3>2, AddKeepsTypes DEF LogInv
      <4>3. WalkRight'
        BY <2>1, <3>1, <3>2, AddKeepsWalk
      <4>. QED BY <4>1, <4>2, <4>3 DEF LogInv
    <3>3. ASSUME TrackingInitContract \/ SetMainPaused PROVE LogInv' /\ WalkRight'
      <4>1. UNCHANGED <<events, product_events, type_index>>
        BY <3>3 DEF TrackingInitContract, SetMainPaused
      <4>. QED BY <2>1, <3>1, <4>1, StillKeepsLog, StillKeepsWalk
    <3>. QED BY <2>3, <3>2, <3>3 DEF TrackingStep
  <2>4. ASSUME UNCHANGED tracking_vars, UNCHANGED reader PROVE LogInv' /\ WalkRight'
    <3>1. UNCHANGED <<events, product_events, type_index>>
      BY <2>4 DEF tracking_vars
    <3>. QED BY <2>1, <2>4, <3>1, StillKeepsLog, StillKeepsWalk
  <2>5. ASSUME QueriesStep, UNCHANGED tracking_vars PROVE LogInv' /\ WalkRight'
    <3>1. UNCHANGED <<events, product_events, type_index>>
      BY <2>5 DEF tracking_vars
    <3>2. LogInv'
      BY <2>1, <3>1, StillKeepsLog
    <3>3. ASSUME NEW id \in ProductId, NEW f \in Filters, NEW limit \in PageLimits, StartWalk(id, f, limit)
          PROVE  WalkRight'
      BY <2>1, <3>1, <3>3, StartWalks
    <3>4. ASSUME ReadPage PROVE WalkRight'
      BY <2>1, <3>1, <3>4, ReadPageWalks
    <3>5. ASSUME UNCHANGED reader PROVE WalkRight'
      BY <2>1, <3>1, <3>5, StillKeepsWalk
    <3>. QED BY <2>5, <3>2, <3>3, <3>4, <3>5 DEF QueriesStep
  <2>6. \/ TrackingStep /\ UNCHANGED query_vars
        \/ UNCHANGED tracking_vars /\ UNCHANGED reader
        \/ QueriesStep /\ UNCHANGED tracking_vars
    BY DEF QueriesNext, TrackingNext, query_vars
  <2>. QED BY <2>2, <2>3, <2>4, <2>5, <2>6 DEF QueriesInv
<1>. QED BY <1>1, <1>2, PTL DEF QueriesSpec

\* A client that asks page after page, until one says there is no more, has been
\* given every event that passed its filter when it began and none twice, also
\* when events come in between its calls to the query contract.
THEOREM WalksSeeAll == QueriesSpec => []WalkSeesAll
<1>1. QueriesInv => WalkSeesAll
  <2> SUFFICES ASSUME QueriesInv, reader.state = "done"
               PROVE  /\ Len(reader.seen) = reader.total_count
                      /\ reader.seen = SubSeq(MatchingIds(reader.product, reader.filter), 1, Len(reader.seen))
    BY DEF WalkSeesAll
  <2>1. reader # NoReader
    BY DEF NoReader
  <2>2. PICK L : L = LogOf(reader.product, reader.filter)
    OBVIOUS
  <2>3. PICK k \in 0 .. Len(L) : reader.seen = SubSeq(L, 1, k) /\ k = reader.total_count
    BY <2>1, <2>2 DEF QueriesInv, WalkRight
  <2>4. L \in Seq(1 .. Len(events)) /\ MatchingIds(reader.product, reader.filter) = L
    BY <2>1, <2>2, LogType, MatchingIsLog DEF QueriesInv, LogInv, WalkRight
  <2>5. Len(SubSeq(L, 1, k)) = k
    BY <2>4
  <2>. QED BY <2>3, <2>4, <2>5
<1>. QED BY <1>1, QueriesInvariant, PTL

------------------------------------------------------------------------------
(* The pages. *)

\* Both contracts refuse, or answer with the same page.
BothRefuse(id, limit, page, theirs, ours) == theirs = Answer(id, limit, FALSE, page) /\ ours = Refused

BothAnswer(id, offset, limit, s, theirs, ours) ==
  /\ theirs = Answer(id, limit, TRUE, PageOf(s, offset, limit))
  /\ ours = MainPage(Stretched(s, offset, limit), offset, limit, Len(s))

LEMMA TwoAnswers ==
  ASSUME NEW id, NEW E, NEW s \in Seq(E), NEW offset \in Nat, NEW limit \in Nat,
         ValidLimit(limit), NEW theirs, NEW ours,
         \/ BothRefuse(id, limit, PageOf(s, offset, limit), theirs, ours)
         \/ BothAnswer(id, offset, limit, s, theirs, ours)
  PROVE  /\ Readable(id) /\ theirs # Refused => theirs.events = Stretched(s, offset, limit)
         /\ ValidLimit(limit) /\ Readable(id) => theirs = ours
<1>1. PICK page : /\ page = PageOf(s, offset, limit)
                  /\ page = [events |-> Stretched(s, offset, limit), total_count |-> Len(s),
                             has_more |-> HasMore(offset, Len(Stretched(s, offset, limit)), Len(s))]
  BY PageIs
<1>2. page.events = Stretched(s, offset, limit)
  BY <1>1
<1>3. MainPage(Stretched(s, offset, limit), offset, limit, Len(s)) = page
  BY <1>1, Zenon DEF MainPage
<1>4. CASE BothRefuse(id, limit, PageOf(s, offset, limit), theirs, ours)
  <2>1. theirs = Refused /\ ours = Refused
    BY <1>4, Zenon DEF BothRefuse, Answer
  <2>. QED BY <2>1
<1>5. CASE BothAnswer(id, offset, limit, s, theirs, ours)
  <2>1. theirs = IF ~Readable(id) THEN Refused ELSE page
    BY <1>1, <1>5, Zenon DEF BothAnswer, Answer
  <2>2. ours = page
    BY <1>3, <1>5, Zenon DEF BothAnswer
  <2>. QED BY <1>2, <2>1, <2>2, Zenon
<1>. QED BY <1>4, <1>5

\* The numbers of the events of a time.
InTime(from, to) == {n \in 1 .. Len(events) : EventTime[n] >= from /\ (to # Forever => EventTime[n] <= to)}

\* Everything, of one type, of one time: what each list of ids is of the log.
LEMMA ListIsLog ==
  ASSUME LogInv, NEW id \in ProductId
  PROVE  product_events[id] = LogOf(id, EverythingOf)
<1>1. product_events[id] = Kept(Numbers, OfProduct(id))
  BY DEF LogInv, ProductListed
<1>2. OfProduct(id) \intersect Passing(EverythingOf) = OfProduct(id)
  BY DEF OfProduct, Passing, Matches, EverythingOf
<1>. QED BY <1>1, <1>2 DEF LogOf

LEMMA TypeListIsLog ==
  ASSUME NEW id, NEW type \in EventType
  PROVE  TypeIds(id, type) = LogOf(id, [EverythingOf EXCEPT !.type = type])
<1>1. type # AnyType
  BY QueriesAssumption
<1>2. Passing([EverythingOf EXCEPT !.type = type]) = {n \in 1 .. Len(events) : events[n].type = type}
  BY <1>1 DEF Passing, Matches, EverythingOf
<1>3. OfProduct(id) \intersect Passing([EverythingOf EXCEPT !.type = type]) = OfType(id, type)
  BY <1>2 DEF OfType, OfProduct
<1>. QED BY <1>3 DEF LogOf, TypeIds

LEMMA TimeListIsLog ==
  ASSUME LogInv, NEW id \in ProductId, NEW f, f.type = AnyType, f.place = AnyPlace, f.from \in Nat
  PROVE  Kept(product_events[id], InTime(f.from, f.to)) = LogOf(id, f)
<1>1. \A n \in 1 .. Len(events) : EventTime[n] \in Nat
  <2>1. \A n \in 1 .. Len(events) : n \in 1 .. MaxEvents
    BY TrackingAssumption DEF LogInv, LogTypeOK
  <2>. QED BY <2>1, QueriesAssumption
<1>2. \A n \in 1 .. Len(events) :
        Matches(n, f) <=> EventTime[n] >= f.from /\ (f.to # Forever => EventTime[n] <= f.to)
  BY <1>1 DEF Matches
<1>3. Passing(f) = InTime(f.from, f.to)
  BY <1>2 DEF Passing, InTime
<1>4. MatchingIds(id, f) = LogOf(id, f)
  BY MatchingIsLog DEF LogInv
<1>. QED BY <1>3, <1>4 DEF MatchingIds

\* The log of a product is not longer than the log.
LEMMA LogIsShort ==
  ASSUME LogTypeOK, NEW id, NEW f
  PROVE  Len(LogOf(id, f)) <= MaxEvents /\ Len(LogOf(id, f)) \in Nat
<1>1. PICK n \in Nat : n = Len(events) /\ n <= MaxEvents
  BY DEF LogTypeOK
<1>2. PICK T : T = OfProduct(id) \intersect Passing(f)
  OBVIOUS
<1>3. Numbers \in Seq(1 .. n) /\ Len(Numbers) = n
  BY <1>1 DEF Numbers
<1>4. /\ IsFiniteSet({i \in 1 .. n : Numbers[i] \in T})
      /\ Len(Kept(Numbers, T)) = Cardinality({i \in 1 .. n : Numbers[i] \in T})
  <2>1. /\ IsFiniteSet({i \in 1 .. Len(Numbers) : Numbers[i] \in T})
        /\ Len(Kept(Numbers, T)) = Cardinality({i \in 1 .. Len(Numbers) : Numbers[i] \in T})
    BY <1>3, KeptCount
  <2>. QED BY <1>3, <2>1, Zenon
<1>5. IsFiniteSet(1 .. n) /\ Cardinality(1 .. n) = n
  <2>1. 1 \in Int /\ n \in Int
    OBVIOUS
  <2>2. IsFiniteSet(1 .. n) /\ Cardinality(1 .. n) = IF 1 > n THEN 0 ELSE n - 1 + 1
    BY <2>1, FS_Interval
  <2>. QED BY <2>2
<1>6. {i \in 1 .. n : Numbers[i] \in T} \subseteq 1 .. n
  OBVIOUS
<1>7. PICK c : c = Cardinality({i \in 1 .. n : Numbers[i] \in T}) /\ c \in Nat /\ c <= n
  <2>1. PICK S : S = {i \in 1 .. n : Numbers[i] \in T}
    OBVIOUS
  <2>2. Cardinality(S) <= Cardinality(1 .. n)
    BY <1>5, <1>6, <2>1, FS_Subset
  <2>3. Cardinality(S) \in Nat
    BY <1>4, <2>1, FS_CardinalityType
  <2>. QED BY <1>5, <2>1, <2>2, <2>3
<1>8. LogOf(id, f) = Kept(Numbers, T)
  BY <1>2 DEF LogOf
<1>9. MaxEvents \in Nat
  BY TrackingAssumption
<1>. QED BY <1>1, <1>4, <1>7, <1>8, <1>9

\* A stretch is what the storage's pages of ids hold.
LEMMA IdsPage ==
  ASSUME LogInv, NEW id \in ProductId, NEW offset \in Nat, NEW limit \in Nat, limit <= 1000
  PROVE  EventIdsPaginated(id, offset, limit) = Stretched(LogOf(id, EverythingOf), offset, limit)
<1>1. PICK L : L = LogOf(id, EverythingOf)
  OBVIOUS
<1>2. product_events[id] = L
  BY <1>1, ListIsLog
<1>3. L \in Seq(1 .. Len(events))
  BY <1>1, LogType DEF LogInv
<1>4. Stretched(L, offset, limit) = SubSeq(L, offset + 1, SmallerOf(offset + limit, Len(L)))
  BY DEF Stretched
<1>5. CASE offset >= Len(L)
  <2>1. Stretched(L, offset, limit) = <<>>
    <3>1. limit \in Nat
      OBVIOUS
    <3>. QED BY <1>3, <1>5, <3>1, StretchedIs
  <2>2. EventIdsPaginated(id, offset, limit) = <<>>
    BY <1>2, <1>5 DEF EventIdsPaginated
  <2>. QED BY <1>1, <2>1, <2>2, Zenon
<1>6. CASE limit = 0
  <2>1. SubSeq(L, offset + 1, SmallerOf(offset, Len(L))) = <<>>
    <3>1. PICK j \in Nat : j = SmallerOf(offset, Len(L)) /\ j <= offset /\ j <= Len(L)
      <4>1. /\ SmallerOf(offset, Len(L)) \in Nat /\ SmallerOf(offset, Len(L)) <= offset
            /\ SmallerOf(offset, Len(L)) <= Len(L)
        BY <1>3 DEF SmallerOf
      <4>. QED BY <4>1, Zenon
    <3>. QED BY <1>3, <3>1
  <2>2. EventIdsPaginated(id, offset, limit) = <<>>
    BY <1>6 DEF EventIdsPaginated
  <2>3. offset + limit = offset
    BY <1>6
  <2>4. Stretched(L, offset, limit) = SubSeq(L, offset + 1, SmallerOf(offset, Len(L)))
    BY <1>4, <2>3
  <2>. QED BY <1>1, <2>1, <2>2, <2>4, Zenon
<1>7. CASE ~(offset >= Len(L)) /\ limit # 0
  <2>1. ~(limit = 0 \/ limit > 1000 \/ offset >= Len(L))
    BY <1>7
  <2>2. EventIdsPaginated(id, offset, limit) = SubSeq(L, offset + 1, SmallerOf(offset + limit, Len(L)))
    <3>1. ~(limit = 0 \/ limit > 1000 \/ offset >= Len(product_events[id]))
      BY <1>2, <2>1
    <3>2. EventIdsPaginated(id, offset, limit)
            = SubSeq(product_events[id], offset + 1, SmallerOf(offset + limit, Len(product_events[id])))
      BY <3>1, ZenonT(30) DEF EventIdsPaginated
    <3>. QED BY <1>2, <3>2, Zenon
  <2>3. EventIdsPaginated(id, offset, limit) = Stretched(L, offset, limit)
    BY <1>4, <2>2
  <2>. QED BY <1>1, <2>3
<1>. QED BY <1>5, <1>6, <1>7

LEMMA TypePage ==
  ASSUME LogInv, NEW id \in ProductId, NEW type \in EventType, NEW offset \in Nat, NEW limit \in Nat
  PROVE  /\ EventIdsByType(id, type, offset, limit) = Stretched(TypeIds(id, type), offset, limit)
         /\ QueryGetEventCountByType(id, type) = Len(TypeIds(id, type))
<1>1. PICK s : s = TypeIds(id, type)
  OBVIOUS
<1>2. s \in Seq(1 .. Len(events))
  BY <1>1, TypeIdsAre DEF LogInv
<1>3. type_index[id][type] = FromZero(s)
  BY <1>1 DEF LogInv, TypesListed
<1>4. Cardinality(DOMAIN type_index[id][type]) = Len(s)
  BY <1>2, <1>3, FromZeroOf
<1>5. PICK n \in Nat : n = Len(s)
  BY <1>2
<1>6. PICK e \in Nat : e = SmallerOf(offset + limit, n) /\ e <= n
  <2>1. SmallerOf(offset + limit, n) \in Nat /\ SmallerOf(offset + limit, n) <= n
    BY DEF SmallerOf
  <2>. QED BY <2>1, Zenon
<1>7. PICK k \in Nat : k = IF offset < e THEN e - offset ELSE 0
  <2>1. (IF offset < e THEN e - offset ELSE 0) \in Nat
    OBVIOUS
  <2>. QED BY <2>1, Zenon
<1>8. EventIdsByType(id, type, offset, limit) = [i \in 1 .. k |-> type_index[id][type][offset + i - 1]]
  BY <1>4, <1>5, <1>6, <1>7 DEF EventIdsByType
<1>9. \A i \in 1 .. k : type_index[id][type][offset + i - 1] = s[offset + i]
  <2> SUFFICES ASSUME NEW i \in 1 .. k PROVE type_index[id][type][offset + i - 1] = s[offset + i]
    OBVIOUS
  <2>1. offset + i - 1 \in 0 .. n - 1 /\ (offset + i - 1) + 1 = offset + i
    BY <1>6, <1>7
  <2>2. FromZero(s)[offset + i - 1] = s[(offset + i - 1) + 1]
    BY <1>5, <2>1 DEF FromZero
  <2>. QED BY <1>3, <2>1, <2>2
<1>10. SubSeq(s, offset + 1, e) = [i \in 1 .. k |-> s[offset + i]]
  <2>1. \A i : i \in 1 .. k => s[i + (offset + 1) - 1] = s[offset + i]
    <3> SUFFICES ASSUME NEW i \in 1 .. k PROVE s[i + (offset + 1) - 1] = s[offset + i]
      OBVIOUS
    <3>1. i + (offset + 1) - 1 = offset + i
      OBVIOUS
    <3>. QED BY <3>1
  <2>2. 1 .. (1 + e - (offset + 1)) = 1 .. k
    BY <1>7
  <2>3. SubSeq(s, offset + 1, e) \in Seq(1 .. Len(events))
    BY <1>2, <1>5, <1>6
  <2>4. Len(SubSeq(s, offset + 1, e)) = k
    BY <1>2, <1>5, <1>6, <1>7
  <2>5. \A i \in 1 .. k : SubSeq(s, offset + 1, e)[i] = s[offset + i]
    BY <1>2, <1>5, <1>6, <1>7, <2>1
  <2>6. PICK p : p = SubSeq(s, offset + 1, e) /\ p \in Seq(1 .. Len(events)) /\ Len(p) = k
               /\ \A i \in 1 .. k : p[i] = s[offset + i]
    BY <2>3, <2>4, <2>5, Zenon
  <2>7. p = [i \in 1 .. k |-> p[i]]
    <3>1. p \in [1 .. Len(p) -> 1 .. Len(events)]
      BY <2>6, LenProperties
    <3>2. p \in [1 .. k -> 1 .. Len(events)]
      BY <2>6, <3>1, Zenon
    <3>. QED BY <3>2, Zenon
  <2>8. p = [i \in 1 .. k |-> s[offset + i]]
    BY <2>6, <2>7
  <2>. QED BY <2>6, <2>8
<1>11. Stretched(s, offset, limit) = SubSeq(s, offset + 1, e)
  BY <1>5, <1>6 DEF Stretched
<1>12. [i \in 1 .. k |-> type_index[id][type][offset + i - 1]] = [i \in 1 .. k |-> s[offset + i]]
  BY <1>9
<1>. QED BY <1>1, <1>4, <1>8, <1>10, <1>11, <1>12 DEF QueryGetEventCountByType

\* Each query of the two contracts, and what it should hold.
Alike(id, f, offset, limit, theirs, ours) ==
  /\ Readable(id) /\ theirs # Refused => theirs.events = Stretch(id, f, offset, limit)
  /\ ValidLimit(limit) /\ Readable(id) => theirs = ours

LEMMA AlikeOf ==
  ASSUME LogInv, NEW id \in ProductId, NEW offset \in Nat, NEW limit \in Nat, ValidLimit(limit),
         NEW theirs, NEW ours, NEW f,
         \/ BothRefuse(id, limit, PageOf(LogOf(id, f), offset, limit), theirs, ours)
         \/ BothAnswer(id, offset, limit, LogOf(id, f), theirs, ours)
  PROVE  Alike(id, f, offset, limit, theirs, ours)
<1>1. PICK s \in Seq(1 .. Len(events)) : s = LogOf(id, f)
  BY LogType DEF LogInv
<1>2. Stretch(id, f, offset, limit) = Stretched(s, offset, limit)
  BY <1>1 DEF Stretch, Stretched, LogOf
<1>3. \/ BothRefuse(id, limit, PageOf(s, offset, limit), theirs, ours)
      \/ BothAnswer(id, offset, limit, s, theirs, ours)
  BY <1>1
<1>4. /\ Readable(id) /\ theirs # Refused => theirs.events = Stretched(s, offset, limit)
      /\ ValidLimit(limit) /\ Readable(id) => theirs = ours
  BY <1>3, TwoAnswers
<1>. QED BY <1>2, <1>4 DEF Alike

LEMMA ProductPagesAlike ==
  ASSUME LogInv, NEW id \in ProductId, NEW offset \in Nat, NEW limit \in Nat, ValidLimit(limit)
  PROVE  Alike(id, EverythingOf, offset, limit,
               QueryGetProductEvents(id, offset, limit), GetProductEvents(id, offset, limit))
<1>0. limit <= 1000
  BY QueriesAssumption DEF ValidLimit
<1>1. PICK t, o : t = QueryGetProductEvents(id, offset, limit) /\ o = GetProductEvents(id, offset, limit)
  OBVIOUS
<1>2. PICK f : f = EverythingOf
  OBVIOUS
<1>3. t = Answer(id, limit, TRUE, PageOf(LogOf(id, f), offset, limit))
  BY <1>1, <1>2, ListIsLog DEF QueryGetProductEvents
<1>4. o = MainPage(Stretched(LogOf(id, f), offset, limit), offset, limit, Len(LogOf(id, f)))
  <2>1. EventIdsPaginated(id, offset, limit) = Stretched(LogOf(id, EverythingOf), offset, limit)
    BY <1>0, IdsPage
  <2>2. product_events[id] = LogOf(id, EverythingOf)
    BY ListIsLog
  <2>. QED BY <1>1, <1>2, <2>1, <2>2 DEF GetProductEvents
<1>5. BothAnswer(id, offset, limit, LogOf(id, f), t, o)
  BY <1>3, <1>4, Zenon DEF BothAnswer
<1>. QED BY <1>1, <1>2, <1>5, AlikeOf

LEMMA TypePagesAlike ==
  ASSUME LogInv, NEW id \in ProductId, NEW type \in EventType,
         NEW offset \in Nat, NEW limit \in Nat, ValidLimit(limit)
  PROVE  Alike(id, [EverythingOf EXCEPT !.type = type], offset, limit,
               QueryGetEventsByType(id, type, offset, limit), GetEventsByType(id, type, offset, limit))
<1>1. PICK t, o : t = QueryGetEventsByType(id, type, offset, limit) /\ o = GetEventsByType(id, type, offset, limit)
  OBVIOUS
<1>2. PICK f : f = [EverythingOf EXCEPT !.type = type]
  OBVIOUS
<1>3. MatchingIds(id, f) = LogOf(id, f) /\ TypeIds(id, type) = LogOf(id, f)
  <2>1. MatchingIds(id, f) = LogOf(id, f)
    BY MatchingIsLog DEF LogInv
  <2>2. TypeIds(id, type) = LogOf(id, [EverythingOf EXCEPT !.type = type])
    BY TypeListIsLog
  <2>. QED BY <1>2, <2>1, <2>2
<1>4. t = Answer(id, limit, TRUE, PageOf(LogOf(id, f), offset, limit))
  BY <1>1, <1>2, <1>3 DEF QueryGetEventsByType
<1>5. o = MainPage(Stretched(LogOf(id, f), offset, limit), offset, limit, Len(LogOf(id, f)))
  BY <1>1, <1>3, TypePage DEF GetEventsByType
<1>6. BothAnswer(id, offset, limit, LogOf(id, f), t, o)
  BY <1>4, <1>5, Zenon DEF BothAnswer
<1>. QED BY <1>1, <1>2, <1>6, AlikeOf

LEMMA FilteredPagesAlike ==
  ASSUME LogInv, NEW id \in ProductId, NEW f,
         NEW offset \in Nat, NEW limit \in Nat, ValidLimit(limit)
  PROVE  Alike(id, f, offset, limit,
               QueryGetFilteredEvents(id, f, offset, limit), GetFilteredEvents(id, f, offset, limit))
<1>1. PICK t, o : t = QueryGetFilteredEvents(id, f, offset, limit) /\ o = GetFilteredEvents(id, f, offset, limit)
  OBVIOUS
<1>2. MatchingIds(id, f) = LogOf(id, f)
  BY MatchingIsLog DEF LogInv
<1>3. CASE (f.from > 0 \/ f.to # Forever) /\ ~ValidTimeRange(f.from, f.to)
  <2>1. t = Answer(id, limit, FALSE, PageOf(LogOf(id, f), offset, limit))
    BY <1>1, <1>2, <1>3, Zenon DEF QueryGetFilteredEvents, Answer
  <2>2. o = Refused
    BY <1>1, <1>3, Zenon DEF GetFilteredEvents
  <2>3. BothRefuse(id, limit, PageOf(LogOf(id, f), offset, limit), t, o)
    BY <2>1, <2>2, Zenon DEF BothRefuse
  <2>. QED BY <1>1, <2>3, AlikeOf
<1>4. CASE ~((f.from > 0 \/ f.to # Forever) /\ ~ValidTimeRange(f.from, f.to))
  <2>1. t = Answer(id, limit, TRUE, PageOf(LogOf(id, f), offset, limit))
    BY <1>1, <1>2, <1>4, Zenon DEF QueryGetFilteredEvents, Answer
  <2>2. o = MainPage(Stretched(LogOf(id, f), offset, limit), offset, limit, Len(LogOf(id, f)))
    BY <1>1, <1>2, <1>4, Zenon DEF GetFilteredEvents, Stretched
  <2>3. BothAnswer(id, offset, limit, LogOf(id, f), t, o)
    BY <2>1, <2>2, Zenon DEF BothAnswer
  <2>. QED BY <1>1, <2>3, AlikeOf
<1>. QED BY <1>3, <1>4

LEMMA TimePagesAlike ==
  ASSUME LogInv, NEW id \in ProductId, NEW from \in Nat, NEW to,
         NEW offset \in Nat, NEW limit \in Nat, ValidLimit(limit)
  PROVE  Alike(id, [EverythingOf EXCEPT !.from = from, !.to = to], offset, limit,
               QueryGetEventsByTimeRange(id, from, to, offset, limit),
               GetEventsByTimeRange(id, from, to, offset, limit))
<1>1. PICK t, o : /\ t = QueryGetEventsByTimeRange(id, from, to, offset, limit)
                  /\ o = GetEventsByTimeRange(id, from, to, offset, limit)
  OBVIOUS
<1>2. PICK f : f = [EverythingOf EXCEPT !.from = from, !.to = to]
  OBVIOUS
<1>3. MatchingIds(id, f) = LogOf(id, f)
  BY MatchingIsLog DEF LogInv
<1>4. Kept(product_events[id], InTime(from, to)) = LogOf(id, f)
  <2>1. f.type = AnyType /\ f.place = AnyPlace /\ f.from = from /\ f.to = to
    BY <1>2 DEF EverythingOf
  <2>2. Kept(product_events[id], InTime(f.from, f.to)) = LogOf(id, f)
    BY <2>1, TimeListIsLog
  <2>. QED BY <2>1, <2>2
<1>5. CASE ~ValidTimeRange(from, to)
  <2>1. t = Answer(id, limit, FALSE, PageOf(LogOf(id, f), offset, limit))
    BY <1>1, <1>4, <1>5, Zenon DEF QueryGetEventsByTimeRange, Answer, InTime
  <2>2. o = Refused
    BY <1>1, <1>5, Zenon DEF GetEventsByTimeRange
  <2>3. BothRefuse(id, limit, PageOf(LogOf(id, f), offset, limit), t, o)
    BY <2>1, <2>2, Zenon DEF BothRefuse
  <2>. QED BY <1>1, <1>2, <2>3, AlikeOf
<1>6. CASE ValidTimeRange(from, to)
  <2>1. t = Answer(id, limit, TRUE, PageOf(LogOf(id, f), offset, limit))
    BY <1>1, <1>4, <1>6, Zenon DEF QueryGetEventsByTimeRange, Answer, InTime
  <2>2. o = MainPage(Stretched(LogOf(id, f), offset, limit), offset, limit, Len(LogOf(id, f)))
    BY <1>1, <1>2, <1>3, <1>6, Zenon DEF GetEventsByTimeRange, Stretched
  <2>3. BothAnswer(id, offset, limit, LogOf(id, f), t, o)
    BY <2>1, <2>2, Zenon DEF BothAnswer
  <2>. QED BY <1>1, <1>2, <2>3, AlikeOf
<1>. QED BY <1>5, <1>6

\* The counts of the statistics.
LEMMA CountsAlike ==
  ASSUME LogInv, NEW id \in ProductId
  PROVE  /\ GetProductStats(id)[1] = Len(Stretch(id, EverythingOf, 0, MaxEvents))
         /\ \A entry \in GetEventTypeDistribution(id) :
              entry[2] = Len(Stretch(id, [EverythingOf EXCEPT !.type = entry[1]], 0, MaxEvents))
<1>1. \A f : Len(Stretch(id, f, 0, MaxEvents)) = Len(LogOf(id, f))
  <2> SUFFICES ASSUME NEW f PROVE Len(Stretch(id, f, 0, MaxEvents)) = Len(LogOf(id, f))
    OBVIOUS
  <2>1. PICK s \in Seq(1 .. Len(events)) : s = LogOf(id, f)
    BY LogType DEF LogInv
  <2>2. PICK n \in Nat : n = Len(s) /\ n <= MaxEvents
    BY <2>1, LogIsShort DEF LogInv
  <2>3. PICK z \in Nat : z = 0 /\ MaxEvents \in Nat
    BY TrackingAssumption
  <2>4. Len(Stretched(s, z, MaxEvents)) = n
    <3>1. CASE n = 0
      <4>1. z >= Len(s)
        BY <2>2, <2>3, <3>1
      <4>2. Stretched(s, z, MaxEvents) = <<>>
        BY <2>3, <4>1, StretchedIs
      <4>. QED BY <3>1, <4>2
    <3>2. CASE n # 0
      <4>1. z < Len(s)
        BY <2>2, <2>3, <3>2
      <4>2. PICK limit \in Nat : limit = MaxEvents
        BY <2>3
      <4>3. Len(Stretched(s, z, limit)) = SmallerOf(z + limit, Len(s)) - z
        BY <4>1, StretchedLength
      <4>4. SmallerOf(z + limit, Len(s)) - z = n
        <5>0. z = 0 /\ limit = MaxEvents
          BY <2>3, <4>2
        <5>1. z + limit = limit /\ n <= limit /\ n - z = n
          BY <2>2, <5>0
        <5>2. SmallerOf(limit, n) = n
          BY <2>2, <5>1 DEF SmallerOf
        <5>3. SmallerOf(z + limit, Len(s)) - z = SmallerOf(limit, n) - z
          BY <2>2, <5>1, Zenon
        <5>. QED BY <5>1, <5>2, <5>3
      <4>. QED BY <4>2, <4>3, <4>4
    <3>. QED BY <3>1, <3>2
  <2>. QED BY <2>1, <2>2, <2>3, <2>4 DEF Stretch, Stretched, LogOf
<1>2. GetProductStats(id)[1] = Len(LogOf(id, EverythingOf))
  BY ListIsLog DEF GetProductStats, QueryGetEventCount
<1>3. ASSUME NEW entry \in GetEventTypeDistribution(id)
      PROVE  entry[2] = Len(LogOf(id, [EverythingOf EXCEPT !.type = entry[1]]))
  <2>1. PICK type \in EventType : entry = <<type, QueryGetEventCountByType(id, type)>>
    BY DEF GetEventTypeDistribution
  <2>2. PICK f : f = [EverythingOf EXCEPT !.type = type]
    OBVIOUS
  <2>3. TypeIds(id, type) = LogOf(id, f)
    BY <2>2, TypeListIsLog
  <2>4. QueryGetEventCountByType(id, type) = Len(TypeIds(id, type))
    <3>1. 0 \in Nat
      OBVIOUS
    <3>. QED BY <3>1, TypePage
  <2>. QED BY <2>1, <2>2, <2>3, <2>4
<1>. QED BY <1>1, <1>2, <1>3

\* The pages and the counts, of every state the reads meet.
LEMMA PagesRight == QueriesInv => PagesMatchLog
<1> SUFFICES ASSUME QueriesInv, NEW id \in ProductId, NEW offset \in 0 .. MaxEvents + 1, NEW limit \in PageLimits
             PROVE
    /\ ValidLimit(limit) =>
         /\ Alike(id, EverythingOf, offset, limit,
                  QueryGetProductEvents(id, offset, limit), GetProductEvents(id, offset, limit))
         /\ \A type \in EventType :
              Alike(id, [EverythingOf EXCEPT !.type = type], offset, limit,
                    QueryGetEventsByType(id, type, offset, limit), GetEventsByType(id, type, offset, limit))
         /\ \A f \in Filters :
              /\ Alike(id, f, offset, limit,
                       QueryGetFilteredEvents(id, f, offset, limit), GetFilteredEvents(id, f, offset, limit))
              /\ Alike(id, [EverythingOf EXCEPT !.from = f.from, !.to = f.to], offset, limit,
                       QueryGetEventsByTimeRange(id, f.from, f.to, offset, limit),
                       GetEventsByTimeRange(id, f.from, f.to, offset, limit))
    /\ GetProductEventIdsPaginated(id, offset, limit)
         = Stretch(id, EverythingOf, offset, SmallerOf(limit, 100))
    /\ id \in Registered =>
         /\ GetProductStats(id)[1] = Len(Stretch(id, EverythingOf, 0, MaxEvents))
         /\ \A entry \in GetEventTypeDistribution(id) :
              entry[2] = Len(Stretch(id, [EverythingOf EXCEPT !.type = entry[1]], 0, MaxEvents))
         /\ QueryProduct(id).active => QueryProductExists(id)
    /\ QueryStats.active + GetInactiveProducts = QueryStats.total
  BY DEF PagesMatchLog, Alike
<1>1. LogInv /\ RegistryInv /\ offset \in Nat /\ limit \in Nat
  BY QueriesAssumption DEF QueriesInv
<1>2. ASSUME ValidLimit(limit)
      PROVE  /\ Alike(id, EverythingOf, offset, limit,
                      QueryGetProductEvents(id, offset, limit), GetProductEvents(id, offset, limit))
             /\ \A type \in EventType :
                  Alike(id, [EverythingOf EXCEPT !.type = type], offset, limit,
                        QueryGetEventsByType(id, type, offset, limit), GetEventsByType(id, type, offset, limit))
  BY <1>1, <1>2, ProductPagesAlike, TypePagesAlike
<1>3. ASSUME ValidLimit(limit), NEW f \in Filters
      PROVE  /\ Alike(id, f, offset, limit,
                      QueryGetFilteredEvents(id, f, offset, limit), GetFilteredEvents(id, f, offset, limit))
             /\ Alike(id, [EverythingOf EXCEPT !.from = f.from, !.to = f.to], offset, limit,
                      QueryGetEventsByTimeRange(id, f.from, f.to, offset, limit),
                      GetEventsByTimeRange(id, f.from, f.to, offset, limit))
  <2>0. PICK from \in Nat : from = f.from
    BY QueriesAssumption
  <2>1. PICK to : to = f.to
    OBVIOUS
  <2>2. Alike(id, f, offset, limit,
              QueryGetFilteredEvents(id, f, offset, limit), GetFilteredEvents(id, f, offset, limit))
    BY <1>1, <1>3, FilteredPagesAlike
  <2>3. Alike(id, [EverythingOf EXCEPT !.from = from, !.to = to], offset, limit,
              QueryGetEventsByTimeRange(id, from, to, offset, limit),
              GetEventsByTimeRange(id, from, to, offset, limit))
    BY <1>1, <1>3, TimePagesAlike
  <2>4. Alike(id, [EverythingOf EXCEPT !.from = f.from, !.to = f.to], offset, limit,
              QueryGetEventsByTimeRange(id, f.from, f.to, offset, limit),
              GetEventsByTimeRange(id, f.from, f.to, offset, limit))
    BY <2>0, <2>1, <2>3, Zenon
  <2>. QED BY <2>2, <2>4
<1>4. GetProductEventIdsPaginated(id, offset, limit) = Stretch(id, EverythingOf, offset, SmallerOf(limit, 100))
  <2>a. PICK n \in Nat : n = limit
    BY <1>1
  <2>b. PICK m \in Nat : m = 100 /\ m <= 1000
    OBVIOUS
  <2>c. PICK l \in Nat : l = SmallerOf(n, m) /\ l <= m
    BY SmallerIs
  <2>1. l = SmallerOf(limit, 100) /\ l <= 1000
    BY <2>a, <2>b, <2>c
  <2>2. EventIdsPaginated(id, offset, l) = Stretched(LogOf(id, EverythingOf), offset, l)
    BY <1>1, <2>1, IdsPage
  <2>3. GetProductEventIdsPaginated(id, offset, limit) = EventIdsPaginated(id, offset, l)
    BY <2>1, Zenon DEF GetProductEventIdsPaginated
  <2>4. Stretch(id, EverythingOf, offset, l) = Stretched(LogOf(id, EverythingOf), offset, l)
    BY Zenon DEF Stretch, Stretched, LogOf
  <2>. QED BY <2>1, <2>2, <2>3, <2>4, Zenon
<1>5. active \in Nat /\ total \in Nat /\ active <= total
  <2>1. RegistryTypeOK /\ CountersExact
    BY <1>1 DEF RegistryInv
  <2>2. IsFiniteSet(Registered) /\ active = Cardinality(ActiveProducts) /\ total = Cardinality(Registered)
    BY <2>1, TotalsRead DEF CountersExact, ActiveProducts
  <2>3. ActiveProducts \subseteq Registered
    BY DEF ActiveProducts
  <2>4. Cardinality(ActiveProducts) <= Cardinality(Registered)
    BY <2>2, <2>3, FS_Subset
  <2>. QED BY <2>1, <2>2, <2>4 DEF RegistryTypeOK
<1>6. QueryStats.active + GetInactiveProducts = QueryStats.total
  BY <1>5 DEF QueryStats, GetInactiveProducts
<1>7. /\ GetProductStats(id)[1] = Len(Stretch(id, EverythingOf, 0, MaxEvents))
      /\ \A entry \in GetEventTypeDistribution(id) :
           entry[2] = Len(Stretch(id, [EverythingOf EXCEPT !.type = entry[1]], 0, MaxEvents))
  BY <1>1, CountsAlike
<1>8. id \in Registered => QueryProductExists(id)
  BY DEF QueryProductExists
<1>. QED BY <1>2, <1>3, <1>4, <1>6, <1>7, <1>8

\* Whatever page the query contract and the main contract's reads answer, of any
\* offset and limit, it is that stretch of the log filtered; both give the same
\* answer where both accept the limit; and the counts and the distribution of
\* types are those of the log.
THEOREM PagesAreRight == QueriesSpec => []PagesMatchLog
BY PagesRight, QueriesInvariant, PTL

------------------------------------------------------------------------------
(***************************************************************************)
(* The backend's lists.  A row that is kept and unseen has as many rows of *)
(* the list before it as the walk has passed: its page is still to come.   *)
(***************************************************************************)

ListRow == [there : BOOLEAN, of : Subject, kind : Kind, at : Instant]

\* Rows of the walk's list that are before one of them in every order.
Before(r) == {s \in Matching(walk.filter) : rows[s].at > rows[r].at}

Ahead(r, offset) == Tied(r) \/ Cardinality(Before(r)) >= offset

\* Not on a page: then the page is full, and the row on a later one.
Later(r, page) ==
  Tied(r) \/ (Len(page) >= Limit(walk.asked) /\ Cardinality(Before(r)) >= Offset(walk.offset + Len(page)))

ListingsTypeOK ==
  /\ list \in List /\ rows \in Seq(ListRow)
  /\ walk = [step |-> walk.step, filter |-> walk.filter, asked |-> walk.asked, offset |-> walk.offset,
             page |-> walk.page, seen |-> walk.seen, kept |-> walk.kept, moved |-> walk.moved]
  /\ walk.step = "total" => CountsAll
  /\ Walking => /\ walk.filter \in Askable /\ walk.asked \in Asked /\ walk.offset \in Nat
                /\ Limit(walk.asked) > 0 /\ Len(walk.page) \in Nat
                /\ walk.kept \subseteq Matching(walk.filter)
                /\ list = "search" => walk.offset = 0

WalkHolds ==
  ~walk.moved =>
    /\ walk.step = "page" => \A r \in walk.kept \ walk.seen : Ahead(r, walk.offset)
    /\ walk.step = "total" => \A r \in walk.kept \ (walk.seen \union Range(walk.page)) : Later(r, walk.page)

ListingsInv == ListingsTypeOK /\ WalkHolds /\ WalkMissesNothing

LEMMA Rows ==
  ASSUME ListingsTypeOK, NEW f \in Askable
  PROVE  /\ Matching(f) \subseteq DOMAIN rows /\ IsFiniteSet(Matching(f))
         /\ \A r \in DOMAIN rows : rows[r] \in ListRow /\ rows[r].at \in Int
         /\ \A r \in DOMAIN rows : rows[r].there /\ Wants(f.of, rows[r].of) /\ Wants(f.kind, rows[r].kind)
              => r \in Matching(f)
<1>1. rows \in Seq(ListRow) /\ DOMAIN rows = 1 .. Len(rows) /\ Len(rows) \in Nat /\ list \in ListName
  BY ListingsAssumption DEF ListingsTypeOK
<1>2. ASSUME NEW r \in DOMAIN rows PROVE rows[r] \in ListRow /\ rows[r].at \in Int
  <2>1. rows[r] \in ListRow
    BY <1>1, <1>2
  <2>2. rows[r].at \in Instant
    BY <2>1 DEF ListRow
  <2>3. Instant \subseteq Int
    BY ListingsAssumption
  <2>. QED BY <2>1, <2>2, <2>3
<1>3. IsFiniteSet(DOMAIN rows)
  BY <1>1, FS_Interval
<1>4. Matching(f) \subseteq DOMAIN rows
  BY <1>1 DEF Matching, ListName, There, ListProducts, SearchProducts, ListBatches, ListEventsByProduct,
     ListEventsByType, ListCredits, ListMarketplace, ListRecallsByProduct, AuditQuery, ListFootprints,
     ListVerifications, ListReports, ListDevices
<1>5. ASSUME NEW r \in DOMAIN rows, rows[r].there, Wants(f.of, rows[r].of), Wants(f.kind, rows[r].kind)
      PROVE  r \in Matching(f)
  BY <1>1, <1>5 DEF Matching, ListName, There, ListProducts, SearchProducts, ListBatches, ListEventsByProduct,
     ListEventsByType, ListCredits, ListMarketplace, ListRecallsByProduct, AuditQuery, ListFootprints,
     ListVerifications, ListReports, ListDevices, Wants, Askable, Needed
<1>. QED BY <1>2, <1>3, <1>4, <1>5, FS_Subset

LEMMA BeforeFinite ==
  ASSUME ListingsTypeOK, Walking, NEW r
  PROVE  IsFiniteSet(Before(r)) /\ Cardinality(Before(r)) \in Nat
<1>1. IsFiniteSet(Matching(walk.filter))
  BY Rows DEF ListingsTypeOK
<1>2. Before(r) \in SUBSET Matching(walk.filter)
  BY DEF Before
<1>. QED BY <1>1, <1>2, FS_Subset, FS_CardinalityType

\* An order has all rows of the list; one that is not tied is where as many as are before it end.
LEMMA Placed ==
  ASSUME ListingsTypeOK, Walking, NEW r \in Matching(walk.filter),
         NEW n \in Nat, n = Cardinality(Matching(walk.filter)), NEW s \in Orders(Matching(walk.filter))
  PROVE  \E p \in 1 .. n : s[p] = r /\ (list # "search" /\ ~Tied(r) => Cardinality(Before(r)) = p - 1)
<1> DEFINE M == Matching(walk.filter)
<1>1. IsFiniteSet(M) /\ M \subseteq DOMAIN rows /\ \A t \in DOMAIN rows : rows[t].at \in Int
  BY Rows DEF ListingsTypeOK
<1>2. s \in Injection(1 .. n, M)
  BY DEF Orders
<1>3. s \in [1 .. n -> M] /\ (\A i, j \in 1 .. n : s[i] = s[j] => i = j) /\ Len(s) = n
  BY <1>2 DEF Injection, IsInjective
<1>4. s \in Surjection(1 .. n, M)
  <2>1. Cardinality(1 .. n) = n
    BY FS_Interval
  <2>. QED BY <2>1, <1>1, <1>2, FS_Injection
<1>5. PICK p \in 1 .. n : s[p] = r
  BY <1>4 DEF Surjection
<1>6. ASSUME list # "search", ~Tied(r) PROVE Cardinality(Before(r)) = p - 1
  <2>1. \A i, j \in 1 .. n : i < j => rows[s[i]].at >= rows[s[j]].at
    BY <1>3, <1>6 DEF Orders
  <2>2. \A t \in M \ {r} : rows[t].at # rows[r].at
    BY <1>6 DEF Tied
  <2> DEFINE g == [i \in 1 .. p - 1 |-> s[i]]
  <2>3. \A i \in 1 .. p - 1 : s[i] \in Before(r)
    <3>1. ASSUME NEW i \in 1 .. p - 1 PROVE s[i] \in Before(r)
      <4>1. i \in 1 .. n /\ i < p /\ s[i] \in M \ {r}
        BY <1>3, <1>5
      <4>2. rows[s[i]].at >= rows[r].at /\ rows[s[i]].at # rows[r].at
        BY <4>1, <2>1, <2>2, <1>5
      <4>3. rows[s[i]].at \in Int /\ rows[r].at \in Int
        BY <4>1, <1>1
      <4>. QED BY <4>1, <4>2, <4>3 DEF Before
    <3>. QED BY <3>1
  <2>4. ASSUME NEW t \in Before(r) PROVE \E i \in 1 .. p - 1 : s[i] = t
    <3>1. t \in M /\ rows[t].at > rows[r].at /\ rows[t].at \in Int /\ rows[r].at \in Int
      BY <2>4, <1>1 DEF Before
    <3>2. PICK i \in 1 .. n : s[i] = t
      BY <3>1, <1>4 DEF Surjection
    <3>3. i # p /\ ~(p < i)
      BY <3>1, <3>2, <2>1, <1>5
    <3>. QED BY <3>2, <3>3
  <2>5. g \in Bijection(1 .. p - 1, Before(r))
    BY <2>3, <2>4, <1>3 DEF Bijection, Injection, IsInjective, Surjection
  <2>6. IsFiniteSet(1 .. p - 1) /\ Cardinality(1 .. p - 1) = p - 1
    <3>1. PICK m \in Nat : m = p - 1
      OBVIOUS
    <3>2. IsFiniteSet(1 .. m)
      BY FS_Interval
    <3>3. Cardinality(1 .. m) = m
      BY FS_Interval
    <3>. QED BY <3>1, <3>2, <3>3
  <2>. QED BY <2>5, <2>6, FS_Bijection DEF ExistsBijection
<1>. QED BY <1>5, <1>6

LEMMA PageTurns ==
  ASSUME ListingsTypeOK, walk.step = "page", NEW page \in Pages(walk.filter, walk.offset, Limit(walk.asked)),
         Limit(walk.asked) \in Int
  PROVE  /\ Len(page) \in Nat
         /\ \A r \in Matching(walk.filter) \ Range(page) : Ahead(r, walk.offset) => Later(r, page)
<1> DEFINE M == Matching(walk.filter)
           o == walk.offset
           l == Limit(walk.asked)
<1>1. Walking /\ o \in Nat /\ l \in Int /\ l > 0 /\ (list = "search" => o = 0) /\ walk.filter \in Askable
  BY DEF ListingsTypeOK, Walking
<1>2. PICK s \in Orders(M) : page = SubSeq(s, o + 1, AtMost(o + l, Len(s)))
  BY DEF Pages
<1>3. PICK n \in Nat : n = Cardinality(M)
  BY <1>1, Rows, FS_CardinalityType
<1>4. s \in [1 .. n -> M] /\ Len(s) = n
  BY <1>3 DEF Orders, Injection
<1>5. PICK e \in Int : e = AtMost(o + l, n) /\ e <= n /\ (e = n \/ e = o + l) /\ e <= o + l
  BY <1>1 DEF AtMost
<1>6. /\ Len(page) = IF o + 1 <= e THEN e - o ELSE 0
      /\ \A i \in 1 .. e - o : page[i] = s[o + i]
      /\ page \in Seq(M)
  <2>1. \A i \in o + 1 .. e : s[i] \in M
    BY <1>4, <1>1, <1>5
  <2>2. page = SubSeq(s, o + 1, e)
    BY <1>2, <1>4, <1>5
  <2>3. o + 1 \in Int
    BY <1>1
  <2>4. /\ page \in Seq(M)
        /\ Len(page) = IF o + 1 <= e THEN e - (o + 1) + 1 ELSE 0
        /\ \A i \in 1 .. e - (o + 1) + 1 : page[i] = s[o + 1 + i - 1]
    BY <2>1, <2>2, <2>3, SubSeqProperties
  <2>5. e - (o + 1) + 1 = e - o /\ \A i \in 1 .. e - o : o + 1 + i - 1 = o + i
    BY <1>1, <1>5
  <2>6. Len(page) = IF o + 1 <= e THEN e - o ELSE 0
    BY <2>4, <2>5
  <2>7. \A i \in 1 .. e - o : page[i] = s[o + i]
    BY <2>4, <2>5, Zenon
  <2>. QED BY <2>4, <2>6, <2>7
<1>7. ASSUME NEW r \in M \ Range(page), Ahead(r, o) PROVE Later(r, page)
  <2>1. PICK p \in 1 .. n : s[p] = r /\ (list # "search" /\ ~Tied(r) => Cardinality(Before(r)) = p - 1)
    BY <1>1, <1>3, Placed
  <2>2. ~(o < p /\ p <= e)
    <3>1. ASSUME o < p, p <= e PROVE FALSE
      <4>1. p - o \in 1 .. e - o /\ p - o \in 1 .. Len(page) /\ o + (p - o) = p
        BY <3>1, <1>1, <1>5, <1>6
      <4>2. page[p - o] = r
        BY <4>1, <1>6, <2>1
      <4>3. p - o \in DOMAIN page
        BY <4>1, <1>6
      <4>4. r \in Range(page)
        BY <4>2, <4>3 DEF Range
      <4>. QED BY <4>4, <1>7
    <3>. QED BY <3>1
  <2>3. Cardinality(Before(r)) \in Nat
    BY <1>1, BeforeFinite
  <2>4. CASE list = "search"
    <3>1. Len(page) = l /\ Offset(o + Len(page)) = 0
      BY <2>4, <2>2, <1>1, <1>5, <1>6 DEF Offset
    <3>. QED BY <3>1, <2>3, <1>1 DEF Later
  <2>5. CASE list # "search" /\ ~Tied(r)
    <3>1. Cardinality(Before(r)) = p - 1 /\ p - 1 >= o
      BY <2>1, <2>5, <1>7 DEF Ahead
    <3>2. Len(page) = l /\ e = o + l /\ p - 1 >= o + l
      BY <3>1, <2>2, <1>1, <1>5, <1>6
    <3>3. Offset(o + Len(page)) = o + l
      BY <3>2, <2>5 DEF Offset
    <3>. QED BY <3>1, <3>2, <3>3, <1>1 DEF Later
  <2>6. CASE Tied(r)
    BY <2>6 DEF Later
  <2>. QED BY <2>4, <2>5, <2>6
<1>. QED BY <1>6, <1>7, <1>1, <1>5

LEMMA LimitType == ASSUME NEW asked \in Asked PROVE Limit(asked) \in Int
<1>1. DefaultLimit \in Int /\ CapLimit \in Int /\ RowLimit \in Int
  BY ListingsAssumption
<1>2. asked = <<>> \/ asked[1] \in Int
  BY ListingsAssumption
<1>3. PICK n \in Int : n = IF asked = <<>> THEN DefaultLimit ELSE asked[1]
  BY <1>1, <1>2
<1>4. AtMost(n, CapLimit) \in Int
  BY <1>1 DEF AtMost
<1>5. CASE Unpaged
  <2>1. Limit(asked) = RowLimit + 1
    BY <1>5 DEF Limit, Unpaged
  <2>. QED BY <2>1, <1>1
<1>6. CASE list = "batches"
  <2>1. Limit(asked) = n
    BY <1>3, <1>6 DEF Limit, Unpaged
  <2>. QED BY <2>1
<1>7. CASE list = "audit logs"
  <2>1. Limit(asked) = IF n < 1 THEN 1 ELSE AtMost(n, CapLimit)
    BY <1>3, <1>7 DEF Limit, Unpaged
  <2>. QED BY <2>1, <1>4
<1>8. CASE list \notin {"batches", "audit logs"} /\ ~Unpaged
  <2>1. Limit(asked) = AtMost(n, CapLimit)
    BY <1>3, <1>8 DEF Limit
  <2>. QED BY <2>1, <1>4
<1>. QED BY <1>5, <1>6, <1>7, <1>8

LEMMA ListingsBegins == ListingsInit => ListingsInv
BY DEF ListingsInit, ListingsInv, ListingsTypeOK, Asleep, Walking, WalkHolds, WalkMissesNothing, ListRow

LEMMA WalkBegins ==
  ASSUME ListingsInv, NEW f \in Askable, NEW asked \in Asked, BeginWalk(f, asked)
  PROVE  ListingsInv'
<1>1. /\ walk' = [step |-> "page", filter |-> f, asked |-> asked, offset |-> 0,
                  page |-> <<>>, seen |-> {}, kept |-> Matching(f), moved |-> FALSE]
      /\ UNCHANGED <<list, rows>>
  BY DEF BeginWalk, Asleep
<1>2. walk'.step = "page" /\ walk'.filter = f /\ walk'.asked = asked /\ walk'.offset = 0 /\ walk'.page = <<>>
      /\ walk'.kept = Matching(f)
  BY <1>1
<1>3. Limit(asked) > 0
  <2>1. CASE Unpaged
    <3>1. Limit(asked) = RowLimit + 1 /\ RowLimit \in Nat
      BY <2>1, ListingsAssumption DEF Limit, Unpaged
    <3>. QED BY <3>1
  <2>2. CASE ~Unpaged
    BY <2>2 DEF BeginWalk
  <2>. QED BY <2>1, <2>2
<1>4. Matching(f)' = Matching(f) /\ Limit(asked)' = Limit(asked)
  BY <1>1 DEF Matching, ListProducts, SearchProducts, ListBatches, ListEventsByProduct,
     ListEventsByType, ListCredits, ListMarketplace, ListRecallsByProduct, AuditQuery, ListFootprints,
     ListVerifications, ListReports, ListDevices, There, Limit, Unpaged
<1>5. ListingsTypeOK'
  BY <1>1, <1>2, <1>3, <1>4 DEF ListingsInv, ListingsTypeOK, Askable, Needed
<1>6. ASSUME NEW r PROVE Ahead(r, 0)'
  <2>1. IsFiniteSet(Matching(f))
    BY Rows DEF ListingsInv
  <2>2. Before(r)' \in SUBSET Matching(f)
    BY <1>2, <1>4 DEF Before
  <2>3. Cardinality(Before(r)') \in Nat
    BY <2>1, <2>2, FS_Subset, FS_CardinalityType
  <2>. QED BY <2>3 DEF Ahead
<1>7. WalkHolds'
  BY <1>2, <1>6 DEF WalkHolds
<1>. QED BY <1>2, <1>5, <1>7 DEF ListingsInv, WalkMissesNothing

\* The rows a step leaves alone, and with them what the walk asks of them.
LEMMA SameRows ==
  ASSUME UNCHANGED <<list, rows>>, walk'.filter = walk.filter
  PROVE  /\ Matching(walk.filter)' = Matching(walk.filter) /\ Askable' = Askable
         /\ \A asked \in Asked : Limit(asked)' = Limit(asked)
         /\ \A r : Before(r)' = Before(r) /\ Tied(r)' = Tied(r)
         /\ \A n : Offset(n)' = Offset(n)
<1>1. Matching(walk.filter)' = Matching(walk.filter)
  BY DEF Matching, ListProducts, SearchProducts, ListBatches, ListEventsByProduct,
     ListEventsByType, ListCredits, ListMarketplace, ListRecallsByProduct, AuditQuery, ListFootprints,
     ListVerifications, ListReports, ListDevices, There
<1>. QED BY <1>1 DEF Askable, Needed, Limit, Unpaged, Before, Tied, Offset

\* Past a page of a length.
LEMMA TurnHolds ==
  ASSUME ListingsInv, Walking, UNCHANGED <<list, rows>>, NEW page, Len(page) \in Nat,
         walk' = Turned(page) \/ walk' = [Turned(page) EXCEPT !.step = "ended"],
         ~walk.moved => \A r \in walk.kept \ (walk.seen \union Range(page)) : Later(r, page),
         ~walk.moved /\ walk'.step = "ended" => \A r \in walk.kept \ (walk.seen \union Range(page)) : Tied(r)
  PROVE  ListingsInv'
<1>1. /\ walk'.filter = walk.filter /\ walk'.asked = walk.asked /\ walk'.kept = walk.kept
      /\ walk'.moved = walk.moved /\ walk'.seen = walk.seen \union Range(page)
      /\ walk'.offset = Offset(walk.offset + Len(page)) /\ walk'.page = <<>>
      /\ walk'.step \in {"page", "ended"}
      /\ walk' = [step |-> walk'.step, filter |-> walk'.filter, asked |-> walk'.asked, offset |-> walk'.offset,
                  page |-> walk'.page, seen |-> walk'.seen, kept |-> walk'.kept, moved |-> walk'.moved]
  BY DEF ListingsInv, ListingsTypeOK, Turned
<1>2. walk'.offset \in Nat /\ (list = "search" => walk'.offset = 0)
  BY <1>1 DEF ListingsInv, ListingsTypeOK, Offset
<1>3. ListingsTypeOK'
  <2>1. Matching(walk.filter)' = Matching(walk.filter) /\ Askable' = Askable
        /\ \A asked \in Asked : Limit(asked)' = Limit(asked)
    BY <1>1, SameRows
  <2>. QED BY <1>1, <1>2, <2>1 DEF ListingsInv, ListingsTypeOK
<1>4. \A r : Before(r)' = Before(r) /\ Tied(r)' = Tied(r)
  BY <1>1, SameRows
<1>5. ASSUME ~walk.moved, walk'.step = "page", NEW r \in walk'.kept \ walk'.seen
      PROVE  Tied(r)' \/ Cardinality(Before(r)') >= walk'.offset
  BY <1>1, <1>4, <1>5 DEF Later
<1>6. WalkHolds'
  BY <1>1, <1>5 DEF WalkHolds, Ahead
<1>7. WalkMissesNothing'
  BY <1>1, <1>4 DEF WalkMissesNothing
<1>. QED BY <1>3, <1>6, <1>7 DEF ListingsInv

LEMMA PageStep == ASSUME ListingsInv, NextPage PROVE ListingsInv'
<1>1. PICK page \in Pages(walk.filter, walk.offset, Limit(walk.asked)) :
        walk' = IF CountsAll THEN [walk EXCEPT !.step = "total", !.page = page] ELSE Turned(page)
  BY DEF NextPage
<1>2. walk.step = "page" /\ Walking /\ UNCHANGED <<list, rows>> /\ ListingsTypeOK
  BY DEF NextPage, Walking, ListingsInv
<1>3. walk.kept \subseteq Matching(walk.filter) /\ walk.asked \in Asked /\ Limit(walk.asked) \in Int
  BY <1>2, LimitType DEF ListingsTypeOK
<1>4. /\ Len(page) \in Nat
      /\ \A r \in Matching(walk.filter) \ Range(page) : Ahead(r, walk.offset) => Later(r, page)
  BY <1>2, <1>3, PageTurns
<1>5. ~walk.moved => \A r \in walk.kept \ (walk.seen \union Range(page)) : Later(r, page)
  BY <1>2, <1>3, <1>4 DEF ListingsInv, WalkHolds
<1>6. CASE ~CountsAll
  <2>1. walk' = Turned(page)
    BY <1>1, <1>6
  <2>2. walk'.step = "ended" => ~(Len(page) >= Limit(walk.asked))
    BY <2>1, <1>3, <1>4, <1>2 DEF Turned, AnsweredLimit, ListingsTypeOK
  <2>3. ~walk.moved /\ walk'.step = "ended" => \A r \in walk.kept \ (walk.seen \union Range(page)) : Tied(r)
    BY <2>2, <1>5 DEF Later
  <2>. QED BY <2>1, <2>3, <1>2, <1>4, <1>5, TurnHolds
<1>7. CASE CountsAll
  <2>1. /\ walk'.step = "total" /\ walk'.page = page /\ walk'.filter = walk.filter /\ walk'.asked = walk.asked
        /\ walk'.offset = walk.offset /\ walk'.seen = walk.seen /\ walk'.kept = walk.kept /\ walk'.moved = walk.moved
        /\ walk' = [step |-> walk'.step, filter |-> walk'.filter, asked |-> walk'.asked, offset |-> walk'.offset,
                    page |-> walk'.page, seen |-> walk'.seen, kept |-> walk'.kept, moved |-> walk'.moved]
    BY <1>1, <1>7, <1>2 DEF ListingsTypeOK
  <2>2. /\ Matching(walk.filter)' = Matching(walk.filter) /\ Askable' = Askable
        /\ Limit(walk.asked)' = Limit(walk.asked)
        /\ \A r : Before(r)' = Before(r) /\ Tied(r)' = Tied(r)
        /\ \A n : Offset(n)' = Offset(n)
    <3>1. \A asked \in Asked : Limit(asked)' = Limit(asked)
      BY <2>1, <1>2, SameRows
    <3>2. Limit(walk.asked)' = Limit(walk.asked)
      BY <3>1, <1>3, <2>1
    <3>. QED BY <3>2, <2>1, <1>2, SameRows
  <2>3. ListingsTypeOK'
    BY <2>1, <2>2, <1>2, <1>4, <1>7 DEF ListingsTypeOK, Walking, CountsAll
  <2>4. ASSUME NEW r, Later(r, page) PROVE Later(r, walk.page)'
    BY <2>1, <2>2, <2>4 DEF Later
  <2>5. WalkHolds'
    BY <2>1, <2>4, <1>5 DEF WalkHolds
  <2>. QED BY <2>1, <2>3, <2>5 DEF ListingsInv, WalkMissesNothing
<1>. QED BY <1>6, <1>7

LEMMA TotalStep == ASSUME ListingsInv, ReadTotal PROVE ListingsInv'
<1> DEFINE turned == Turned(walk.page)
<1>1. /\ walk.step = "total" /\ Walking /\ CountsAll /\ UNCHANGED <<list, rows>> /\ ListingsTypeOK /\ Len(walk.page) \in Nat
      /\ walk' = turned \/ walk' = [turned EXCEPT !.step = "ended"]
  BY DEF ReadTotal, Walking, ListingsInv, ListingsTypeOK
<1>2. ~walk.moved => \A r \in walk.kept \ (walk.seen \union Range(walk.page)) : Later(r, walk.page)
  BY <1>1 DEF ListingsInv, WalkHolds
<1>3. ASSUME walk'.step = "ended", NEW r \in walk.kept, Later(r, walk.page) PROVE Tied(r)
  <2>1. r \in Matching(walk.filter) /\ IsFiniteSet(Matching(walk.filter)) /\ Limit(walk.asked) \in Int
    BY <1>1, <1>3, Rows, LimitType DEF ListingsTypeOK
  <2>2. Before(r) \in SUBSET (Matching(walk.filter) \ {r}) /\ Cardinality(Before(r)) \in Nat
    <3>1. walk.filter \in Askable
      BY <1>1 DEF ListingsTypeOK
    <3>2. rows[r].at \in Int
      BY <1>1, <2>1, <3>1, Rows
    <3>3. r \notin Before(r)
      BY <3>2 DEF Before
    <3>4. Before(r) \subseteq Matching(walk.filter)
      BY DEF Before
    <3>. QED BY <3>3, <3>4, <1>1, BeforeFinite
  <2>3. Cardinality(Before(r)) < Cardinality(Matching(walk.filter)) /\ Cardinality(Matching(walk.filter)) \in Nat
    <3>1. IsFiniteSet(Matching(walk.filter) \ {r})
          /\ Cardinality(Matching(walk.filter) \ {r}) = Cardinality(Matching(walk.filter)) - 1
      BY <2>1, FS_RemoveElement
    <3>2. Cardinality(Before(r)) <= Cardinality(Matching(walk.filter) \ {r})
      BY <3>1, <2>2, FS_Subset
    <3>3. Cardinality(Matching(walk.filter)) \in Nat
      BY <2>1, FS_CardinalityType
    <3>. QED BY <3>1, <3>2, <3>3, <2>2
  <2>4. turned.step = "ended" \/ turned.offset >= Count(walk.filter)
    BY <1>3 DEF ReadTotal
  <2>5. CASE turned.step = "ended"
    <3>1. Len(walk.page) < Limit(walk.asked)
      BY <2>5, <1>1 DEF Turned, AnsweredLimit, ListingsTypeOK
    <3>. QED BY <3>1, <1>1, <2>1, <1>3 DEF Later
  <2>6. CASE turned.offset >= Count(walk.filter) /\ CountsAll
    <3>1. Count(walk.filter) = Cardinality(Matching(walk.filter)) /\ list # "search"
      BY <2>6 DEF CountsAll, Count, Matching, CountProducts, CountBatches, CountEventsByProduct
    <3>2. turned.offset = walk.offset + Len(walk.page) /\ Offset(walk.offset + Len(walk.page)) = turned.offset
          /\ walk.offset \in Nat
      BY <3>1, <1>1 DEF Turned, Offset, ListingsTypeOK
    <3>3. PICK n \in Nat : n = Cardinality(Matching(walk.filter))
      BY <2>3
    <3>4. PICK b \in Nat : b = Cardinality(Before(r))
      BY <2>2
    <3>5. ~(b >= turned.offset)
      BY <3>1, <3>2, <3>3, <3>4, <2>3, <2>6, <1>1
    <3>. QED BY <3>2, <3>4, <3>5, <1>3 DEF Later
  <2>. QED BY <2>4, <2>5, <2>6, <1>1
<1>. QED BY <1>1, <1>2, <1>3, TurnHolds

\* What a write does to a walk: it goes on, or has been passed over.
LEMMA WriteStep ==
  ASSUME ListingsInv, NEW new \in Seq(ListRow), WriteRows(new), DOMAIN rows \subseteq DOMAIN new
  PROVE  ListingsInv'
<1> DEFINE M == Matching(walk.filter)
           gone == IF Walking THEN Displaced(new) ELSE {}
           left == (IF Walking THEN M ELSE {}) \ gone
<1>1. /\ rows' = new /\ walk.step # "ended" /\ list' = list /\ ListingsTypeOK
      /\ walk' = [walk EXCEPT !.kept = @ \ gone,
                    !.moved = @ \/ \E g \in gone, k \in left : rows[g].at >= rows[k].at]
  BY DEF WriteRows, ListingsInv
<1>2. /\ walk'.step = walk.step /\ walk'.filter = walk.filter /\ walk'.asked = walk.asked
      /\ walk'.offset = walk.offset /\ walk'.page = walk.page /\ walk'.seen = walk.seen
      /\ walk'.kept = walk.kept \ gone
      /\ walk'.moved = (walk.moved \/ \E g \in gone, k \in left : rows[g].at >= rows[k].at)
      /\ walk' = [step |-> walk'.step, filter |-> walk'.filter, asked |-> walk'.asked, offset |-> walk'.offset,
                  page |-> walk'.page, seen |-> walk'.seen, kept |-> walk'.kept, moved |-> walk'.moved]
  <2> HIDE DEF gone, left
  <2>. QED BY <1>1 DEF ListingsTypeOK
<1>3. CASE ~Walking
  <2>1. ListingsTypeOK'
    BY <1>1, <1>2, <1>3 DEF ListingsTypeOK, Walking
  <2>. QED BY <2>1, <1>1, <1>2, <1>3 DEF ListingsInv, WalkHolds, WalkMissesNothing, Walking
<1>4. CASE Walking
  <2>1. /\ walk.filter \in Askable /\ M \subseteq DOMAIN rows /\ IsFiniteSet(M)
        /\ \A r \in DOMAIN rows : rows[r].at \in Int
    BY <1>1, <1>4, Rows DEF ListingsTypeOK
  <2>2. gone = Displaced(new) /\ left = M \ gone
    BY <1>4
  <2>3. Askable' = Askable /\ Walking' /\ CountsAll' = CountsAll
        /\ Limit(walk.asked)' = Limit(walk.asked) /\ \A n : Offset(n)' = Offset(n)
    BY <1>1, <1>2, <1>4 DEF Askable, Needed, Walking, CountsAll, Limit, Unpaged, Offset
  <2>4. ASSUME NEW r \in M \ gone PROVE r \in Matching(walk.filter)' /\ rows'[r].at = rows[r].at
    <3>1. /\ new[r].there /\ new[r].at = rows[r].at /\ Wants(walk.filter.of, new[r].of)
          /\ Wants(walk.filter.kind, new[r].kind) /\ r \in DOMAIN new
      BY <2>1, <2>2, <2>4 DEF Displaced
    <3>2. r \in Matching(walk.filter)'
      BY <3>1, <2>1, <1>1, <1>2, ListingsAssumption DEF ListingsTypeOK, ListName, Matching, There, ListProducts,
         SearchProducts, ListBatches, ListEventsByProduct, ListEventsByType, ListCredits, ListMarketplace,
         ListRecallsByProduct, AuditQuery, ListFootprints, ListVerifications, ListReports, ListDevices,
         Wants, Askable, Needed
    <3>. QED BY <3>1, <3>2, <1>1
  <2>5. IsFiniteSet(Matching(walk.filter)')
    <3>1. Matching(walk.filter)' \subseteq DOMAIN rows'
      BY <1>1, ListingsAssumption DEF ListingsTypeOK, ListName, Matching, There, ListProducts,
         SearchProducts, ListBatches, ListEventsByProduct, ListEventsByType, ListCredits, ListMarketplace,
         ListRecallsByProduct, AuditQuery, ListFootprints, ListVerifications, ListReports, ListDevices
    <3>2. IsFiniteSet(DOMAIN new)
      <4>1. DOMAIN new = 1 .. Len(new) /\ Len(new) \in Nat
        OBVIOUS
      <4>. QED BY <4>1, FS_Interval
    <3>. QED BY <3>1, <3>2, <1>1, FS_Subset
  <2>6. ASSUME NEW r \in walk'.kept, ~walk'.moved
        PROVE  /\ Before(r) \subseteq Before(r)' /\ (Tied(r) => Tied(r)')
               /\ Cardinality(Before(r)) <= Cardinality(Before(r)')
               /\ Cardinality(Before(r)) \in Nat /\ Cardinality(Before(r)') \in Nat
    <3>1. r \in M \ gone
      BY <1>1, <1>2, <1>4, <2>6 DEF ListingsTypeOK
    <3>2. ASSUME NEW s \in M, rows[s].at >= rows[r].at PROVE s \in Matching(walk.filter)' /\ rows'[s].at = rows[s].at
      <4>1. s \notin gone
        BY <3>1, <3>2, <1>2, <2>2, <2>6
      <4>. QED BY <4>1, <2>4
    <3>3. rows'[r].at = rows[r].at /\ r \in M /\ r \in Matching(walk.filter)'
      BY <3>1, <2>4
    <3>4. Before(r) \subseteq Before(r)'
      <4>1. ASSUME NEW s \in Before(r) PROVE s \in Before(r)'
        <5>1. s \in M /\ rows[s].at > rows[r].at /\ rows[s].at \in Int /\ rows[r].at \in Int
          BY <2>1, <3>3 DEF Before
        <5>. QED BY <5>1, <3>2, <3>3, <1>2 DEF Before
      <4>. QED BY <4>1
    <3>5. ASSUME Tied(r) PROVE Tied(r)'
      <4>1. PICK s \in M \ {r} : rows[s].at = rows[r].at
        BY <3>5 DEF Tied
      <4>2. rows[s].at >= rows[r].at
        BY <4>1, <2>1, <3>3
      <4>. QED BY <4>1, <4>2, <3>2, <3>3, <1>2 DEF Tied
    <3>6. IsFiniteSet(Before(r)')
      <4>1. Before(r)' \in SUBSET Matching(walk.filter)'
        BY <1>2 DEF Before
      <4>. QED BY <4>1, <2>5, FS_Subset
    <3>. QED BY <3>4, <3>5, <3>6, FS_Subset, FS_CardinalityType
  <2>7. ListingsTypeOK'
    <3>1. walk'.kept \subseteq Matching(walk.filter)'
      BY <2>4, <1>1, <1>2, <1>4 DEF ListingsTypeOK
    <3>. QED BY <3>1, <1>1, <1>2, <1>4, <2>3 DEF ListingsTypeOK
  <2>8. ASSUME ~walk'.moved, walk.step = "page", NEW r \in walk'.kept \ walk'.seen
        PROVE  Tied(r)' \/ Cardinality(Before(r)') >= walk'.offset
    <3>1. Ahead(r, walk.offset) /\ walk.offset \in Nat
      BY <2>8, <1>1, <1>2, <1>4 DEF ListingsInv, WalkHolds, ListingsTypeOK
    <3>2. r \in walk'.kept /\ walk'.offset = walk.offset
      BY <2>8, <1>2
    <3>3. PICK b \in Nat, c \in Nat : b = Cardinality(Before(r)) /\ c = Cardinality(Before(r)') /\ b <= c
      <4>1. /\ Cardinality(Before(r)) <= Cardinality(Before(r)')
            /\ Cardinality(Before(r)) \in Nat /\ Cardinality(Before(r)') \in Nat
        BY <3>2, <2>6, <2>8
      <4>. QED BY <4>1
    <3>4. Tied(r) => Tied(r)'
      BY <3>2, <2>6, <2>8
    <3>. QED BY <3>1, <3>2, <3>3, <3>4 DEF Ahead
  <2>9. ASSUME ~walk'.moved, walk.step = "total", NEW r \in walk'.kept \ (walk'.seen \union Range(walk'.page))
        PROVE  Later(r, walk.page)'
    <3>1. Later(r, walk.page)
      BY <2>9, <1>2 DEF ListingsInv, WalkHolds
    <3>2. walk.offset + Len(walk.page) \in Nat /\ Offset(walk.offset + Len(walk.page)) \in Nat
      BY <1>1, <1>4 DEF ListingsTypeOK, Offset
    <3>3. Offset(walk.offset + Len(walk.page))' = Offset(walk.offset + Len(walk.page))
      BY <2>3, <1>2, <1>1 DEF Offset
    <3>4. PICK b \in Nat, c \in Nat : b = Cardinality(Before(r)) /\ c = Cardinality(Before(r)') /\ b <= c
      <4>1. /\ Cardinality(Before(r)) <= Cardinality(Before(r)')
            /\ Cardinality(Before(r)) \in Nat /\ Cardinality(Before(r)') \in Nat
        BY <2>6, <2>9
      <4>. QED BY <4>1
    <3>5. Tied(r) => Tied(r)'
      BY <2>6, <2>9
    <3>6. Tied(r) \/ (Len(walk.page) >= Limit(walk.asked) /\ c >= Offset(walk.offset + Len(walk.page)))
      BY <3>1, <3>2, <3>4 DEF Later
    <3>7. Later(r, walk.page)' = (Tied(r)' \/ (Len(walk.page) >= Limit(walk.asked)
                                                /\ c >= Offset(walk.offset + Len(walk.page))))
      BY <3>3, <3>4, <2>3, <1>2 DEF Later
    <3>. QED BY <3>5, <3>6, <3>7
  <2>10. WalkHolds'
    BY <1>2, <2>8, <2>9 DEF WalkHolds, Ahead
  <2>. QED BY <2>7, <2>10, <1>1, <1>2 DEF ListingsInv, WalkMissesNothing
<1>. QED BY <1>3, <1>4

\* The rows each write leaves.
LEMMA ListingsStep == ASSUME ListingsInv, [ListingsNext]_listing_vars PROVE ListingsInv'
<1>1. /\ ListingsTypeOK /\ rows \in Seq(ListRow) /\ DOMAIN rows = 1 .. Len(rows) /\ Len(rows) \in Nat
      /\ rows \in [DOMAIN rows -> ListRow]
  BY DEF ListingsInv, ListingsTypeOK
<1>2. ASSUME NEW new \in [DOMAIN rows -> ListRow] PROVE new \in Seq(ListRow) /\ DOMAIN new = DOMAIN rows
  BY <1>1
<1>3. CASE \E f \in Askable, asked \in Asked : BeginWalk(f, asked)
  BY <1>3, WalkBegins
<1>4. CASE NextPage
  BY <1>4, PageStep
<1>5. CASE ReadTotal
  BY <1>5, TotalStep
<1>6. ASSUME NEW sort \in RowSort, NEW at \in Instant, RowComes(sort, at) PROVE ListingsInv'
  <2> DEFINE row == [there |-> TRUE, of |-> sort.of, kind |-> sort.kind, at |-> at]
  <2>1. row \in ListRow
    BY DEF ListRow, Subject, Kind
  <2>2. Append(rows, row) \in Seq(ListRow) /\ DOMAIN rows \subseteq DOMAIN Append(rows, row)
    <3> HIDE DEF row
    <3>. QED BY <2>1, <1>1, AppendProperties
  <2>. QED BY <2>2, <1>6, WriteStep DEF RowComes
<1>7. ASSUME NEW r \in There, NEW kind \in Kind, KindChanges(r, kind) PROVE ListingsInv'
  <2>1. [rows EXCEPT ![r].kind = kind] \in [DOMAIN rows -> ListRow]
    BY <1>1 DEF ListRow
  <2>. QED BY <2>1, <1>2, <1>7, WriteStep DEF KindChanges
<1>8. ASSUME NEW r \in There, NEW of \in Subject, RowPasses(r, of) PROVE ListingsInv'
  <2>1. [rows EXCEPT ![r].of = of] \in [DOMAIN rows -> ListRow]
    BY <1>1 DEF ListRow
  <2>. QED BY <2>1, <1>2, <1>8, WriteStep DEF RowPasses
<1>9. ASSUME NEW r \in There, NEW at \in Instant, BatchRedated(r, at) PROVE ListingsInv'
  <2>1. [rows EXCEPT ![r].at = at] \in [DOMAIN rows -> ListRow]
    BY <1>1 DEF ListRow
  <2>. QED BY <2>1, <1>2, <1>9, WriteStep DEF BatchRedated
<1>10. ASSUME NEW went PROVE Without(went) \in Seq(ListRow) /\ DOMAIN rows \subseteq DOMAIN Without(went)
  <2>1. Without(went) \in [DOMAIN rows -> ListRow]
    BY <1>1 DEF Without, ListRow
  <2>. QED BY <2>1, <1>2
<1>11. ASSUME NEW r \in There, RowDeleted(r) PROVE ListingsInv'
  BY <1>10, <1>11, WriteStep DEF RowDeleted
<1>12. ASSUME NEW p \in Subject, ProductGoes(p) PROVE ListingsInv'
  BY <1>10, <1>12, WriteStep DEF ProductGoes
<1>13. ASSUME NEW t \in Instant, AuditPurged(t) PROVE ListingsInv'
  BY <1>10, <1>13, WriteStep DEF AuditPurged
<1>14. CASE UNCHANGED listing_vars
  <2>1. UNCHANGED <<list, rows, walk>>
    BY <1>14 DEF listing_vars
  <2>2. UNCHANGED <<list, rows>> /\ walk'.filter = walk.filter
    BY <2>1
  <2>3. Matching(walk.filter)' = Matching(walk.filter) /\ Askable' = Askable
        /\ (\A asked \in Asked : Limit(asked)' = Limit(asked))
        /\ \A r : Before(r)' = Before(r) /\ Tied(r)' = Tied(r)
        /\ \A n : Offset(n)' = Offset(n)
    BY <2>2, SameRows
  <2>4. Limit(walk.asked)' = Limit(walk.asked)
    BY <2>1 DEF Limit, Unpaged
  <2>. QED BY <2>1, <2>3, <2>4 DEF ListingsInv, ListingsTypeOK, WalkHolds, WalkMissesNothing, Walking, CountsAll,
          Ahead, Later
<1>. QED BY <1>3, <1>4, <1>5, <1>6, <1>7, <1>8, <1>9, <1>11, <1>12, <1>13, <1>14 DEF ListingsNext

\* What is kept of a walk that no row has overtaken is seen or still ahead,
\* whatever comes, changes and goes.
THEOREM ListingsInvariant == ListingsSpec => []ListingsInv
BY ListingsBegins, ListingsStep, PTL DEF ListingsSpec

\* Whoever walks a list to its end has seen every row that was there all along,
\* for any rows, limits and writes between the pages, unless a row before one of
\* the list left its place or the order leaves the row's place open.
THEOREM WalksMissNothing == ListingsSpec => []WalkMissesNothing
<1>1. ListingsInv => WalkMissesNothing
  BY DEF ListingsInv
<1>. QED BY <1>1, ListingsInvariant, PTL

=============================================================================
