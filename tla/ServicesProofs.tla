----------------------------- MODULE ServicesProofs -----------------------------
(***************************************************************************)
(* Proofs about services of the backend whose calls interleave statement   *)
(* by statement: the carbon market, access, routing, sensors, the audit    *)
(* log and regulation; about its rules; and about its monitoring.  They    *)
(* hold for any number of users, rows and calls.                           *)
(***************************************************************************)
EXTENDS CarbonMarket, Access, PredictiveRouting, SensorReadings, AuditTrail, Regulation,
        RuleEngine, Monitoring, Recursion, FiniteSetTheorems, SequenceTheorems, TLAPS

(***************************************************************************)
(* The carbon market.                                                      *)
(***************************************************************************)

CarbonCall ==
  {CarbonIdle}
    \union [op : {"retire"}, credit : CreditId]
    \union [op : {"list", "mark"}, credit : CreditId, quantity : Nat]
    \union [op : {"settle", "transfer"}, trade : TradeId, credit : CreditId, quantity : Nat]

CarbonTypeOK ==
  /\ footprints \subseteq FootprintRequest
  /\ credits \in [CreditId -> CarbonCredit \union {NoneYet}]
  /\ trades \in [TradeId -> CarbonTrade \union {NoneYet}]
  /\ verifs \subseteq User \X CreditId
  /\ call \in [User -> CarbonCall]
  /\ paid \subseteq User \X TradeId
  /\ issuer \in [CreditId -> User \union {"none"}]
  /\ serial \in BOOLEAN /\ cuts \in Nat

\* What a call remembers of the rows it read still holds when it writes: rows
\* are never deleted, and a trade is never of another credit.
CallHolds(u) ==
  /\ call[u].op \in {"retire", "list", "mark"} => call[u].credit \in Issued
  /\ call[u].op \in {"settle", "transfer"} =>
       /\ call[u].trade \in Traded /\ call[u].credit \in Issued
       /\ trades[call[u].trade].credit = call[u].credit
  /\ call[u].op = "transfer" => <<u, call[u].trade>> \in paid

CallsHold == \A u \in User : CallHolds(u)

\* A trade is of a credit that was issued.
TradesOfCredits == \A t \in Traded : trades[t].credit \in Issued

TitleInv == CarbonTypeOK /\ TradesOfCredits /\ CallsHold /\ TitleFollowsPayment

\* What is credited for a request is a natural number.
LEMMA EligibleType ==
  ASSUME NEW req \in CarbonRequest
  PROVE  EligibleCredits(Recomputed(req)) \in Nat
<1> DEFINE r == Recomputed(req)
<1>1. /\ r.distance \in Int /\ r.weight \in Int /\ r.hours \in Int /\ r.baseline \in Int
  BY DEF Recomputed, CarbonRequest
<1> HIDE DEF r
<1>2. Emissions(r) \in Int
  <2>1. /\ TransportFactor(r.mode) \in Int /\ PackagingFactor(r.packaging) \in Int
        /\ EnergyMultiplier(r.energy) \in Int
    BY DEF TransportFactor, PackagingFactor, EnergyMultiplier
  <2>2. PICK kg \in Int : kg = IF r.weight = 0 THEN 1000 ELSE r.weight
    BY <1>1
  <2>3. \A a, b \in Int : a * b \in Int
    OBVIOUS
  <2>4. \A a \in Int : a \div 1000 \in Int /\ a \div 20 \in Int /\ a \div 10000 \in Int
    OBVIOUS
  <2>5. (TransportFactor(r.mode) * r.distance * kg) \div 1000 \in Int
    BY <1>1, <2>1, <2>3, <2>4
  <2>6. (PackagingFactor(r.packaging) * kg) \div 20 \in Int
    BY <2>1, <2>3, <2>4
  <2>7. (12 * r.hours * kg * EnergyMultiplier(r.energy)) \div 10000 \in Int
    BY <1>1, <2>1, <2>3, <2>4
  <2>8. kg * 5000 \in Int
    BY <2>3
  <2>9. Emissions(r) = (TransportFactor(r.mode) * r.distance * kg) \div 1000 + kg * 5000
                          + (PackagingFactor(r.packaging) * kg) \div 20
                          + (12 * r.hours * kg * EnergyMultiplier(r.energy)) \div 10000
    BY <2>2 DEF Emissions
  <2> QED
    BY <2>5, <2>6, <2>7, <2>8, <2>9
<1> QED
  BY <1>1, <1>2 DEF EligibleCredits, r

\* Rows are told from absent rows by their status.
LEMMA RowsExist ==
  /\ NoneYet \notin CarbonCredit
  /\ NoneYet \notin CarbonTrade
<1>1. \A r \in CarbonCredit : r.status # "no row"
  BY DEF CarbonCredit, CreditStatus
<1>2. \A r \in CarbonTrade : r.status # "no row"
  BY DEF CarbonTrade
<1> QED
  BY <1>1, <1>2 DEF NoneYet

LEMMA IssuedRow ==
  ASSUME CarbonTypeOK, NEW c \in Issued
  PROVE  c \in CreditId /\ credits[c] \in CarbonCredit
BY DEF CarbonTypeOK, Issued, Exists

LEMMA TradedRow ==
  ASSUME CarbonTypeOK, NEW t \in Traded
  PROVE  t \in TradeId /\ trades[t] \in CarbonTrade
BY DEF CarbonTypeOK, Traded, Exists

\* A call in flight is of one of four shapes, told apart by its operation.
LEMMA CallShape ==
  ASSUME CarbonTypeOK, NEW u \in User
  PROVE  /\ call[u].op = "retire" => call[u].credit \in CreditId
         /\ call[u].op \in {"list", "mark"} =>
              /\ call[u] \in [op : {"list", "mark"}, credit : CreditId, quantity : Nat]
              /\ call[u].credit \in CreditId /\ call[u].quantity \in Nat
         /\ call[u].op \in {"settle", "transfer"} =>
              /\ call[u] \in [op : {"settle", "transfer"}, trade : TradeId,
                              credit : CreditId, quantity : Nat]
              /\ call[u].trade \in TradeId /\ call[u].credit \in CreditId
              /\ call[u].quantity \in Nat
<1>1. call[u] \in CarbonCall
  BY DEF CarbonTypeOK
<1>2. CASE call[u] = CarbonIdle
  BY <1>2 DEF CarbonIdle
<1>3. CASE call[u] \in [op : {"retire"}, credit : CreditId]
  BY <1>3
<1>4. CASE call[u] \in [op : {"list", "mark"}, credit : CreditId, quantity : Nat]
  BY <1>4
<1>5. CASE call[u] \in [op : {"settle", "transfer"}, trade : TradeId, credit : CreditId,
                        quantity : Nat]
  BY <1>5
<1> QED
  BY <1>1, <1>2, <1>3, <1>4, <1>5 DEF CarbonCall

\* What no step undoes: rows stay, a trade stays of its credit, a payment stays made.
RowsStay ==
  /\ Issued \subseteq Issued' /\ Traded \subseteq Traded' /\ paid \subseteq paid'
  /\ \A t \in Traded : trades'[t].credit = trades[t].credit

LEMMA CallStays ==
  ASSUME CallsHold, RowsStay, NEW v \in User, call'[v] = call[v]
  PROVE  CallHolds(v)'
BY DEF CallsHold, CallHolds, RowsStay

LEMMA IdleHolds ==
  ASSUME NEW v \in User, call'[v] = CarbonIdle
  PROVE  CallHolds(v)'
BY DEF CallHolds, CarbonIdle

\* Another status for a credit.
LEMMA StatusSet ==
  ASSUME CarbonTypeOK, NEW c \in Issued, NEW st \in CreditStatus,
         credits' = [credits EXCEPT ![c].status = st]
  PROVE  /\ credits' \in [CreditId -> CarbonCredit \union {NoneYet}]
         /\ Issued' = Issued
         /\ \A d \in Issued : credits'[d].owner = credits[d].owner
<1>1. c \in CreditId /\ credits[c] \in CarbonCredit
  BY IssuedRow
<1>2. PICK r : r = [credits[c] EXCEPT !.status = st]
  OBVIOUS
<1>3. r \in CarbonCredit /\ r.owner = credits[c].owner
  BY <1>1, <1>2 DEF CarbonCredit
<1>4. credits' = [credits EXCEPT ![c] = r]
  BY <1>2
<1>5. credits' \in [CreditId -> CarbonCredit \union {NoneYet}]
  BY <1>3, <1>4 DEF CarbonTypeOK
<1>6. \A d \in CreditId : credits'[d] = IF d = c THEN r ELSE credits[d]
  BY <1>4 DEF CarbonTypeOK
<1>7. Issued' = Issued
  BY <1>1, <1>3, <1>6, RowsExist DEF Issued, Exists
<1> QED
  BY <1>3, <1>5, <1>6, <1>7 DEF Issued

\* A step that leaves the trades, what was paid and who owns what, and of the
\* calls changes one, to idle.
LEMMA CallEnds ==
  ASSUME TitleInv, NEW u \in User, call' = [call EXCEPT ![u] = CarbonIdle],
         credits' \in [CreditId -> CarbonCredit \union {NoneYet}],
         Issued' = Issued, \A d \in Issued : credits'[d].owner = credits[d].owner,
         serial' \in BOOLEAN, cuts' \in Nat,
         UNCHANGED <<trades, paid, footprints, verifs, issuer>>
  PROVE  TitleInv'
<1>1. Traded' = Traded /\ RowsStay
  BY DEF Traded, RowsStay
<1>2. CarbonTypeOK'
  BY DEF CarbonTypeOK, CarbonCall, TitleInv
<1>3. TradesOfCredits'
  BY <1>1 DEF TradesOfCredits, TitleInv
<1>4. CallsHold'
  <2>1. \A v \in User : call'[v] = IF v = u THEN CarbonIdle ELSE call[v]
    BY DEF CarbonTypeOK, TitleInv
  <2> QED
    BY <1>1, <2>1, CallStays, IdleHolds DEF CallsHold, TitleInv
<1>5. TitleFollowsPayment'
  BY <1>1 DEF TitleFollowsPayment, TitleInv
<1> QED
  BY <1>2, <1>3, <1>4, <1>5 DEF TitleInv

\* A step that only begins or continues a call, with what it has read.
LEMMA CallMoves ==
  ASSUME TitleInv, NEW u \in User, NEW r \in CarbonCall, call' = [call EXCEPT ![u] = r],
         CallHolds(u)', serial' \in BOOLEAN,
         UNCHANGED <<credits, trades, paid, footprints, verifs, issuer, cuts>>
  PROVE  TitleInv'
<1>1. Traded' = Traded /\ Issued' = Issued /\ RowsStay
  BY DEF Traded, Issued, RowsStay
<1>2. CarbonTypeOK'
  BY DEF CarbonTypeOK, TitleInv
<1>3. TradesOfCredits' /\ TitleFollowsPayment'
  BY <1>1 DEF TradesOfCredits, TitleFollowsPayment, TitleInv
<1>4. CallsHold'
  <2>1. \A v \in User : v # u => call'[v] = call[v]
    BY DEF CarbonTypeOK, TitleInv
  <2> QED
    BY <1>1, <2>1, CallStays DEF CallsHold, TitleInv
<1> QED
  BY <1>2, <1>3, <1>4 DEF TitleInv

LEMMA GenerateKeepsTitle ==
  ASSUME TitleInv, NEW u \in User, NEW req \in FootprintRequest, NEW c \in CreditId,
         GenerateCredit(u, req, c)
  PROVE  TitleInv'
<1>1. PICK row \in CarbonCredit : row.owner = u /\ credits' = [credits EXCEPT ![c] = row]
  <2>1. EligibleCredits(Recomputed(req)) \in Nat
    BY EligibleType, CarbonAssumption
  <2> QED
    BY <2>1 DEF GenerateCredit, CarbonCredit, CreditStatus
<1>2. /\ issuer' = [issuer EXCEPT ![c] = u]
      /\ UNCHANGED <<footprints, trades, verifs, call, paid, serial, cuts>>
      /\ c \notin Issued
  BY DEF GenerateCredit, Issued
<1>3. CarbonTypeOK'
  BY <1>1, <1>2 DEF CarbonTypeOK, TitleInv
<1>4. /\ \A d \in CreditId : credits'[d] = IF d = c THEN row ELSE credits[d]
      /\ \A d \in CreditId : issuer'[d] = IF d = c THEN u ELSE issuer[d]
  BY <1>1, <1>2 DEF CarbonTypeOK, TitleInv
<1>5. Issued' = Issued \union {c} /\ Traded' = Traded /\ RowsStay
  BY <1>1, <1>2, <1>4, RowsExist DEF Issued, Traded, Exists, RowsStay
<1>6. TradesOfCredits'
  BY <1>2, <1>5 DEF TradesOfCredits, TitleInv
<1>7. CallsHold'
  BY <1>2, <1>5, CallStays DEF CallsHold, TitleInv
<1>8. TitleFollowsPayment'
  <2> SUFFICES ASSUME NEW d \in Issued'
               PROVE  \/ credits'[d].owner = issuer'[d]
                      \/ \E t \in Traded' : trades'[t].credit = d /\ <<credits'[d].owner, t>> \in paid'
    BY DEF TitleFollowsPayment
  <2>1. CASE d = c
    BY <1>1, <1>4, <2>1
  <2>2. CASE d # c
    <3>1. d \in Issued /\ d \in CreditId
      BY <1>5, <2>2 DEF Issued
    <3>2. credits'[d] = credits[d] /\ issuer'[d] = issuer[d]
      BY <1>4, <2>2, <3>1
    <3> QED
      BY <1>2, <1>5, <3>1, <3>2 DEF TitleFollowsPayment, TitleInv
  <2> QED
    BY <2>1, <2>2
<1> QED
  BY <1>3, <1>6, <1>7, <1>8 DEF TitleInv

\* create_listing's first write: an open trade of the credit it read.
LEMMA InsertKeepsTitle ==
  ASSUME TitleInv, NEW u \in User, NEW t \in TradeId, InsertTrade(u, t)
  PROVE  TitleInv'
<1>1. /\ call[u].op = "list" /\ call[u].credit \in Issued /\ call[u].quantity \in Nat
      /\ call[u] \in [op : {"list", "mark"}, credit : CreditId, quantity : Nat]
  BY CallShape DEF InsertTrade, TitleInv, CallsHold, CallHolds
<1>2. PICK row \in CarbonTrade : row.credit = call[u].credit /\ trades' = [trades EXCEPT ![t] = row]
  BY <1>1 DEF InsertTrade, CarbonTrade, Issued
<1>3. PICK r \in [op : {"list", "mark"}, credit : CreditId, quantity : Nat] :
         r.op = "mark" /\ r.credit = call[u].credit /\ call' = [call EXCEPT ![u] = r]
  BY <1>1 DEF InsertTrade
<1>4. t \notin Traded /\ UNCHANGED <<credits, footprints, verifs, issuer, paid, serial, cuts>>
  BY DEF InsertTrade, Traded, market
<1>5. CarbonTypeOK'
  BY <1>2, <1>3, <1>4 DEF CarbonTypeOK, CarbonCall, TitleInv
<1>6. \A s \in TradeId : trades'[s] = IF s = t THEN row ELSE trades[s]
  BY <1>2 DEF CarbonTypeOK, TitleInv
<1>7. Issued' = Issued /\ Traded' = Traded \union {t} /\ RowsStay
  BY <1>4, <1>6, RowsExist DEF Issued, Traded, Exists, RowsStay
<1>8. TradesOfCredits'
  BY <1>1, <1>2, <1>6, <1>7 DEF TradesOfCredits, TitleInv, Traded
<1>9. CallsHold'
  <2>1. \A v \in User : call'[v] = IF v = u THEN r ELSE call[v]
    BY <1>3 DEF CarbonTypeOK, TitleInv
  <2>2. CallHolds(u)'
    BY <1>1, <1>3, <1>7, <2>1 DEF CallHolds
  <2> QED
    BY <1>7, <2>1, <2>2, CallStays DEF CallsHold, TitleInv
<1>10. TitleFollowsPayment'
  BY <1>4, <1>7 DEF TitleFollowsPayment, TitleInv, RowsStay
<1> QED
  BY <1>5, <1>8, <1>9, <1>10 DEF TitleInv

\* execute_trade's first write: the trade is settled, of the same credit.
LEMMA SettleKeepsTitle ==
  ASSUME TitleInv, NEW u \in User, Settle(u)
  PROVE  TitleInv'
<1> DEFINE t == call[u].trade
<1>1. /\ call[u].op = "settle" /\ t \in Traded /\ call[u].credit \in Issued
      /\ trades[t].credit = call[u].credit /\ call[u].quantity \in Nat
      /\ call[u] \in [op : {"settle", "transfer"}, trade : TradeId, credit : CreditId, quantity : Nat]
  BY CallShape DEF Settle, TitleInv, CallsHold, CallHolds
<1>2. t \in TradeId /\ trades[t] \in CarbonTrade
  BY <1>1, TradedRow DEF TitleInv
<1>3. PICK row \in CarbonTrade : row.credit = call[u].credit /\ trades' = [trades EXCEPT ![t] = row]
  <2>1. PICK row : row = [trades[t] EXCEPT !.buyer = u, !.status = "settled", !.quantity = call[u].quantity]
    OBVIOUS
  <2>2. row \in CarbonTrade /\ row.credit = trades[t].credit
    BY <1>1, <1>2, <2>1 DEF CarbonTrade
  <2>3. trades' = [trades EXCEPT ![t] = row]
    BY <1>2, <2>1 DEF Settle, CarbonTypeOK, TitleInv
  <2> QED
    BY <1>1, <2>2, <2>3
<1>4. PICK r \in [op : {"settle", "transfer"}, trade : TradeId, credit : CreditId, quantity : Nat] :
         /\ r.op = "transfer" /\ r.trade = t /\ r.credit = call[u].credit
         /\ call' = [call EXCEPT ![u] = r]
  BY <1>1 DEF Settle
<1>5. /\ paid' = paid \union {<<u, t>>}
      /\ UNCHANGED <<credits, footprints, verifs, issuer, serial, cuts>>
  BY DEF Settle, market
<1> HIDE DEF t
<1>6. CarbonTypeOK'
  BY <1>2, <1>3, <1>4, <1>5 DEF CarbonTypeOK, CarbonCall, TitleInv
<1>7. \A s \in TradeId : trades'[s] = IF s = t THEN row ELSE trades[s]
  BY <1>3 DEF CarbonTypeOK, TitleInv
<1>8. Issued' = Issued /\ Traded' = Traded /\ RowsStay
  BY <1>1, <1>2, <1>3, <1>5, <1>7, RowsExist DEF Issued, Traded, Exists, RowsStay
<1>9. TradesOfCredits'
  BY <1>8 DEF TradesOfCredits, TitleInv, RowsStay
<1>10. CallsHold'
  <2>1. \A v \in User : call'[v] = IF v = u THEN r ELSE call[v]
    BY <1>4 DEF CarbonTypeOK, TitleInv
  <2>2. CallHolds(u)'
    BY <1>1, <1>2, <1>3, <1>4, <1>5, <1>7, <1>8, <2>1 DEF CallHolds
  <2> QED
    BY <1>8, <2>1, <2>2, CallStays DEF CallsHold, TitleInv
<1>11. TitleFollowsPayment'
  BY <1>5, <1>8 DEF TitleFollowsPayment, TitleInv, RowsStay
<1> QED
  BY <1>6, <1>9, <1>10, <1>11 DEF TitleInv

\* Its second write: the credit goes to the one who settled a trade of it.
LEMMA TransferKeepsTitle ==
  ASSUME TitleInv, NEW u \in User, Transfer(u)
  PROVE  TitleInv'
<1> DEFINE c == call[u].credit
           t == call[u].trade
<1>1. /\ t \in Traded /\ c \in Issued /\ trades[t].credit = c /\ <<u, t>> \in paid
  BY CallShape DEF Transfer, MayTransfer, TitleInv, CallsHold, CallHolds
<1>2. c \in CreditId /\ credits[c] \in CarbonCredit
  BY <1>1, IssuedRow DEF TitleInv
<1>3. PICK row \in CarbonCredit : row.owner = u /\ credits' = [credits EXCEPT ![c] = row]
  <2>1. PICK row : row = [credits[c] EXCEPT !.owner = u, !.status = "sold"]
    OBVIOUS
  <2>2. row \in CarbonCredit /\ row.owner = u
    BY <1>2, <2>1 DEF CarbonCredit, CreditStatus
  <2>3. credits' = [credits EXCEPT ![c] = row]
    BY <1>2, <2>1 DEF Transfer, CarbonTypeOK, TitleInv
  <2> QED
    BY <2>2, <2>3
<1>4. /\ call' = [call EXCEPT ![u] = CarbonIdle]
      /\ UNCHANGED <<trades, footprints, verifs, issuer, paid, serial, cuts>>
  BY DEF Transfer, CarbonReturn, market
<1> HIDE DEF c, t
<1>5. CarbonTypeOK'
  BY <1>2, <1>3, <1>4 DEF CarbonTypeOK, CarbonCall, TitleInv
<1>6. \A d \in CreditId : credits'[d] = IF d = c THEN row ELSE credits[d]
  BY <1>3 DEF CarbonTypeOK, TitleInv
<1>7. Issued' = Issued /\ Traded' = Traded /\ RowsStay
  BY <1>1, <1>2, <1>3, <1>4, <1>6, RowsExist DEF Issued, Traded, Exists, RowsStay
<1>8. TradesOfCredits'
  BY <1>4, <1>7 DEF TradesOfCredits, TitleInv
<1>9. CallsHold'
  <2>1. \A v \in User : call'[v] = IF v = u THEN CarbonIdle ELSE call[v]
    BY <1>4 DEF CarbonTypeOK, TitleInv
  <2> QED
    BY <1>7, <2>1, CallStays, IdleHolds DEF CallsHold, TitleInv
<1>10. TitleFollowsPayment'
  BY <1>1, <1>3, <1>4, <1>6, <1>7 DEF TitleFollowsPayment, TitleInv, Issued
<1> QED
  BY <1>5, <1>8, <1>9, <1>10 DEF TitleInv

LEMMA FootprintsKeepTitle ==
  ASSUME TitleInv, UNCHANGED <<credits, trades, call, paid, issuer, serial, cuts>>,
         footprints' \subseteq FootprintRequest, verifs' \subseteq User \X CreditId
  PROVE  TitleInv'
<1>1. CarbonTypeOK'
  BY DEF CarbonTypeOK, TitleInv
<1>2. Issued' = Issued /\ Traded' = Traded
  BY DEF Issued, Traded
<1>3. TradesOfCredits' /\ CallsHold' /\ TitleFollowsPayment'
  BY <1>2 DEF TradesOfCredits, CallsHold, CallHolds, TitleFollowsPayment, TitleInv
<1> QED
  BY <1>1, <1>3 DEF TitleInv

LEMMA StartsKeepTitle ==
  ASSUME TitleInv, NEW u \in User,
         \/ \E c \in CreditId : StartRetire(u, c)
         \/ \E c \in CreditId : Exists(credits[c]) /\
              \E q \in {credits[c].quantity \div 2, credits[c].quantity} : StartList(u, c, q)
         \/ \E t \in TradeId : Exists(trades[t]) /\
              \E q \in {trades[t].quantity \div 2, trades[t].quantity} : StartPurchase(u, t, q)
  PROVE  TitleInv'
<1>1. serial \in BOOLEAN
  BY DEF TitleInv, CarbonTypeOK
<1>2. ASSUME NEW c \in CreditId, StartRetire(u, c) PROVE TitleInv'
  <2> DEFINE r == [op |-> "retire", credit |-> c]
  <2>1. r \in CarbonCall /\ call' = [call EXCEPT ![u] = r] /\ c \in Issued
    BY <1>2 DEF StartRetire, Start, CarbonCall, Owns, Issued
  <2>2. /\ UNCHANGED <<credits, trades, paid, footprints, verifs, issuer, cuts>>
        /\ serial' \in BOOLEAN
    BY <1>1, <1>2 DEF StartRetire, Start, market
  <2>3. CallHolds(u)'
    BY <2>1, <2>2 DEF CallHolds, Issued, TitleInv, CarbonTypeOK
  <2> QED
    BY <2>1, <2>2, <2>3, CallMoves
<1>3. ASSUME NEW c \in CreditId, Exists(credits[c]),
             NEW q \in {credits[c].quantity \div 2, credits[c].quantity}, StartList(u, c, q)
      PROVE  TitleInv'
  <2> DEFINE r == [op |-> "list", credit |-> c, quantity |-> q]
  <2>1. c \in Issued
    BY <1>3 DEF Issued
  <2>2. q \in Nat
    <3>1. credits[c].quantity \in Nat
      BY <2>1, IssuedRow DEF TitleInv, CarbonCredit
    <3> QED
      BY <3>1
  <2>3. r \in CarbonCall /\ call' = [call EXCEPT ![u] = r]
    BY <1>3, <2>2 DEF StartList, Start, CarbonCall
  <2>4. /\ UNCHANGED <<credits, trades, paid, footprints, verifs, issuer, cuts>>
        /\ serial' \in BOOLEAN
    BY <1>1, <1>3 DEF StartList, Start, market
  <2>5. CallHolds(u)'
    BY <2>1, <2>3, <2>4 DEF CallHolds, Issued, TitleInv, CarbonTypeOK
  <2> QED
    BY <2>3, <2>4, <2>5, CallMoves
<1>4. ASSUME NEW t \in TradeId, Exists(trades[t]),
             NEW q \in {trades[t].quantity \div 2, trades[t].quantity}, StartPurchase(u, t, q)
      PROVE  TitleInv'
  <2> DEFINE r == [op |-> "settle", trade |-> t, credit |-> trades[t].credit, quantity |-> q]
  <2>1. t \in Traded /\ trades[t].credit \in Issued
    BY <1>4 DEF Traded, TradesOfCredits, TitleInv
  <2>2. q \in Nat /\ trades[t].credit \in CreditId
    <3>1. trades[t].quantity \in Nat /\ trades[t].credit \in CreditId
      BY <2>1, TradedRow DEF TitleInv, CarbonTrade
    <3> QED
      BY <3>1
  <2>3. r \in CarbonCall /\ call' = [call EXCEPT ![u] = r]
    BY <1>4, <2>2 DEF StartPurchase, Start, CarbonCall
  <2>4. /\ UNCHANGED <<credits, trades, paid, footprints, verifs, issuer, cuts>>
        /\ serial' \in BOOLEAN
    BY <1>1, <1>4 DEF StartPurchase, Start, market
  <2>5. CallHolds(u)'
    BY <2>1, <2>3, <2>4 DEF CallHolds, Issued, Traded, TitleInv, CarbonTypeOK
  <2> QED
    BY <2>3, <2>4, <2>5, CallMoves
<1> QED
  BY <1>2, <1>3, <1>4

\* retire, the second write of create_listing, and calls that stop.
LEMMA EndsKeepTitle ==
  ASSUME TitleInv, NEW u \in User, Retire(u) \/ MarkListed(u) \/ CutOff(u)
  PROVE  TitleInv'
<1>1. ASSUME NEW st \in CreditStatus, call[u].op \in {"retire", "mark"},
             credits' = [credits EXCEPT ![call[u].credit].status = st],
             CarbonReturn(u), UNCHANGED <<trades, market, paid, cuts>>
      PROVE  TitleInv'
  <2>1. call[u].credit \in Issued
    BY <1>1 DEF TitleInv, CallsHold, CallHolds
  <2>2. /\ credits' \in [CreditId -> CarbonCredit \union {NoneYet}]
        /\ Issued' = Issued
        /\ \A d \in Issued : credits'[d].owner = credits[d].owner
    BY <1>1, <2>1, StatusSet DEF TitleInv
  <2>3. /\ call' = [call EXCEPT ![u] = CarbonIdle]
        /\ serial' \in BOOLEAN /\ cuts' \in Nat
        /\ UNCHANGED <<trades, paid, footprints, verifs, issuer>>
    BY <1>1 DEF CarbonReturn, market, TitleInv, CarbonTypeOK
  <2> QED
    BY <2>2, <2>3, CallEnds
<1>2. CASE Retire(u) \/ MarkListed(u)
  <2>1. PICK st \in CreditStatus :
               /\ call[u].op \in {"retire", "mark"}
               /\ credits' = [credits EXCEPT ![call[u].credit].status = st]
    BY <1>2 DEF Retire, MarkListed, CreditStatus
  <2>2. CarbonReturn(u) /\ UNCHANGED <<trades, market, paid, cuts>>
    BY <1>2 DEF Retire, MarkListed
  <2> QED
    BY <1>1, <2>1, <2>2
<1>3. CASE CutOff(u)
  <2>1. /\ call' = [call EXCEPT ![u] = CarbonIdle] /\ serial' = FALSE /\ cuts' = cuts + 1
        /\ UNCHANGED <<credits, trades, paid, footprints, verifs, issuer>>
    BY <1>3 DEF CutOff, market
  <2>2. serial' \in BOOLEAN
    BY <2>1
  <2>3. cuts' \in Nat
    BY <2>1 DEF TitleInv, CarbonTypeOK
  <2>4. Issued' = Issued /\ credits' \in [CreditId -> CarbonCredit \union {NoneYet}]
    BY <2>1 DEF Issued, TitleInv, CarbonTypeOK
  <2> QED
    BY <2>1, <2>2, <2>3, <2>4, CallEnds
<1> QED
  BY <1>2, <1>3

LEMMA TitleInvariant == CarbonSpec => []TitleInv
<1>1. CarbonInit => TitleInv
  <2> SUFFICES ASSUME CarbonInit PROVE TitleInv
    OBVIOUS
  <2>1. Issued = {} /\ Traded = {}
    BY DEF CarbonInit, Issued, Traded, Exists
  <2>2. CarbonTypeOK
    BY DEF CarbonInit, CarbonTypeOK, CarbonCall
  <2>3. CallsHold
    BY DEF CarbonInit, CallsHold, CallHolds, CarbonIdle
  <2> QED
    BY <2>1, <2>2, <2>3 DEF TitleInv, TradesOfCredits, TitleFollowsPayment
<1>2. TitleInv /\ [CarbonNext]_carbonVars => TitleInv'
  <2> SUFFICES ASSUME TitleInv, [CarbonNext]_carbonVars PROVE TitleInv'
    OBVIOUS
  <2>1. ASSUME NEW u \in User, NEW req \in FootprintRequest, CalculateFootprint(u, req)
        PROVE  TitleInv'
    BY <2>1, FootprintsKeepTitle DEF CalculateFootprint, TitleInv, CarbonTypeOK
  <2>2. ASSUME NEW u \in User, NEW c \in CreditId, RequestVerification(u, c)
        PROVE  TitleInv'
    BY <2>2, FootprintsKeepTitle DEF RequestVerification, TitleInv, CarbonTypeOK
  <2>3. CASE UNCHANGED carbonVars
    BY <2>3, FootprintsKeepTitle DEF carbonVars, TitleInv, CarbonTypeOK
  <2> QED
    BY <2>1, <2>2, <2>3, GenerateKeepsTitle, StartsKeepTitle, InsertKeepsTitle, SettleKeepsTitle,
       TransferKeepsTitle, EndsKeepTitle DEF CarbonNext
<1> QED
  BY <1>1, <1>2, PTL DEF CarbonSpec

\* Title: for any number of users, credits and trades, and whatever calls race
\* or stop between their two writes, whoever owns a credit had it issued or
\* settled a trade of it (create_listing, execute_trade, retire_credit).
THEOREM CarbonTitle == CarbonSpec => []TitleFollowsPayment
<1>1. TitleInv => TitleFollowsPayment
  BY DEF TitleInv
<1> QED
  BY <1>1, TitleInvariant, PTL

\* Trades that say a credit is offered by its owner, or was bought by it.
Offered(c) == \E t \in Traded : trades[t].credit = c /\ trades[t].status = "open"
                                /\ trades[t].seller = credits[c].owner
Bought(c) == \E t \in Traded : trades[t].credit = c /\ trades[t].status = "settled"
                               /\ trades[t].buyer = credits[c].owner

\* Some call is about to make its second write, to credit c.
About(op, c) == \E u \in User : call[u].op = op /\ call[u].credit = c

\* What a call read, and has written, is still so.
CallStands(u) ==
  /\ call[u].op \in {"list", "mark"} =>
       credits[call[u].credit].status \in Listable /\ credits[call[u].credit].owner = u
  /\ call[u].op = "mark" => Offered(call[u].credit)
  /\ call[u].op = "settle" => trades[call[u].trade].status = "open"
  /\ call[u].op = "transfer" =>
       trades[call[u].trade].status = "settled" /\ trades[call[u].trade].buyer = u

\* The tables agree about a credit but for the one write that is still to come.
CreditStands(c) ==
  /\ credits[c].status \in Listable => About("mark", c) \/ \A t \in Traded : trades[t].credit # c
  /\ credits[c].status = "listed" => About("transfer", c) \/ Offered(c)
  /\ credits[c].status = "sold" => Bought(c)

OneCall == \A u, v \in User : call[u] # CarbonIdle /\ call[v] # CarbonIdle => u = v

OneTrade == \A t1, t2 \in Traded : trades[t1].credit = trades[t2].credit => t1 = t2

\* What a behaviour without overlaps promises, also while a call is between its statements.
MarketHolds ==
  OneCall /\ OneTrade /\ (\A u \in User : CallStands(u)) /\ (\A c \in Issued : CreditStands(c))

MarketInv == IsFiniteSet(Issued) /\ (serial => MarketHolds)

Alone(u) == \A v \in User : v # u => call[v] = CarbonIdle

\* With one call in flight, what stands for it stands.
LEMMA OnlyCall ==
  ASSUME NEW u \in User, Alone(u)
  PROVE  /\ OneCall
         /\ CallStands(u) => \A v \in User : CallStands(v)
         /\ \A op \in {"mark", "transfer"}, c \in CreditId :
              About(op, c) <=> call[u].op = op /\ call[u].credit = c
<1>1. \A v \in User : v # u => call[v].op = "idle" /\ CallStands(v)
  BY DEF Alone, CallStands, CarbonIdle
<1>. QED BY <1>1 DEF Alone, OneCall, About

LEMMA CallerIsAlone ==
  ASSUME OneCall, NEW u \in User, call[u].op # "idle"
  PROVE  Alone(u)
BY DEF Alone, OneCall, CarbonIdle

\* A call begins while no other is in flight.
LEMMA BeginsAlone ==
  ASSUME TitleInv, MarketHolds, NEW u \in User, NEW r \in CarbonCall, call' = [call EXCEPT ![u] = r],
         \A v \in User : call[v] = CarbonIdle, r.op \in {"retire", "list", "settle"},
         CallStands(u)', UNCHANGED <<credits, trades>>
  PROVE  MarketHolds'
<1>1. \A v \in User : call'[v] = IF v = u THEN r ELSE CarbonIdle
  BY DEF TitleInv, CarbonTypeOK
<1>2. OneCall'
  BY <1>1 DEF OneCall
<1>3. ASSUME NEW v \in User PROVE CallStands(v)'
  <2>1. CASE v = u
    BY <2>1
  <2>2. CASE v # u
    <3>1. call'[v].op = "idle"
      BY <1>1, <2>2 DEF CarbonIdle
    <3>. QED BY <3>1 DEF CallStands
  <2>. QED BY <2>1, <2>2
<1>4. Issued' = Issued /\ Traded' = Traded
  BY DEF Issued, Traded
<1>5. OneTrade'
  BY <1>4 DEF MarketHolds, OneTrade
<1>6. ASSUME NEW c \in Issued PROVE CreditStands(c)'
  <2>1. \A op \in {"mark", "transfer"} : ~About(op, c)
    BY DEF About, CarbonIdle
  <2>2. Offered(c)' = Offered(c) /\ Bought(c)' = Bought(c)
    BY <1>4 DEF Offered, Bought
  <2>. QED BY <1>4, <2>1, <2>2 DEF MarketHolds, CreditStands
<1>. QED BY <1>2, <1>3, <1>4, <1>5, <1>6 DEF MarketHolds

\* A call ends with its last write, to one credit.
LEMMA EndsAlone ==
  ASSUME TitleInv, TitleInv', MarketHolds, NEW u \in User, call' = [call EXCEPT ![u] = CarbonIdle],
         call[u].op # "idle", UNCHANGED trades, Issued' = Issued, NEW c \in CreditId,
         c = call[u].credit, \A d \in CreditId : d # c => credits'[d] = credits[d],
         c \in Issued => CreditStands(c)'
  PROVE  MarketHolds'
<1>1. \A v \in User : call'[v] = IF v = u THEN CarbonIdle ELSE call[v]
  BY DEF TitleInv, CarbonTypeOK
<1>2. Alone(u)
  BY CallerIsAlone DEF MarketHolds
<1>3. \A v \in User : call'[v] = CarbonIdle
  BY <1>1, <1>2 DEF Alone
<1>4. OneCall' /\ \A v \in User : CallStands(v)'
  BY <1>3 DEF OneCall, CallStands, CarbonIdle
<1>5. Traded' = Traded /\ OneTrade'
  BY DEF Traded, MarketHolds, OneTrade
<1>6. ASSUME NEW d \in Issued, d # c PROVE CreditStands(d)'
  <2>1. d \in CreditId /\ credits'[d] = credits[d]
    BY <1>6 DEF Issued
  <2>2. \A op \in {"mark", "transfer"} : ~About(op, d)
    BY <1>2, <1>6, <2>1, OnlyCall
  <2>3. Offered(d)' = Offered(d) /\ Bought(d)' = Bought(d)
    BY <1>5, <2>1 DEF Offered, Bought
  <2>. QED BY <1>5, <2>1, <2>2, <2>3 DEF MarketHolds, CreditStands
<1>. QED BY <1>4, <1>5, <1>6 DEF MarketHolds

LEMMA RetireKeepsMarket ==
  ASSUME TitleInv, TitleInv', MarketHolds, NEW u \in User, Retire(u)
  PROVE  MarketHolds'
<1>1. PICK c \in Issued : c = call[u].credit /\ c \in CreditId
  BY DEF Retire, TitleInv, CallsHold, CallHolds, Issued
<1>2. \A d \in CreditId : d # c => credits'[d] = credits[d]
  BY <1>1 DEF Retire, TitleInv, CarbonTypeOK
<1>3. credits'[c].status = "retired"
  <2>1. credits[c] \in CarbonCredit
    BY <1>1, IssuedRow DEF TitleInv
  <2>. QED BY <1>1, <2>1 DEF Retire, TitleInv, CarbonTypeOK, CarbonCredit
<1>4. Issued' = Issued
  BY <1>1, StatusSet DEF Retire, TitleInv, CreditStatus
<1>5. CreditStands(c)'
  BY <1>3 DEF CreditStands, Listable
<1>6. call' = [call EXCEPT ![u] = CarbonIdle] /\ UNCHANGED trades /\ call[u].op # "idle"
  BY DEF Retire, CarbonReturn
<1>. QED BY <1>1, <1>2, <1>4, <1>5, <1>6, EndsAlone

LEMMA MarkKeepsMarket ==
  ASSUME TitleInv, TitleInv', MarketHolds, NEW u \in User, MarkListed(u)
  PROVE  MarketHolds'
<1>1. PICK c \in Issued : c = call[u].credit /\ c \in CreditId
  BY DEF MarkListed, TitleInv, CallsHold, CallHolds, Issued
<1>2. \A d \in CreditId : d # c => credits'[d] = credits[d]
  BY <1>1 DEF MarkListed, TitleInv, CarbonTypeOK
<1>3. credits'[c].status = "listed" /\ credits'[c].owner = credits[c].owner
  <2>1. credits[c] \in CarbonCredit
    BY <1>1, IssuedRow DEF TitleInv
  <2>. QED BY <1>1, <2>1 DEF MarkListed, TitleInv, CarbonTypeOK, CarbonCredit
<1>4. Issued' = Issued
  BY <1>1, StatusSet DEF MarkListed, TitleInv, CreditStatus
<1>5. call' = [call EXCEPT ![u] = CarbonIdle] /\ UNCHANGED trades /\ call[u].op = "mark"
  BY DEF MarkListed, CarbonReturn
<1>6. Offered(c)
  BY <1>1, <1>5 DEF MarketHolds, CallStands
<1>7. Offered(c)'
  BY <1>3, <1>5, <1>6 DEF Offered, Traded
<1>8. CreditStands(c)'
  BY <1>3, <1>7 DEF CreditStands, Listable
<1>9. call[u].op # "idle"
  BY <1>5
<1>. QED BY <1>1, <1>2, <1>4, <1>5, <1>8, <1>9, EndsAlone

LEMMA TransferKeepsMarket ==
  ASSUME TitleInv, TitleInv', MarketHolds, NEW u \in User, Transfer(u)
  PROVE  MarketHolds'
<1>1. PICK c \in Issued : c = call[u].credit /\ c \in CreditId
  BY DEF Transfer, MayTransfer, TitleInv, CallsHold, CallHolds, Issued
<1>2. PICK t \in Traded : t = call[u].trade /\ trades[t].credit = c
  BY <1>1 DEF Transfer, MayTransfer, TitleInv, CallsHold, CallHolds
<1>3. PICK row : row = [credits[c] EXCEPT !.owner = u, !.status = "sold"]
  OBVIOUS
<1>4. credits[c] \in CarbonCredit
  BY <1>1, IssuedRow DEF TitleInv
<1>5. row \in CarbonCredit /\ row.owner = u /\ row.status = "sold"
  BY <1>3, <1>4 DEF CarbonCredit, CreditStatus
<1>6. \A d \in CreditId : credits'[d] = IF d = c THEN row ELSE credits[d]
  BY <1>1, <1>3 DEF Transfer, TitleInv, CarbonTypeOK
<1>7. Issued' = Issued
  BY <1>1, <1>5, <1>6, RowsExist DEF Issued, Exists
<1>8. call' = [call EXCEPT ![u] = CarbonIdle] /\ UNCHANGED trades /\ call[u].op = "transfer"
  BY DEF Transfer, MayTransfer, CarbonReturn
<1>9. trades[t].status = "settled" /\ trades[t].buyer = u
  BY <1>2, <1>8 DEF MarketHolds, CallStands
<1>10. Bought(c)'
  BY <1>1, <1>2, <1>5, <1>6, <1>8, <1>9 DEF Bought, Traded
<1>11. CreditStands(c)'
  BY <1>1, <1>5, <1>6, <1>10 DEF CreditStands, Listable
<1>12. call[u].op # "idle" /\ \A d \in CreditId : d # c => credits'[d] = credits[d]
  BY <1>6, <1>8
<1>. QED BY <1>1, <1>7, <1>8, <1>11, <1>12, EndsAlone

\* create_listing's first write: only the caller knows of the credit, which nobody traded.
LEMMA InsertKeepsMarket ==
  ASSUME TitleInv, MarketHolds, NEW u \in User, NEW t \in TradeId, InsertTrade(u, t)
  PROVE  MarketHolds'
<1>1. PICK c \in Issued : c = call[u].credit /\ c \in CreditId /\ call[u].op = "list"
  BY DEF InsertTrade, TitleInv, CallsHold, CallHolds, Issued
<1>2. call[u].quantity \in Nat /\ call[u] \in [op : {"list", "mark"}, credit : CreditId, quantity : Nat]
  BY <1>1, CallShape DEF TitleInv
<1>3. credits[c].status \in Listable /\ credits[c].owner = u
  BY <1>1 DEF MarketHolds, CallStands
<1>4. Alone(u)
  BY <1>1, CallerIsAlone DEF MarketHolds
<1>5. PICK row \in CarbonTrade : /\ row.credit = c /\ row.seller = u /\ row.status = "open"
                                 /\ trades' = [trades EXCEPT ![t] = row]
  BY <1>1, <1>2 DEF InsertTrade, CarbonTrade
<1>6. \A s \in TradeId : trades'[s] = IF s = t THEN row ELSE trades[s]
  BY <1>5 DEF TitleInv, CarbonTypeOK
<1>7. t \notin Traded /\ Traded' = Traded \union {t} /\ UNCHANGED credits /\ Issued' = Issued
  BY <1>5, <1>6, RowsExist DEF InsertTrade, Traded, Exists, Issued
<1>8. \A s \in Traded : trades[s].credit # c
  <2>1. ~About("mark", c)
    BY <1>1, <1>4, OnlyCall
  <2>. QED BY <1>3, <2>1 DEF MarketHolds, CreditStands
<1>9. \A s \in Traded : s \in TradeId /\ s # t /\ trades'[s] = trades[s]
  BY <1>6, <1>7 DEF Traded
<1>10. OneTrade'
  BY <1>5, <1>6, <1>7, <1>8, <1>9 DEF OneTrade, MarketHolds
<1>11. PICK r \in [op : {"list", "mark"}, credit : CreditId, quantity : Nat] :
         r.op = "mark" /\ r.credit = c /\ call' = [call EXCEPT ![u] = r]
  BY <1>1, <1>2 DEF InsertTrade
<1>12. \A v \in User : call'[v] = IF v = u THEN r ELSE CarbonIdle
  BY <1>4, <1>11 DEF Alone, TitleInv, CarbonTypeOK
<1>13. Offered(c)'
  BY <1>3, <1>5, <1>6, <1>7 DEF Offered
<1>14. \A v \in User : CallStands(v)'
  <2>1. CallStands(u)'
    BY <1>3, <1>7, <1>11, <1>12, <1>13 DEF CallStands
  <2>2. ASSUME NEW v \in User, v # u PROVE CallStands(v)'
    <3>1. call'[v].op = "idle"
      BY <1>12, <2>2 DEF CarbonIdle
    <3>. QED BY <3>1 DEF CallStands
  <2>. QED BY <2>1, <2>2
<1>15. OneCall'
  BY <1>12 DEF OneCall
<1>16. ASSUME NEW d \in Issued PROVE CreditStands(d)'
  <2>1. CASE d = c
    <3>1. About("mark", c)'
      BY <1>11, <1>12 DEF About
    <3>. QED BY <1>3, <1>7, <2>1, <3>1 DEF CreditStands, Listable
  <2>2. CASE d # c
    <3>1. \A op \in {"mark", "transfer"} : ~About(op, d)
      BY <1>1, <1>4, <2>2, OnlyCall DEF Issued
    <3>2. Offered(d) => Offered(d)'
      BY <1>7, <1>9 DEF Offered
    <3>3. Bought(d) => Bought(d)'
      BY <1>7, <1>9 DEF Bought
    <3>4. (\A s \in Traded : trades[s].credit # d) => \A s \in Traded' : trades'[s].credit # d
      BY <1>5, <1>6, <1>7, <1>9, <2>2
    <3>. QED BY <1>7, <3>1, <3>2, <3>3, <3>4 DEF MarketHolds, CreditStands
  <2>. QED BY <2>1, <2>2
<1>. QED BY <1>7, <1>10, <1>14, <1>15, <1>16 DEF MarketHolds

\* execute_trade's first write: the trade is the only one of its credit.
LEMMA SettleKeepsMarket ==
  ASSUME TitleInv, MarketHolds, NEW u \in User, Settle(u)
  PROVE  MarketHolds'
<1>1. PICK c \in Issued : /\ c = call[u].credit /\ c \in CreditId /\ call[u].op = "settle"
                          /\ call[u].trade \in Traded /\ trades[call[u].trade].credit = c
  BY DEF Settle, TitleInv, CallsHold, CallHolds, Issued
<1>2. PICK t \in Traded : t = call[u].trade /\ t \in TradeId /\ trades[t] \in CarbonTrade
  BY <1>1, TradedRow DEF TitleInv
<1>3. trades[t].status = "open" /\ trades[t].credit = c
  BY <1>1, <1>2 DEF MarketHolds, CallStands
<1>4. Alone(u)
  BY <1>1, CallerIsAlone DEF MarketHolds
<1>5. PICK row : row = [trades[t] EXCEPT !.buyer = u, !.status = "settled", !.quantity = call[u].quantity]
  OBVIOUS
<1>6. call[u].quantity \in Nat
      /\ call[u] \in [op : {"settle", "transfer"}, trade : TradeId, credit : CreditId, quantity : Nat]
  BY <1>1, CallShape DEF TitleInv
<1>7. row \in CarbonTrade /\ row.credit = c /\ row.buyer = u /\ row.status = "settled"
  BY <1>2, <1>3, <1>5, <1>6 DEF CarbonTrade
<1>8. \A s \in TradeId : trades'[s] = IF s = t THEN row ELSE trades[s]
  BY <1>2, <1>5 DEF Settle, TitleInv, CarbonTypeOK
<1>9. Traded' = Traded /\ UNCHANGED credits /\ Issued' = Issued
  <2>1. Exists(row)
    BY <1>7, RowsExist DEF Exists
  <2>2. \A s \in TradeId : Exists(trades'[s]) <=> Exists(trades[s])
    BY <1>2, <1>8, <2>1 DEF Traded
  <2>3. UNCHANGED credits
    BY DEF Settle
  <2>. QED BY <2>2, <2>3 DEF Traded, Issued
<1>10. \A s \in Traded : s \in TradeId /\ trades'[s].credit = trades[s].credit
  BY <1>3, <1>7, <1>8 DEF Traded
<1>11. OneTrade'
  BY <1>9, <1>10 DEF OneTrade, MarketHolds
<1>12. PICK r \in [op : {"settle", "transfer"}, trade : TradeId, credit : CreditId, quantity : Nat] :
         r.op = "transfer" /\ r.trade = t /\ r.credit = c /\ call' = [call EXCEPT ![u] = r]
  BY <1>1, <1>2, <1>6 DEF Settle
<1>13. \A v \in User : call'[v] = IF v = u THEN r ELSE CarbonIdle
  BY <1>4, <1>12 DEF Alone, TitleInv, CarbonTypeOK
<1>14. \A v \in User : CallStands(v)'
  <2>1. CallStands(u)'
    BY <1>2, <1>7, <1>8, <1>12, <1>13 DEF CallStands
  <2>2. ASSUME NEW v \in User, v # u PROVE CallStands(v)'
    <3>1. call'[v].op = "idle"
      BY <1>13, <2>2 DEF CarbonIdle
    <3>. QED BY <3>1 DEF CallStands
  <2>. QED BY <2>1, <2>2
<1>15. OneCall'
  BY <1>13 DEF OneCall
<1>16. ASSUME NEW d \in Issued PROVE CreditStands(d)'
  <2>0. \A op \in {"mark", "transfer"} : ~About(op, d)
    BY <1>1, <1>4, OnlyCall DEF Issued
  <2>1. CASE d = c
    <3>1. About("transfer", c)'
      BY <1>12, <1>13 DEF About
    <3>2. credits[c].status \notin Listable
      BY <1>3, <2>0, <2>1 DEF MarketHolds, CreditStands
    <3>3. credits[c].status # "sold"
      BY <1>3, <2>1 DEF MarketHolds, CreditStands, Bought, OneTrade
    <3>. QED BY <1>9, <2>1, <3>1, <3>2, <3>3 DEF CreditStands
  <2>2. CASE d # c
    <3>1. \A s \in Traded : trades[s].credit = d => trades'[s] = trades[s]
      BY <1>3, <1>8, <1>10, <2>2
    <3>2. Offered(d) => Offered(d)'
      BY <1>9, <3>1 DEF Offered
    <3>3. Bought(d) => Bought(d)'
      BY <1>9, <3>1 DEF Bought
    <3>4. (\A s \in Traded : trades[s].credit # d) => \A s \in Traded' : trades'[s].credit # d
      BY <1>9, <1>10
    <3>. QED BY <1>9, <2>0, <3>2, <3>3, <3>4 DEF MarketHolds, CreditStands
  <2>. QED BY <2>1, <2>2
<1>. QED BY <1>9, <1>11, <1>14, <1>15, <1>16 DEF MarketHolds

LEMMA GenerateKeepsMarket ==
  ASSUME TitleInv, MarketHolds, NEW u \in User, NEW req \in FootprintRequest, NEW c \in CreditId,
         GenerateCredit(u, req, c)
  PROVE  MarketHolds'
<1>1. PICK row \in CarbonCredit : row.status = "pending" /\ credits' = [credits EXCEPT ![c] = row]
  <2>1. EligibleCredits(Recomputed(req)) \in Nat
    BY EligibleType, CarbonAssumption
  <2>. QED BY <2>1 DEF GenerateCredit, CarbonCredit, CreditStatus
<1>2. c \notin Issued /\ UNCHANGED <<trades, call>> /\ Traded' = Traded
  BY DEF GenerateCredit, Issued, Traded
<1>3. \A d \in CreditId : credits'[d] = IF d = c THEN row ELSE credits[d]
  BY <1>1 DEF TitleInv, CarbonTypeOK
<1>4. Issued' \subseteq Issued \union {c} /\ \A d \in Issued : credits'[d] = credits[d]
  BY <1>2, <1>3 DEF Issued
<1>5. OneCall' /\ OneTrade'
  BY <1>2 DEF MarketHolds, OneCall, OneTrade
<1>6. \A d \in Issued : Offered(d)' = Offered(d) /\ Bought(d)' = Bought(d)
  BY <1>2, <1>4 DEF Offered, Bought
<1>7. ASSUME NEW v \in User PROVE CallStands(v)'
  <2>1. call[v].op \in {"list", "mark"} => call[v].credit \in Issued
    BY DEF TitleInv, CallsHold, CallHolds
  <2>. QED BY <1>2, <1>4, <1>6, <2>1 DEF MarketHolds, CallStands
<1>8. ASSUME NEW d \in Issued' PROVE CreditStands(d)'
  <2>1. CASE d = c
    <3>1. \A t \in Traded' : trades'[t].credit # c
      BY <1>2 DEF TitleInv, TradesOfCredits
    <3>2. credits'[c].status = "pending"
      BY <1>1, <1>3
    <3>. QED BY <2>1, <3>1, <3>2 DEF CreditStands
  <2>2. CASE d # c
    <3>1. d \in Issued /\ credits'[d] = credits[d]
      BY <1>4, <2>2
    <3>2. \A op \in {"mark", "transfer"} : About(op, d)' = About(op, d)
      BY <1>2 DEF About
    <3>. QED BY <1>2, <1>6, <3>1, <3>2 DEF MarketHolds, CreditStands
  <2>. QED BY <2>1, <2>2
<1>. QED BY <1>5, <1>7, <1>8 DEF MarketHolds

LEMMA StartsKeepMarket ==
  ASSUME TitleInv, MarketHolds, NEW u \in User, serial',
         \/ \E c \in CreditId : StartRetire(u, c)
         \/ \E c \in CreditId : Exists(credits[c]) /\
              \E q \in {credits[c].quantity \div 2, credits[c].quantity} : StartList(u, c, q)
         \/ \E t \in TradeId : Exists(trades[t]) /\
              \E q \in {trades[t].quantity \div 2, trades[t].quantity} : StartPurchase(u, t, q)
  PROVE  MarketHolds'
<1>1. ASSUME NEW c \in CreditId, StartRetire(u, c) PROVE MarketHolds'
  <2> DEFINE r == [op |-> "retire", credit |-> c]
  <2>1. r \in CarbonCall /\ call' = [call EXCEPT ![u] = r] /\ r.op = "retire"
    BY <1>1 DEF StartRetire, Start, CarbonCall
  <2>2. (\A v \in User : call[v] = CarbonIdle) /\ UNCHANGED <<credits, trades>>
    BY <1>1 DEF StartRetire, Start
  <2>3. CallStands(u)'
    BY <2>1 DEF CallStands, TitleInv, CarbonTypeOK
  <2> HIDE DEF r
  <2>. QED BY <2>1, <2>2, <2>3, BeginsAlone
<1>2. ASSUME NEW c \in CreditId, Exists(credits[c]),
             NEW q \in {credits[c].quantity \div 2, credits[c].quantity}, StartList(u, c, q)
      PROVE  MarketHolds'
  <2> DEFINE r == [op |-> "list", credit |-> c, quantity |-> q]
  <2>1. c \in Issued
    BY <1>2 DEF Issued
  <2>2. q \in Nat
    <3>1. credits[c].quantity \in Nat
      BY <2>1, IssuedRow DEF TitleInv, CarbonCredit
    <3>. QED BY <3>1
  <2>3. r \in CarbonCall /\ call' = [call EXCEPT ![u] = r] /\ r.op = "list"
    BY <1>2, <2>2 DEF StartList, Start, CarbonCall
  <2>4. (\A v \in User : call[v] = CarbonIdle) /\ UNCHANGED <<credits, trades>>
    BY <1>2 DEF StartList, Start
  <2>5. CallStands(u)'
    BY <1>2, <2>3 DEF CallStands, StartList, Owns, TitleInv, CarbonTypeOK
  <2> HIDE DEF r
  <2>. QED BY <2>3, <2>4, <2>5, BeginsAlone
<1>3. ASSUME NEW t \in TradeId, Exists(trades[t]),
             NEW q \in {trades[t].quantity \div 2, trades[t].quantity}, StartPurchase(u, t, q)
      PROVE  MarketHolds'
  <2> DEFINE r == [op |-> "settle", trade |-> t, credit |-> trades[t].credit, quantity |-> q]
  <2>1. t \in Traded
    BY <1>3 DEF Traded
  <2>2. q \in Nat /\ trades[t].credit \in CreditId
    <3>1. trades[t].quantity \in Nat /\ trades[t].credit \in CreditId
      BY <2>1, TradedRow DEF TitleInv, CarbonTrade
    <3>. QED BY <3>1
  <2>3. r \in CarbonCall /\ call' = [call EXCEPT ![u] = r] /\ r.op = "settle"
    BY <1>3, <2>2 DEF StartPurchase, Start, CarbonCall
  <2>4. (\A v \in User : call[v] = CarbonIdle) /\ UNCHANGED <<credits, trades>>
    BY <1>3 DEF StartPurchase, Start
  <2>5. CallStands(u)'
    BY <1>3, <2>3 DEF CallStands, StartPurchase, TitleInv, CarbonTypeOK
  <2> HIDE DEF r
  <2>. QED BY <2>3, <2>4, <2>5, BeginsAlone
<1>. QED BY <1>1, <1>2, <1>3

\* Each step writes one credit at most, so that there are finitely many.
LEMMA OneMore ==
  ASSUME CarbonTypeOK, [CarbonNext]_carbonVars
  PROVE  \E c : Issued' \subseteq Issued \union {c}
<1> DEFINE Writes(c) == \A d \in CreditId : d # c => credits'[d] = credits[d]
<1>1. \E c : Writes(c)
  <2>1. ASSUME NEW u \in User, NEW req \in FootprintRequest, NEW c \in CreditId,
               GenerateCredit(u, req, c)
        PROVE  Writes(c)
    BY <2>1 DEF GenerateCredit, CarbonTypeOK
  <2>2. ASSUME NEW u \in User, Retire(u) \/ MarkListed(u) \/ Transfer(u)
        PROVE  Writes(call[u].credit)
    BY <2>2 DEF Retire, MarkListed, Transfer, CarbonTypeOK
  <2>3. UNCHANGED credits => \A c : Writes(c)
    OBVIOUS
  <2>4. ASSUME NEW u \in User, NEW c, NEW t, NEW q, NEW req,
               \/ CalculateFootprint(u, req) \/ StartRetire(u, c) \/ RequestVerification(u, c)
               \/ StartList(u, c, q) \/ InsertTrade(u, t) \/ StartPurchase(u, t, q)
               \/ Settle(u) \/ CutOff(u)
        PROVE  UNCHANGED credits
    BY <2>4 DEF CalculateFootprint, StartRetire, RequestVerification, StartList, InsertTrade,
         StartPurchase, Settle, CutOff
  <2>5. UNCHANGED carbonVars => UNCHANGED credits
    BY DEF carbonVars
  <2> HIDE DEF Writes
  <2>. QED BY <2>1, <2>2, <2>3, <2>4, <2>5 DEF CarbonNext
<1>. QED BY <1>1 DEF Issued

\* Sums over issued credits, and over two parts of them.
LEMMA TonnesOfParts ==
  ASSUME CarbonTypeOK, IsFiniteSet(Issued), NEW S \in SUBSET Issued,
         NEW A \in SUBSET S, NEW C \in SUBSET S, A \intersect C = {}
  PROVE  Tonnes(A) + Tonnes(C) <= Tonnes(S)
<1> DEFINE f == [c \in Issued |-> credits[c].quantity]
<1>1. \A c \in Issued : f[c] \in Nat /\ f[c] = credits[c].quantity
  BY IssuedRow DEF CarbonCredit
<1> HIDE DEF f
<1>2. \A c \in Issued : f[c] \in Int
  BY <1>1
<1>3. PICK g : SumsOf(g, f, Issued)
  BY <1>2, SumsExist
<1>4. ASSUME NEW U \in SUBSET Issued PROVE Tonnes(U) = g[U] /\ g[U] \in Nat
  <2> DEFINE Is(k) == k = [s \in SUBSET U |-> IF s = {} THEN 0
                             ELSE credits[CHOOSE x \in s : TRUE].quantity
                                    + k[s \ {CHOOSE x \in s : TRUE}]]
             k == CHOOSE k : Is(k)
  <2>1. ASSUME NEW j PROVE Adds(j, f, U) <=> Is(j)
    <3>1. \A s \in SUBSET U : s # {} => (CHOOSE x \in s : TRUE) \in U
      OBVIOUS
    <3>2. [s \in SUBSET U |-> IF s = {} THEN 0
                             ELSE credits[CHOOSE x \in s : TRUE].quantity
                                    + j[s \ {CHOOSE x \in s : TRUE}]]
          = [s \in SUBSET U |-> IF s = {} THEN 0
                             ELSE f[CHOOSE x \in s : TRUE] + j[s \ {CHOOSE x \in s : TRUE}]]
      BY <1>1, <3>1
    <3>. QED BY <3>2, Zenon DEF Adds
  <2>2. \E j : Is(j)
    <3>1. IsFiniteSet(U) /\ \A c \in U : f[c] \in Int
      BY <1>1, FS_Subset
    <3> HIDE DEF Is
    <3>2. \E j : SumsOf(j, f, U)
      BY <3>1, SumsExist
    <3>. QED BY <2>1, <3>2 DEF SumsOf
  <2>3. Adds(k, f, U)
    <3> HIDE DEF Is
    <3>. QED BY <2>1, <2>2
  <2>4. Tonnes(U) = k[U]
    BY DEF Tonnes, MapThenSumSet, MapThenFoldSet
  <2> HIDE DEF Is, k
  <2>5. U \in SUBSET U
    OBVIOUS
  <2>6. k[U] = g[U]
    BY <1>3, <2>3, <2>5, SameSums
  <2>7. g[U] \in Nat
    <3>1. \A c \in Issued : f[c] \in Nat
      BY <1>1
    <3>. QED BY <1>3, <3>1, SumsOfNaturals
  <2>. QED BY <2>4, <2>6, <2>7
<1>5. A \in SUBSET Issued /\ C \in SUBSET Issued /\ S \ (A \union C) \in SUBSET Issued
      /\ A \union C \in SUBSET Issued
  OBVIOUS
<1>6. g[A \union C] = g[A] + g[C]
  BY <1>3, <1>5, SumsOfParts
<1>7. g[(A \union C) \union (S \ (A \union C))] = g[A \union C] + g[S \ (A \union C)]
  <2> DEFINE B == A \union C
             D == S \ (A \union C)
  <2>1. B \in SUBSET Issued /\ D \in SUBSET Issued /\ B \intersect D = {}
    OBVIOUS
  <2> HIDE DEF B, D
  <2>2. g[B \union D] = g[B] + g[D]
    BY <1>3, <2>1, SumsOfParts
  <2>. QED BY <2>2 DEF B, D
<1>8. (A \union C) \union (S \ (A \union C)) = S
  OBVIOUS
<1>9. /\ Tonnes(A) = g[A] /\ Tonnes(C) = g[C] /\ Tonnes(S) = g[S]
      /\ g[A] \in Nat /\ g[C] \in Nat /\ g[S \ (A \union C)] \in Nat
  BY <1>4, <1>5
<1>10. g[S] = (g[A] + g[C]) + g[S \ (A \union C)]
  BY <1>6, <1>7, <1>8
<1>. QED BY <1>9, <1>10

\* Overlaps are not forgotten.
LEMMA SerialWas ==
  ASSUME [CarbonNext]_carbonVars, serial'
  PROVE  serial
<1>1. ASSUME NEW u \in User, NEW req \in FootprintRequest,
             CalculateFootprint(u, req) \/ \E c \in CreditId : GenerateCredit(u, req, c)
      PROVE  serial
  BY <1>1 DEF CalculateFootprint, GenerateCredit
<1>2. ASSUME NEW u \in User, NEW c \in CreditId, StartRetire(u, c) \/ RequestVerification(u, c)
      PROVE  serial
  BY <1>2 DEF StartRetire, Start, RequestVerification
<1>3. ASSUME NEW u \in User, NEW c \in CreditId, NEW q, StartList(u, c, q) PROVE serial
  BY <1>3 DEF StartList, Start
<1>4. ASSUME NEW u \in User, NEW t \in TradeId, NEW q, InsertTrade(u, t) \/ StartPurchase(u, t, q)
      PROVE  serial
  BY <1>4 DEF InsertTrade, StartPurchase, Start
<1>5. ASSUME NEW u \in User, Retire(u) \/ MarkListed(u) \/ Settle(u) \/ Transfer(u) \/ CutOff(u)
      PROVE  serial
  BY <1>5 DEF Retire, MarkListed, Settle, Transfer, CutOff, CarbonReturn
<1>6. CASE UNCHANGED carbonVars
  BY <1>6 DEF carbonVars
<1>. QED BY <1>1, <1>2, <1>3, <1>4, <1>5, <1>6 DEF CarbonNext

(***************************************************************************)
(* As long as no calls overlapped and none was cut off, the two tables     *)
(* agree between calls, for any number of users, credits and trades; the   *)
(* sums are over finitely many credits because each step issues one at     *)
(* most (create_listing, execute_trade, retire_credit, generate_report).   *)
(***************************************************************************)
THEOREM SerialMarket == CarbonSpec => []SerialMarketAgrees
<1>1. CarbonInit => MarketInv
  <2> SUFFICES ASSUME CarbonInit PROVE MarketInv
    OBVIOUS
  <2>1. Issued = {} /\ Traded = {}
    BY DEF CarbonInit, Issued, Traded, Exists
  <2>2. \A u \in User : call[u] = CarbonIdle
    BY DEF CarbonInit
  <2>3. \A u \in User : CallStands(u)
    BY <2>2 DEF CallStands, CarbonIdle
  <2>. QED BY <2>1, <2>2, <2>3, FS_EmptySet DEF MarketInv, MarketHolds, OneCall, OneTrade
<1>2. TitleInv /\ TitleInv' /\ MarketInv /\ [CarbonNext]_carbonVars => MarketInv'
  <2> SUFFICES ASSUME TitleInv, TitleInv', MarketInv, [CarbonNext]_carbonVars PROVE MarketInv'
    OBVIOUS
  <2>1. IsFiniteSet(Issued')
    <3>1. PICK c : Issued' \subseteq Issued \union {c}
      BY OneMore DEF TitleInv
    <3>2. IsFiniteSet(Issued \union {c})
      BY FS_AddElement DEF MarketInv
    <3>. QED BY <3>1, <3>2, FS_Subset
  <2>2. ASSUME serial' PROVE MarketHolds'
    <3>0. serial
      BY <2>2, SerialWas
    <3>1. MarketHolds
      BY <3>0 DEF MarketInv
    <3>2. ASSUME UNCHANGED <<credits, trades, call>> PROVE MarketHolds'
      BY <3>1, <3>2 DEF MarketHolds, OneCall, OneTrade, CallStands, CreditStands, About, Offered,
         Bought, Issued, Traded
    <3>3. ASSUME NEW u \in User, NEW req \in FootprintRequest, CalculateFootprint(u, req)
          PROVE  MarketHolds'
      BY <3>2, <3>3 DEF CalculateFootprint
    <3>4. ASSUME NEW u \in User, NEW c \in CreditId, RequestVerification(u, c)
          PROVE  MarketHolds'
      BY <3>2, <3>4 DEF RequestVerification
    <3>5. ASSUME NEW u \in User, CutOff(u) PROVE MarketHolds'
      BY <2>2, <3>5 DEF CutOff
    <3>6. CASE UNCHANGED carbonVars
      BY <3>2, <3>6 DEF carbonVars
    <3>. QED BY <2>2, <3>1, <3>3, <3>4, <3>5, <3>6, GenerateKeepsMarket, StartsKeepMarket,
           InsertKeepsMarket, SettleKeepsMarket, TransferKeepsMarket, RetireKeepsMarket,
           MarkKeepsMarket DEF CarbonNext
  <2>. QED BY <2>1, <2>2 DEF MarketInv
<1>3. TitleInv /\ MarketInv => SerialMarketAgrees
  <2> SUFFICES ASSUME TitleInv, MarketInv, serial, \A u \in User : call[u] = CarbonIdle
               PROVE  SerialMarketAgrees
    BY DEF SerialMarketAgrees
  <2>1. OneTrade /\ \A c \in Issued : CreditStands(c)
    BY DEF MarketInv, MarketHolds
  <2>2. \A op \in {"mark", "transfer"} : \A c \in Issued : ~About(op, c)
    BY DEF About, CarbonIdle
  <2>3. \A c \in Issued : /\ credits[c].status = "listed" => Offered(c)
                          /\ credits[c].status = "sold" => Bought(c)
    BY <2>1, <2>2 DEF CreditStands
  <2>4. MarketSummary.listed + MarketSummary.sold <= MarketSummary.available
    <3> DEFINE S == Issued \ (Holding("retired") \union Holding("cancelled"))
    <3>1. /\ S \in SUBSET Issued /\ Holding("listed") \in SUBSET S /\ Holding("sold") \in SUBSET S
          /\ Holding("listed") \intersect Holding("sold") = {}
      BY DEF Holding
    <3> HIDE DEF S
    <3>2. Tonnes(Holding("listed")) + Tonnes(Holding("sold")) <= Tonnes(S)
      BY <3>1, TonnesOfParts DEF TitleInv, MarketInv
    <3>. QED BY <3>2 DEF MarketSummary, S
  <2>5. ASSUME NEW u \in User PROVE ReportOf(u).retired + ReportOf(u).sold <= ReportOf(u).generated
    <3> DEFINE S == {c \in Issued : credits[c].owner = u}
               A == S \intersect Holding("retired")
               C == S \intersect Holding("sold")
    <3>1. S \in SUBSET Issued /\ A \in SUBSET S /\ C \in SUBSET S /\ A \intersect C = {}
      BY DEF Holding
    <3>2. ReportOf(u).retired = Tonnes(A) /\ ReportOf(u).sold = Tonnes(C)
          /\ ReportOf(u).generated = Tonnes(S)
      BY DEF ReportOf
    <3> HIDE DEF S, A, C
    <3>3. Tonnes(A) + Tonnes(C) <= Tonnes(S)
      BY <3>1, TonnesOfParts DEF TitleInv, MarketInv
    <3>. QED BY <3>2, <3>3
  <2>. QED BY <2>1, <2>3, <2>4, <2>5 DEF SerialMarketAgrees, OneTrade, Offered, Bought
<1>4. CarbonSpec => []TitleInv
  BY TitleInvariant
<1>. QED BY <1>1, <1>2, <1>3, <1>4, PTL DEF CarbonSpec

--------------------------------------------------------------------------------
(***************************************************************************)
(* Access.                                                                 *)
(***************************************************************************)

AnyRole == Roles \union {"administrator"}
AccessRequest ==
  [at : {"key", "user", "used", "run", "revoke", "insert"},
   op : TokenOperations \union KeyOperations, user : UserId, key : KeyId \union {NoRow},
   role : AnyRole \union {"none"}, old : KeyRows \union {NoRow}, rights : SUBSET AnyRole,
   usable : BOOLEAN]

AccessTypeOK ==
  /\ users \in [UserId -> UserRows \union {NoRow}]
  /\ keys \in [KeyId -> KeyRows \union {NoRow}]
  /\ tokens \subseteq [sub : UserId, exp : Int, role : AnyRole]
  /\ inHand \in [Session -> AccessRequest \union {Idle}]
  /\ day \in Int /\ calls \in Int

\* Tokens and keys are of users that are registered.
AccountsKnown ==
  /\ \A t \in tokens : users[t.sub] # NoRow
  /\ \A k \in KeyId : keys[k] # NoRow => users[keys[k].user] # NoRow

\* What holds of a request at each of its steps.
RequestHolds(r) ==
  /\ users[r.user] # NoRow /\ RightsOf(r.user) \subseteq r.rights
  /\ r.key # NoRow => keys[r.key] # NoRow
  /\ r.at = "key" => r.key # NoRow /\ (Usable(r.key) => r.usable)
  /\ r.at # "key" => r.usable
  /\ r.at = "used" => r.key # NoRow
  /\ r.at \in {"used", "run", "revoke", "insert"} => r.role \in r.rights
  /\ r.at \in {"run", "revoke", "insert"} => r.role \in AllowedRoles(r.op.kind)
  /\ r.at = "revoke" => /\ r.op \in [kind : {"revoke", "rotate"}, key : KeyId]
                        /\ keys[r.op.key] # NoRow
  /\ r.at \in {"revoke", "insert"} => r.old \in KeyRows

RequestsHold == \A s \in Session : inHand[s] = Idle \/ RequestHolds(inHand[s])

AccessInv == AccessTypeOK /\ AccountsKnown /\ RequestsHold

\* What no step but update_user undoes: rows stay, no key becomes usable again,
\* no user gets another role.
RightsShrink ==
  /\ \A u \in UserId : users[u] # NoRow => users'[u] # NoRow /\ RightsOf(u)' \subseteq RightsOf(u)
  /\ \A k \in KeyId : keys[k] # NoRow => keys'[k] # NoRow /\ (Usable(k)' => Usable(k))

LEMMA RequestStays ==
  ASSUME RightsShrink, NEW r \in AccessRequest, RequestHolds(r)
  PROVE  RequestHolds(r)'
<1>1. r.user \in UserId /\ r.key \in KeyId \union {NoRow}
  BY DEF AccessRequest
<1>2. r.op \in [kind : {"revoke", "rotate"}, key : KeyId] => r.op.key \in KeyId
  OBVIOUS
<1> QED
  BY <1>1, <1>2 DEF RightsShrink, RequestHolds

\* A request that is not idle is of its type.
LEMMA InHandRequest ==
  ASSUME AccessInv, NEW s \in Session, inHand[s].at # "idle"
  PROVE  inHand[s] \in AccessRequest /\ RequestHolds(inHand[s])
BY DEF AccessInv, AccessTypeOK, RequestsHold, Idle

\* A step of one session's request.
LEMMA RequestMoves ==
  ASSUME AccessInv, RightsShrink, NEW s \in Session, NEW r,
         inHand' = [inHand EXCEPT ![s] = r],
         r = Idle \/ (r \in AccessRequest /\ RequestHolds(r)'),
         users' \in [UserId -> UserRows \union {NoRow}],
         keys' \in [KeyId -> KeyRows \union {NoRow}],
         tokens' \subseteq [sub : UserId, exp : Int, role : AnyRole],
         AccountsKnown', day' = day, calls' \in Int
  PROVE  AccessInv'
<1>1. AccessTypeOK'
  BY DEF AccessInv, AccessTypeOK
<1>2. \A x \in Session : inHand'[x] = IF x = s THEN r ELSE inHand[x]
  BY DEF AccessInv, AccessTypeOK
<1>3. ASSUME NEW x \in Session PROVE (inHand[x] = Idle \/ RequestHolds(inHand[x]))'
  <2>1. PICK y : y = inHand'[x]
    OBVIOUS
  <2>2. y = Idle \/ RequestHolds(y)'
    <3>1. CASE x = s
      BY <1>2, <2>1, <3>1
    <3>2. CASE x # s /\ inHand[x] # Idle
      <4>1. inHand[x] \in AccessRequest /\ RequestHolds(inHand[x])
        BY <3>2 DEF AccessInv, AccessTypeOK, RequestsHold
      <4>2. y \in AccessRequest /\ RequestHolds(y)
        BY <1>2, <2>1, <3>2, <4>1
      <4> QED
        BY <4>2, RequestStays
    <3> QED
      BY <1>2, <2>1, <3>1, <3>2
  <2> QED
    BY <2>1, <2>2 DEF RequestHolds
<1>4. RequestsHold'
  BY <1>3 DEF RequestsHold
<1> QED
  BY <1>1, <1>4 DEF AccessInv

\* Where users and keys stay, rights do.
LEMMA NothingLost ==
  ASSUME UNCHANGED <<users, keys, day>>
  PROVE  RightsShrink
BY DEF RightsShrink, RightsOf, Usable, Expired

\* One key gets a row that is no more usable than the one it had, or its first.
LEMMA KeySet ==
  ASSUME AccessInv, NEW k \in KeyId, NEW row \in KeyRows,
         keys' = [keys EXCEPT ![k] = row], users' = users, day' = day, tokens' = tokens,
         users[row.user] # NoRow,
         keys[k] # NoRow => /\ row.active => keys[k].active
                            /\ row.expires = keys[k].expires
  PROVE  /\ RightsShrink /\ AccountsKnown'
         /\ keys' \in [KeyId -> KeyRows \union {NoRow}]
<1>1. keys \in [KeyId -> KeyRows \union {NoRow}]
  BY DEF AccessInv, AccessTypeOK
<1>2. /\ keys' \in [KeyId -> KeyRows \union {NoRow}]
      /\ \A j \in KeyId : keys'[j] = IF j = k THEN row ELSE keys[j]
  BY <1>1
<1>3. row # NoRow
  BY AccessAssumption
<1>4. RightsShrink
  <2>1. \A u \in UserId : users[u] # NoRow => users'[u] # NoRow /\ RightsOf(u)' \subseteq RightsOf(u)
    BY DEF RightsOf
  <2>2. ASSUME NEW j \in KeyId, keys[j] # NoRow
        PROVE  keys'[j] # NoRow /\ (Usable(j)' => Usable(j))
    BY <1>2, <1>3, <2>2 DEF Usable, Expired
  <2> QED
    BY <2>1, <2>2 DEF RightsShrink
<1>5. AccountsKnown'
  BY <1>2 DEF AccountsKnown, AccessInv
<1> QED
  BY <1>2, <1>4, <1>5

\* A step of a request that only reads.
LEMMA ReadingMoves ==
  ASSUME AccessInv, NEW s \in Session, NEW r, Become(s, r),
         r = Idle \/ (r \in AccessRequest /\ RequestHolds(r)),
         UNCHANGED <<users, keys, tokens, day>>, calls' \in Int
  PROVE  AccessInv'
<1>1. RightsShrink
  BY NothingLost
<1>2. AccountsKnown'
  BY DEF AccountsKnown, AccessInv
<1>3. r = Idle \/ (r \in AccessRequest /\ RequestHolds(r)')
  BY <1>1, RequestStays
<1> QED
  BY <1>1, <1>2, <1>3, RequestMoves DEF Become, AccessInv, AccessTypeOK

LEMMA FinishKeeps ==
  ASSUME AccessInv, NEW s \in Session, Finish(s), UNCHANGED <<users, keys, tokens, day, calls>>
  PROVE  AccessInv'
BY ReadingMoves DEF Finish, AccessInv, AccessTypeOK

\* A user that has a row has, of roles, its own or none.
LEMMA RightsType ==
  ASSUME AccessInv, NEW u \in UserId
  PROVE  /\ RightsOf(u) \in SUBSET AnyRole
         /\ users[u] # NoRow => users[u] \in UserRows
BY DEF AccessInv, AccessTypeOK, RightsOf, UserRows, AnyRole

LEMMA TokenArrives ==
  ASSUME AccessInv, NEW s \in Session, NEW t \in tokens, NEW op \in TokenOperations,
         CallWithToken(s, t, op)
  PROVE  AccessInv'
<1> DEFINE r == [at |-> "user", op |-> op, user |-> t.sub, key |-> NoRow, role |-> t.role, old |-> NoRow,
                 rights |-> RightsOf(t.sub), usable |-> NoRow = NoRow \/ Usable(NoRow)]
<1>1. t.sub \in UserId /\ t.role \in AnyRole /\ users[t.sub] # NoRow
  BY DEF AccessInv, AccessTypeOK, AccountsKnown
<1>2. /\ Become(s, r) /\ calls' = calls + 1
      /\ UNCHANGED <<users, keys, tokens, day>>
  BY DEF CallWithToken, Arrive
<1>3. r \in AccessRequest
  BY <1>1, RightsType DEF AccessRequest
<1>4. RequestHolds(r)
  BY <1>1 DEF RequestHolds
<1> QED
  BY <1>2, <1>3, <1>4, ReadingMoves DEF AccessInv, AccessTypeOK

LEMMA KeyArrives ==
  ASSUME AccessInv, NEW s \in Session, NEW k \in KeyId, NEW op \in KeyOperations,
         CallWithKey(s, k, op)
  PROVE  AccessInv'
<1> DEFINE u == keys[k].user
           r == [at |-> "key", op |-> op, user |-> u, key |-> k, role |-> "none", old |-> NoRow,
                 rights |-> RightsOf(u), usable |-> k = NoRow \/ Usable(k)]
<1>1. k # NoRow /\ keys[k] # NoRow
  BY AccessAssumption DEF CallWithKey
<1>2. u \in UserId /\ users[u] # NoRow
  BY <1>1 DEF AccessInv, AccessTypeOK, AccountsKnown, KeyRows
<1>3. /\ Become(s, r) /\ calls' = calls + 1
      /\ UNCHANGED <<users, keys, tokens, day>>
  BY DEF CallWithKey, Arrive
<1>4. r \in AccessRequest
  BY <1>2, RightsType DEF AccessRequest
<1>5. RequestHolds(r)
  BY <1>1, <1>2 DEF RequestHolds
<1> QED
  BY <1>3, <1>4, <1>5, ReadingMoves DEF AccessInv, AccessTypeOK

\* A request moves on with its fields as they are.
LEMMA AdvanceHolds ==
  ASSUME NEW r \in AccessRequest, RequestHolds(r), r.usable,
         NEW at \in {"user", "run", "insert"}, NEW q, q = [r EXCEPT !.at = at],
         at \in {"run", "insert"} => r.role \in r.rights /\ r.role \in AllowedRoles(r.op.kind),
         at = "insert" => r.old \in KeyRows
  PROVE  q \in AccessRequest /\ RequestHolds(q)
<1>1. /\ q \in AccessRequest /\ q.at = at
      /\ q.op = r.op /\ q.user = r.user /\ q.key = r.key /\ q.role = r.role
      /\ q.old = r.old /\ q.rights = r.rights /\ q.usable = r.usable
  BY DEF AccessRequest
<1> QED
  BY <1>1 DEF RequestHolds

LEMMA LookUpKeyKeeps ==
  ASSUME AccessInv, NEW s \in Session, LookUpKey(s)
  PROVE  AccessInv'
<1>1. inHand[s] \in AccessRequest /\ RequestHolds(inHand[s]) /\ inHand[s].at = "key"
  BY InHandRequest DEF LookUpKey
<1>2. CASE Usable(inHand[s].key)
  <2>1. PICK q : q = [inHand[s] EXCEPT !.at = "user"]
    OBVIOUS
  <2>2. q \in AccessRequest /\ RequestHolds(q)
    <3>1. inHand[s].usable
      BY <1>1, <1>2 DEF RequestHolds
    <3> QED
      BY <1>1, <2>1, <3>1, AdvanceHolds
  <2> QED
    BY <1>2, <2>1, <2>2, ReadingMoves DEF LookUpKey, Advance, AccessInv, AccessTypeOK
<1>3. CASE ~Usable(inHand[s].key)
  BY <1>3, FinishKeeps DEF LookUpKey
<1> QED
  BY <1>2, <1>3

\* LoadUser takes the role from the row of an active user: it is among the
\* rights the user has now.
LEMMA LoadUserKeeps ==
  ASSUME AccessInv, NEW s \in Session, LoadUser(s)
  PROVE  AccessInv'
<1>1. inHand[s] \in AccessRequest /\ RequestHolds(inHand[s]) /\ inHand[s].at = "user"
  BY InHandRequest DEF LoadUser
<1>2. PICK r : r = inHand[s]
  OBVIOUS
<1>3. r.user \in UserId
  BY <1>1, <1>2 DEF AccessRequest
<1>4. CASE Finish(s)
  BY <1>4, FinishKeeps DEF LoadUser
<1>5. CASE ~Finish(s)
  <2>1. PICK role, at :
          /\ users[r.user] # NoRow /\ users[r.user].active /\ role = users[r.user].role
          /\ at = IF r.key = NoRow THEN "run" ELSE "used"
          /\ r.key = NoRow => role \in AllowedRoles(r.op.kind)
          /\ Become(s, [r EXCEPT !.at = at, !.role = role])
    BY <1>2, <1>5 DEF LoadUser, ContextRole
  <2>2. role \in AnyRole /\ role \in r.rights
    <3>1. role \in AnyRole
      BY <1>3, <2>1, RightsType DEF UserRows, AnyRole
    <3>2. RightsOf(r.user) = {role}
      BY <2>1 DEF RightsOf
    <3> QED
      BY <1>1, <1>2, <3>1, <3>2 DEF RequestHolds
  <2>3. PICK q : q = [r EXCEPT !.at = at, !.role = role]
    OBVIOUS
  <2>4. /\ q \in AccessRequest /\ q.at = at /\ q.role = role
        /\ q.op = r.op /\ q.user = r.user /\ q.key = r.key
        /\ q.old = r.old /\ q.rights = r.rights /\ q.usable = r.usable
    BY <1>1, <1>2, <2>1, <2>2, <2>3 DEF AccessRequest
  <2>5. RequestHolds(q)
    BY <1>1, <1>2, <2>1, <2>2, <2>4 DEF RequestHolds
  <2> QED
    BY <2>1, <2>3, <2>4, <2>5, ReadingMoves DEF LoadUser, AccessInv, AccessTypeOK
<1> QED
  BY <1>4, <1>5

LEMMA UpdateLastUsedKeeps ==
  ASSUME AccessInv, NEW s \in Session, UpdateLastUsed(s)
  PROVE  AccessInv'
<1>1. inHand[s] \in AccessRequest /\ RequestHolds(inHand[s]) /\ inHand[s].at = "used"
  BY InHandRequest DEF UpdateLastUsed
<1>2. PICK r : r = inHand[s]
  OBVIOUS
<1>3. r.key \in KeyId /\ keys[r.key] \in KeyRows /\ keys[r.key] # NoRow
  BY <1>1, <1>2 DEF AccessRequest, RequestHolds, AccessInv, AccessTypeOK
<1>4. /\ RightsShrink /\ AccountsKnown'
      /\ keys' \in [KeyId -> KeyRows \union {NoRow}]
  <2>1. CASE keys' = [keys EXCEPT ![r.key].lastUsed = day]
    <3>1. PICK row : row = [keys[r.key] EXCEPT !.lastUsed = day]
      OBVIOUS
    <3>2. /\ row \in KeyRows /\ row.user = keys[r.key].user
          /\ row.active = keys[r.key].active /\ row.expires = keys[r.key].expires
      BY <1>3, <3>1 DEF KeyRows, AccessInv, AccessTypeOK
    <3>3. keys' = [keys EXCEPT ![r.key] = row]
      BY <2>1, <3>1
    <3>4. users[row.user] # NoRow
      BY <1>3, <3>2 DEF AccessInv, AccountsKnown
    <3> QED
      BY <1>3, <3>2, <3>3, <3>4, KeySet DEF UpdateLastUsed
  <2>2. CASE keys' = keys
    BY <2>2, NothingLost DEF UpdateLastUsed, AccessInv, AccessTypeOK, AccountsKnown
  <2> QED
    BY <1>2, <2>1, <2>2 DEF UpdateLastUsed
<1>5. PICK q : /\ inHand' = [inHand EXCEPT ![s] = q]
               /\ q = Idle \/ (q = [r EXCEPT !.at = "run"] /\ r.role \in AllowedRoles(r.op.kind))
  BY <1>2 DEF UpdateLastUsed, Advance, Finish, Become
<1>6. q = Idle \/ (q \in AccessRequest /\ RequestHolds(q)')
  <2>1. CASE q # Idle
    <3>1. q = [r EXCEPT !.at = "run"] /\ r.role \in AllowedRoles(r.op.kind)
      BY <1>5, <2>1
    <3>2. r \in AccessRequest /\ RequestHolds(r) /\ r.usable /\ r.role \in r.rights
      BY <1>1, <1>2 DEF RequestHolds
    <3>3. q \in AccessRequest /\ RequestHolds(q)
      BY <3>1, <3>2, AdvanceHolds
    <3> QED
      BY <1>4, <3>3, RequestStays
  <2> QED
    BY <2>1
<1> QED
  BY <1>4, <1>5, <1>6, RequestMoves DEF UpdateLastUsed, AccessInv, AccessTypeOK

LEMMA AnswerKeeps ==
  ASSUME AccessInv, NEW s \in Session, Answer(s) \/ Fails(s)
  PROVE  AccessInv'
BY FinishKeeps DEF Answer, Fails

\* A step of a request that ends it, and gives one key a row.
LEMMA KeyStored ==
  ASSUME AccessInv, NEW s \in Session, NEW k \in KeyId, NEW row \in KeyRows,
         NEW q, q = Idle \/ (q \in AccessRequest /\ RequestHolds(q)),
         inHand' = [inHand EXCEPT ![s] = q],
         keys' = [keys EXCEPT ![k] = row], UNCHANGED <<users, tokens, day, calls>>,
         users[row.user] # NoRow,
         keys[k] # NoRow => /\ row.active => keys[k].active
                            /\ row.expires = keys[k].expires
  PROVE  AccessInv'
<1>1. /\ RightsShrink /\ AccountsKnown'
      /\ keys' \in [KeyId -> KeyRows \union {NoRow}]
  BY KeySet
<1>2. q = Idle \/ (q \in AccessRequest /\ RequestHolds(q)')
  BY <1>1, RequestStays
<1> QED
  BY <1>1, <1>2, RequestMoves DEF AccessInv, AccessTypeOK

\* The rows create_key and rotate_key insert.
LEMMA NewKeysKeep ==
  ASSUME AccessInv, NEW s \in Session, NEW k \in KeyId, CreateKey(s, k) \/ RotateKey(s, k)
  PROVE  AccessInv'
<1>1. PICK r : r = inHand[s]
  OBVIOUS
<1>2. r \in AccessRequest /\ RequestHolds(r)
  BY <1>1, InHandRequest DEF CreateKey, RotateKey, Running
<1>3. r.user \in UserId /\ users[r.user] # NoRow
  BY <1>2 DEF AccessRequest, RequestHolds
<1>4. ASSUME NEW tier \in Tiers, NEW limit \in Nat, NEW expires \in Expiries,
             keys' = [keys EXCEPT ![k] = ApiKey(r.user, tier, limit, expires)],
             keys[k] = NoRow, Finish(s), UNCHANGED <<users, tokens, day, calls>>
      PROVE  AccessInv'
  <2>1. PICK row : row = ApiKey(r.user, tier, limit, expires)
    OBVIOUS
  <2>2. row \in KeyRows /\ row.user = r.user
    BY <1>3, <1>4, <2>1 DEF ApiKey, KeyRows, Never
  <2> QED
    BY <1>3, <1>4, <2>1, <2>2, KeyStored DEF Finish, Become
<1>5. CASE CreateKey(s, k)
  <2>1. r.op \in [kind : {"create"}, tier : Tiers, expires : Expiries]
    <3>1. r.op \in TokenOperations \union KeyOperations /\ r.op.kind = "create"
      BY <1>1, <1>2, <1>5 DEF AccessRequest, CreateKey, Running
    <3> QED
      BY <3>1 DEF TokenOperations, KeyOperations
  <2>2. r.op.tier \in Tiers /\ r.op.expires \in Expiries /\ TierLimit[r.op.tier] \in Nat
    BY <2>1, AccessAssumption
  <2> QED
    BY <1>1, <1>4, <1>5, <2>2 DEF CreateKey
<1>6. CASE RotateKey(s, k)
  <2>1. r.old \in KeyRows
    BY <1>1, <1>2, <1>6 DEF RotateKey, RequestHolds
  <2>2. r.old.tier \in Tiers /\ r.old.limit \in Nat /\ r.old.expires \in Expiries
    BY <2>1 DEF KeyRows
  <2> QED
    BY <1>1, <1>4, <1>6, <2>2 DEF RotateKey, RotatedKey
<1> QED
  BY <1>5, <1>6

\* get_key of revoke_key and rotate_key: the key the request names has a row.
LEMMA GetOwnKeyKeeps ==
  ASSUME AccessInv, NEW s \in Session, GetOwnKey(s)
  PROVE  AccessInv'
<1>1. PICK r : r = inHand[s]
  OBVIOUS
<1>2. /\ r \in AccessRequest /\ RequestHolds(r) /\ r.at = "run"
      /\ r.op.kind \in {"revoke", "rotate"}
  BY <1>1, InHandRequest DEF GetOwnKey, Running
<1>3. r.op \in [kind : {"revoke", "rotate"}, key : KeyId]
  <2>1. r.op \in TokenOperations \union KeyOperations
    BY <1>2 DEF AccessRequest
  <2> QED
    BY <1>2, <2>1 DEF TokenOperations, KeyOperations
<1>4. CASE Finish(s)
  BY <1>4, FinishKeeps DEF GetOwnKey
<1>5. CASE ~Finish(s)
  <2>1. /\ keys[r.op.key] # NoRow
        /\ Become(s, [r EXCEPT !.at = "revoke", !.old = keys[r.op.key]])
    BY <1>1, <1>5 DEF GetOwnKey
  <2>2. PICK row \in KeyRows : row = keys[r.op.key]
    BY <1>3, <2>1 DEF AccessInv, AccessTypeOK
  <2>3. PICK q : q = [r EXCEPT !.at = "revoke", !.old = row]
    OBVIOUS
  <2>4. /\ q \in AccessRequest /\ q.at = "revoke" /\ q.old = row
        /\ q.op = r.op /\ q.user = r.user /\ q.key = r.key
        /\ q.role = r.role /\ q.rights = r.rights /\ q.usable = r.usable
    BY <1>2, <2>3 DEF AccessRequest
  <2>5. RequestHolds(q)
    BY <1>2, <1>3, <2>1, <2>4 DEF RequestHolds
  <2> QED
    BY <2>1, <2>2, <2>3, <2>4, <2>5, ReadingMoves DEF GetOwnKey, AccessInv, AccessTypeOK
<1> QED
  BY <1>4, <1>5

LEMMA RevokeKeyKeeps ==
  ASSUME AccessInv, NEW s \in Session, RevokeKey(s)
  PROVE  AccessInv'
<1>1. PICK r : r = inHand[s]
  OBVIOUS
<1>2. r \in AccessRequest /\ RequestHolds(r) /\ r.at = "revoke"
  BY <1>1, InHandRequest DEF RevokeKey
<1>3. PICK k \in KeyId : k = r.op.key /\ keys[k] # NoRow
  BY <1>2 DEF RequestHolds
<1>4. keys[k] \in KeyRows
  BY <1>3 DEF AccessInv, AccessTypeOK
<1>5. PICK row : row = [keys[k] EXCEPT !.active = FALSE]
  OBVIOUS
<1>6. /\ row \in KeyRows /\ row.user = keys[k].user
      /\ ~row.active /\ row.expires = keys[k].expires
  BY <1>4, <1>5 DEF KeyRows
<1>7. keys' = [keys EXCEPT ![k] = row]
  BY <1>1, <1>3, <1>5 DEF RevokeKey
<1>8. users[row.user] # NoRow
  BY <1>3, <1>6 DEF AccessInv, AccountsKnown
<1>9. CASE Finish(s)
  <2>1. inHand' = [inHand EXCEPT ![s] = Idle] /\ UNCHANGED <<users, tokens, day, calls>>
    BY <1>9 DEF RevokeKey, Finish, Become
  <2> QED
    BY <1>6, <1>7, <1>8, <2>1, KeyStored
<1>10. CASE ~Finish(s)
  <2>1. PICK q : q = [r EXCEPT !.at = "insert"]
    OBVIOUS
  <2>2. inHand' = [inHand EXCEPT ![s] = q]
    BY <1>1, <1>10, <2>1 DEF RevokeKey, Advance, Become
  <2>3. /\ r.usable /\ r.role \in r.rights /\ r.role \in AllowedRoles(r.op.kind)
        /\ r.old \in KeyRows
    BY <1>2 DEF RequestHolds
  <2>4. q \in AccessRequest /\ RequestHolds(q)
    BY <1>2, <2>1, <2>3, AdvanceHolds
  <2> QED
    BY <1>6, <1>7, <1>8, <2>2, <2>4, KeyStored DEF RevokeKey
<1> QED
  BY <1>9, <1>10

\* The rows register and update_user write are rows.
LEMMA NewUserRow ==
  ASSUME NEW active \in BOOLEAN, NEW role \in AnyRole
  PROVE  LET row == [active |-> active, role |-> role]
         IN row \in UserRows /\ row # NoRow
<1>1. [active |-> active, role |-> role] \in UserRows
  BY DEF UserRows, AnyRole
<1> QED
  BY <1>1, AccessAssumption

\* One user gets a row; the rights of a user that had one do not grow.
LEMMA RegisterKeeps ==
  ASSUME AccessInv, NEW s \in Session, Register(s)
  PROVE  AccessInv'
<1>1. PICK r : r = inHand[s]
  OBVIOUS
<1>2. r \in AccessRequest /\ r.op.kind = "register"
  BY <1>1, InHandRequest DEF Register, Running
<1>3. r.op.user \in UserId /\ r.op.role \in Roles
  <2>1. r.op \in TokenOperations \union KeyOperations
    BY <1>2 DEF AccessRequest
  <2>2. r.op \in [kind : {"register"}, user : UserId, role : Roles]
    BY <1>2, <2>1 DEF TokenOperations, KeyOperations
  <2> QED
    BY <2>2
<1>4. PICK u, row : u = r.op.user /\ row = [active |-> TRUE, role |-> r.op.role]
  OBVIOUS
<1>5. u \in UserId /\ row \in UserRows /\ row # NoRow
  BY <1>3, <1>4, NewUserRow DEF AnyRole
<1>6. /\ users' \in [UserId -> UserRows \union {NoRow}]
      /\ \A x \in UserId : users'[x] = IF x = u /\ users[x] = NoRow THEN row ELSE users[x]
  <2>1. users' = [users EXCEPT ![u] = IF users[u] = NoRow THEN row ELSE users[u]]
    BY <1>1, <1>4 DEF Register
  <2> QED
    BY <1>5, <2>1 DEF AccessInv, AccessTypeOK
<1>7. Become(s, Idle) /\ UNCHANGED <<keys, tokens, day, calls>>
  BY DEF Register, Finish
<1>8. RightsShrink
  <2>1. \A x \in UserId : users[x] # NoRow => users'[x] # NoRow /\ RightsOf(x)' \subseteq RightsOf(x)
    BY <1>6 DEF RightsOf
  <2>2. \A k \in KeyId : keys[k] # NoRow => keys'[k] # NoRow /\ (Usable(k)' => Usable(k))
    BY <1>7 DEF Usable, Expired
  <2> QED
    BY <2>1, <2>2 DEF RightsShrink
<1>9. AccountsKnown'
  <2>1. \A x \in UserId : users[x] # NoRow => users'[x] # NoRow
    BY <1>6
  <2>2. \A t \in tokens : t.sub \in UserId
    BY DEF AccessInv, AccessTypeOK
  <2>3. \A k \in KeyId : keys[k] # NoRow => keys[k].user \in UserId
    BY DEF AccessInv, AccessTypeOK, KeyRows
  <2> QED
    BY <1>7, <2>1, <2>2, <2>3 DEF AccountsKnown, AccessInv
<1> QED
  BY <1>6, <1>7, <1>8, <1>9, RequestMoves DEF Become, AccessInv, AccessTypeOK

LEMMA LoginKeeps ==
  ASSUME AccessInv, NEW s \in Session, Login(s)
  PROVE  AccessInv'
<1>1. PICK u : u = inHand[s].op.user
  OBVIOUS
<1>2. inHand[s] \in AccessRequest /\ inHand[s].op.kind = "login"
  BY InHandRequest DEF Login, Running
<1>3. u \in UserId
  <2>1. inHand[s].op \in TokenOperations \union KeyOperations
    BY <1>2 DEF AccessRequest
  <2>2. inHand[s].op \in [kind : {"login"}, user : UserId]
    BY <1>2, <2>1 DEF TokenOperations, KeyOperations
  <2> QED
    BY <1>1, <2>2
<1>4. Finish(s) /\ UNCHANGED <<users, keys, day, calls>>
  BY DEF Login
<1>5. CASE tokens' = tokens
  BY <1>4, <1>5, FinishKeeps
<1>6. CASE tokens' # tokens
  <2>1. PICK t : /\ users[u] # NoRow
                 /\ t = [sub |-> u, exp |-> day + 1, role |-> users[u].role]
                 /\ tokens' = tokens \union {t}
    BY <1>1, <1>6 DEF Login
  <2>2. users[u].role \in AnyRole /\ day + 1 \in Int
    BY <1>3, <2>1, RightsType DEF UserRows, AnyRole, AccessInv, AccessTypeOK
  <2>3. t \in [sub : UserId, exp : Int, role : AnyRole] /\ t.sub = u
    BY <1>3, <2>1, <2>2
  <2>4. tokens' \subseteq [sub : UserId, exp : Int, role : AnyRole]
    BY <2>1, <2>3 DEF AccessInv, AccessTypeOK
  <2>5. AccountsKnown'
    BY <1>4, <2>1, <2>3 DEF AccountsKnown, AccessInv
  <2>6. RightsShrink
    BY <1>4, NothingLost
  <2> QED
    BY <1>4, <2>4, <2>5, <2>6, RequestMoves DEF Finish, Become, AccessInv, AccessTypeOK
<1> QED
  BY <1>5, <1>6

------------------------------------------------------------------------------
(***************************************************************************)
(* Routing: signals go back to reports.  A spreading writes from a graph   *)
(* that was read long ago, so the invariant speaks of the graphs in the    *)
(* callers' hands as well.                                                 *)
(***************************************************************************)

Signal == 0 .. 100

\* Whatever bounds what was reported bounds the signal.
Below(x) == \A b \in Int : (\A q \in Place : reported[q] <= b) => x <= b

SignalsHold(s) ==
  /\ s \in [Place -> Signal \union {Unknown}]
  /\ \A p \in Place : s[p] # Unknown => Below(s[p]) /\ (~jobsOverlapped => s[p] >= reported[p])

\* What holds of a call at each of its steps.
JobTraced(j) ==
  /\ "at" \in DOMAIN j
  /\ j.at \in {"move", "merge"} =>
       /\ j = [at |-> j.at, route |-> j.route, place |-> j.place, signal |-> j.signal]
       /\ j.place \in Place /\ j.signal \in Reports \union {Unknown}
  /\ j.at = "merge" => j.signal # Unknown /\ nodes[j.place] # Unknown
  /\ j.at \in {"load", "edges", "routes"} =>
       j = [at |-> j.at, all |-> j.all, todo |-> j.todo, graph |-> [nodes |-> j.graph.nodes, edges |-> j.graph.edges]]
  /\ j.at = "spread" =>
       j = [at |-> j.at, graph |-> j.graph, places |-> j.places] /\ j.places \subseteq Known(j.graph)
  /\ j.at = "count" => j = [at |-> j.at, all |-> j.all, graph |-> j.graph, todo |-> j.todo, score |-> j.score]
  /\ j.at \in {"load", "edges", "routes", "score", "count", "alert", "spread"} => IsFiniteSet(j.graph.edges)
  /\ j.at \in {"edges", "routes", "score", "count", "alert", "spread"} => SignalsHold(j.graph.nodes)

RoutingInv ==
  /\ SignalsHold(nodes) /\ IsFiniteSet(edges)
  /\ reported \in [Place -> Signal]
  /\ \A p \in Place : nodes[p] = Unknown => reported[p] = 0
  /\ DOMAIN job = Caller /\ \A c \in Caller : JobTraced(job[c])
  /\ ~jobsOverlapped => \A c, d \in Caller : job[c] # NoJob /\ job[d] # NoJob => c = d

LEMMA NoJobTraced == JobTraced(NoJob) /\ JobTraced(NoJob)'
BY DEF JobTraced, NoJob

LEMMA GreaterOf ==
  ASSUME NEW a \in Int, NEW b \in Int
  PROVE  Max({a, b}) = IF a <= b THEN b ELSE a
BY DEF Max

\* Signals stay as they are while no less is reported; that they are no less than what was reported
\* must be said anew if they are still to be.
LEMMA SignalsStay ==
  ASSUME NEW s, SignalsHold(s), reported \in [Place -> Signal], reported' \in [Place -> Signal],
         \A p \in Place : reported[p] <= reported'[p],
         jobsOverlapped' \/ (reported' = reported /\ ~jobsOverlapped)
  PROVE  SignalsHold(s)'
<1>1. ASSUME NEW p \in Place, s[p] # Unknown
      PROVE  Below(s[p])' /\ (~jobsOverlapped' => s[p] >= reported'[p])
  <2>1. Below(s[p]) /\ (~jobsOverlapped => s[p] >= reported[p])
    BY <1>1 DEF SignalsHold
  <2>2. Below(s[p])'
    <3> SUFFICES ASSUME NEW b \in Int, \A q \in Place : reported'[q] <= b PROVE s[p] <= b
      BY DEF Below
    <3>1. \A q \in Place : reported[q] <= b
      <4> SUFFICES ASSUME NEW q \in Place PROVE reported[q] <= b
        OBVIOUS
      <4>1. reported[q] \in Int /\ reported'[q] \in Int
        BY DEF Signal
      <4>. QED BY <4>1
    <3>. QED BY <2>1, <3>1 DEF Below
  <2>. QED BY <2>1, <2>2
<1>. QED BY <1>1 DEF SignalsHold

LEMMA JobStays ==
  ASSUME NEW j, JobTraced(j), reported \in [Place -> Signal], reported' \in [Place -> Signal],
         \A p \in Place : reported[p] <= reported'[p],
         jobsOverlapped' \/ (reported' = reported /\ ~jobsOverlapped),
         \A p \in Place : nodes[p] # Unknown => nodes'[p] # Unknown
  PROVE  JobTraced(j)'
<1>1. ASSUME NEW s, SignalsHold(s) PROVE SignalsHold(s)'
  BY <1>1, SignalsStay
<1>. QED BY <1>1 DEF JobTraced

\* A call takes a step: whatever it writes, the others' calls are traced as before.
LEMMA StepKeeps ==
  ASSUME RoutingInv, NEW c \in Caller, job[c] # NoJob, NEW j, job' = [job EXCEPT ![c] = j], JobTraced(j)',
         jobsOverlapped' = jobsOverlapped,
         reported' \in [Place -> Signal], \A p \in Place : reported[p] <= reported'[p],
         \A p \in Place : nodes[p] # Unknown => nodes'[p] # Unknown,
         SignalsHold(nodes)', IsFiniteSet(edges'),
         \A p \in Place : nodes'[p] = Unknown => reported'[p] = 0
  PROVE  RoutingInv'
<1>1. /\ reported \in [Place -> Signal] /\ DOMAIN job = Caller /\ \A d \in Caller : JobTraced(job[d])
      /\ ~jobsOverlapped => \A d, e \in Caller : job[d] # NoJob /\ job[e] # NoJob => d = e
  BY DEF RoutingInv
<1>2. DOMAIN job' = Caller /\ \A d \in Caller : job'[d] = IF d = c THEN j ELSE job[d]
  BY <1>1
<1>3. ASSUME NEW d \in Caller PROVE JobTraced(job[d])' \/ d = c
  <2>1. CASE jobsOverlapped
    <3>1. PICK k : k = job[d]
      OBVIOUS
    <3>2. JobTraced(k)'
      BY <1>1, <2>1, <3>1, JobStays
    <3>3. d = c \/ job'[d] = k
      BY <1>2, <3>1
    <3>. QED BY <3>2, <3>3
  <2>2. CASE ~jobsOverlapped /\ d # c
    <3>1. job[d] = NoJob
      BY <1>1, <2>2
    <3>2. job'[d] = NoJob
      BY <1>2, <2>2, <3>1
    <3>. QED BY <3>2, NoJobTraced
  <2>. QED BY <2>1, <2>2
<1>4. \A d \in Caller : JobTraced(job[d])'
  <2>1. JobTraced(job[c])'
    BY <1>2
  <2>. QED BY <1>3, <2>1
<1>5. ASSUME ~jobsOverlapped', NEW d \in Caller, NEW e \in Caller, job'[d] # NoJob, job'[e] # NoJob
      PROVE  d = e
  BY <1>1, <1>2, <1>5
<1>. QED BY <1>2, <1>4, <1>5 DEF RoutingInv

\* A call that writes no signal.
LEMMA GoesOnKeeps ==
  ASSUME RoutingInv, NEW c \in Caller, job[c] # NoJob, NEW j, job' = [job EXCEPT ![c] = j], JobTraced(j),
         UNCHANGED <<nodes, reported, jobsOverlapped>>, IsFiniteSet(edges')
  PROVE  RoutingInv'
<1>1. /\ reported \in [Place -> Signal] /\ SignalsHold(nodes)
      /\ \A p \in Place : nodes[p] = Unknown => reported[p] = 0
  BY DEF RoutingInv
<1>2. JobTraced(j)' /\ SignalsHold(nodes)'
  BY <1>1 DEF JobTraced, SignalsHold, Below
<1>3. \A p \in Place : reported[p] <= reported'[p]
  BY <1>1 DEF Signal
<1>. QED BY <1>1, <1>2, <1>3, StepKeeps

LEMMA BeginKeeps ==
  ASSUME RoutingInv, NEW c \in Caller, NEW j, BeginJob(c, j), JobTraced(j)
  PROVE  RoutingInv'
<1>1. /\ job[c] = NoJob /\ job' = [job EXCEPT ![c] = j]
      /\ jobsOverlapped' = (jobsOverlapped \/ \E d \in Caller : job[d] # NoJob)
      /\ UNCHANGED <<nodes, edges, reported>>
  BY DEF BeginJob, Put, tables
<1>2. /\ reported \in [Place -> Signal] /\ DOMAIN job = Caller /\ \A d \in Caller : JobTraced(job[d])
      /\ SignalsHold(nodes)
  BY DEF RoutingInv
<1>3. jobsOverlapped => jobsOverlapped'
  BY <1>1
<1>4. ASSUME NEW s, SignalsHold(s) PROVE SignalsHold(s)'
  BY <1>1, <1>3, <1>4 DEF SignalsHold, Below
<1>5. ASSUME NEW k, JobTraced(k) PROVE JobTraced(k)'
  BY <1>1, <1>4, <1>5 DEF JobTraced
<1>6. DOMAIN job' = Caller /\ \A d \in Caller : job'[d] = IF d = c THEN j ELSE job[d]
  BY <1>1, <1>2
<1>7. \A d \in Caller : JobTraced(job[d])'
  <2> SUFFICES ASSUME NEW d \in Caller PROVE JobTraced(job[d])'
    OBVIOUS
  <2>1. PICK k : k = job'[d] /\ JobTraced(k)
    BY <1>2, <1>6
  <2>. QED BY <1>5, <2>1
<1>8. ASSUME ~jobsOverlapped', NEW d \in Caller, NEW e \in Caller, job'[d] # NoJob, job'[e] # NoJob
      PROVE  d = e
  BY <1>1, <1>6, <1>8
<1>9. SignalsHold(nodes)'
  <2>1. PICK s : s = nodes
    OBVIOUS
  <2>2. SignalsHold(s)' /\ nodes' = s
    BY <1>1, <1>2, <1>4, <2>1
  <2>. QED BY <2>2
<1>. QED BY <1>1, <1>6, <1>7, <1>8, <1>9 DEF RoutingInv

LEMMA MeanBounded ==
  ASSUME NEW g, SignalsHold(g.nodes), IsFiniteSet(g.edges), NEW p, NEW b \in Nat,
         \A q \in Known(g) : g.nodes[q] <= b
  PROVE  MeanSignal(g, p) \in Nat /\ MeanSignal(g, p) <= b
<1>1. PICK es : es = NeighbourEdges(g, p)
  OBVIOUS
<1>2. IsFiniteSet(es)
  <2>1. es \subseteq g.edges
    BY <1>1 DEF NeighbourEdges, Touching
  <2>. QED BY <2>1, FS_Subset
<1>3. PICK f : f = [e \in es |-> g.nodes[Peer(e, p)]]
  OBVIOUS
<1>4. \A e \in es : f[e] \in Nat /\ f[e] <= b /\ f[e] = g.nodes[Peer(e, p)]
  <2> SUFFICES ASSUME NEW e \in es PROVE f[e] \in Nat /\ f[e] <= b /\ f[e] = g.nodes[Peer(e, p)]
    OBVIOUS
  <2>1. Peer(e, p) \in Known(g)
    BY <1>1 DEF NeighbourEdges
  <2>2. Peer(e, p) \in Place /\ g.nodes[Peer(e, p)] # Unknown
    BY <2>1 DEF Known
  <2>3. g.nodes[Peer(e, p)] \in Nat
    BY <2>2 DEF SignalsHold, Signal
  <2>. QED BY <1>3, <2>1, <2>3
<1>5. PICK k : SumsOf(k, f, es)
  <2>1. \A e \in es : f[e] \in Int
    BY <1>4
  <2>. QED BY <1>2, <2>1, SumsExist
<1>6. SignalSum(g, p) = k[es]
  <2> DEFINE Is(h) == h = [s \in SUBSET NeighbourEdges(g, p) |->
                             IF s = {} THEN 0
                             ELSE g.nodes[Peer(CHOOSE y \in s : TRUE, p)]
                                    + h[s \ {CHOOSE y \in s : TRUE}]]
             h == CHOOSE h : Is(h)
  <2>1. ASSUME NEW j PROVE Adds(j, f, es) <=> Is(j)
    <3>1. \A s \in SUBSET es : s # {} => (CHOOSE x \in s : TRUE) \in es
      OBVIOUS
    <3>2. [s \in SUBSET es |-> IF s = {} THEN 0
                               ELSE g.nodes[Peer(CHOOSE x \in s : TRUE, p)]
                                      + j[s \ {CHOOSE x \in s : TRUE}]]
          = [s \in SUBSET es |-> IF s = {} THEN 0
                                 ELSE f[CHOOSE x \in s : TRUE] + j[s \ {CHOOSE x \in s : TRUE}]]
      BY <1>4, <3>1
    <3>. QED BY <1>1, <3>2, Zenon DEF Adds
  <2>2. \E j : Is(j)
    <3> HIDE DEF Is
    <3>. QED BY <1>5, <2>1 DEF SumsOf
  <2>3. Adds(h, f, es)
    <3> HIDE DEF Is
    <3>. QED BY <2>1, <2>2
  <2>4. SignalSum(g, p) = h[NeighbourEdges(g, p)]
    BY DEF SignalSum, MapThenSumSet, MapThenFoldSet
  <2> HIDE DEF Is, h
  <2>5. PICK sums : sums = h
    OBVIOUS
  <2>6. Adds(sums, f, es) /\ es \in SUBSET es
    BY <2>3, <2>5
  <2>7. sums[es] = k[es]
    BY <1>5, <2>6, SameSums
  <2>. QED BY <1>1, <2>4, <2>5, <2>7
<1>7. es \in SUBSET es /\ \A e \in es : f[e] \in Nat
  BY <1>4
<1>8. k[es] \in Nat
  BY <1>5, <1>7, SumsOfNaturals
<1>9. k[es] <= b * Cardinality(es) /\ Cardinality(es) \in Nat
  <2>1. b \in Int /\ \A e \in es : f[e] <= b
    BY <1>4
  <2>. QED BY <1>5, <1>7, <2>1, SumsBounded
<1>10. CASE es = {}
  BY <1>1, <1>10 DEF MeanSignal
<1>11. CASE es # {}
  <2>1. PICK n \in Nat \ {0} : n = Cardinality(es)
    BY <1>2, <1>9, <1>11, FS_EmptySet
  <2>2. PICK a \in Nat : a = k[es] /\ a <= b * n
    BY <1>8, <1>9, <2>1
  <2>3. MeanSignal(g, p) = a \div n
    BY <1>1, <1>6, <1>11, <2>1, <2>2 DEF MeanSignal
  <2>4. PICK q \in Nat : q = a \div n /\ q * n <= a
    OBVIOUS
  <2>5. q <= b
    <3>1. CASE b + 1 <= q
      <4>1. (b + 1) * n <= q * n
        BY <3>1
      <4>2. (b + 1) * n = b * n + n
        OBVIOUS
      <4>. QED BY <2>2, <2>4, <4>1, <4>2
    <3>. QED BY <3>1
  <2>. QED BY <2>3, <2>4, <2>5
<1>. QED BY <1>10, <1>11

\* Spreading raises a signal, and not above what was reported.
LEMMA SpreadTraced ==
  ASSUME NEW g, SignalsHold(g.nodes), IsFiniteSet(g.edges), reported \in [Place -> Signal],
         NEW p \in Known(g)
  PROVE  /\ Spread(g, p) \in Signal /\ Below(Spread(g, p)) /\ g.nodes[p] <= Spread(g, p)
<1>1. p \in Place /\ g.nodes[p] \in Signal
  BY DEF Known, SignalsHold
<1>2. \A q \in Known(g) : q \in Place /\ g.nodes[q] \in Signal /\ Below(g.nodes[q])
  BY DEF Known, SignalsHold
<1>3. PICK m \in Nat : m = MeanSignal(g, p) /\ m <= 100
  <2>1. 100 \in Nat /\ \A q \in Known(g) : g.nodes[q] <= 100
    BY <1>2 DEF Signal
  <2>. QED BY <2>1, MeanBounded
<1>4. PICK x \in Nat : x = (m * 8) \div 10 /\ x <= m
  OBVIOUS
<1>5. Spread(g, p) = IF g.nodes[p] <= x THEN x ELSE g.nodes[p]
  <2>1. g.nodes[p] \in Int
    BY <1>1 DEF Signal
  <2>2. Spread(g, p) = Max({g.nodes[p], x})
    BY <1>3, <1>4 DEF Spread
  <2>. QED BY <2>1, <2>2, GreaterOf
<1>6. Below(x)
  <2> SUFFICES ASSUME NEW b \in Int, \A q \in Place : reported[q] <= b PROVE x <= b
    BY DEF Below
  <2>1. b \in Nat
    <3>1. reported[p] \in Nat /\ reported[p] <= b
      BY <1>1 DEF Signal
    <3>. QED BY <3>1
  <2>2. \A q \in Known(g) : g.nodes[q] <= b
    BY <1>2 DEF Below
  <2>3. m <= b
    BY <1>3, <2>1, <2>2, MeanBounded
  <2>. QED BY <1>4, <2>3
<1>7. Below(g.nodes[p])
  BY <1>2
<1>. QED BY <1>1, <1>3, <1>4, <1>5, <1>6, <1>7 DEF Signal

LEMMA RoutingBegins == RoutingInit => RoutingInv
<1> SUFFICES ASSUME RoutingInit PROVE RoutingInv
  OBVIOUS
<1>1. reported = [p \in Place |-> 0] /\ job = [c \in Caller |-> NoJob] /\ jobsOverlapped = FALSE
  BY DEF RoutingInit
<1>2. nodes \in [Place -> {0, Unknown}] /\ IsFiniteSet(edges)
  <2>1. CASE nodes = [p \in Place |-> Unknown] /\ edges = {}
    BY <2>1, FS_EmptySet
  <2>2. CASE \E s \in RouteId, plan \in Plans :
               /\ nodes = [p \in Place |-> IF p \in Range(plan) THEN 0 ELSE Unknown]
               /\ edges = {<<plan[i], plan[i + 1]>> : i \in 1 .. Len(plan) - 1}
    <3>1. PICK plan \in Plans :
               /\ nodes = [p \in Place |-> IF p \in Range(plan) THEN 0 ELSE Unknown]
               /\ edges = {<<plan[i], plan[i + 1]>> : i \in 1 .. Len(plan) - 1}
      BY <2>2
    <3>2. PICK n \in Int : n = Len(plan) - 1
      <4>1. plan \in Seq(Place)
        BY RoutingAssumption
      <4>2. PICK l \in Nat : l = Len(plan)
        BY <4>1
      <4>3. l - 1 \in Int
        OBVIOUS
      <4>. QED BY <4>2, <4>3
    <3>3. PICK I : I = 1 .. n
      OBVIOUS
    <3>4. IsFiniteSet(I)
      BY <3>2, <3>3, FS_Interval
    <3>5. PICK f : f = [i \in I |-> <<plan[i], plan[i + 1]>>]
      OBVIOUS
    <3>6. f \in Surjection(I, edges)
      BY <3>1, <3>2, <3>3, <3>5, Zenon DEF Surjection
    <3>7. IsFiniteSet(edges)
      BY <3>4, <3>6, FS_Surjection
    <3>. QED BY <3>1, <3>7
  <2>. QED BY <2>1, <2>2 DEF RoutingInit
<1>3. SignalsHold(nodes)
  <2>1. ASSUME NEW p \in Place, nodes[p] # Unknown PROVE Below(nodes[p]) /\ nodes[p] >= reported[p]
    <3>1. nodes[p] = 0 /\ reported[p] = 0
      BY <1>1, <1>2, <2>1
    <3>. QED BY <3>1 DEF Below
  <2>2. nodes \in [Place -> Signal \union {Unknown}]
    BY <1>2 DEF Signal
  <2>. QED BY <2>1, <2>2 DEF SignalsHold
<1>4. reported \in [Place -> Signal] /\ \A p \in Place : reported[p] = 0
  BY <1>1 DEF Signal
<1>5. \A c \in Caller : JobTraced(job[c]) /\ job[c] = NoJob
  BY <1>1, NoJobTraced
<1>. QED BY <1>1, <1>2, <1>3, <1>4, <1>5 DEF RoutingInv

\* The rows of a scorer that has just begun.
LEMMA ScorerTraced ==
  ASSUME NEW j, NEW a, NEW t, j = [at |-> "load", all |-> a, todo |-> t, graph |-> [nodes |-> nodes, edges |-> {}]]
  PROVE  JobTraced(j) /\ JobTraced(j)'
BY FS_EmptySet DEF JobTraced

LEMMA CallsBegin ==
  ASSUME RoutingInv, NEW c \in Caller,
         \/ \E r \in RouteId : ScoreShipment(c, r) \/ \E plan \in Plans : CreateShipmentRoute(c, r, plan)
         \/ \E r \in RouteId, p \in Place, s \in Reports \union {Unknown} : UpdatePosition(c, r, p, s)
         \/ ScoreAllInTransit(c) \/ ExportTrainingData(c)
  PROVE  RoutingInv'
<1>1. CASE \E r \in RouteId : ScoreShipment(c, r)
  <2>1. PICK j, t : /\ BeginJob(c, j)
                    /\ j = [at |-> "load", all |-> FALSE, todo |-> t, graph |-> [nodes |-> nodes, edges |-> {}]]
    BY <1>1 DEF ScoreShipment, ScoreOne
  <2>. QED BY <2>1, ScorerTraced, BeginKeeps
<1>2. CASE \E r \in RouteId, plan \in Plans : CreateShipmentRoute(c, r, plan)
  <2>1. PICK j, r, plan : BeginJob(c, j) /\ j = [at |-> "upsert", route |-> r, plan |-> plan, next |-> 1]
    BY <1>2 DEF CreateShipmentRoute
  <2>2. JobTraced(j)
    BY <2>1 DEF JobTraced
  <2>. QED BY <2>1, <2>2, BeginKeeps
<1>3. CASE \E r \in RouteId, p \in Place, s \in Reports \union {Unknown} : UpdatePosition(c, r, p, s)
  <2>0. PICK r \in RouteId, p \in Place, s \in Reports \union {Unknown} : UpdatePosition(c, r, p, s)
    BY <1>3
  <2>1. PICK j : BeginJob(c, j) /\ j = [at |-> "move", route |-> r, place |-> p, signal |-> s]
    BY <2>0 DEF UpdatePosition
  <2>2. JobTraced(j)
    BY <2>1 DEF JobTraced
  <2>. QED BY <2>1, <2>2, BeginKeeps
<1>4. CASE ScoreAllInTransit(c)
  <2>1. PICK j, t : /\ BeginJob(c, j)
                    /\ j = [at |-> "load", all |-> TRUE, todo |-> t, graph |-> [nodes |-> nodes, edges |-> {}]]
    BY <1>4 DEF ScoreAllInTransit
  <2>. QED BY <2>1, ScorerTraced, BeginKeeps
<1>5. CASE ExportTrainingData(c)
  <2>1. PICK j : BeginJob(c, j) /\ j = [at |-> "log"]
    BY <1>5 DEF ExportTrainingData
  <2>2. JobTraced(j)
    BY <2>1 DEF JobTraced
  <2>. QED BY <2>1, <2>2, BeginKeeps
<1>. QED BY <1>1, <1>2, <1>3, <1>4, <1>5

\* A place that is not known yet enters without a signal.
LEMMA UpsertKeeps ==
  ASSUME RoutingInv, NEW p, nodes' = Upsert(nodes, p), UNCHANGED <<reported, jobsOverlapped>>
  PROVE  /\ SignalsHold(nodes)'
         /\ \A q \in Place : nodes[q] # Unknown => nodes'[q] # Unknown
         /\ \A q \in Place : nodes'[q] = Unknown => reported'[q] = 0
         /\ p \in Place => nodes'[p] # Unknown
         /\ reported' \in [Place -> Signal] /\ \A q \in Place : reported[q] <= reported'[q]
<1>1. /\ SignalsHold(nodes) /\ reported \in [Place -> Signal]
      /\ \A q \in Place : nodes[q] = Unknown => reported[q] = 0
  BY DEF RoutingInv
<1>2. nodes \in [Place -> Signal \union {Unknown}]
  BY <1>1 DEF SignalsHold
<1>3. 0 \in Signal /\ Unknown # 0
  BY RoutingAssumption DEF Signal
<1>4. ASSUME NEW q \in Place
      PROVE  nodes'[q] = nodes[q] \/ (q = p /\ nodes[q] = Unknown /\ nodes'[q] = 0)
  BY <1>2 DEF Upsert
<1>5. nodes' \in [Place -> Signal \union {Unknown}] /\ (p \in Place => nodes'[p] # Unknown)
  BY <1>2, <1>3 DEF Upsert
<1>6. ASSUME NEW q \in Place, nodes'[q] # Unknown
      PROVE  Below(nodes[q])' /\ (~jobsOverlapped' => nodes'[q] >= reported'[q])
  <2>1. CASE nodes'[q] = nodes[q]
    BY <1>1, <1>6, <2>1 DEF SignalsHold, Below
  <2>2. CASE nodes[q] = Unknown /\ nodes'[q] = 0
    <3>1. reported'[q] = 0
      BY <1>1, <2>2
    <3>. QED BY <2>2, <3>1 DEF Below
  <2>. QED BY <1>4, <2>1, <2>2
<1>7. SignalsHold(nodes)'
  BY <1>5, <1>6 DEF SignalsHold
<1>8. \A q \in Place : reported[q] <= reported'[q]
  BY <1>1 DEF Signal
<1>. QED BY <1>1, <1>3, <1>4, <1>5, <1>7, <1>8

\* Of the other steps of a call nothing is asked.
LEMMA PlainTraced ==
  ASSUME NEW j, "at" \in DOMAIN j, j.at \in {"upsert", "insert", "log", "complete"}
  PROVE  JobTraced(j) /\ JobTraced(j)'
BY DEF JobTraced

LEMMA CreationKeeps ==
  ASSUME RoutingInv, NEW c \in Caller, UpsertPath(c) \/ InsertRoute(c)
  PROVE  RoutingInv'
<1>1. DOMAIN job = Caller /\ JobTraced(job[c]) /\ "at" \in DOMAIN job[c] /\ IsFiniteSet(edges)
  BY DEF RoutingInv, JobTraced
<1>2. CASE UpsertPath(c)
  <2>1. PICK p, t : /\ nodes' = Upsert(nodes, p) /\ UNCHANGED <<reported, jobsOverlapped>>
                    /\ edges' = edges \/ edges' = edges \union {t}
    BY <1>2 DEF UpsertPath, Proceeds
  <2>2. job[c] # NoJob
    BY <1>2 DEF UpsertPath, Proceeds, NoJob
  <2>3. PICK j : /\ job' = [job EXCEPT ![c] = j]
                 /\ j = [job[c] EXCEPT !.at = "insert"] \/ j = [job[c] EXCEPT !.next = @ + 1]
    BY <1>2, Zenon DEF UpsertPath, Put
  <2>4. "at" \in DOMAIN j /\ j.at \in {"upsert", "insert"}
    BY <1>1, <1>2, <2>3 DEF UpsertPath, Proceeds
  <2>5. JobTraced(j)'
    BY <2>4, PlainTraced
  <2>6. IsFiniteSet(edges')
    BY <1>1, <2>1, FS_AddElement
  <2>. QED BY <2>1, <2>2, <2>3, <2>5, <2>6, UpsertKeeps, StepKeeps
<1>3. CASE InsertRoute(c)
  <2>1. job' = [job EXCEPT ![c] = NoJob] /\ UNCHANGED <<nodes, edges, reported, jobsOverlapped>> /\ job[c] # NoJob
    BY <1>3 DEF InsertRoute, Proceeds, Done, Put, NoJob
  <2>2. IsFiniteSet(edges')
    BY <1>1, <2>1
  <2>. QED BY <2>1, <2>2, NoJobTraced, GoesOnKeeps
<1>. QED BY <1>2, <1>3

LEMMA MoveKeeps ==
  ASSUME RoutingInv, NEW c \in Caller, Move(c)
  PROVE  RoutingInv'
<1>1. PICK k : k = job[c]
  OBVIOUS
<1>2. /\ k.at = "move" /\ UNCHANGED <<edges, reported, jobsOverlapped>> /\ nodes' = Upsert(nodes, k.place)
      /\ job' = [job EXCEPT ![c] = IF k.signal = Unknown THEN ScoreOne(k.route) ELSE [k EXCEPT !.at = "merge"]]
  BY <1>1 DEF Move, Proceeds, Put
<1>3. job[c] # NoJob /\ JobTraced(k) /\ IsFiniteSet(edges')
  BY <1>1, <1>2 DEF RoutingInv, NoJob
<1>4. /\ k = [at |-> k.at, route |-> k.route, place |-> k.place, signal |-> k.signal]
      /\ k.place \in Place /\ k.signal \in Reports \union {Unknown}
  BY <1>2, <1>3 DEF JobTraced
<1>5. nodes'[k.place] # Unknown
  BY <1>2, <1>4, UpsertKeeps
<1>6. PICK j : /\ job' = [job EXCEPT ![c] = j]
               /\ j = IF k.signal = Unknown THEN ScoreOne(k.route) ELSE [k EXCEPT !.at = "merge"]
  BY <1>2, Zenon
<1>7. JobTraced(j)'
  <2>1. CASE k.signal = Unknown
    <3>1. PICK t, g : j = [at |-> "load", all |-> FALSE, todo |-> t, graph |-> [nodes |-> g, edges |-> {}]]
      BY <1>6, <2>1 DEF ScoreOne
    <3>. QED BY <3>1, FS_EmptySet DEF JobTraced
  <2>2. CASE k.signal # Unknown
    <3>1. j = [at |-> "merge", route |-> k.route, place |-> k.place, signal |-> k.signal]
      BY <1>4, <1>6, <2>2
    <3>. QED BY <1>4, <1>5, <2>2, <3>1 DEF JobTraced
  <2>. QED BY <2>1, <2>2
<1>. QED BY <1>2, <1>3, <1>6, <1>7, UpsertKeeps, StepKeeps

\* A signal that is merged was reported before the call is answered.
LEMMA MergeKeeps ==
  ASSUME RoutingInv, NEW c \in Caller, Merge(c)
  PROVE  RoutingInv'
<1>1. PICK k : k = job[c]
  OBVIOUS
<1>2. /\ k.at = "merge" /\ UNCHANGED <<edges, jobsOverlapped>>
      /\ nodes' = [nodes EXCEPT ![k.place] = Max({@, k.signal})]
      /\ reported' = [reported EXCEPT ![k.place] = Max({@, k.signal})]
      /\ job' = [job EXCEPT ![c] = ScoreOne(k.route)]
  BY <1>1 DEF Merge, Proceeds, Put
<1>3. job[c] # NoJob /\ JobTraced(k) /\ IsFiniteSet(edges')
  BY <1>1, <1>2 DEF RoutingInv, NoJob
<1>4. PICK p \in Place, s \in Signal : p = k.place /\ s = k.signal /\ nodes[p] # Unknown
  <2>1. k.place \in Place /\ k.signal \in Reports /\ nodes[k.place] # Unknown
    BY <1>2, <1>3 DEF JobTraced
  <2>2. k.signal \in Signal
    BY <2>1, RoutingAssumption DEF Signal
  <2>. QED BY <2>1, <2>2
<1>5. /\ SignalsHold(nodes) /\ reported \in [Place -> Signal]
      /\ \A q \in Place : nodes[q] = Unknown => reported[q] = 0
  BY DEF RoutingInv
<1>6. nodes \in [Place -> Signal \union {Unknown}] /\ nodes[p] \in Signal /\ reported[p] \in Signal
  BY <1>4, <1>5 DEF SignalsHold
<1>7. Signal \subseteq Int
  BY DEF Signal
<1>8. PICK n \in Signal, r \in Signal :
        /\ nodes' = [nodes EXCEPT ![p] = n] /\ reported' = [reported EXCEPT ![p] = r]
        /\ n = (IF nodes[p] <= s THEN s ELSE nodes[p]) /\ r = IF reported[p] <= s THEN s ELSE reported[p]
  <2>1. Max({nodes[p], s}) = IF nodes[p] <= s THEN s ELSE nodes[p]
    BY <1>6, <1>7, GreaterOf
  <2>2. Max({reported[p], s}) = IF reported[p] <= s THEN s ELSE reported[p]
    BY <1>6, <1>7, GreaterOf
  <2>. QED BY <1>2, <1>4, <1>6, <2>1, <2>2, Zenon
<1>9. reported' \in [Place -> Signal] /\ \A q \in Place : reported[q] <= reported'[q]
  <2>1. reported' \in [Place -> Signal]
    BY <1>5, <1>8
  <2>2. ASSUME NEW q \in Place PROVE reported[q] <= reported'[q]
    <3>1. reported[q] \in Int /\ reported'[q] = IF q = p THEN r ELSE reported[q]
      BY <1>5, <1>7, <1>8
    <3>. QED BY <1>6, <1>7, <1>8, <3>1
  <2>. QED BY <2>1, <2>2
<1>10. \A q \in Place : /\ nodes'[q] = IF q = p THEN n ELSE nodes[q]
                        /\ reported'[q] = IF q = p THEN r ELSE reported[q]
  BY <1>5, <1>6, <1>8
<1>11. Unknown \notin Signal
  BY RoutingAssumption DEF Signal
<1>12. ASSUME NEW q \in Place, nodes'[q] # Unknown
       PROVE  Below(nodes[q])' /\ (~jobsOverlapped' => nodes'[q] >= reported'[q])
  <2>1. nodes[q] \in Int /\ nodes'[q] \in Int /\ reported[q] \in Int /\ reported'[q] \in Int
    BY <1>4, <1>6, <1>7, <1>9, <1>10, <1>12, <1>5
  <2>2. Below(nodes[q]) /\ (~jobsOverlapped => nodes[q] >= reported[q])
    BY <1>4, <1>5, <1>10, <1>12 DEF SignalsHold
  <2>3. Below(nodes[q])'
    <3> SUFFICES ASSUME NEW b \in Int, \A o \in Place : reported'[o] <= b PROVE nodes'[q] <= b
      BY DEF Below
    <3>1. ASSUME NEW o \in Place PROVE reported[o] <= b
      <4>1. reported[o] \in Int /\ reported'[o] \in Int /\ reported[o] <= reported'[o] /\ reported'[o] <= b
        BY <1>5, <1>7, <1>9
      <4>. QED BY <4>1
    <3>2. nodes[q] <= b
      BY <2>2, <3>1 DEF Below
    <3>3. r <= b /\ s <= r
      <4>1. r <= b
        BY <1>10
      <4>. QED BY <1>6, <1>7, <1>8, <4>1
    <3>. QED BY <1>7, <1>8, <1>10, <2>1, <3>2, <3>3
  <2>4. ASSUME ~jobsOverlapped' PROVE nodes'[q] >= reported'[q]
    <3>1. nodes[q] >= reported[q]
      BY <1>2, <2>2, <2>4
    <3>. QED BY <1>6, <1>7, <1>8, <1>10, <2>1, <3>1
  <2>. QED BY <2>3, <2>4
<1>13. SignalsHold(nodes)'
  <2>1. nodes' \in [Place -> Signal \union {Unknown}]
    BY <1>6, <1>8
  <2>. QED BY <1>12, <2>1 DEF SignalsHold
<1>14. /\ \A q \in Place : nodes[q] # Unknown => nodes'[q] # Unknown
       /\ \A q \in Place : nodes'[q] = Unknown => reported'[q] = 0
  BY <1>5, <1>8, <1>10, <1>11
<1>15. PICK j : job' = [job EXCEPT ![c] = j] /\ j = ScoreOne(k.route)
  BY <1>2, Zenon
<1>16. JobTraced(j)'
  <2>1. PICK t, g : j = [at |-> "load", all |-> FALSE, todo |-> t, graph |-> [nodes |-> g, edges |-> {}]]
    BY <1>15 DEF ScoreOne
  <2>. QED BY <2>1, FS_EmptySet DEF JobTraced
<1>. QED BY <1>2, <1>3, <1>9, <1>13, <1>14, <1>15, <1>16, StepKeeps

LEMMA LoadKeeps ==
  ASSUME RoutingInv, NEW c \in Caller, LoadGraph(c) \/ LoadRoutes(c)
  PROVE  RoutingInv'
<1>1. PICK k : k = job[c]
  OBVIOUS
<1>2. JobTraced(k) /\ SignalsHold(nodes) /\ IsFiniteSet(edges)
  BY <1>1 DEF RoutingInv
<1>3. /\ k.at \in {"load", "edges", "routes"} /\ UNCHANGED <<nodes, edges, reported, jobsOverlapped>>
  BY <1>1 DEF LoadGraph, LoadRoutes, Proceeds, tables
<1>4. /\ k = [at |-> k.at, all |-> k.all, todo |-> k.todo, graph |-> [nodes |-> k.graph.nodes, edges |-> k.graph.edges]]
      /\ IsFiniteSet(k.graph.edges) /\ (k.at # "load" => SignalsHold(k.graph.nodes))
  BY <1>2, <1>3 DEF JobTraced
<1>5. job[c] # NoJob /\ IsFiniteSet(edges')
  BY <1>1, <1>2, <1>3 DEF NoJob
<1>6. CASE k.at = "load" /\ LoadGraph(c)
  <2>1. PICK j : job' = [job EXCEPT ![c] = j] /\ j = [k EXCEPT !.at = "edges", !.graph.nodes = nodes]
    BY <1>1, <1>6 DEF LoadGraph, Proceeds, Put
  <2>2. j = [at |-> "edges", all |-> k.all, todo |-> k.todo, graph |-> [nodes |-> nodes, edges |-> k.graph.edges]]
    <3>1. PICK a, t, ns, es : /\ a = k.all /\ t = k.todo /\ es = k.graph.edges
                              /\ k = [at |-> "load", all |-> a, todo |-> t, graph |-> [nodes |-> ns, edges |-> es]]
      BY <1>4, <1>6, Zenon
    <3>2. j = [[at |-> "load", all |-> a, todo |-> t, graph |-> [nodes |-> ns, edges |-> es]]
                  EXCEPT !.at = "edges", !.graph.nodes = nodes]
      BY <2>1, <3>1, Zenon
    <3>3. j = [at |-> "edges", all |-> a, todo |-> t, graph |-> [nodes |-> nodes, edges |-> es]]
      BY <3>2
    <3>. QED BY <3>1, <3>3, Zenon
  <2>3. JobTraced(j)
    BY <1>2, <1>4, <2>2 DEF JobTraced
  <2>. QED BY <1>3, <1>5, <2>1, <2>3, GoesOnKeeps
<1>7. CASE k.at = "edges" /\ LoadGraph(c)
  <2>1. PICK j : job' = [job EXCEPT ![c] = j] /\ j = [k EXCEPT !.at = "routes", !.graph.edges = edges]
    BY <1>1, <1>7 DEF LoadGraph, Proceeds, Put
  <2>2. j = [at |-> "routes", all |-> k.all, todo |-> k.todo, graph |-> [nodes |-> k.graph.nodes, edges |-> edges]]
    <3>1. PICK a, t, ns, es : /\ a = k.all /\ t = k.todo /\ ns = k.graph.nodes
                              /\ k = [at |-> "edges", all |-> a, todo |-> t, graph |-> [nodes |-> ns, edges |-> es]]
      BY <1>4, <1>7, Zenon
    <3>2. j = [[at |-> "edges", all |-> a, todo |-> t, graph |-> [nodes |-> ns, edges |-> es]]
                  EXCEPT !.at = "routes", !.graph.edges = edges]
      BY <2>1, <3>1, Zenon
    <3>3. j = [at |-> "routes", all |-> a, todo |-> t, graph |-> [nodes |-> ns, edges |-> edges]]
      BY <3>2
    <3>. QED BY <3>1, <3>3, Zenon
  <2>3. JobTraced(j)
    BY <1>2, <1>4, <1>7, <2>2 DEF JobTraced
  <2>. QED BY <1>3, <1>5, <2>1, <2>3, GoesOnKeeps
<1>8. CASE LoadRoutes(c)
  <2>1. k.at = "routes"
    BY <1>1, <1>8 DEF LoadRoutes, Proceeds
  <2>2. PICK j : /\ job' = [job EXCEPT ![c] = j]
                 /\ j = NoJob \/ \E t : j = [at |-> "score", all |-> k.all, graph |-> k.graph, todo |-> t]
    BY <1>1, <1>8, Zenon DEF LoadRoutes, Put, Done
  <2>3. JobTraced(j)
    <3>1. CASE j = NoJob
      BY <3>1, NoJobTraced
    <3>2. CASE \E t : j = [at |-> "score", all |-> k.all, graph |-> k.graph, todo |-> t]
      BY <1>4, <2>1, <3>2 DEF JobTraced
    <3>. QED BY <2>2, <3>1, <3>2
  <2>. QED BY <1>3, <1>5, <2>2, <2>3, GoesOnKeeps
<1>9. LoadGraph(c) => k.at \in {"load", "edges"}
  BY <1>1 DEF LoadGraph, Proceeds
<1>. QED BY <1>6, <1>7, <1>8, <1>9

LEMMA ScoreKeeps ==
  ASSUME RoutingInv, NEW c \in Caller, PersistScore(c) \/ CountAlerts(c) \/ InsertAlert(c)
  PROVE  RoutingInv'
<1>1. PICK k : k = job[c]
  OBVIOUS
<1>2. JobTraced(k) /\ IsFiniteSet(edges)
  BY <1>1 DEF RoutingInv
<1>3. k.at \in {"score", "count", "alert"} /\ UNCHANGED <<nodes, edges, reported, jobsOverlapped>>
  BY <1>1 DEF PersistScore, CountAlerts, InsertAlert, Proceeds
<1>4. /\ IsFiniteSet(k.graph.edges) /\ SignalsHold(k.graph.nodes)
      /\ k.at = "count" => k = [at |-> k.at, all |-> k.all, graph |-> k.graph, todo |-> k.todo, score |-> k.score]
  BY <1>2, <1>3 DEF JobTraced
<1>5. job[c] # NoJob /\ IsFiniteSet(edges')
  BY <1>1, <1>2, <1>3 DEF NoJob
<1>6. PICK j : /\ job' = [job EXCEPT ![c] = j]
               /\ \/ j = NextRoute(k)
                  \/ \E s : j = [at |-> "count", all |-> k.all, graph |-> k.graph, todo |-> k.todo, score |-> s]
                  \/ k.at = "count" /\ j = [k EXCEPT !.at = "alert"]
  <2>1. CASE PersistScore(c)
    <3>1. PICK time \in TimeScores :
            Put(c, IF ComputeScore(ExtractFeatures(k.graph, Head(k.todo).row, time)).composite >= HighThreshold
                     THEN [at |-> "count", all |-> k.all, graph |-> k.graph, todo |-> k.todo,
                           score |-> ComputeScore(ExtractFeatures(k.graph, Head(k.todo).row, time))]
                     ELSE NextRoute(k))
      BY <1>1, <2>1, Zenon DEF PersistScore
    <3>2. PICK s : s = ComputeScore(ExtractFeatures(k.graph, Head(k.todo).row, time))
      OBVIOUS
    <3>3. \/ Put(c, NextRoute(k))
          \/ Put(c, [at |-> "count", all |-> k.all, graph |-> k.graph, todo |-> k.todo, score |-> s])
      BY <3>1, <3>2, Zenon
    <3>. QED BY <3>3, Zenon DEF Put
  <2>2. CASE CountAlerts(c)
    BY <1>1, <2>2, Zenon DEF CountAlerts, GoOn, Put, Proceeds
  <2>3. CASE InsertAlert(c)
    BY <1>1, <2>3, Zenon DEF InsertAlert, Put
  <2>. QED BY <2>1, <2>2, <2>3
<1>7. JobTraced(j)
  <2>1. CASE j = NextRoute(k)
    <3>1. j = NoJob \/ \E t : j = [at |-> "score", all |-> TRUE, graph |-> k.graph, todo |-> t]
      BY <2>1 DEF NextRoute
    <3>. QED BY <1>4, <3>1, NoJobTraced DEF JobTraced
  <2>2. CASE \E s : j = [at |-> "count", all |-> k.all, graph |-> k.graph, todo |-> k.todo, score |-> s]
    BY <1>4, <2>2 DEF JobTraced
  <2>3. CASE k.at = "count" /\ j = [k EXCEPT !.at = "alert"]
    <3>1. j = [at |-> "alert", all |-> k.all, graph |-> k.graph, todo |-> k.todo, score |-> k.score]
      BY <1>4, <2>3
    <3>. QED BY <1>4, <3>1 DEF JobTraced
  <2>. QED BY <1>6, <2>1, <2>2, <2>3
<1>. QED BY <1>3, <1>5, <1>6, <1>7, GoesOnKeeps

\* Spreading writes from a graph that was read long ago: what it writes goes back to a report all the same.
LEMMA PropagateKeeps ==
  ASSUME RoutingInv, NEW c \in Caller, Propagate(c)
  PROVE  RoutingInv'
<1>1. PICK k, g : k = job[c] /\ g = k.graph
  OBVIOUS
<1>2. /\ JobTraced(k) /\ IsFiniteSet(edges) /\ SignalsHold(nodes) /\ reported \in [Place -> Signal]
      /\ \A p \in Place : nodes[p] = Unknown => reported[p] = 0
  BY <1>1 DEF RoutingInv
<1>3. k.at \in {"score", "spread"} /\ UNCHANGED <<edges, reported, jobsOverlapped>>
  BY <1>1 DEF Propagate, Proceeds
<1>4. /\ IsFiniteSet(g.edges) /\ SignalsHold(g.nodes)
      /\ k.at = "spread" => k = [at |-> k.at, graph |-> g, places |-> k.places] /\ k.places \subseteq Known(g)
  BY <1>1, <1>2, <1>3 DEF JobTraced
<1>5. job[c] # NoJob /\ IsFiniteSet(edges')
  BY <1>1, <1>2, <1>3 DEF NoJob
<1>6. CASE k.at = "score"
  <2>1. PICK j, ps : /\ job' = [job EXCEPT ![c] = j] /\ nodes' = nodes
                     /\ j = [at |-> "spread", graph |-> g, places |-> ps] /\ ps \subseteq Known(g)
    <3>1. PICK ps : ps = {p \in Known(g) : NeighbourEdges(g, p) # {}}
      OBVIOUS
    <3>2. job' = [job EXCEPT ![c] = [at |-> "spread", graph |-> g, places |-> ps]] /\ nodes' = nodes
      BY <1>1, <1>6, <3>1 DEF Propagate, Proceeds, Put
    <3>3. ps \subseteq Known(g)
      BY <3>1
    <3>. QED BY <3>2, <3>3, Zenon
  <2>2. JobTraced(j)
    BY <1>4, <2>1 DEF JobTraced
  <2>. QED BY <1>3, <1>5, <2>1, <2>2, GoesOnKeeps
<1>7. CASE k.at = "spread" /\ k.places = {}
  <2>1. job' = [job EXCEPT ![c] = NoJob] /\ nodes' = nodes
    BY <1>1, <1>7 DEF Propagate, Proceeds, Done, Put
  <2>. QED BY <1>3, <1>5, <2>1, NoJobTraced, GoesOnKeeps
<1>8. CASE k.at = "spread" /\ k.places # {}
  <2>1. PICK p \in k.places : /\ nodes' = [nodes EXCEPT ![p] = Spread(g, p)]
                              /\ job' = [job EXCEPT ![c] = [k EXCEPT !.places = @ \ {p}]]
    BY <1>1, <1>8 DEF Propagate, Proceeds, Put
  <2>2. PICK j : job' = [job EXCEPT ![c] = j] /\ j = [k EXCEPT !.places = @ \ {p}]
    BY <2>1, Zenon
  <2>3. j = [at |-> "spread", graph |-> g, places |-> k.places \ {p}] /\ p \in Known(g)
    BY <1>4, <1>8, <2>2
  <2>4. PICK x \in Signal : x = Spread(g, p) /\ Below(x) /\ g.nodes[p] <= x
    BY <1>2, <1>4, <2>3, SpreadTraced
  <2>5. Unknown \notin Signal /\ Signal \subseteq Int
    BY RoutingAssumption DEF Signal
  <2>6. p \in Place /\ nodes \in [Place -> Signal \union {Unknown}]
    BY <1>2, <2>3 DEF SignalsHold, Known
  <2>7. \A q \in Place : nodes'[q] = IF q = p THEN x ELSE nodes[q]
    BY <2>1, <2>4, <2>6
  <2>8. nodes' \in [Place -> Signal \union {Unknown}]
    BY <2>1, <2>4, <2>6
  <2>9. ASSUME NEW q \in Place, nodes'[q] # Unknown
        PROVE  Below(nodes[q])' /\ (~jobsOverlapped' => nodes'[q] >= reported'[q])
    <3>1. CASE q # p
      BY <1>2, <1>3, <2>7, <2>9, <3>1 DEF SignalsHold, Below
    <3>2. CASE q = p
      <4>1. Below(nodes[q])'
        BY <1>3, <2>4, <2>7, <3>2 DEF Below
      <4>2. ASSUME ~jobsOverlapped' PROVE nodes'[q] >= reported'[q]
        <5>1. g.nodes[p] # Unknown /\ g.nodes[p] \in Signal
          BY <1>4, <2>3 DEF Known, SignalsHold
        <5>2. g.nodes[p] >= reported[p]
          BY <1>3, <1>4, <2>6, <4>2, <5>1 DEF SignalsHold
        <5>3. reported[p] \in Int /\ g.nodes[p] \in Int /\ x \in Int
          BY <1>2, <2>4, <2>5, <2>6, <5>1
        <5>4. reported'[q] = reported[p] /\ nodes'[q] = x
          BY <1>3, <2>7, <3>2
        <5>. QED BY <2>4, <5>2, <5>3, <5>4
      <4>. QED BY <4>1, <4>2
    <3>. QED BY <3>1, <3>2
  <2>10. SignalsHold(nodes)'
    BY <2>8, <2>9 DEF SignalsHold
  <2>11. /\ \A q \in Place : nodes[q] # Unknown => nodes'[q] # Unknown
         /\ \A q \in Place : nodes'[q] = Unknown => reported'[q] = 0
    BY <1>2, <1>3, <2>4, <2>5, <2>7
  <2>12. reported' \in [Place -> Signal] /\ \A q \in Place : reported[q] <= reported'[q]
    BY <1>2, <1>3 DEF Signal
  <2>13. JobTraced(j)
    BY <1>4, <1>8, <2>3 DEF JobTraced
  <2>14. JobTraced(j)'
    <3>1. SignalsHold(g.nodes)'
      <4>1. PICK s : s = g.nodes
        OBVIOUS
      <4>2. SignalsHold(s)'
        BY <1>3, <1>4, <4>1 DEF SignalsHold, Below
      <4>3. g.nodes = s
        BY <4>1
      <4>. QED BY <4>2, <4>3
    <3>. QED BY <1>4, <1>8, <2>3, <3>1 DEF JobTraced
  <2>. QED BY <1>3, <1>5, <2>2, <2>10, <2>11, <2>12, <2>14, StepKeeps
<1>. QED BY <1>3, <1>6, <1>7, <1>8

LEMMA EndKeeps ==
  ASSUME RoutingInv, NEW c \in Caller, Export(c) \/ Fail(c)
  PROVE  RoutingInv'
<1>1. "at" \in DOMAIN job[c] /\ IsFiniteSet(edges)
  BY DEF RoutingInv, JobTraced
<1>2. UNCHANGED <<nodes, edges, reported, jobsOverlapped>> /\ job[c] # NoJob
  BY DEF Export, Fail, Proceeds, tables, NoJob
<1>3. PICK j : /\ job' = [job EXCEPT ![c] = j]
               /\ j = NoJob \/ (job[c].at = "log" /\ j = [job[c] EXCEPT !.at = "complete"])
  BY DEF Export, Fail, Proceeds, GoOn, Done, Put
<1>4. JobTraced(j)
  <2>1. CASE j = NoJob
    BY <2>1, NoJobTraced
  <2>2. CASE j = [job[c] EXCEPT !.at = "complete"]
    <3>1. "at" \in DOMAIN j /\ j.at = "complete"
      BY <1>1, <2>2
    <3>. QED BY <3>1, PlainTraced
  <2>. QED BY <1>3, <2>1, <2>2
<1>5. IsFiniteSet(edges')
  BY <1>1, <1>2
<1>. QED BY <1>2, <1>3, <1>4, <1>5, GoesOnKeeps

LEMMA RoutingStays == RoutingInv /\ UNCHANGED <<nodes, edges, reported, job, jobsOverlapped>> => RoutingInv'
BY DEF RoutingInv, SignalsHold, Below, JobTraced

LEMMA RoutingStep == RoutingInv /\ [RoutingNext]_routingVars => RoutingInv'
<1> SUFFICES ASSUME RoutingInv, [RoutingNext]_routingVars PROVE RoutingInv'
  OBVIOUS
<1>1. ASSUME NEW c \in Caller, Work(c) PROVE RoutingInv'
  BY <1>1, CallsBegin, CreationKeeps, MoveKeeps, MergeKeeps, LoadKeeps, ScoreKeeps, PropagateKeeps, EndKeeps DEF Work
<1>2. CASE \/ \E i \in DOMAIN alerts : AcknowledgeAlert(i) \/ ResolveAlert(i)
           \/ HourPasses \/ UNCHANGED routingVars
  <2>1. UNCHANGED <<nodes, edges, reported, job, jobsOverlapped>>
    BY <1>2 DEF AcknowledgeAlert, ResolveAlert, Closed, HourPasses, Outside, routingVars
  <2>. QED BY <2>1, RoutingStays
<1>. QED BY <1>1, <1>2 DEF RoutingNext

(***************************************************************************)
(* The invariant: the nodes, and every graph a call has read, show what    *)
(* goes back to a report.                                                  *)
(***************************************************************************)
THEOREM RoutingInvariant == RoutingSpec => []RoutingInv
BY RoutingBegins, RoutingStep, PTL DEF RoutingSpec

\* Some report is the greatest.
LEMMA GreatestReport ==
  ASSUME NEW S \in SUBSET Signal, S # {}
  PROVE  Greatest(S) \in S /\ \A x \in S : x <= Greatest(S)
<1>1. \E m \in S : \A x \in S : x <= m
  <2>1. PICK s \in S : TRUE
    OBVIOUS
  <2> DEFINE T == {n \in Nat : \E x \in S : n = 100 - x}
  <2>2. T \in SUBSET Nat /\ 100 - s \in T
    BY <2>1 DEF Signal
  <2>3. PICK n \in T : \A k \in T : n <= k
    <3> HIDE DEF T
    <3>. QED BY <2>2, LeastNatural
  <2>4. PICK m \in S : n = 100 - m
    BY <2>3
  <2>5. ASSUME NEW x \in S PROVE x <= m
    <3>1. x \in 0 .. 100 /\ m \in 0 .. 100
      BY DEF Signal
    <3>2. 100 - x \in T
      BY <3>1
    <3>3. 100 - m <= 100 - x
      <4> HIDE DEF T
      <4>. QED BY <2>3, <2>4, <3>2
    <3>. QED BY <3>1, <3>3
  <2>. QED BY <2>5
<1>. QED BY <1>1 DEF Greatest, Max

(***************************************************************************)
(* However reports, scorings and spreadings interleave, a place shows at   *)
(* most the greatest signal that was reported anywhere; and as long as no  *)
(* two calls were at work together, at least what was reported there       *)
(* (update_position, propagate_graph_signals).                             *)
(***************************************************************************)
THEOREM SignalsAreReports == RoutingSpec => []SignalsTraceReports
<1>1. ASSUME RoutingInv PROVE SignalsTraceReports
  <2> SUFFICES ASSUME NEW p \in Place, nodes[p] # Unknown
               PROVE  /\ nodes[p] <= Greatest(Range(reported))
                      /\ ~jobsOverlapped => nodes[p] >= reported[p]
    BY DEF SignalsTraceReports
  <2>1. reported \in [Place -> Signal] /\ Below(nodes[p]) /\ (~jobsOverlapped => nodes[p] >= reported[p])
    BY <1>1 DEF RoutingInv, SignalsHold
  <2>2. PICK S : S = Range(reported)
    OBVIOUS
  <2>3. S \in SUBSET Signal /\ \A q \in Place : reported[q] \in S
    BY <2>1, <2>2 DEF Range
  <2>4. PICK m \in S : m = Greatest(S) /\ \A x \in S : x <= m
    BY <2>3, GreatestReport
  <2>5. m \in Int
    BY <2>3, <2>4 DEF Signal
  <2>6. nodes[p] <= m
    BY <2>1, <2>3, <2>4, <2>5 DEF Below
  <2>. QED BY <2>1, <2>2, <2>4, <2>6
<1>. QED BY <1>1, RoutingInvariant, PTL

--------------------------------------------------------------------------------
(* What changes meanwhile.                                                 *)

\* A step of no session that takes rights away.
LEMMA ShrinkingKeeps ==
  ASSUME AccessInv, RightsShrink, UNCHANGED <<users, tokens, inHand, calls>>,
         keys' \in [KeyId -> KeyRows \union {NoRow}],
         \A k \in KeyId : keys'[k] # NoRow => keys[k] # NoRow /\ keys'[k].user = keys[k].user,
         day' \in Int
  PROVE  AccessInv'
<1>1. AccessTypeOK'
  BY DEF AccessInv, AccessTypeOK
<1>2. AccountsKnown'
  BY DEF AccessInv, AccountsKnown
<1>3. ASSUME NEW x \in Session PROVE (inHand[x] = Idle \/ RequestHolds(inHand[x]))'
  <2>1. PICK y : y = inHand[x]
    OBVIOUS
  <2>2. y = Idle \/ RequestHolds(y)'
    <3>1. y = Idle \/ (y \in AccessRequest /\ RequestHolds(y))
      BY <2>1 DEF AccessInv, AccessTypeOK, RequestsHold
    <3> QED
      BY <3>1, RequestStays
  <2>3. y = inHand'[x]
    BY <2>1
  <2> QED
    BY <2>2, <2>3 DEF RequestHolds
<1> QED
  BY <1>1, <1>2, <1>3 DEF AccessInv, RequestsHold

LEMMA DayPassesKeeps ==
  ASSUME AccessInv, DayPasses
  PROVE  AccessInv'
<1>1. day \in Int /\ day' = day + 1
  BY DEF DayPasses, AccessInv, AccessTypeOK
<1>2. ASSUME NEW k \in KeyId, keys[k] # NoRow, Expired(k) PROVE Expired(k)'
  <2>1. keys[k].expires \in Int
    BY <1>2, AccessAssumption DEF Expired, AccessInv, AccessTypeOK, KeyRows
  <2> QED
    BY <1>1, <1>2, <2>1 DEF DayPasses, Expired
<1>3. \A k \in KeyId : keys[k] # NoRow => keys'[k] # NoRow /\ (Usable(k)' => Usable(k))
  BY <1>2 DEF DayPasses, Usable
<1>4. RightsShrink
  BY <1>3 DEF DayPasses, RightsShrink, RightsOf
<1> QED
  BY <1>1, <1>4, ShrinkingKeeps DEF DayPasses, AccessInv, AccessTypeOK

LEMMA DisableKeeps ==
  ASSUME AccessInv, DisableInactiveKeys
  PROVE  AccessInv'
<1>1. ASSUME NEW k \in KeyId
      PROVE  /\ keys'[k] \in KeyRows \union {NoRow}
             /\ keys[k] # NoRow <=> keys'[k] # NoRow
             /\ keys[k] # NoRow => /\ keys'[k].user = keys[k].user
                                   /\ keys'[k].expires = keys[k].expires
                                   /\ keys'[k].active => keys[k].active
  <2>1. CASE Inactive(k)
    <3>1. keys[k] \in KeyRows
      BY <2>1 DEF Inactive, AccessInv, AccessTypeOK
    <3>2. PICK row : row = [keys[k] EXCEPT !.active = FALSE]
      OBVIOUS
    <3>3. /\ row \in KeyRows /\ row.user = keys[k].user
          /\ ~row.active /\ row.expires = keys[k].expires
      BY <3>1, <3>2 DEF KeyRows
    <3>4. keys'[k] = row
      BY <2>1, <3>2 DEF DisableInactiveKeys
    <3> QED
      BY <3>1, <3>3, <3>4, AccessAssumption
  <2>2. CASE ~Inactive(k)
    BY <2>2 DEF DisableInactiveKeys, AccessInv, AccessTypeOK
  <2> QED
    BY <2>1, <2>2
<1>2. keys' \in [KeyId -> KeyRows \union {NoRow}]
  BY <1>1 DEF DisableInactiveKeys
<1>3. RightsShrink
  BY <1>1 DEF DisableInactiveKeys, RightsShrink, RightsOf, Usable, Expired
<1> QED
  BY <1>1, <1>2, <1>3, ShrinkingKeeps DEF DisableInactiveKeys, AccessInv, AccessTypeOK

\* An account that is given a role gives it to the requests of its user too.
LEMMA UpdateUserKeeps ==
  ASSUME AccessInv, NEW u \in UserId, NEW active \in BOOLEAN, NEW role \in Roles,
         UpdateUser(u, active, role)
  PROVE  AccessInv'
<1>1. PICK row : row = [active |-> active, role |-> role]
  OBVIOUS
<1>2. /\ row \in UserRows /\ row # NoRow /\ row.active = active /\ row.role = role
      /\ users[u] # NoRow
  BY <1>1, AccessAssumption DEF UserRows, UpdateUser
<1>3. /\ users' \in [UserId -> UserRows \union {NoRow}]
      /\ \A x \in UserId : users'[x] = IF x = u THEN row ELSE users[x]
      /\ UNCHANGED <<keys, tokens, day, calls>>
  BY <1>1, <1>2 DEF UpdateUser, AccessInv, AccessTypeOK
<1>4. \A x \in UserId : users[x] # NoRow => users'[x] # NoRow
  BY <1>2, <1>3
<1>5. AccountsKnown'
  <2>1. \A t \in tokens : t.sub \in UserId
    BY DEF AccessInv, AccessTypeOK
  <2>2. \A k \in KeyId : keys[k] # NoRow => keys[k].user \in UserId
    BY DEF AccessInv, AccessTypeOK, KeyRows
  <2> QED
    BY <1>3, <1>4, <2>1, <2>2 DEF AccountsKnown, AccessInv
<1>6. ASSUME NEW x \in Session
      PROVE  /\ inHand'[x] \in AccessRequest \union {Idle}
             /\ (inHand[x] = Idle \/ RequestHolds(inHand[x]))'
  <2>1. PICK y, z : y = inHand[x] /\ z = inHand'[x]
    OBVIOUS
  <2>2. CASE y = Idle
    BY <2>1, <2>2 DEF UpdateUser
  <2>3. CASE y # Idle
    <3>1. y \in AccessRequest /\ RequestHolds(y) /\ y.user \in UserId
      BY <2>1, <2>3 DEF AccessInv, AccessTypeOK, RequestsHold, AccessRequest
    <3>2. /\ z \in AccessRequest /\ z.at = y.at
          /\ z.op = y.op /\ z.user = y.user /\ z.key = y.key /\ z.role = y.role
          /\ z.old = y.old /\ z.usable = y.usable
          /\ z.rights = IF y.user = u /\ active THEN y.rights \union {role} ELSE y.rights
      <4>1. CASE y.user = u /\ active
        <5>1. z = [y EXCEPT !.rights = y.rights \union {role}]
          BY <2>1, <2>3, <4>1 DEF UpdateUser
        <5> QED
          BY <3>1, <4>1, <5>1 DEF AccessRequest, AnyRole
      <4>2. CASE ~(y.user = u /\ active)
        BY <2>1, <2>3, <3>1, <4>2 DEF UpdateUser
      <4> QED
        BY <4>1, <4>2
    <3>3. RightsOf(y.user)' \subseteq z.rights
      BY <1>2, <1>3, <3>1, <3>2 DEF RightsOf, RequestHolds
    <3>4. \A k \in KeyId : Usable(k)' = Usable(k)
      BY <1>3 DEF Usable, Expired
    <3>5. y.key \in KeyId \union {NoRow}
      BY <3>1 DEF AccessRequest
    <3>6. RequestHolds(z)'
      BY <1>3, <1>4, <3>1, <3>2, <3>3, <3>4, <3>5 DEF RequestHolds
    <3> QED
      BY <2>1, <3>2, <3>6 DEF RequestHolds
  <2> QED
    BY <2>2, <2>3
<1>7. inHand' \in [Session -> AccessRequest \union {Idle}]
  BY <1>6 DEF UpdateUser
<1>8. AccessTypeOK'
  BY <1>3, <1>7 DEF AccessInv, AccessTypeOK
<1> QED
  BY <1>5, <1>6, <1>8 DEF AccessInv, RequestsHold

\* Rights: for any number of sessions, users and keys, and however accounts and
\* keys change between the statements of a request, the role it runs with is one
\* its user had since it came in (ApiKeyService and the middleware of auth.rs).
THEOREM AccessRights == AccessSpec => []RunsOnCurrentRights
<1>1. AccessInit => AccessInv
  <2> SUFFICES ASSUME AccessInit PROVE AccessInv
    OBVIOUS
  <2>1. AccessTypeOK
    BY AccessAssumption DEF AccessInit, AccessTypeOK, UserRows, AnyRole
  <2>2. AccountsKnown
    <3>1. [active |-> TRUE, role |-> "administrator"] # NoRow
      BY NewUserRow DEF AnyRole
    <3> QED
      BY <3>1, AccessAssumption DEF AccessInit, AccountsKnown
  <2>3. RequestsHold
    BY DEF AccessInit, RequestsHold
  <2> QED
    BY <2>1, <2>2, <2>3 DEF AccessInv
<1>2. AccessInv /\ [AccessNext]_accessVars => AccessInv'
  <2> SUFFICES ASSUME AccessInv, [AccessNext]_accessVars PROVE AccessInv'
    OBVIOUS
  <2>1. ASSUME NEW s \in Session, Handle(s) PROVE AccessInv'
    BY <2>1, TokenArrives, KeyArrives, LookUpKeyKeeps, LoadUserKeeps, UpdateLastUsedKeeps,
       AnswerKeeps, GetOwnKeyKeeps, RevokeKeyKeeps, RegisterKeeps, LoginKeeps, NewKeysKeep DEF Handle
  <2>2. CASE UNCHANGED accessVars
    BY <2>2, ShrinkingKeeps, NothingLost DEF accessVars, AccessInv, AccessTypeOK
  <2> QED
    BY <2>1, <2>2, UpdateUserKeeps, DisableKeeps, DayPassesKeeps DEF AccessNext
<1>3. AccessInv => RunsOnCurrentRights
  BY InHandRequest DEF RunsOnCurrentRights, RequestHolds
<1> QED
  BY <1>1, <1>2, <1>3, PTL DEF AccessSpec

(***************************************************************************)
(* Routing: a high score is not passed over.                               *)
(***************************************************************************)

\* A table that some rows were inserted in, one after the other.
IsTable(t) == t \in Seq({t[i] : i \in DOMAIN t})

AlertRow(x) == x = [route |-> x.route, status |-> x.status, recent |-> x.recent, type |-> x.type]

AlertRows == IsTable(alerts) /\ \A i \in DOMAIN alerts : AlertRow(alerts[i])

WarnInv == AlertRows /\ HighScoreAlerted

LEMMA TableIs ==
  ASSUME NEW n \in Nat, NEW t, t = [i \in 1 .. n |-> t[i]]
  PROVE  IsTable(t)
<1> DEFINE S == {t[i] : i \in DOMAIN t}
<1>1. \A i \in 1 .. n : t[i] \in S
  OBVIOUS
<1> HIDE DEF S
<1>2. t \in [1 .. n -> S]
  BY <1>1
<1>3. t \in Seq(S)
  BY <1>2
<1> QED
  BY <1>3 DEF IsTable, S

LEMMA RowInserted ==
  ASSUME NEW t, IsTable(t), NEW x
  PROVE  /\ IsTable(Append(t, x)) /\ Len(t) + 1 \in Nat
         /\ DOMAIN Append(t, x) = DOMAIN t \union {Len(t) + 1}
         /\ \A i \in DOMAIN t : Append(t, x)[i] = t[i]
         /\ Append(t, x)[Len(t) + 1] = x
<1> DEFINE S == {t[i] : i \in DOMAIN t} \union {x}
<1>1. PICK n \in Nat : n = Len(t) /\ DOMAIN t = 1 .. n
  BY DEF IsTable
<1>2. t \in [1 .. n -> S]
  BY <1>1 DEF IsTable
<1>3. t \in Seq(S)
  BY <1>1, <1>2
<1> HIDE DEF S
<1>4. /\ Append(t, x) \in Seq(S) /\ Len(Append(t, x)) = n + 1
      /\ \A i \in 1 .. n + 1 : Append(t, x)[i] = IF i = n + 1 THEN x ELSE t[i]
  <2>1. x \in S
    BY DEF S
  <2> QED
    BY <1>1, <1>3, <2>1
<1>5. DOMAIN Append(t, x) = 1 .. n + 1
  BY <1>4
<1>6. IsTable(Append(t, x))
  <2>1. PICK u, m : u = Append(t, x) /\ m = n + 1
    OBVIOUS
  <2>2. m \in Nat /\ u \in Seq(S) /\ Len(u) = m
    BY <1>4, <2>1
  <2>3. u \in [1 .. m -> S]
    BY <2>2
  <2>4. u = [i \in 1 .. m |-> u[i]]
    BY <2>3
  <2> QED
    BY <2>1, <2>2, <2>4, TableIs
<1> QED
  BY <1>1, <1>4, <1>5, <1>6

LEMMA InsertAlertKeeps ==
  ASSUME WarnInv, NEW r, NEW s, alerts' = Append(alerts, AlertOf(r, s)), warned' = warned \union {r}
  PROVE  WarnInv'
<1>1. PICK x : x = AlertOf(r, s)
  OBVIOUS
<1>2. AlertRow(x) /\ x.route = r /\ x.status = "open" /\ x.recent
  BY <1>1 DEF AlertOf, AlertRow
<1>3. /\ IsTable(alerts') /\ DOMAIN alerts' = DOMAIN alerts \union {Len(alerts) + 1}
      /\ \A i \in DOMAIN alerts : alerts'[i] = alerts[i]
      /\ alerts'[Len(alerts) + 1] = x
  BY <1>1, RowInserted DEF WarnInv, AlertRows
<1>4. AlertRows'
  <2>1. \A i \in DOMAIN alerts' : AlertRow(alerts'[i])
    BY <1>2, <1>3 DEF WarnInv, AlertRows
  <2> QED
    BY <1>3, <2>1 DEF AlertRows, AlertRow, IsTable
<1>5. HighScoreAlerted'
  <2> SUFFICES ASSUME NEW q \in warned'
               PROVE  \E i \in DOMAIN alerts' : /\ alerts'[i].route = q
                                               /\ alerts'[i].status = "open" /\ alerts'[i].recent
    BY DEF HighScoreAlerted
  <2>1. CASE q = r
    BY <1>2, <1>3, <2>1
  <2>2. CASE q \in warned
    <3>1. PICK i \in DOMAIN alerts : alerts[i].route = q /\ alerts[i].status = "open" /\ alerts[i].recent
      BY <2>2 DEF WarnInv, HighScoreAlerted
    <3> QED
      BY <1>3, <3>1
  <2> QED
    BY <2>1, <2>2
<1> QED
  BY <1>4, <1>5 DEF WarnInv

\* Alerts change; those of the shipments that still count as warned do not.
LEMMA UpdateKeeps ==
  ASSUME WarnInv, warned' \subseteq warned, DOMAIN alerts' = DOMAIN alerts,
         IsTable(alerts'),
         \A i \in DOMAIN alerts : AlertRow(alerts'[i]),
         \A i \in DOMAIN alerts : alerts[i].route \in warned' => alerts'[i] = alerts[i]
  PROVE  WarnInv'
<1>1. AlertRows'
  BY DEF AlertRows, AlertRow, IsTable
<1>2. HighScoreAlerted'
  BY DEF WarnInv, HighScoreAlerted
<1> QED
  BY <1>1, <1>2 DEF WarnInv

LEMMA TableUpdated ==
  ASSUME NEW t, IsTable(t), NEW u, u = [i \in DOMAIN t |-> u[i]]
  PROVE  IsTable(u)
<1>1. PICK n \in Nat : DOMAIN t = 1 .. n
  BY DEF IsTable
<1> QED
  BY <1>1, TableIs

\* High scores: for any number of callers, shipments and alerts, a shipment whose
\* score a scorer found high and went on from has an open alert of the last hour,
\* until one of its alerts is closed or an hour goes by
\* (PredictiveRoutingService::generate_alert).
THEOREM HighScoresWarned == RoutingSpec => []HighScoreAlerted
<1>1. RoutingInit => WarnInv
  <2>1. ASSUME alerts = <<>>, warned = {} PROVE WarnInv
    <3>1. DOMAIN <<>> = {} /\ <<>> = [i \in 1 .. 0 |-> <<>>[i]]
      OBVIOUS
    <3> QED
      BY <2>1, <3>1, TableIs DEF WarnInv, AlertRows, HighScoreAlerted
  <2> QED
    BY <2>1 DEF RoutingInit
<1>2. WarnInv /\ [RoutingNext]_routingVars => WarnInv'
  <2> SUFFICES ASSUME WarnInv, [RoutingNext]_routingVars PROVE WarnInv'
    OBVIOUS
  <2>1. CASE UNCHANGED <<alerts, warned>>
    BY <2>1 DEF WarnInv, AlertRows, AlertRow, IsTable, HighScoreAlerted
  <2>2. ASSUME NEW c \in Caller, CountAlerts(c) PROVE WarnInv'
    <3>1. PICK r : /\ alerts' = alerts
                   /\ warned' = warned \/ (OpenAlert(r) /\ warned' = warned \union {r})
      BY <2>2 DEF CountAlerts
    <3> QED
      BY <3>1 DEF WarnInv, AlertRows, AlertRow, IsTable, HighScoreAlerted, OpenAlert
  <2>3. ASSUME NEW c \in Caller, InsertAlert(c) PROVE WarnInv'
    BY <2>3, InsertAlertKeeps DEF InsertAlert
  <2>4. ASSUME NEW i \in DOMAIN alerts, AcknowledgeAlert(i) \/ ResolveAlert(i) PROVE WarnInv'
    <3>1. PICK status : /\ alerts' = [alerts EXCEPT ![i].status = status]
                        /\ warned' = warned \ {alerts[i].route}
      BY <2>4 DEF AcknowledgeAlert, ResolveAlert, Closed
    <3>2. PICK x : x = [alerts[i] EXCEPT !.status = status] /\ alerts' = [alerts EXCEPT ![i] = x]
      BY <3>1
    <3>3. AlertRow(x)
      BY <3>2 DEF WarnInv, AlertRows, AlertRow
    <3>4. /\ alerts' = [j \in DOMAIN alerts |-> alerts'[j]]
          /\ \A j \in DOMAIN alerts : alerts'[j] = IF j = i THEN x ELSE alerts[j]
      BY <3>2
    <3>5. /\ \A j \in DOMAIN alerts : AlertRow(alerts'[j])
          /\ \A j \in DOMAIN alerts : alerts[j].route \in warned' => alerts'[j] = alerts[j]
      BY <3>1, <3>3, <3>4 DEF WarnInv, AlertRows
    <3>6. DOMAIN alerts' = DOMAIN alerts /\ warned' \subseteq warned
      BY <3>1
    <3>7. IsTable(alerts')
      BY <3>4, TableUpdated DEF WarnInv, AlertRows
    <3> QED
      BY <3>5, <3>6, <3>7, UpdateKeeps
  <2>5. CASE HourPasses
    <3>1. /\ alerts' = [j \in DOMAIN alerts |-> alerts'[j]] /\ warned' = {}
          /\ \A j \in DOMAIN alerts : alerts'[j] = [alerts[j] EXCEPT !.recent = FALSE]
      BY <2>5 DEF HourPasses
    <3>2. \A j \in DOMAIN alerts : AlertRow(alerts'[j])
      BY <3>1 DEF WarnInv, AlertRows, AlertRow
    <3> QED
      BY <3>1, <3>2, TableUpdated, UpdateKeeps DEF WarnInv, AlertRows
  <2>6. ASSUME NEW c \in Caller, Work(c) PROVE UNCHANGED <<alerts, warned>> \/ CountAlerts(c) \/ InsertAlert(c)
    BY <2>6 DEF Work, ScoreShipment, CreateShipmentRoute, UpdatePosition, ScoreAllInTransit,
       ExportTrainingData, BeginJob, tables, UpsertPath, InsertRoute, Move, Merge, LoadGraph,
       LoadRoutes, PersistScore, Propagate, Export, Fail
  <2> QED
    BY <2>1, <2>2, <2>3, <2>4, <2>5, <2>6 DEF RoutingNext, routingVars
<1>3. WarnInv => HighScoreAlerted
  BY DEF WarnInv
<1> QED
  BY <1>1, <1>2, <1>3, PTL DEF RoutingSpec

(***************************************************************************)
(* Sensors: a breach is heard of.                                          *)
(***************************************************************************)

ReadingRecord == [row : ReadingRows, anomaly : BOOLEAN, before : SUBSET Nat]

SensorAlertRecord ==
  [product : {r.product : r \in ReadingRows}, device : {r.device : r \in ReadingRows},
   threshold : Nat, level : {r.level : r \in ThresholdRows}, reading : Nat,
   acknowledged : BOOLEAN, resolved : BOOLEAN]

IotTypeOK ==
  /\ thresholds \in Seq(ThresholdRows)
  /\ readings \in Seq(ReadingRecord)
  /\ sensorAlerts \in Seq(SensorAlertRecord)
  /\ iotTally.calls \in Nat /\ iotTally.faults \in Nat
  /\ iotTally = [calls |-> iotTally.calls, faults |-> iotTally.faults, crossed |-> iotTally.crossed]
  /\ work = [a \in Agent |-> work[a]]

\* The agent has inserted a reading and not yet raised all alerts for it.
Judging(x) == x.at \in {"check", "alert"}

\* What an agent holds of a reading is what the tables say.
JobHolds(x) ==
  /\ x.at = "insert" => x.row \in ReadingRows
  /\ Judging(x) => /\ x.reading \in DOMAIN readings
                   /\ x.row = readings[x.reading].row /\ x.row.product # {}
  /\ x.at = "alert" =>
       /\ x.left \subseteq DOMAIN thresholds
       /\ x = [at |-> "alert", row |-> x.row, reading |-> x.reading, left |-> x.left]

JobsHold == \A a \in Agent : JobHolds(work[a])

\* No two agents judge one reading.
OwnReadings ==
  \A a, b \in Agent : Judging(work[a]) /\ Judging(work[b]) /\ work[a].reading = work[b].reading => a = b

AlertsTrue ==
  \A n \in DOMAIN sensorAlerts :
    /\ sensorAlerts[n].reading \in DOMAIN readings
    /\ sensorAlerts[n].product = readings[sensorAlerts[n].reading].row.product

ThresholdsKnown == \A i \in DOMAIN readings : readings[i].before \subseteq DOMAIN thresholds

\* The thresholds a reading of a product must be judged by, and breaches.
Asked(i) ==
  {t \in readings[i].before :
     /\ readings[i].row.product # {}
     /\ thresholds[t].product \in readings[i].row.product \/ thresholds[t].device = {readings[i].row.device}
     /\ Breached(thresholds[t], readings[i].row.temp)}

\* An agent will still raise the alert for reading i and threshold t, unless a statement fails.
Owes(x, i, t) == Judging(x) /\ x.reading = i /\ (x.at = "alert" => t \in x.left)

Outstanding(i, t) == \E a \in Agent : Owes(work[a], i, t)

Raised(i, t) == {n \in DOMAIN sensorAlerts : sensorAlerts[n].reading = i /\ sensorAlerts[n].threshold = t}

\* No alert while it is owed, and one afterwards.
Settled(i, t) ==
  /\ Outstanding(i, t) => Raised(i, t) = {}
  /\ ~Outstanding(i, t) /\ iotTally.faults = 0 => \E n \in DOMAIN sensorAlerts : Raised(i, t) = {n}

AllSettled == \A i \in DOMAIN readings : \A t \in Asked(i) : Settled(i, t)

BreachInv ==
  IotTypeOK /\ JobsHold /\ OwnReadings /\ AlertsTrue /\ ThresholdsKnown /\ AllSettled

\* A row is added to a table.
LEMMA RowAdded ==
  ASSUME NEW S, NEW s \in Seq(S), NEW x \in S
  PROVE  /\ Append(s, x) \in Seq(S) /\ Len(Append(s, x)) = Len(s) + 1 /\ Len(s) \in Nat
         /\ DOMAIN Append(s, x) = DOMAIN s \union {Len(s) + 1}
         /\ Len(s) + 1 \notin DOMAIN s
         /\ \A i \in DOMAIN s : Append(s, x)[i] = s[i]
         /\ Append(s, x)[Len(s) + 1] = x
<1>1. Len(s) \in Nat /\ DOMAIN s = 1 .. Len(s)
  OBVIOUS
<1>2. Append(s, x) \in Seq(S) /\ Len(Append(s, x)) = Len(s) + 1
  OBVIOUS
<1>3. \A i \in 1 .. Len(s) + 1 : Append(s, x)[i] = IF i = Len(s) + 1 THEN x ELSE s[i]
  BY <1>1
<1>4. DOMAIN Append(s, x) = 1 .. Len(s) + 1
  BY <1>2
<1> QED
  BY <1>1, <1>2, <1>3, <1>4

\* Alerts are acknowledged or resolved at most.
AlertsStay ==
  /\ sensorAlerts' \in Seq(SensorAlertRecord) /\ DOMAIN sensorAlerts' = DOMAIN sensorAlerts
  /\ \A n \in DOMAIN sensorAlerts :
       /\ sensorAlerts'[n].reading = sensorAlerts[n].reading
       /\ sensorAlerts'[n].threshold = sensorAlerts[n].threshold
       /\ sensorAlerts'[n].product = sensorAlerts[n].product

\* The step stays out of the judging of readings: tables only grow, the agents
\* that judge stand still, and the alerts stay what they are.
StaysOut ==
  /\ thresholds' \in Seq(ThresholdRows) /\ DOMAIN thresholds \subseteq DOMAIN thresholds'
  /\ \A t \in DOMAIN thresholds : thresholds'[t] = thresholds[t]
  /\ readings' = readings
  /\ AlertsStay
  /\ iotTally' = [calls |-> iotTally'.calls, faults |-> iotTally'.faults, crossed |-> iotTally'.crossed]
  /\ iotTally'.calls \in Nat /\ iotTally'.faults \in Nat
  /\ iotTally'.faults = 0 => iotTally.faults = 0
  /\ work' = [a \in Agent |-> work'[a]]
  /\ \A a \in Agent :
       \/ work'[a] = work[a]
       \/ ~Judging(work[a]) /\ ~Judging(work'[a]) /\ (work'[a].at = "insert" => work'[a].row \in ReadingRows)

LEMMA StayingOutKeeps ==
  ASSUME BreachInv, StaysOut
  PROVE  BreachInv'
<1>1. IotTypeOK'
  BY DEF BreachInv, IotTypeOK, StaysOut, AlertsStay
<1>2. JobsHold'
  <2> SUFFICES ASSUME NEW a \in Agent PROVE JobHolds(work[a])'
    BY DEF JobsHold
  <2>1. JobHolds(work[a])
    BY DEF BreachInv, JobsHold
  <2>2. CASE work'[a] = work[a]
    BY <2>1, <2>2 DEF JobHolds, Judging, StaysOut, AlertsStay
  <2>3. CASE ~Judging(work'[a]) /\ (work'[a].at = "insert" => work'[a].row \in ReadingRows)
    BY <2>3 DEF JobHolds, Judging
  <2> QED
    BY <2>2, <2>3 DEF StaysOut, AlertsStay
<1>3. OwnReadings'
  BY DEF BreachInv, OwnReadings, StaysOut, AlertsStay
<1>4. AlertsTrue'
  BY DEF BreachInv, AlertsTrue, StaysOut, AlertsStay
<1>5. ThresholdsKnown'
  BY DEF BreachInv, ThresholdsKnown, StaysOut, AlertsStay
<1>6. \A i, t : Outstanding(i, t)' <=> Outstanding(i, t)
  BY DEF Outstanding, Owes, StaysOut, AlertsStay
<1>7. \A i, t : Raised(i, t)' = Raised(i, t)
  BY DEF Raised, StaysOut, AlertsStay
<1>8. \A i \in DOMAIN readings : Asked(i)' = Asked(i)
  <2> SUFFICES ASSUME NEW i \in DOMAIN readings PROVE Asked(i)' = Asked(i)
    OBVIOUS
  <2>1. \A t \in readings[i].before : thresholds'[t] = thresholds[t]
    BY DEF BreachInv, ThresholdsKnown, StaysOut, AlertsStay
  <2> QED
    BY <2>1 DEF Asked, Breached, StaysOut, AlertsStay
<1>9. AllSettled'
  <2> SUFFICES ASSUME NEW i \in DOMAIN readings', NEW t \in Asked(i)' PROVE Settled(i, t)'
    BY DEF AllSettled
  <2>1. i \in DOMAIN readings /\ t \in Asked(i)
    BY <1>8 DEF StaysOut, AlertsStay
  <2>2. Settled(i, t)
    BY <2>1 DEF BreachInv, AllSettled
  <2> QED
    BY <1>6, <1>7, <2>2 DEF Settled, StaysOut, AlertsStay
<1> QED
  BY <1>1, <1>2, <1>3, <1>4, <1>5, <1>9 DEF BreachInv


TallyHolds ==
  /\ iotTally.calls \in Nat /\ iotTally.faults \in Nat
  /\ iotTally = [calls |-> iotTally.calls, faults |-> iotTally.faults, crossed |-> iotTally.crossed]

LEMMA TallySteps ==
  ASSUME BreachInv,
         \/ UNCHANGED iotTally
         \/ iotTally' = [iotTally EXCEPT !.calls = @ + 1]
         \/ iotTally' = [iotTally EXCEPT !.faults = @ + 1]
  PROVE  TallyHolds' /\ (iotTally'.faults = 0 => iotTally.faults = 0)
<1>1. TallyHolds
  BY DEF BreachInv, IotTypeOK, TallyHolds
<1>2. CASE UNCHANGED iotTally
  BY <1>1, <1>2 DEF TallyHolds
<1>3. CASE iotTally' = [iotTally EXCEPT !.calls = @ + 1]
  BY <1>1, <1>3 DEF TallyHolds
<1>4. CASE iotTally' = [iotTally EXCEPT !.faults = @ + 1]
  BY <1>1, <1>4 DEF TallyHolds
<1> QED
  BY <1>2, <1>3, <1>4

\* An agent that judges a reading takes a step in it.
LEMMA JudgeMoves ==
  ASSUME BreachInv, NEW a \in Agent, NEW x, NEW i, Judging(work[a]), i = work[a].reading,
         UNCHANGED <<thresholds, readings>>,
         work' = [work EXCEPT ![a] = x], JobHolds(x),
         Judging(x) => x.reading = i,
         TallyHolds', iotTally'.faults = 0 => iotTally.faults = 0,
         sensorAlerts' \in Seq(SensorAlertRecord), AlertsTrue',
         \A t \in Asked(i) : Settled(i, t)',
         \A j, t : j # i => Raised(j, t)' = Raised(j, t)
  PROVE  BreachInv'
<1>1. /\ work'[a] = x /\ \A b \in Agent : b # a => work'[b] = work[b]
      /\ work' = [b \in Agent |-> work'[b]]
  BY DEF BreachInv, IotTypeOK
<1>2. IotTypeOK'
  BY <1>1 DEF BreachInv, IotTypeOK, TallyHolds
<1>3. JobsHold'
  <2> SUFFICES ASSUME NEW b \in Agent PROVE JobHolds(work[b])'
    BY DEF JobsHold
  <2>1. JobHolds(work'[b])
    BY <1>1 DEF BreachInv, JobsHold
  <2> QED
    BY <2>1 DEF JobHolds, Judging
<1>4. OwnReadings'
  <2> SUFFICES ASSUME NEW b \in Agent, NEW c \in Agent, Judging(work'[b]), Judging(work'[c]),
                      work'[b].reading = work'[c].reading
               PROVE  b = c
    BY DEF OwnReadings, Judging
  <2>1. \A d \in Agent : Judging(work'[d]) => Judging(work[d]) /\ work'[d].reading = work[d].reading
    BY <1>1
  <2> QED
    BY <2>1 DEF BreachInv, OwnReadings
<1>5. ThresholdsKnown'
  BY DEF BreachInv, ThresholdsKnown
<1>6. AllSettled'
  <2>0. \A j : Asked(j)' = Asked(j)
    BY DEF Asked, Breached
  <2> SUFFICES ASSUME NEW j \in DOMAIN readings, NEW t \in Asked(j) PROVE Settled(j, t)'
    BY <2>0 DEF AllSettled
  <2>1. CASE j = i
    BY <2>1
  <2>2. CASE j # i
    <3>1. \A b \in Agent : Owes(work[b], j, t)' <=> Owes(work[b], j, t)
      BY <1>1, <2>2 DEF Owes, Judging
    <3>2. Outstanding(j, t)' <=> Outstanding(j, t)
      BY <3>1 DEF Outstanding
    <3>3. Raised(j, t)' = Raised(j, t)
      BY <2>2
    <3>4. Settled(j, t)
      BY DEF BreachInv, AllSettled
    <3>5. \A n : Raised(j, t) = {n} => n \in DOMAIN sensorAlerts'
      BY <3>3 DEF Raised
    <3> QED
      BY <3>2, <3>3, <3>4, <3>5 DEF Settled
  <2> QED
    BY <2>1, <2>2
<1> QED
  BY <1>2, <1>3, <1>4, <1>5, <1>6 DEF BreachInv

\* A judge that is left out of account owes nothing for another's reading.
LEMMA OnlyOneOwes ==
  ASSUME BreachInv, NEW a \in Agent, Judging(work[a]), NEW t
  PROVE  Outstanding(work[a].reading, t) <=> Owes(work[a], work[a].reading, t)
BY DEF BreachInv, OwnReadings, Outstanding, Owes

LEMMA ReadingRow ==
  ASSUME BreachInv, NEW i \in DOMAIN readings
  PROVE  readings[i] \in ReadingRecord
<1>1. readings \in Seq(ReadingRecord)
  BY DEF BreachInv, IotTypeOK
<1> QED
  BY <1>1

LEMMA CheckKeeps ==
  ASSUME BreachInv, NEW a \in Agent, CheckThresholds(a)
  PROVE  BreachInv'
<1>0. PICK i : i = work[a].reading
  OBVIOUS
<1> DEFINE breached == {t \in Watching(work[a].row) : Breached(thresholds[t], work[a].row.temp)}
<1>1. PICK x : /\ x = IF breached = {} THEN AtRest
                      ELSE [at |-> "alert", row |-> work[a].row, reading |-> work[a].reading, left |-> breached]
               /\ work' = [work EXCEPT ![a] = x]
  BY DEF CheckThresholds, Next1
<1>2. /\ UNCHANGED <<thresholds, readings, sensorAlerts, iotTally>>
      /\ work[a].at = "check" /\ Judging(work[a]) /\ JobHolds(work[a])
  BY DEF CheckThresholds, Next1, sensorVars, Judging, BreachInv, JobsHold
<1>3. i \in DOMAIN readings /\ work[a].row = readings[i].row /\ work[a].row.product # {}
  BY <1>0, <1>2 DEF JobHolds
<1>4. \/ ~Judging(x) /\ x.at # "insert" /\ breached = {}
      \/ /\ x = [at |-> "alert", row |-> x.row, reading |-> x.reading, left |-> x.left]
         /\ x.at = "alert" /\ x.reading = i /\ x.row = work[a].row /\ x.left = breached
  <2>1. CASE breached = {}
    BY <1>0, <1>1, <2>1 DEF AtRest, Judging
  <2>2. CASE breached # {}
    BY <1>0, <1>1, <2>2
  <2> QED
    BY <2>1, <2>2
<1>5. breached \subseteq DOMAIN thresholds
  BY DEF Watching
<1>6. Asked(i) \subseteq breached
  <2> SUFFICES ASSUME NEW t \in Asked(i) PROVE t \in breached
    OBVIOUS
  <2>1. t \in DOMAIN thresholds
    <3>1. readings[i].before \subseteq DOMAIN thresholds
      BY <1>3 DEF BreachInv, ThresholdsKnown
    <3> QED
      BY <3>1 DEF Asked
  <2>2. readings[i].row \in ReadingRows
    BY <1>3, ReadingRow DEF ReadingRecord
  <2>3. {thresholds[t].product} = work[a].row.product \/ work[a].row.device \in thresholds[t].device
    BY <1>3, <2>2, IotAssumption DEF Asked
  <2> QED
    BY <1>3, <2>1, <2>3 DEF Asked, Watching
<1> HIDE DEF breached
<1>7. JobHolds(x)
  BY <1>3, <1>4, <1>5 DEF JobHolds, Judging
<1>8. ASSUME NEW t \in Asked(i) PROVE Settled(i, t)'
  <2>1. x.at = "alert" /\ x.reading = i /\ t \in x.left
    BY <1>4, <1>6
  <2>2. Owes(x, i, t) /\ Owes(work[a], i, t)
    BY <1>0, <1>2, <2>1 DEF Owes, Judging
  <2>3. work'[a] = x
    BY <1>1 DEF BreachInv, IotTypeOK
  <2>4. Outstanding(i, t)' /\ Outstanding(i, t)
    BY <2>2, <2>3 DEF Outstanding, Owes, Judging
  <2>5. Raised(i, t) = {}
    BY <1>3, <2>4 DEF BreachInv, AllSettled, Settled
  <2>6. Raised(i, t)' = {}
    BY <1>2, <2>5 DEF Raised
  <2> QED
    BY <2>4, <2>6 DEF Settled
<1>9. sensorAlerts' \in Seq(SensorAlertRecord) /\ AlertsTrue'
  BY <1>2 DEF BreachInv, IotTypeOK, AlertsTrue
<1>10. \A j, t : Raised(j, t)' = Raised(j, t)
  BY <1>2 DEF Raised
<1>11. TallyHolds' /\ (iotTally'.faults = 0 => iotTally.faults = 0)
  BY <1>2, TallySteps
<1>12. Judging(x) => x.reading = i
  BY <1>4
<1> QED
  BY <1>0, <1>1, <1>2, <1>7, <1>8, <1>9, <1>10, <1>11, <1>12, JudgeMoves

\* What is left of the alerts to raise.
LEMMA LeftOver ==
  ASSUME BreachInv, NEW a \in Agent, work[a].at = "alert", NEW t \in work[a].left
  PROVE  /\ JobHolds(AlertsLeft(a, t))
         /\ Judging(AlertsLeft(a, t)) => /\ AlertsLeft(a, t).reading = work[a].reading
                                         /\ AlertsLeft(a, t).at = "alert"
                                         /\ AlertsLeft(a, t).left = work[a].left \ {t}
         /\ \A i, u : Owes(AlertsLeft(a, t), i, u) <=> Owes(work[a], i, u) /\ u # t
<1> DEFINE x == AlertsLeft(a, t)  j == work[a]
<1>1. JobHolds(j) /\ Judging(j)
  BY DEF BreachInv, JobsHold, Judging
<1>2. /\ j = [at |-> "alert", row |-> j.row, reading |-> j.reading, left |-> j.left]
      /\ j.left \subseteq DOMAIN thresholds /\ j.reading \in DOMAIN readings
      /\ j.row = readings[j.reading].row /\ j.row.product # {}
  BY <1>1 DEF JobHolds
<1>3. CASE j.left = {t}
  <2>1. x.at = "rest"
    BY <1>3 DEF AlertsLeft, AtRest
  <2> QED
    BY <1>3, <2>1 DEF JobHolds, Judging, Owes
<1>4. CASE j.left # {t}
  <2>1. x = [at |-> "alert", row |-> j.row, reading |-> j.reading, left |-> j.left \ {t}]
    BY <1>2, <1>4 DEF AlertsLeft
  <2> HIDE DEF x
  <2>2. /\ x.at = "alert" /\ x.row = j.row /\ x.reading = j.reading /\ x.left = j.left \ {t}
        /\ x = [at |-> "alert", row |-> x.row, reading |-> x.reading, left |-> x.left]
    BY <2>1
  <2>3. JobHolds(x)
    BY <1>2, <2>2 DEF JobHolds, Judging
  <2>4. \A i, u : Owes(x, i, u) <=> Owes(j, i, u) /\ u # t
    BY <1>2, <2>2 DEF Owes, Judging
  <2> QED
    BY <2>2, <2>3, <2>4 DEF x
<1> QED
  BY <1>3, <1>4


\* Only the judge of a reading owes alerts for it.
LEMMA AfterLeft ==
  ASSUME BreachInv, NEW a \in Agent, NEW x, NEW i, i = work[a].reading, Judging(work[a]),
         work' = [work EXCEPT ![a] = x], Judging(x) => x.reading = i, NEW t
  PROVE  Outstanding(i, t)' <=> Owes(x, i, t)
<1>1. work'[a] = x /\ \A b \in Agent : b # a => work'[b] = work[b]
  BY DEF BreachInv, IotTypeOK
<1>2. \A b \in Agent : b # a => ~Owes(work[b], i, t)
  BY DEF BreachInv, OwnReadings, Owes
<1>3. \A b \in Agent : Owes(work[b], i, t)' <=> Owes(work'[b], i, t)
  BY DEF Owes, Judging
<1> QED
  BY <1>1, <1>2, <1>3 DEF Outstanding

\* The row create_alert inserts.
NewAlert(a, t) ==
  [product |-> work[a].row.product, device |-> work[a].row.device,
   threshold |-> t, level |-> thresholds[t].level, reading |-> work[a].reading,
   acknowledged |-> FALSE, resolved |-> FALSE]

LEMMA NewAlertType ==
  ASSUME BreachInv, NEW a \in Agent, work[a].at = "alert", NEW t \in work[a].left
  PROVE  NewAlert(a, t) \in SensorAlertRecord
<1>1. JobHolds(work[a])
  BY DEF BreachInv, JobsHold
<1>2. /\ work[a].reading \in DOMAIN readings /\ t \in DOMAIN thresholds
      /\ work[a].row = readings[work[a].reading].row
  BY <1>1 DEF JobHolds, Judging
<1>3. work[a].row \in ReadingRows
  BY <1>2, ReadingRow DEF ReadingRecord
<1>4. thresholds \in Seq(ThresholdRows) /\ readings \in Seq(ReadingRecord)
  BY DEF BreachInv, IotTypeOK
<1>5. t \in Nat /\ work[a].reading \in Nat /\ thresholds[t] \in ThresholdRows
  BY <1>2, <1>4
<1> QED
  BY <1>3, <1>5 DEF NewAlert, SensorAlertRecord

LEMMA CreateAlertKeeps ==
  ASSUME BreachInv, NEW a \in Agent, CreateAlert(a)
  PROVE  BreachInv'
<1>1. PICK t \in work[a].left :
        /\ sensorAlerts' = Append(sensorAlerts, NewAlert(a, t))
        /\ work' = [work EXCEPT ![a] = AlertsLeft(a, t)]
        /\ UNCHANGED <<thresholds, readings, iotTally>>
        /\ work[a].at = "alert"
  BY DEF CreateAlert, Next1, NewAlert
<1>2. PICK i, x, z : i = work[a].reading /\ x = AlertsLeft(a, t) /\ z = NewAlert(a, t)
  OBVIOUS
<1>3. Judging(work[a]) /\ JobHolds(work[a])
  BY <1>1 DEF Judging, BreachInv, JobsHold
<1>4. /\ JobHolds(x) /\ (Judging(x) => x.reading = i)
      /\ \A j, u : Owes(x, j, u) <=> Owes(work[a], j, u) /\ u # t
  BY <1>1, <1>2, LeftOver
<1>5. /\ z \in SensorAlertRecord
      /\ z.reading = i /\ z.threshold = t /\ z.product = work[a].row.product
  BY <1>1, <1>2, NewAlertType DEF NewAlert
<1>6. PICK k \in Nat :
        /\ k = Len(sensorAlerts) + 1 /\ k \notin DOMAIN sensorAlerts
        /\ DOMAIN sensorAlerts' = DOMAIN sensorAlerts \union {k}
        /\ \A n \in DOMAIN sensorAlerts : sensorAlerts'[n] = sensorAlerts[n]
        /\ sensorAlerts'[k] = z /\ sensorAlerts' \in Seq(SensorAlertRecord)
  <2>1. sensorAlerts \in Seq(SensorAlertRecord)
    BY DEF BreachInv, IotTypeOK
  <2> QED
    BY <1>1, <1>2, <1>5, <2>1, RowAdded
<1>7. i \in DOMAIN readings /\ work[a].row = readings[i].row
  BY <1>2, <1>3 DEF JobHolds
<1>8. AlertsTrue'
  BY <1>1, <1>5, <1>6, <1>7 DEF BreachInv, AlertsTrue
<1>9. /\ \A j, u : j # i \/ u # t => Raised(j, u)' = Raised(j, u)
      /\ Raised(i, t)' = Raised(i, t) \union {k}
  BY <1>5, <1>6 DEF Raised
<1>10. ASSUME NEW u \in Asked(i) PROVE Settled(i, u)'
  <2>1. Outstanding(i, u)' <=> Owes(x, i, u)
    BY <1>1, <1>2, <1>3, <1>4, AfterLeft
  <2>2. Outstanding(i, u) <=> Owes(work[a], i, u)
    BY <1>2, <1>3, OnlyOneOwes
  <2>3. Settled(i, u)
    BY <1>7 DEF BreachInv, AllSettled
  <2>4. CASE u = t
    <3>1. Owes(work[a], i, t)
      BY <1>1, <1>2, <1>3 DEF Owes
    <3>2. Raised(i, t)' = {k}
      BY <1>9, <2>2, <2>3, <2>4, <3>1 DEF Settled
    <3> QED
      BY <1>4, <1>6, <2>1, <2>4, <3>2 DEF Settled
  <2>5. CASE u # t
    <3>1. Outstanding(i, u)' <=> Outstanding(i, u)
      BY <1>4, <2>1, <2>2, <2>5
    <3>2. Raised(i, u)' = Raised(i, u)
      BY <1>9, <2>5
    <3>3. \A n : Raised(i, u) = {n} => n \in DOMAIN sensorAlerts'
      BY <3>2 DEF Raised
    <3> QED
      BY <1>1, <2>3, <3>1, <3>2, <3>3 DEF Settled
  <2> QED
    BY <2>4, <2>5
<1>11. TallyHolds' /\ (iotTally'.faults = 0 => iotTally.faults = 0)
  BY <1>1, TallySteps
<1>12. work' = [work EXCEPT ![a] = x] /\ UNCHANGED <<thresholds, readings>>
  BY <1>1, <1>2
<1>13. \A j, u : j # i => Raised(j, u)' = Raised(j, u)
  BY <1>9
<1> QED
  BY <1>2, <1>3, <1>4, <1>6, <1>8, <1>10, <1>11, <1>12, <1>13, JudgeMoves

\* A statement of a judge fails.
LEMMA JudgeFails ==
  ASSUME BreachInv, NEW a \in Agent, Judging(work[a]), NEW x, Fault(a, x),
         JobHolds(x), Judging(x) => x.reading = work[a].reading,
         \A j, t : Owes(x, j, t) => Owes(work[a], j, t)
  PROVE  BreachInv'
<1>1. PICK i : i = work[a].reading
  OBVIOUS
<1>2. /\ UNCHANGED <<thresholds, readings, sensorAlerts>>
      /\ work' = [work EXCEPT ![a] = x]
      /\ iotTally' = [iotTally EXCEPT !.faults = @ + 1]
  BY DEF Fault, sensorVars
<1>3. TallyHolds' /\ (iotTally'.faults = 0 => iotTally.faults = 0)
  BY <1>2, TallySteps
<1>4. iotTally'.faults # 0
  BY <1>2 DEF BreachInv, IotTypeOK
<1>5. sensorAlerts' \in Seq(SensorAlertRecord) /\ AlertsTrue'
  BY <1>2 DEF BreachInv, IotTypeOK, AlertsTrue
<1>6. \A j, t : Raised(j, t)' = Raised(j, t)
  BY <1>2 DEF Raised
<1>7. i \in DOMAIN readings
  BY <1>1 DEF BreachInv, JobsHold, JobHolds
<1>8. ASSUME NEW t \in Asked(i) PROVE Settled(i, t)'
  <2>1. Outstanding(i, t)' => Outstanding(i, t)
    BY <1>1, <1>2, AfterLeft, OnlyOneOwes
  <2>2. Settled(i, t)
    BY <1>7 DEF BreachInv, AllSettled
  <2> QED
    BY <1>4, <1>6, <2>1, <2>2 DEF Settled
<1> QED
  BY <1>1, <1>2, <1>3, <1>5, <1>6, <1>8, JudgeMoves

LEMMA ReadingFailsKeeps ==
  ASSUME BreachInv, NEW a \in Agent, ReadingFails(a)
  PROVE  BreachInv'
<1>1. /\ AtRest.at = "rest" /\ ~Judging(AtRest) /\ JobHolds(AtRest)
      /\ \A j, t : ~Owes(AtRest, j, t)
  BY DEF AtRest, Judging, JobHolds, Owes
<1>2. CASE work[a].at = "insert" /\ Fault(a, AtRest)
  <2>1. StaysOut
    <3>1. /\ UNCHANGED <<thresholds, readings, sensorAlerts>>
          /\ work' = [work EXCEPT ![a] = AtRest]
          /\ iotTally' = [iotTally EXCEPT !.faults = @ + 1]
      BY <1>2 DEF Fault, sensorVars
    <3>2. TallyHolds' /\ (iotTally'.faults = 0 => iotTally.faults = 0)
      BY <3>1, TallySteps
    <3>3. \A b \in Agent : work'[b] = IF b = a THEN AtRest ELSE work[b]
      BY <3>1 DEF BreachInv, IotTypeOK
    <3>4. ~Judging(work[a])
      BY <1>2 DEF Judging
    <3>5. work' = [b \in Agent |-> work'[b]]
      BY <3>1 DEF BreachInv, IotTypeOK
    <3> QED
      BY <1>1, <3>1, <3>2, <3>3, <3>4, <3>5 DEF StaysOut, AlertsStay, TallyHolds, BreachInv, IotTypeOK
  <2> QED
    BY <2>1, StayingOutKeeps
<1>3. CASE work[a].at = "check" /\ Fault(a, AtRest)
  <2>1. Judging(work[a])
    BY <1>3 DEF Judging
  <2> QED
    BY <1>1, <1>3, <2>1, JudgeFails
<1>4. ASSUME work[a].at = "alert", NEW t \in work[a].left, Fault(a, AlertsLeft(a, t)) PROVE BreachInv'
  <2>1. PICK x : x = AlertsLeft(a, t)
    OBVIOUS
  <2>2. /\ JobHolds(x) /\ (Judging(x) => x.reading = work[a].reading)
        /\ \A j, u : Owes(x, j, u) => Owes(work[a], j, u)
    BY <1>4, <2>1, LeftOver
  <2>3. Judging(work[a]) /\ Fault(a, x)
    BY <1>4, <2>1 DEF Judging
  <2> QED
    BY <2>2, <2>3, JudgeFails
<1> QED
  BY <1>2, <1>3, <1>4 DEF ReadingFails


LEMMA InsertReadingKeeps ==
  ASSUME BreachInv, NEW a \in Agent, InsertReading(a), work[a].row.device \in sensors
  PROVE  BreachInv'
<1>1. PICK row, rec, x :
        /\ row = work[a].row
        /\ rec = [row |-> row, anomaly |-> CheckAnomaly(row), before |-> DOMAIN thresholds]
        /\ readings' = Append(readings, rec)
        /\ x = IF row.product = {} THEN AtRest
               ELSE [at |-> "check", row |-> row, reading |-> Len(readings')]
        /\ work' = [work EXCEPT ![a] = x]
        /\ UNCHANGED <<thresholds, sensorAlerts, iotTally>>
        /\ work[a].at = "insert"
  BY DEF InsertReading, Next1
<1>2. row \in ReadingRows /\ ~Judging(work[a])
  BY <1>1 DEF BreachInv, JobsHold, JobHolds, Judging
<1>3. /\ rec \in ReadingRecord /\ rec.row = row /\ rec.before = DOMAIN thresholds
  <2>1. CheckAnomaly(row) \in BOOLEAN
    BY DEF CheckAnomaly
  <2>2. DOMAIN thresholds \subseteq Nat
    BY DEF BreachInv, IotTypeOK
  <2> QED
    BY <1>1, <1>2, <2>1, <2>2 DEF ReadingRecord
<1>4. PICK k \in Nat :
        /\ k = Len(readings') /\ k \notin DOMAIN readings
        /\ DOMAIN readings' = DOMAIN readings \union {k}
        /\ \A j \in DOMAIN readings : readings'[j] = readings[j]
        /\ readings'[k] = rec /\ readings' \in Seq(ReadingRecord)
  <2>1. readings \in Seq(ReadingRecord)
    BY DEF BreachInv, IotTypeOK
  <2> QED
    BY <1>1, <1>3, <2>1, RowAdded
<1>5. /\ work'[a] = x /\ \A b \in Agent : b # a => work'[b] = work[b]
      /\ work' = [b \in Agent |-> work'[b]]
  BY <1>1 DEF BreachInv, IotTypeOK
<1>6. \/ row.product = {} /\ ~Judging(x) /\ x.at # "insert"
      \/ /\ row.product # {} /\ Judging(x) /\ x.at = "check"
         /\ x.row = row /\ x.reading = k
  <2>1. CASE row.product = {}
    BY <1>1, <2>1 DEF AtRest, Judging
  <2>2. CASE row.product # {}
    BY <1>1, <1>4, <2>2 DEF Judging
  <2> QED
    BY <2>1, <2>2
<1>7. IotTypeOK'
  BY <1>1, <1>4, <1>5 DEF BreachInv, IotTypeOK
<1>8. JobsHold'
  <2> SUFFICES ASSUME NEW b \in Agent PROVE JobHolds(work[b])'
    BY DEF JobsHold
  <2>1. CASE b = a
    BY <1>1, <1>3, <1>4, <1>5, <1>6, <2>1 DEF JobHolds, Judging
  <2>2. CASE b # a
    <3>1. JobHolds(work[b]) /\ work'[b] = work[b]
      BY <1>5, <2>2 DEF BreachInv, JobsHold
    <3> QED
      BY <1>1, <1>4, <3>1 DEF JobHolds, Judging
  <2> QED
    BY <2>1, <2>2
<1>9. \A b \in Agent : b # a /\ Judging(work'[b]) => work'[b].reading \in DOMAIN readings
  BY <1>5 DEF BreachInv, JobsHold, JobHolds
<1>10. OwnReadings'
  <2> SUFFICES ASSUME NEW b \in Agent, NEW c \in Agent, Judging(work'[b]), Judging(work'[c]),
                      work'[b].reading = work'[c].reading
               PROVE  b = c
    BY DEF OwnReadings, Judging
  <2>1. CASE b # a /\ c # a
    BY <1>5, <2>1 DEF BreachInv, OwnReadings
  <2>2. CASE b = a \/ c = a
    BY <1>4, <1>5, <1>6, <1>9, <2>2
  <2> QED
    BY <2>1, <2>2
<1>11. AlertsTrue'
  BY <1>1, <1>4 DEF BreachInv, AlertsTrue
<1>12. ThresholdsKnown'
  BY <1>1, <1>3, <1>4 DEF BreachInv, ThresholdsKnown
<1>13. \A j, t : Raised(j, t)' = Raised(j, t)
  BY <1>1 DEF Raised
<1>14. ASSUME NEW j \in DOMAIN readings, NEW t \in Asked(j)' PROVE Settled(j, t)'
  <2>1. t \in Asked(j)
    BY <1>1, <1>4 DEF Asked, Breached
  <2>2. Settled(j, t)
    BY <2>1 DEF BreachInv, AllSettled
  <2>3. j # k
    BY <1>4
  <2>4. \A b \in Agent : Owes(work[b], j, t)' <=> Owes(work[b], j, t)
    BY <1>2, <1>5, <1>6, <2>3 DEF Owes, Judging
  <2>5. Outstanding(j, t)' <=> Outstanding(j, t)
    BY <2>4 DEF Outstanding
  <2> QED
    BY <1>1, <1>13, <2>2, <2>5 DEF Settled
<1>15. ASSUME NEW t \in Asked(k)' PROVE Settled(k, t)'
  <2>1. row.product # {}
    BY <1>3, <1>4 DEF Asked
  <2>2. Owes(x, k, t)
    BY <1>6, <2>1 DEF Owes
  <2>3. Outstanding(k, t)'
    BY <1>5, <2>2 DEF Outstanding, Owes, Judging
  <2>4. Raised(k, t) = {}
    BY <1>4 DEF BreachInv, AlertsTrue, Raised
  <2> QED
    BY <1>13, <2>3, <2>4 DEF Settled
<1>16. AllSettled'
  BY <1>4, <1>14, <1>15 DEF AllSettled
<1> QED
  BY <1>7, <1>8, <1>10, <1>11, <1>12, <1>16 DEF BreachInv

\* A step that changes at most the calls' count, and an agent that judges nothing.
LEMMA OutsideStep ==
  ASSUME BreachInv, NEW a \in Agent, NEW x,
         work' = work \/ (work' = [work EXCEPT ![a] = x] /\ ~Judging(work[a]) /\ ~Judging(x)
                          /\ (x.at = "insert" => x.row \in ReadingRows)),
         \/ UNCHANGED iotTally
         \/ iotTally' = [iotTally EXCEPT !.calls = @ + 1]
         \/ iotTally' = [iotTally EXCEPT !.faults = @ + 1],
         UNCHANGED <<thresholds, readings, sensorAlerts>>
  PROVE  BreachInv'
<1>1. TallyHolds' /\ (iotTally'.faults = 0 => iotTally.faults = 0)
  BY TallySteps
<1>2. \A b \in Agent : work'[b] = work[b] \/ (b = a /\ work'[b] = x /\ work' # work)
  BY DEF BreachInv, IotTypeOK
<1>3. work' = [b \in Agent |-> work'[b]]
  BY DEF BreachInv, IotTypeOK
<1>4. StaysOut
  BY <1>1, <1>2, <1>3 DEF StaysOut, AlertsStay, TallyHolds, BreachInv, IotTypeOK
<1> QED
  BY <1>4, StayingOutKeeps

LEMMA ReadingStepKeeps ==
  ASSUME BreachInv, NEW a \in Agent, ReadingStep(a)
  PROVE  BreachInv'
<1>1. ASSUME NEW row \in ReadingRows, CreateReading(a, row) PROVE BreachInv'
  <2>1. PICK x : x = [at |-> "insert", row |-> row]
    OBVIOUS
  <2>2. /\ work' = [work EXCEPT ![a] = x] /\ work[a].at = "rest"
        /\ iotTally' = [iotTally EXCEPT !.calls = @ + 1]
        /\ UNCHANGED <<thresholds, readings, sensorAlerts>>
    BY <1>1, <2>1 DEF CreateReading, BeginWork, AtRest, sensorVars
  <2>3. ~Judging(work[a]) /\ ~Judging(x) /\ x.row \in ReadingRows
    BY <2>1, <2>2 DEF Judging
  <2> QED
    BY <2>2, <2>3, OutsideStep
<1>2. CASE InsertReading(a) /\ work[a].row.device \notin sensors
  <2>1. /\ work' = [work EXCEPT ![a] = AtRest] /\ work[a].at = "insert"
        /\ UNCHANGED <<thresholds, readings, sensorAlerts, iotTally>>
    BY <1>2 DEF InsertReading, Next1
  <2>2. ~Judging(work[a]) /\ ~Judging(AtRest) /\ AtRest.at # "insert"
    BY <2>1 DEF Judging, AtRest
  <2> QED
    BY <2>1, <2>2, OutsideStep
<1> QED
  BY <1>1, <1>2, InsertReadingKeeps, CheckKeeps, CreateAlertKeeps, ReadingFailsKeeps DEF ReadingStep

LEMMA SensorTablesKeep ==
  ASSUME BreachInv, NEW a \in Agent,
         \/ \E d \in Sensor : CreateDevice(a, d)
         \/ \E row \in ThresholdRows : CreateThreshold(a, row)
         \/ AcknowledgeSensorAlert(a) \/ ResolveSensorAlert(a)
  PROVE  BreachInv'
<1>0. /\ iotTally' = [iotTally EXCEPT !.calls = @ + 1] /\ UNCHANGED <<work, readings>>
  BY DEF CreateDevice, CreateThreshold, AcknowledgeSensorAlert, ResolveSensorAlert, Single
<1>1. TallyHolds' /\ (iotTally'.faults = 0 => iotTally.faults = 0)
  BY <1>0, TallySteps
<1>2. /\ thresholds' \in Seq(ThresholdRows) /\ DOMAIN thresholds \subseteq DOMAIN thresholds'
      /\ \A t \in DOMAIN thresholds : thresholds'[t] = thresholds[t]
  <2>1. thresholds \in Seq(ThresholdRows)
    BY DEF BreachInv, IotTypeOK
  <2>2. CASE UNCHANGED thresholds
    BY <2>1, <2>2
  <2>3. CASE \E row \in ThresholdRows : thresholds' = Append(thresholds, row)
    BY <2>1, <2>3, RowAdded
  <2> QED
    BY <2>2, <2>3 DEF CreateDevice, CreateThreshold, AcknowledgeSensorAlert, ResolveSensorAlert
<1>3. AlertsStay
  <2>1. sensorAlerts \in Seq(SensorAlertRecord)
    BY DEF BreachInv, IotTypeOK
  <2>2. CASE UNCHANGED sensorAlerts
    BY <2>1, <2>2 DEF AlertsStay
  <2>3. ASSUME NEW i \in DOMAIN sensorAlerts, NEW y,
               \/ y = [sensorAlerts[i] EXCEPT !.acknowledged = TRUE]
               \/ y = [sensorAlerts[i] EXCEPT !.resolved = TRUE],
               sensorAlerts' = [sensorAlerts EXCEPT ![i] = y]
        PROVE  AlertsStay
    <3>1. sensorAlerts[i] \in SensorAlertRecord
      BY <2>1
    <3>2. /\ y \in SensorAlertRecord /\ y.reading = sensorAlerts[i].reading
          /\ y.threshold = sensorAlerts[i].threshold /\ y.product = sensorAlerts[i].product
      BY <2>3, <3>1 DEF SensorAlertRecord
    <3> QED
      BY <2>1, <2>3, <3>2 DEF AlertsStay
  <2> QED
    BY <2>2, <2>3 DEF CreateDevice, CreateThreshold, AcknowledgeSensorAlert, ResolveSensorAlert
<1>4. StaysOut
  BY <1>0, <1>1, <1>2, <1>3 DEF StaysOut, AlertsStay, TallyHolds, BreachInv, IotTypeOK
<1> QED
  BY <1>4, StayingOutKeeps

LEMMA SummaryKeeps ==
  ASSUME BreachInv, NEW a \in Agent,
         \/ \E d \in Sensor : GenerateSummary(a, d, 1, 2)
         \/ CountSensorAlerts(a) \/ UpsertSummary(a) \/ SummaryFails(a)
  PROVE  BreachInv'
<1>1. \E x : /\ work' = [work EXCEPT ![a] = x] /\ x.at \in {"count", "summary", "rest"}
             /\ work[a].at \in {"rest", "count", "summary"}
  <2>1. ASSUME NEW d \in Sensor, GenerateSummary(a, d, 1, 2) 
        PROVE  \E x : /\ work' = [work EXCEPT ![a] = x] /\ x.at \in {"count", "summary", "rest"}
                      /\ work[a].at \in {"rest", "count", "summary"}
    <3>1. PICK x : /\ x.at = "count" /\ work' = [work EXCEPT ![a] = x]
      <4>1. PICK n, m : BeginWork(a, [at |-> "count", device |-> d, total |-> n, anomalies |-> m])
        BY <2>1 DEF GenerateSummary
      <4> QED
        BY <4>1 DEF BeginWork
    <3>2. work[a].at = "rest"
      BY <2>1 DEF GenerateSummary, BeginWork, AtRest
    <3> QED
      BY <3>1, <3>2
  <2>2. CASE CountSensorAlerts(a)
    BY <2>2 DEF CountSensorAlerts, Next1
  <2>3. CASE UpsertSummary(a)
    BY <2>3 DEF UpsertSummary, Next1, AtRest
  <2>4. CASE SummaryFails(a)
    BY <2>4 DEF SummaryFails, Fault, AtRest
  <2> QED
    BY <2>1, <2>2, <2>3, <2>4
<1>2. PICK x : /\ work' = [work EXCEPT ![a] = x] /\ x.at \in {"count", "summary", "rest"}
               /\ work[a].at \in {"rest", "count", "summary"}
  BY <1>1
<1>3. UNCHANGED <<thresholds, readings, sensorAlerts>>
  BY DEF GenerateSummary, CountSensorAlerts, UpsertSummary, SummaryFails, Fault, sensorVars
<1>4. \/ UNCHANGED iotTally
      \/ iotTally' = [iotTally EXCEPT !.calls = @ + 1]
      \/ iotTally' = [iotTally EXCEPT !.faults = @ + 1]
  BY DEF GenerateSummary, CountSensorAlerts, UpsertSummary, SummaryFails, BeginWork, Next1, Fault
<1>5. ~Judging(work[a]) /\ ~Judging(x) /\ x.at # "insert"
  BY <1>2 DEF Judging
<1> QED
  BY <1>2, <1>3, <1>4, <1>5, OutsideStep

\* Breaches: for any number of agents, devices, thresholds and readings, a
\* reading of a product that nobody works on has exactly one alert for each
\* threshold it had to be judged by and breaches (IotService::create_reading).
THEOREM BreachesHeard == SensorSpec => []EveryBreachAlerted
<1>1. SensorInit => BreachInv
  <2> SUFFICES ASSUME SensorInit PROVE BreachInv
    OBVIOUS
  <2>1. IotTypeOK
    <3>1. readings \in Seq(ReadingRecord)
      <4>1. CASE readings = <<>>
        BY <4>1
      <4>2. ASSUME NEW r \in ReadingRows,
                   readings = <<[row |-> r, anomaly |-> CheckAnomaly(r), before |-> {}]>>
            PROVE  readings \in Seq(ReadingRecord)
        <5>1. PICK rec : rec = [row |-> r, anomaly |-> CheckAnomaly(r), before |-> {}]
          OBVIOUS
        <5>2. rec \in ReadingRecord
          BY <5>1 DEF ReadingRecord, CheckAnomaly
        <5> QED
          BY <4>2, <5>1, <5>2
      <4> QED
        BY <4>1, <4>2 DEF SensorInit
    <3> QED
      BY <3>1 DEF SensorInit, IotTypeOK
  <2>2. \A i \in DOMAIN readings : readings[i].before = {}
    BY DEF SensorInit
  <2>3. \A a \in Agent : work[a].at = "rest"
    BY DEF SensorInit, AtRest
  <2>4. JobsHold /\ OwnReadings
    BY <2>3 DEF JobsHold, JobHolds, OwnReadings, Judging
  <2>5. AlertsTrue /\ ThresholdsKnown /\ AllSettled
    BY <2>2 DEF SensorInit, AlertsTrue, ThresholdsKnown, AllSettled, Asked
  <2> QED
    BY <2>1, <2>4, <2>5 DEF BreachInv
<1>2. BreachInv /\ [SensorNext]_<<sensorVars, work, iotTally>> => BreachInv'
  <2> SUFFICES ASSUME BreachInv, [SensorNext]_<<sensorVars, work, iotTally>> PROVE BreachInv'
    OBVIOUS
  <2>1. ASSUME NEW a \in Agent, SensorStep(a) PROVE BreachInv'
    BY <2>1, ReadingStepKeeps, SensorTablesKeep, SummaryKeeps DEF SensorStep
  <2>2. CASE UNCHANGED <<sensorVars, work, iotTally>>
    <3>1. StaysOut
      BY <2>2 DEF StaysOut, AlertsStay, sensorVars, BreachInv, IotTypeOK
    <3> QED
      BY <3>1, StayingOutKeeps
  <2> QED
    BY <2>1, <2>2 DEF SensorNext
<1>3. BreachInv => EveryBreachAlerted
  <2> SUFFICES ASSUME BreachInv, iotTally.faults = 0,
                      NEW i \in DOMAIN readings, readings[i].row.product # {},
                      \A a \in Agent : work[a].at \in {"check", "alert"} => work[a].reading # i,
                      NEW t \in readings[i].before,
                      \/ t \in UNION {GetThresholds(p) : p \in readings[i].row.product}
                      \/ thresholds[t].device = {readings[i].row.device},
                      Breached(thresholds[t], readings[i].row.temp)
               PROVE  Cardinality({n \in GetAlerts(readings[i].row.product, BOOLEAN) :
                               sensorAlerts[n].reading = i /\ sensorAlerts[n].threshold = t}) = 1
    BY DEF EveryBreachAlerted
  <2>1. t \in Asked(i)
    BY DEF Asked, GetThresholds
  <2>2. ~Outstanding(i, t)
    BY DEF Outstanding, Owes, Judging
  <2>3. PICK n \in DOMAIN sensorAlerts : Raised(i, t) = {n}
    BY <2>1, <2>2 DEF BreachInv, AllSettled, Settled
  <2>4. \A m \in Raised(i, t) : /\ sensorAlerts[m].product \subseteq readings[i].row.product
                                /\ sensorAlerts[m].resolved \in BOOLEAN
    <3> SUFFICES ASSUME NEW m \in Raised(i, t)
                 PROVE  /\ sensorAlerts[m].product \subseteq readings[i].row.product
                        /\ sensorAlerts[m].resolved \in BOOLEAN
      OBVIOUS
    <3>1. m \in DOMAIN sensorAlerts /\ sensorAlerts[m].reading = i
      BY DEF Raised
    <3>2. sensorAlerts[m].product = readings[i].row.product
      BY <3>1 DEF BreachInv, AlertsTrue
    <3>3. sensorAlerts \in Seq(SensorAlertRecord)
      BY DEF BreachInv, IotTypeOK
    <3>4. sensorAlerts[m] \in SensorAlertRecord
      BY <3>1, <3>3
    <3> QED
      BY <3>2, <3>4 DEF SensorAlertRecord
  <2>5. {m \in GetAlerts(readings[i].row.product, BOOLEAN) :
           sensorAlerts[m].reading = i /\ sensorAlerts[m].threshold = t} = {n}
    BY <2>3, <2>4 DEF GetAlerts, Raised
  <2> QED
    BY <2>5, FS_Singleton
<1> QED
  BY <1>1, <1>2, <1>3, PTL DEF SensorSpec


(***************************************************************************)
(* The audit log.                                                          *)
(***************************************************************************)

AuditEvent ==
  {HttpEvent(r) : r \in HttpRequest} \union {LoginEvent(b, r.address) : b \in BOOLEAN, r \in HttpRequest}

\* The hashes of the first n rows that were inserted.
HashesOf(n) == {NoHash} \union {written[k].hash : k \in 1 .. n}

Hashes == HashesOf(Len(written))

AuditRow == [event : AuditEvent, prev : Hashes, hash : Hashes, day : Nat]

AuditTask == [at : {"read", "insert"}, event : AuditEvent, prev : Hashes]

\* What is in the table, and what a task has read there, goes back to rows that were inserted.
AuditTypeOK ==
  /\ auditRows \in Seq(AuditRow) /\ written \in Seq(AuditRow)
  /\ task \in [Writer -> AuditTask \union {NoTask}]
  /\ today \in Nat /\ alterations \in Nat /\ raced \in BOOLEAN

\* A row was chained to one that was inserted before it, or to none.
WrittenChained ==
  \A k \in 1 .. Len(written) :
    /\ written[k].hash = Hmac(written[k].event, written[k].prev)
    /\ written[k].prev \in HashesOf(k - 1)

\* As long as nobody interfered there is one task, and it has read the newest hash.
Undisturbed ==
  ~raced /\ alterations = 0 =>
    /\ Valid
    /\ \A v, w \in Writer : task[v] # NoTask /\ task[w] # NoTask => v = w
    /\ \A w \in Writer : task[w].at = "insert" => task[w].prev = LatestHash

AuditInv == AuditTypeOK /\ WrittenChained /\ Undisturbed

\* The rows of the chain.
HasHash(E) == {row \in E : row.hash # NoHash}

LEMMA ChainIs ==
  ASSUME NEW E, NEW rows \in Seq(E)
  PROVE  Chained(rows) = Kept(rows, HasHash(E)) /\ Chained(rows) \in Seq(E)
<1>1. rows \in Seq(ToSet(rows)) /\ \A row \in ToSet(rows) : row \in E
  BY DEF ToSet
<1>2. PICK T : T = {row \in ToSet(rows) : row.hash # NoHash}
  OBVIOUS
<1>3. \A row \in ToSet(rows) : row \in T <=> row \in HasHash(E)
  BY <1>1, <1>2 DEF HasHash
<1>4. Kept(rows, T) = Kept(rows, HasHash(E))
  BY <1>1, <1>3, KeptAlike
<1>. QED BY <1>2, <1>4, KeptType DEF Chained

\* A row with a hash that is inserted comes last in the chain, one without is not in it.
LEMMA ChainGrows ==
  ASSUME NEW E, NEW rows \in Seq(E), NEW row \in E
  PROVE  Chained(Append(rows, row)) = IF row.hash = NoHash THEN Chained(rows)
                                      ELSE Append(Chained(rows), row)
<1>1. PICK s \in Seq(E) : s = Append(rows, row)
  <2>1. Append(rows, row) \in Seq(E)
    OBVIOUS
  <2>. QED BY <2>1, Zenon
<1>2. Chained(s) = Kept(s, HasHash(E)) /\ Chained(rows) = Kept(rows, HasHash(E))
  BY ChainIs
<1>3. row \in HasHash(E) <=> row.hash # NoHash
  BY DEF HasHash
<1>4. Kept(s, HasHash(E)) = IF row \in HasHash(E) THEN Append(Kept(rows, HasHash(E)), row)
                            ELSE Kept(rows, HasHash(E))
  BY <1>1, KeptAppended
<1>. QED BY <1>1, <1>2, <1>3, <1>4, Zenon

LEMMA AuditBegins == AuditInit => AuditInv
<1>. SUFFICES ASSUME AuditInit PROVE AuditInv
  OBVIOUS
<1>1. written = <<>> /\ Len(written) = 0
  BY DEF AuditInit
<1>2. auditRows \in Seq(AuditRow) /\ Chain = <<>>
  <2>1. <<>> \in Seq(AuditRow) /\ Chained(<<>>) = <<>>
    BY KeptOfNone DEF Chained
  <2>2. ASSUME NEW r \in HttpRequest, auditRows = <<OldRow(r)>>
        PROVE  auditRows \in Seq(AuditRow) /\ Chain = <<>>
    <3>1. PICK row : row = OldRow(r)
      OBVIOUS
    <3>2. row \in AuditRow /\ row.hash = NoHash
      BY <3>1 DEF OldRow, AuditRow, AuditEvent, Hashes, HashesOf
    <3>3. auditRows = Append(<<>>, row)
      BY <2>2, <3>1
    <3>4. auditRows \in Seq(AuditRow)
      BY <2>2, <3>1, <3>2
    <3>. QED BY <2>1, <3>2, <3>3, <3>4, ChainGrows, Zenon DEF Chain
  <2>. QED BY <2>1, <2>2 DEF AuditInit, Chain
<1>3. AuditTypeOK
  <2>1. written \in Seq(AuditRow)
    BY <1>1
  <2>2. task = [w \in Writer |-> NoTask] /\ today = 0 /\ alterations = 0 /\ raced = FALSE
    BY DEF AuditInit
  <2>3. task \in [Writer -> AuditTask \union {NoTask}]
    BY <2>2
  <2>. QED BY <1>2, <2>1, <2>2, <2>3 DEF AuditTypeOK
<1>4. WrittenChained
  BY <1>1 DEF WrittenChained
<1>5. \A w \in Writer : task[w] = NoTask /\ task[w].at # "insert"
  <2>1. NoTask.at # "insert"
    BY DEF NoTask
  <2>2. \A w \in Writer : task[w] = NoTask
    BY DEF AuditInit
  <2>. QED BY <2>1, <2>2
<1>6. Valid
  BY <1>2 DEF Valid
<1>7. Undisturbed
  BY <1>5, <1>6 DEF Undisturbed
<1>. QED BY <1>3, <1>4, <1>7 DEF AuditInv

\* Rows stay rows when others are inserted.
LEMMA HashesStay ==
  ASSUME AuditTypeOK, written' = written \/ (\E row : written' = Append(written, row))
  PROVE  /\ Len(written) \in Nat /\ Len(written') \in Nat /\ Len(written) <= Len(written')
         /\ \A k \in 1 .. Len(written) : written'[k] = written[k]
         /\ \A n \in 0 .. Len(written) : HashesOf(n)' = HashesOf(n)
         /\ Hashes \subseteq Hashes'
<1>1. written \in Seq(AuditRow) /\ Len(written) \in Nat
  BY DEF AuditTypeOK
<1>2. /\ Len(written') \in Nat /\ Len(written) <= Len(written')
      /\ \A k \in 1 .. Len(written) : written'[k] = written[k]
  BY <1>1
<1>3. ASSUME NEW n \in 0 .. Len(written) PROVE HashesOf(n)' = HashesOf(n)
  <2>1. \A k \in 1 .. n : written'[k] = written[k]
    BY <1>1, <1>2
  <2>. QED BY <2>1 DEF HashesOf
<1>4. Hashes \subseteq Hashes'
  <2>1. \A k \in 1 .. Len(written) : k \in 1 .. Len(written') /\ written'[k] = written[k]
    BY <1>1, <1>2
  <2>. QED BY <2>1 DEF Hashes, HashesOf
<1>. QED BY <1>1, <1>2, <1>3, <1>4

LEMMA RowsStayRows ==
  ASSUME AuditTypeOK, Hashes \subseteq Hashes'
  PROVE  /\ AuditRow \subseteq AuditRow' /\ AuditTask \subseteq AuditTask'
         /\ auditRows \in Seq(AuditRow') /\ written \in Seq(AuditRow')
         /\ task \in [Writer -> AuditTask' \union {NoTask}]
<1>1. AuditRow \subseteq AuditRow' /\ AuditTask \subseteq AuditTask'
  BY DEF AuditRow, AuditTask, AuditEvent
<1>2. auditRows \in Seq(AuditRow) /\ written \in Seq(AuditRow) /\ task \in [Writer -> AuditTask \union {NoTask}]
  BY DEF AuditTypeOK
<1>. HIDE DEF AuditRow, AuditTask
<1>3. auditRows \in Seq(AuditRow')
  BY <1>1, <1>2
<1>4. written \in Seq(AuditRow')
  BY <1>1, <1>2
<1>5. task \in [Writer -> AuditTask' \union {NoTask}]
  BY <1>1, <1>2
<1>. QED BY <1>1, <1>3, <1>4, <1>5

\* What a step does to one task leaves the others alone.
LEMMA OneTaskMoves ==
  ASSUME AuditTypeOK, NEW w \in Writer, NEW t \in AuditTask' \union {NoTask}, Hashes \subseteq Hashes',
         task' = [task EXCEPT ![w] = t]
  PROVE  /\ task' \in [Writer -> AuditTask' \union {NoTask}]
         /\ \A v \in Writer : task'[v] = IF v = w THEN t ELSE task[v]
<1>1. task \in [Writer -> AuditTask' \union {NoTask}]
  BY RowsStayRows
<1>2. task \in [Writer -> AuditTask \union {NoTask}]
  BY DEF AuditTypeOK
<1>. HIDE DEF AuditTask
<1>. QED BY <1>1, <1>2

LEMMA LatestHashIs ==
  ASSUME AuditTypeOK
  PROVE  /\ LatestHash \in Hashes
         /\ Chain \in Seq(AuditRow) /\ Len(Chain) \in Nat
         /\ Chain = <<>> => LatestHash = NoHash /\ Len(Chain) = 0
         /\ Chain # <<>> => LatestHash = Chain[Len(Chain)].hash /\ Len(Chain) > 0
<1>1. PICK rows \in Seq(AuditRow) : rows = Chain
  BY ChainIs DEF AuditTypeOK, Chain
<1>2. CASE rows = <<>>
  <2>1. LatestHash = NoHash
    BY <1>1, <1>2 DEF LatestHash
  <2>. QED BY <1>1, <1>2, <2>1 DEF Hashes, HashesOf
<1>3. CASE rows # <<>>
  <2>1. Len(rows) > 0 /\ rows[Len(rows)] \in AuditRow
    BY <1>3
  <2>2. LatestHash = rows[Len(rows)].hash
    BY <1>1, <1>3 DEF LatestHash, Last
  <2>3. rows[Len(rows)].hash \in Hashes
    BY <2>1 DEF AuditRow
  <2>. QED BY <1>1, <1>3, <2>1, <2>2, <2>3
<1>. QED BY <1>2, <1>3

\* Nothing but the tasks moves.
LEMMA SpawnKeeps ==
  ASSUME AuditInv, NEW w \in Writer, NEW event \in AuditEvent, Spawn(w, event)
  PROVE  AuditInv'
<1>1. AuditTypeOK /\ WrittenChained /\ Undisturbed
  BY DEF AuditInv
<1>2. UNCHANGED <<auditRows, today, written, alterations>> /\ task[w] = NoTask
      /\ raced' = (raced \/ \E v \in Writer : task[v] # NoTask)
  BY DEF Spawn
<1>3. Hashes' = Hashes /\ AuditRow' = AuditRow /\ AuditTask' = AuditTask
  BY <1>2 DEF Hashes, HashesOf, AuditRow, AuditTask, AuditEvent
<1>4. PICK t \in AuditTask : task' = [task EXCEPT ![w] = t] /\ t.at = "read"
  <2>1. [at |-> "read", event |-> event, prev |-> NoHash] \in AuditTask
    BY DEF AuditTask, Hashes, HashesOf
  <2>. QED BY <2>1 DEF Spawn
<1>5. /\ task' \in [Writer -> AuditTask \union {NoTask}]
      /\ \A v \in Writer : task'[v] = IF v = w THEN t ELSE task[v]
  <2>1. t \in AuditTask' \union {NoTask} /\ Hashes \subseteq Hashes'
    BY <1>3, <1>4
  <2>2. /\ task' \in [Writer -> AuditTask' \union {NoTask}]
        /\ \A v \in Writer : task'[v] = IF v = w THEN t ELSE task[v]
    BY <1>1, <1>4, <2>1, OneTaskMoves
  <2>. QED BY <1>3, <2>2
<1>6. raced' \in BOOLEAN
  BY <1>1, <1>2, Zenon DEF AuditTypeOK
<1>7. AuditTypeOK'
  BY <1>1, <1>2, <1>3, <1>5, <1>6 DEF AuditTypeOK
<1>8. WrittenChained'
  BY <1>1, <1>2 DEF WrittenChained, HashesOf
<1>9. ASSUME ~raced', alterations' = 0
      PROVE  /\ Valid'
             /\ \A u, v \in Writer : task'[u] # NoTask /\ task'[v] # NoTask => u = v
             /\ \A v \in Writer : task'[v].at = "insert" => task'[v].prev = LatestHash'
  <2>1. ~raced /\ (\A v \in Writer : task[v] = NoTask) /\ alterations = 0
    BY <1>2, <1>9, Zenon
  <2>2. Valid'
    BY <1>1, <1>2, <2>1 DEF Undisturbed, Valid, Chain
  <2>3. \A u, v \in Writer : task'[u] # NoTask /\ task'[v] # NoTask => u = v
    BY <1>5, <2>1
  <2>4. \A v \in Writer : task'[v].at # "insert"
    <3>1. NoTask.at # "insert"
      BY DEF NoTask
    <3>. QED BY <1>4, <1>5, <2>1, <3>1
  <2>. QED BY <2>2, <2>3, <2>4
<1>. QED BY <1>7, <1>8, <1>9 DEF AuditInv, Undisturbed

LEMMA ReadKeeps ==
  ASSUME AuditInv, NEW w \in Writer, ReadLatest(w)
  PROVE  AuditInv'
<1>1. AuditTypeOK /\ WrittenChained /\ Undisturbed
  BY DEF AuditInv
<1>2. UNCHANGED <<auditRows, today, written, alterations, raced>> /\ task[w].at = "read"
  BY DEF ReadLatest
<1>3. Hashes' = Hashes /\ AuditRow' = AuditRow /\ AuditTask' = AuditTask
  BY <1>2 DEF Hashes, HashesOf, AuditRow, AuditTask, AuditEvent
<1>4. PICK t \in AuditTask : task' = [task EXCEPT ![w] = t] /\ t.prev = LatestHash
  <2>1. PICK s \in AuditTask \union {NoTask} : s = task[w]
    BY <1>1 DEF AuditTypeOK
  <2>2. s \in AuditTask
    BY <1>2, <2>1 DEF NoTask
  <2>3. PICK t : t = [s EXCEPT !.at = "insert", !.prev = LatestHash]
    OBVIOUS
  <2>4. t \in AuditTask /\ t.prev = LatestHash
    <3>1. LatestHash \in Hashes
      BY <1>1, LatestHashIs
    <3>. QED BY <2>2, <2>3, <3>1 DEF AuditTask
  <2>5. task' = [task EXCEPT ![w] = t]
    BY <2>1, <2>3 DEF ReadLatest
  <2>. QED BY <2>4, <2>5
<1>5. /\ task' \in [Writer -> AuditTask \union {NoTask}]
      /\ \A v \in Writer : task'[v] = IF v = w THEN t ELSE task[v]
  <2>1. t \in AuditTask' \union {NoTask} /\ Hashes \subseteq Hashes'
    BY <1>3, <1>4
  <2>2. /\ task' \in [Writer -> AuditTask' \union {NoTask}]
        /\ \A v \in Writer : task'[v] = IF v = w THEN t ELSE task[v]
    BY <1>1, <1>4, <2>1, OneTaskMoves
  <2>. QED BY <1>3, <2>2
<1>6. task[w] # NoTask
  BY <1>2 DEF NoTask
<1>7. AuditTypeOK'
  BY <1>1, <1>2, <1>3, <1>5 DEF AuditTypeOK
<1>8. WrittenChained'
  BY <1>1, <1>2 DEF WrittenChained, HashesOf
<1>9. ASSUME ~raced', alterations' = 0
      PROVE  /\ Valid'
             /\ \A u, v \in Writer : task'[u] # NoTask /\ task'[v] # NoTask => u = v
             /\ \A v \in Writer : task'[v].at = "insert" => task'[v].prev = LatestHash'
  <2>0. LatestHash' = LatestHash
    BY <1>2 DEF LatestHash, Chain
  <2>1. Valid'
    BY <1>1, <1>2, <1>9 DEF Undisturbed, Valid, Chain
  <2>2. \A u, v \in Writer : task'[u] # NoTask /\ task'[v] # NoTask => task[u] # NoTask /\ task[v] # NoTask
    BY <1>5, <1>6
  <2>3. \A v \in Writer : task'[v].at = "insert" => task'[v].prev = LatestHash'
    BY <1>1, <1>2, <1>4, <1>5, <1>9, <2>0 DEF Undisturbed
  <2>. QED BY <1>1, <1>2, <1>9, <2>1, <2>2, <2>3 DEF Undisturbed
<1>. QED BY <1>7, <1>8, <1>9 DEF AuditInv, Undisturbed

LEMMA FailKeeps ==
  ASSUME AuditInv, NEW w \in Writer, LogFails(w)
  PROVE  AuditInv'
<1>1. AuditTypeOK /\ WrittenChained /\ Undisturbed
  BY DEF AuditInv
<1>2. UNCHANGED <<auditRows, today, written, alterations, raced>> /\ task' = [task EXCEPT ![w] = NoTask]
  BY DEF LogFails
<1>3. Hashes' = Hashes /\ AuditRow' = AuditRow /\ AuditTask' = AuditTask
  BY <1>2 DEF Hashes, HashesOf, AuditRow, AuditTask, AuditEvent
<1>5. /\ task' \in [Writer -> AuditTask \union {NoTask}]
      /\ \A v \in Writer : task'[v] = IF v = w THEN NoTask ELSE task[v]
  <2>1. PICK t \in AuditTask' \union {NoTask} : t = NoTask
    OBVIOUS
  <2>2. Hashes \subseteq Hashes' /\ task' = [task EXCEPT ![w] = t]
    BY <1>2, <1>3, <2>1
  <2>3. /\ task' \in [Writer -> AuditTask' \union {NoTask}]
        /\ \A v \in Writer : task'[v] = IF v = w THEN t ELSE task[v]
    BY <1>1, <2>2, OneTaskMoves
  <2>. QED BY <1>3, <2>1, <2>3
<1>7. AuditTypeOK'
  BY <1>1, <1>2, <1>3, <1>5 DEF AuditTypeOK
<1>8. WrittenChained'
  BY <1>1, <1>2 DEF WrittenChained, HashesOf
<1>9. ASSUME ~raced', alterations' = 0
      PROVE  /\ Valid'
             /\ \A u, v \in Writer : task'[u] # NoTask /\ task'[v] # NoTask => u = v
             /\ \A v \in Writer : task'[v].at = "insert" => task'[v].prev = LatestHash'
  <2>0. LatestHash' = LatestHash /\ NoTask.at # "insert"
    BY <1>2 DEF LatestHash, NoTask, Chain
  <2>1. Valid'
    BY <1>1, <1>2, <1>9 DEF Undisturbed, Valid, Chain
  <2>2. \A u, v \in Writer : task'[u] # NoTask /\ task'[v] # NoTask => task[u] # NoTask /\ task[v] # NoTask
    BY <1>5
  <2>3. \A v \in Writer : task'[v].at = "insert" => task'[v].prev = LatestHash'
    BY <1>1, <1>2, <1>5, <1>9, <2>0 DEF Undisturbed
  <2>. QED BY <1>1, <1>2, <1>9, <2>1, <2>2, <2>3 DEF Undisturbed
<1>. QED BY <1>7, <1>8, <1>9 DEF AuditInv, Undisturbed

\* A row as it is inserted.
RowOf(t) == [event |-> t.event, prev |-> t.prev, hash |-> Hmac(t.event, t.prev), day |-> today]

LEMMA InsertKeeps ==
  ASSUME AuditInv, NEW w \in Writer, Insert(w)
  PROVE  AuditInv'
<1>1. AuditTypeOK /\ WrittenChained /\ Undisturbed
  BY DEF AuditInv
<1>2. PICK t : t = task[w]
  OBVIOUS
<1>3. PICK row : row = RowOf(t)
  OBVIOUS
<1>4. /\ UNCHANGED <<today, alterations, raced>> /\ t.at = "insert"
      /\ auditRows' = Append(auditRows, row) /\ written' = Append(written, row)
      /\ task' = [task EXCEPT ![w] = NoTask]
  BY <1>2, <1>3 DEF Insert, RowOf
<1>5. t \in AuditTask
  <2>1. t \in AuditTask \union {NoTask}
    BY <1>1, <1>2 DEF AuditTypeOK
  <2>. QED BY <1>4, <2>1 DEF NoTask
<1>6. /\ Len(written) \in Nat /\ \A k \in 1 .. Len(written) : written'[k] = written[k]
      /\ \A n \in 0 .. Len(written) : HashesOf(n)' = HashesOf(n)
      /\ Hashes \subseteq Hashes'
  BY <1>1, <1>4, HashesStay
<1>7. /\ AuditRow \subseteq AuditRow' /\ AuditTask \subseteq AuditTask'
      /\ auditRows \in Seq(AuditRow') /\ written \in Seq(AuditRow')
      /\ task \in [Writer -> AuditTask' \union {NoTask}]
  BY <1>1, <1>6, RowsStayRows
<1>8. Len(written') = Len(written) + 1 /\ written'[Len(written) + 1] = row
  BY <1>4, <1>7
<1>9. row.event = t.event /\ row.prev = t.prev /\ row.hash = Hmac(t.event, t.prev) /\ row.day = today
  BY <1>3 DEF RowOf
<1>10. row \in AuditRow'
  <2>1. row.hash \in Hashes'
    <3>1. Len(written) + 1 \in 1 .. Len(written')
      BY <1>6, <1>8
    <3>. QED BY <1>8, <3>1 DEF Hashes, HashesOf
  <2>2. t.event \in AuditEvent' /\ t.prev \in Hashes'
    BY <1>5, <1>6 DEF AuditTask, AuditEvent
  <2>3. today \in Nat
    BY <1>1 DEF AuditTypeOK
  <2>4. row = [event |-> row.event, prev |-> row.prev, hash |-> row.hash, day |-> row.day]
    BY <1>3 DEF RowOf
  <2>. QED BY <1>9, <2>1, <2>2, <2>3, <2>4 DEF AuditRow
<1>11. auditRows' \in Seq(AuditRow') /\ written' \in Seq(AuditRow')
  <2> HIDE DEF AuditRow
  <2>. QED BY <1>4, <1>7, <1>10
<1>12. /\ task' \in [Writer -> AuditTask' \union {NoTask}]
       /\ \A v \in Writer : task'[v] = IF v = w THEN NoTask ELSE task[v]
  <2>1. PICK s \in AuditTask' \union {NoTask} : s = NoTask
    OBVIOUS
  <2>2. Hashes \subseteq Hashes' /\ task' = [task EXCEPT ![w] = s]
    BY <1>4, <1>6, <2>1
  <2>3. /\ task' \in [Writer -> AuditTask' \union {NoTask}]
        /\ \A v \in Writer : task'[v] = IF v = w THEN s ELSE task[v]
    BY <1>1, <2>2, OneTaskMoves
  <2>. QED BY <2>1, <2>3
<1>13. AuditTypeOK'
  BY <1>1, <1>4, <1>11, <1>12 DEF AuditTypeOK
<1>14. WrittenChained'
  <2> SUFFICES ASSUME NEW k \in 1 .. Len(written')
               PROVE  /\ written'[k].hash = Hmac(written'[k].event, written'[k].prev)
                      /\ written'[k].prev \in HashesOf(k - 1)'
    BY DEF WrittenChained
  <2>1. CASE k \in 1 .. Len(written)
    <3>1. k - 1 \in 0 .. Len(written) /\ written'[k] = written[k]
      BY <1>6, <2>1
    <3>. QED BY <1>1, <1>6, <2>1, <3>1 DEF WrittenChained
  <2>2. CASE k = Len(written) + 1
    <3>1. written'[k] = row /\ k - 1 = Len(written) /\ Len(written) \in 0 .. Len(written)
      BY <1>6, <1>8, <2>2
    <3>2. row.prev \in HashesOf(Len(written))
      BY <1>5, <1>9 DEF AuditTask, Hashes
    <3>. QED BY <1>6, <1>9, <3>1, <3>2
  <2>. QED BY <1>6, <1>8, <2>1, <2>2
<1>15. ASSUME ~raced', alterations' = 0
       PROVE  /\ Valid'
              /\ \A u, v \in Writer : task'[u] # NoTask /\ task'[v] # NoTask => u = v
              /\ \A v \in Writer : task'[v].at = "insert" => task'[v].prev = LatestHash'
  <2>1. ~raced /\ alterations = 0
    BY <1>4, <1>15
  <2>2. /\ Valid /\ t.prev = LatestHash
        /\ \A u, v \in Writer : task[u] # NoTask /\ task[v] # NoTask => u = v
    BY <1>1, <1>2, <1>4, <2>1 DEF Undisturbed
  <2>3. task[w] # NoTask
    BY <1>2, <1>4 DEF NoTask
  <2>4. \A v \in Writer : task'[v] = NoTask
    BY <1>12, <2>2, <2>3
  <2>5. NoTask.at # "insert"
    BY DEF NoTask
  <2>6. Valid'
    <3>1. PICK rows \in Seq(AuditRow'), n \in Nat : rows = Chain /\ n = Len(rows)
      <4>1. \E rows \in Seq(AuditRow) : rows = Chain /\ Len(rows) \in Nat
        BY <1>1, LatestHashIs
      <4> HIDE DEF AuditRow
      <4>. QED BY <1>7, <4>1
    <3>2. PICK more : more = Append(rows, row)
      OBVIOUS
    <3>3. /\ Len(more) = n + 1 /\ more[n + 1] = row
          /\ \A i \in 1 .. n : more[i] = rows[i]
      BY <3>1, <3>2
    <3>4. Chain' = more
      <4>1. row.hash # NoHash
        BY <1>9 DEF Hmac, NoHash
      <4>2. Chained(Append(auditRows, row)) = IF row.hash = NoHash THEN Chained(auditRows)
                                              ELSE Append(Chained(auditRows), row)
        <5> HIDE DEF AuditRow
        <5>. QED BY <1>7, <1>10, ChainGrows
      <4>. QED BY <1>4, <3>1, <3>2, <4>1, <4>2, Zenon DEF Chain
    <3>5. SUFFICES ASSUME NEW i \in 1 .. n + 1
                   PROVE  /\ more[i].prev = IF i = 1 THEN NoHash ELSE more[i - 1].hash
                          /\ more[i].hash = Hmac(more[i].event, more[i].prev)
      BY <3>3, <3>4 DEF Valid
    <3>6. CASE i \in 1 .. n
      <4>1. i # 1 => i - 1 \in 1 .. n
        BY <3>6
      <4>. QED BY <2>2, <3>1, <3>3, <3>6, <4>1 DEF Valid
    <3>7. CASE i = n + 1
      <4>1. CASE n = 0
        <5>1. t.prev = NoHash
          BY <1>1, <2>2, <3>1, <4>1, LatestHashIs
        <5>. QED BY <1>9, <3>3, <3>7, <4>1, <5>1
      <4>2. CASE n # 0
        <5>1. t.prev = rows[n].hash
          BY <1>1, <2>2, <3>1, <4>2, LatestHashIs
        <5>2. i # 1 /\ i - 1 = n /\ n \in 1 .. n
          BY <3>7, <4>2
        <5>. QED BY <1>9, <3>3, <3>7, <5>1, <5>2
      <4>. QED BY <4>1, <4>2
    <3>. QED BY <3>6, <3>7
  <2>. QED BY <2>4, <2>5, <2>6
<1>. QED BY <1>13, <1>14, <1>15 DEF AuditInv, Undisturbed

\* Steps that only touch the table.
LEMMA TableKeeps ==
  ASSUME AuditInv, UNCHANGED <<task, written>>, today' \in Nat, alterations' \in Nat, raced' \in BOOLEAN,
         auditRows' \in Seq(AuditRow),
         \/ raced' \/ alterations' # 0
         \/ auditRows' = auditRows /\ ~raced /\ alterations = 0
  PROVE  AuditInv'
<1>1. AuditTypeOK /\ WrittenChained /\ Undisturbed
  BY DEF AuditInv
<1>2. Hashes' = Hashes /\ AuditRow' = AuditRow /\ AuditTask' = AuditTask
  BY DEF Hashes, HashesOf, AuditRow, AuditTask, AuditEvent
<1>3. AuditTypeOK'
  BY <1>1, <1>2 DEF AuditTypeOK
<1>4. WrittenChained'
  BY <1>1 DEF WrittenChained, HashesOf
<1>5. ASSUME ~raced', alterations' = 0
      PROVE  /\ Valid'
             /\ \A u, v \in Writer : task'[u] # NoTask /\ task'[v] # NoTask => u = v
             /\ \A v \in Writer : task'[v].at = "insert" => task'[v].prev = LatestHash'
  <2>1. auditRows' = auditRows /\ ~raced /\ alterations = 0
    BY <1>5
  <2>2. LatestHash' = LatestHash /\ (Valid => Valid')
    BY <2>1 DEF LatestHash, Valid, Chain
  <2>. QED BY <1>1, <2>1, <2>2 DEF Undisturbed
<1>. QED BY <1>3, <1>4, <1>5 DEF AuditInv, Undisturbed

LEMMA PurgeKeeps ==
  ASSUME AuditInv, PurgeExpired
  PROVE  AuditInv'
<1>1. AuditTypeOK
  BY DEF AuditInv
<1>2. /\ UNCHANGED <<task, today, written, alterations>>
      /\ raced' = (raced \/ auditRows' # auditRows)
      /\ \E T : auditRows' = Kept(auditRows, T)
  BY DEF PurgeExpired
<1>3. PICK T : auditRows' = Kept(auditRows, T)
  BY <1>2
<1>4. auditRows' \in Seq(AuditRow)
  BY <1>1, <1>3, KeptType DEF AuditTypeOK
<1>5. raced' \in BOOLEAN /\ today' \in Nat /\ alterations' \in Nat
  BY <1>1, <1>2, Zenon DEF AuditTypeOK
<1>6. raced' \/ alterations' # 0 \/ (auditRows' = auditRows /\ ~raced /\ alterations = 0)
  BY <1>2, Zenon
<1>. QED BY <1>2, <1>4, <1>5, <1>6, TableKeeps

LEMMA AlterKeeps ==
  ASSUME AuditInv, Alter
  PROVE  AuditInv'
<1>1. AuditTypeOK
  BY DEF AuditInv
<1>2. UNCHANGED <<task, today, written, raced>> /\ alterations' = alterations + 1
  BY DEF Alter
<1>3. PICK N \in Nat : N = Len(auditRows) /\ auditRows \in Seq(AuditRow)
  BY <1>1 DEF AuditTypeOK
<1>4. PICK i \in 1 .. N : Altered(i)
  BY <1>3 DEF Alter
<1>5. KnownHashes \subseteq Hashes
  <2>1. \A j \in 1 .. N : auditRows[j].hash \in Hashes
    <3>1. \A j \in 1 .. N : auditRows[j] \in AuditRow
      BY <1>3
    <3>2. \A r \in AuditRow : r.hash \in Hashes
      BY DEF AuditRow
    <3>. QED BY <3>1, <3>2
  <2>2. NoHash \in Hashes
    BY DEF Hashes, HashesOf
  <2>. QED BY <1>3, <2>1, <2>2 DEF KnownHashes
<1>6. PICK row \in AuditRow : row = auditRows[i]
  BY <1>3
<1>7. ASSUME NEW r \in HttpRequest, auditRows' = [auditRows EXCEPT ![i].event = HttpEvent(r)]
      PROVE  auditRows' \in Seq(AuditRow)
  <2>1. PICK new : new = [row EXCEPT !.event = HttpEvent(r)]
    OBVIOUS
  <2>2. HttpEvent(r) \in AuditEvent
    BY DEF AuditEvent
  <2>3. new \in AuditRow
    BY <2>1, <2>2 DEF AuditRow
  <2>4. auditRows' = [auditRows EXCEPT ![i] = new]
    BY <1>6, <1>7, <2>1
  <2> HIDE DEF AuditRow
  <2>. QED BY <1>3, <2>3, <2>4
<1>8. ASSUME NEW h \in KnownHashes, \/ auditRows' = [auditRows EXCEPT ![i].prev = h]
                                    \/ auditRows' = [auditRows EXCEPT ![i].hash = h]
      PROVE  auditRows' \in Seq(AuditRow)
  <2>1. PICK new : /\ new \in {[row EXCEPT !.prev = h], [row EXCEPT !.hash = h]}
                   /\ auditRows' = [auditRows EXCEPT ![i] = new]
    BY <1>6, <1>8
  <2>2. new \in AuditRow
    BY <1>5, <2>1 DEF AuditRow
  <2> HIDE DEF AuditRow
  <2>. QED BY <1>3, <2>1, <2>2
<1>9. ASSUME auditRows' = RemoveAt(auditRows, i)
      PROVE  auditRows' \in Seq(AuditRow)
  BY <1>3, <1>9 DEF RemoveAt
<1>10. ASSUME NEW j \in 1 .. N, auditRows' = [auditRows EXCEPT ![i] = auditRows[j], ![j] = auditRows[i]]
       PROVE  auditRows' \in Seq(AuditRow)
  <2>1. PICK other \in AuditRow : other = auditRows[j]
    BY <1>3
  <2>2. auditRows' = [auditRows EXCEPT ![i] = other, ![j] = row]
    BY <1>6, <1>10, <2>1
  <2>. QED BY <1>3, <2>2
<1>11. auditRows' \in Seq(AuditRow)
  BY <1>3, <1>4, <1>7, <1>8, <1>9, <1>10 DEF Altered
<1>12. today' \in Nat /\ alterations' \in Nat /\ alterations' # 0 /\ raced' \in BOOLEAN
  BY <1>1, <1>2 DEF AuditTypeOK
<1>. QED BY <1>2, <1>11, <1>12, TableKeeps

\* The audit log at work: whatever interleaves or is altered, rows that were
\* inserted are chained to earlier ones and hashes come from them; undisturbed,
\* one task at a time has read the newest hash (AuditService::log).
THEOREM AuditInvariant == AuditSpec => []AuditInv
<1>1. AuditInit => AuditInv
  BY AuditBegins
<1>2. AuditInv /\ [AuditNext]_auditVars => AuditInv'
  <2> SUFFICES ASSUME AuditInv, [AuditNext]_auditVars PROVE AuditInv'
    OBVIOUS
  <2>1. ASSUME NEW w \in Writer, NEW r \in HttpRequest,
               SpawnHttpAudit(w, r) \/ SpawnLoginAudit(w, r.status = 200, r.address)
        PROVE  AuditInv'
    <3>1. PICK event \in AuditEvent : Spawn(w, event)
      <4>1. HttpEvent(r) \in AuditEvent /\ \A b \in BOOLEAN : LoginEvent(b, r.address) \in AuditEvent
        BY DEF AuditEvent
      <4>2. CASE SpawnHttpAudit(w, r)
        BY <4>1, <4>2, Zenon DEF SpawnHttpAudit
      <4>3. CASE SpawnLoginAudit(w, r.status = 200, r.address)
        <5>1. PICK b \in BOOLEAN : b = (r.status = 200)
          BY Zenon
        <5>2. Spawn(w, LoginEvent(b, r.address))
          BY <4>3, <5>1, Zenon DEF SpawnLoginAudit
        <5>. QED BY <4>1, <5>2, Zenon
      <4>. QED BY <2>1, <4>2, <4>3
    <3>. QED BY <3>1, SpawnKeeps
  <2>2. ASSUME NEW w \in Writer, ReadLatest(w) \/ Insert(w) \/ LogFails(w) PROVE AuditInv'
    BY <2>2, ReadKeeps, InsertKeeps, FailKeeps
  <2>3. CASE NextDay \/ UNCHANGED auditVars
    <3>1. UNCHANGED <<auditRows, task, written, alterations, raced>> /\ (today' = today + 1 \/ today' = today)
      BY <2>3 DEF NextDay, auditVars
    <3>2. AuditTypeOK
      BY DEF AuditInv
    <3>3. today' \in Nat /\ alterations' \in Nat /\ raced' \in BOOLEAN /\ auditRows' \in Seq(AuditRow)
      BY <3>1, <3>2 DEF AuditTypeOK
    <3>4. raced' \/ alterations' # 0 \/ (auditRows' = auditRows /\ ~raced /\ alterations = 0)
      BY <3>1, Zenon
    <3>. QED BY <3>1, <3>3, <3>4, TableKeeps
  <2>. QED BY <2>1, <2>2, <2>3, PurgeKeeps, AlterKeeps DEF AuditNext
<1>. QED BY <1>1, <1>2, PTL DEF AuditSpec

\* A hash says what it covers.
LEMMA HashOfWritten ==
  ASSUME AuditTypeOK, WrittenChained, NEW n \in 0 .. Len(written), NEW event, NEW prev,
         Hmac(event, prev) \in HashesOf(n)
  PROVE  \E k \in 1 .. n : Covered(written[k].event) = Covered(event) /\ written[k].prev = prev
<1>1. Hmac(event, prev) # NoHash
  BY DEF Hmac, NoHash
<1>2. PICK k \in 1 .. n : written[k].hash = Hmac(event, prev)
  BY <1>1 DEF HashesOf
<1>3. Len(written) \in Nat
  BY DEF AuditTypeOK
<1>4. k \in 1 .. Len(written)
  BY <1>3
<1>5. written[k].hash = Hmac(written[k].event, written[k].prev)
  BY <1>4 DEF WrittenChained
<1>. QED BY <1>2, <1>5 DEF Hmac

LEMMA ValidIsWritten ==
  ASSUME AuditInv, Valid
  PROVE  AllWritten
<1>1. AuditTypeOK /\ WrittenChained
  BY DEF AuditInv
<1>2. PICK N \in Nat, rows \in Seq(AuditRow) : rows = Chain /\ N = Len(rows)
  BY <1>1, LatestHashIs
<1>3. PICK M \in Nat : M = Len(written)
  BY <1>1 DEF AuditTypeOK
<1>4. SUFFICES ASSUME NEW i \in 1 .. N
               PROVE  \E k \in 1 .. M :
                        /\ Covered(written[k].event) = Covered(rows[i].event)
                        /\ written[k].prev = rows[i].prev
                        /\ i > 1 => \E j \in 1 .. k - 1 :
                                      Covered(written[j].event) = Covered(rows[i - 1].event)
  BY <1>2, <1>3 DEF AllWritten
<1>5. /\ rows[i].prev = IF i = 1 THEN NoHash ELSE rows[i - 1].hash
      /\ rows[i].hash = Hmac(rows[i].event, rows[i].prev)
  BY <1>2 DEF Valid
<1>6. Hmac(rows[i].event, rows[i].prev) \in HashesOf(M)
  <2>1. rows[i] \in AuditRow
    BY <1>2
  <2>. QED BY <1>3, <1>5, <2>1 DEF AuditRow, Hashes
<1>7. PICK k \in 1 .. M : /\ Covered(written[k].event) = Covered(rows[i].event)
                          /\ written[k].prev = rows[i].prev
  <2>1. M \in 0 .. Len(written)
    BY <1>3
  <2>. QED BY <1>1, <1>6, <2>1, HashOfWritten
<1>8. ASSUME i > 1
      PROVE  \E j \in 1 .. k - 1 : Covered(written[j].event) = Covered(rows[i - 1].event)
  <2>1. i - 1 \in 1 .. N /\ i # 1 /\ k - 1 \in 0 .. Len(written) /\ k \in 1 .. Len(written)
    BY <1>3, <1>8
  <2>2. rows[i - 1].hash = Hmac(rows[i - 1].event, rows[i - 1].prev)
    BY <1>2, <2>1 DEF Valid
  <2>3. written[k].prev = Hmac(rows[i - 1].event, rows[i - 1].prev)
    BY <1>5, <1>7, <2>1, <2>2
  <2>4. Hmac(rows[i - 1].event, rows[i - 1].prev) \in HashesOf(k - 1)
    BY <1>1, <2>1, <2>3 DEF WrittenChained
  <2>. QED BY <1>1, <2>1, <2>4, HashOfWritten
<1>. QED BY <1>7, <1>8

\* The truth of verify_chain: for any number of tasks, requests, rows and
\* alterations, what it finds valid was written by the service, in that order,
\* and a log nobody touched it finds valid (AuditService::verify_chain).
THEOREM VerificationIsTrue == AuditSpec => []VerifyTellsTruth
<1>1. AuditInv => VerifyTellsTruth
  BY ValidIsWritten DEF AuditInv, Undisturbed, VerifyTellsTruth
<1>. QED BY <1>1, AuditInvariant, PTL

------------------------------------------------------------------------------
(***************************************************************************)
(* Regulation: verdicts are of the data and the requirement they name.     *)
(* Of a check the invariant says at each statement that its requirement is *)
(* as it was read and its verdict right; of a row that its verdict is      *)
(* right; and of the trail that its last word on a row is the row's, or a  *)
(* check is about to write it.                                             *)
(***************************************************************************)

Verdict == {"compliant", "non_compliant"}

TrailRecord == [good : Good, requirement : RequirementId, status : Verdict]

\* What a requirement asks for is among what is stored of a product.
Sufficient(r) ==
  requirements[r].fields \union Asks(MapRegulationType(requirements[r].word)) \subseteq ProductFields

StatusHolds(pair, status) ==
  /\ status \in Verdict
  /\ ~regTally.crossed /\ pair[1] \in goods => (status = "compliant" <=> Sufficient(pair[2]))

\* What holds of a check at each of its statements.
Inspecting(k) ==
  /\ k = [at |-> k.at, good |-> k.good, left |-> k.left, now |-> k.now, rule |-> k.rule, status |-> k.status]
  /\ k.at \in {"list", "requirement", "product", "verdict", "trail"} => The(k.good) \in Good
  /\ k.at \in {"product", "verdict", "trail"} =>
       /\ The(k.now) \in IssuedRequirements
       /\ ~regTally.crossed => k.rule = RequirementToRule(requirements[The(k.now)])
  /\ k.at \in {"verdict", "trail"} => StatusHolds(Subjects(k), k.status)

RowHolds(pair) ==
  /\ compliance[pair] # NoVerdict => pair[1] \in goods /\ pair[2] \in IssuedRequirements
  /\ compliance[pair].checked => compliance[pair].status \in Verdict
  /\ compliance[pair].checked /\ pair \notin regTally.outdated => StatusHolds(pair, compliance[pair].status)

LastSays(s, status) == s # <<>> /\ s[Len(s)].status = status

\* The trail's last word is the row's, or it is about to be.
TrailHolds(pair) ==
  ~regTally.crossed /\ regTally.troubles = 0 /\ compliance[pair].checked /\ pair \notin regTally.outdated =>
    \/ \E c \in Inspector : inspection[c].at = "trail" /\ Subjects(inspection[c]) = pair
    \/ LastSays(Trailed(pair), compliance[pair].status)

RegTypeOK ==
  /\ DOMAIN requirements = RequirementId /\ \A r \in IssuedRequirements : requirements[r].active
  /\ DOMAIN compliance = Good \X RequirementId /\ IsFiniteSet(Checked)
  /\ goods \subseteq Good /\ trail \in Seq(TrailRecord) /\ DOMAIN inspection = Inspector
  /\ regTally = [calls |-> regTally.calls, troubles |-> regTally.troubles,
                 crossed |-> regTally.crossed, outdated |-> regTally.outdated]
  /\ regTally.troubles \in Nat

ReportHolds ==
  reports # <<>> => reports[1].pending = 0 /\
    reports[1].total <= reports[1].compliant + reports[1].non_compliant

ToldHolds ==
  told.is_compliant => told.rule.fields \union Asks(told.rule.type) \subseteq DOMAIN told.data

RowsHold == \A pair \in Good \X RequirementId : RowHolds(pair) /\ TrailHolds(pair)

RegulationInv ==
  RegTypeOK /\ (\A c \in Inspector : Inspecting(inspection[c])) /\ RowsHold /\ ReportHolds /\ ToldHolds

\* Products only go and requirements stay, but where that is told apart.
WorldStays ==
  /\ goods' \subseteq goods \/ regTally'.crossed
  /\ regTally.crossed => regTally'.crossed
  /\ \A r \in IssuedRequirements :
       requirements'[r] # NoRequirement /\ (regTally'.crossed \/ requirements'[r] = requirements[r])
  /\ DOMAIN requirements' = DOMAIN requirements /\ DOMAIN requirements = RequirementId

LEMMA StatusStays ==
  ASSUME NEW pair, NEW s, WorldStays, pair[2] \in IssuedRequirements, StatusHolds(pair, s)
  PROVE  StatusHolds(pair, s)'
BY DEF WorldStays, StatusHolds, Sufficient

LEMMA InspectionStays ==
  ASSUME NEW k, WorldStays, Inspecting(k)
  PROVE  Inspecting(k)'
<1>1. \A r \in IssuedRequirements : r \in (IssuedRequirements)'
  BY DEF WorldStays, IssuedRequirements
<1>2. CASE k.at \in {"verdict", "trail"}
  <2>1. StatusHolds(Subjects(k), k.status) /\ The(k.now) \in IssuedRequirements
    BY <1>2 DEF Inspecting
  <2>2. PICK p, s : p = Subjects(k) /\ s = k.status /\ p[2] \in IssuedRequirements /\ StatusHolds(p, s)
    BY <2>1 DEF Subjects
  <2>3. StatusHolds(p, s)'
    BY <2>2, StatusStays
  <2>. QED BY <1>1, <1>2, <2>2, <2>3 DEF Inspecting, WorldStays
<1>3. CASE k.at \notin {"verdict", "trail"}
  BY <1>1, <1>3 DEF Inspecting, WorldStays
<1>. QED BY <1>2, <1>3

LEMMA NoInspectionHolds == Inspecting(NoInspection) /\ Inspecting(NoInspection)'
BY DEF Inspecting, NoInspection

\* The answer of the validator.
LEMMA SpecialMissing ==
  ASSUME NEW type, NEW data
  PROVE  Missing(Asks(type), data) \subseteq Special(type, data).violations
<1>1. CASE type = "GDPR"
  BY <1>1 DEF Asks, Special, ValidateGdpr, Missing
<1>2. CASE type = "FDA21CFR11"
  BY <1>2 DEF Asks, Special, ValidateFda, Missing
<1>3. CASE type = "FSMA"
  BY <1>3 DEF Asks, Special, ValidateFsma, Missing
<1>4. CASE type = "ConflictMinerals"
  BY <1>4 DEF Asks, Special, ValidateConflictMinerals, Missing
<1>5. CASE type = "OrganicCertification"
  BY <1>5 DEF Asks, Special, ValidateOrganic, Missing
<1>6. CASE type \notin {"GDPR", "FDA21CFR11", "FSMA", "ConflictMinerals", "OrganicCertification"}
  BY <1>6 DEF Asks, Missing
<1>. QED BY <1>1, <1>2, <1>3, <1>4, <1>5, <1>6

LEMMA SpecialOfStored ==
  ASSUME NEW type, NEW data, data = [f \in ProductFields |-> "given"]
  PROVE  Special(type, data).violations \subseteq Missing(Asks(type), data)
<1>0. DOMAIN data = ProductFields /\ "data_location" \notin ProductFields /\ "cert_expiry" \notin ProductFields
  BY DEF ProductFields
<1>1. CASE type = "GDPR"
  BY <1>0, <1>1 DEF Asks, Special, ValidateGdpr, Missing
<1>2. CASE type = "FDA21CFR11"
  BY <1>2 DEF Asks, Special, ValidateFda, Missing
<1>3. CASE type = "FSMA"
  BY <1>3 DEF Asks, Special, ValidateFsma, Missing
<1>4. CASE type = "ConflictMinerals"
  BY <1>4 DEF Asks, Special, ValidateConflictMinerals, Missing
<1>5. CASE type = "OrganicCertification"
  BY <1>0, <1>5 DEF Asks, Special, ValidateOrganic, Missing
<1>6. CASE type \notin {"GDPR", "FDA21CFR11", "FSMA", "ConflictMinerals", "OrganicCertification"}
  BY <1>6 DEF Asks, Special, Missing
<1>. QED BY <1>1, <1>2, <1>3, <1>4, <1>5, <1>6

LEMMA ValidatorIsRight ==
  ASSUME NEW rule, NEW data
  PROVE  /\ Validate(rule, data).is_compliant \in BOOLEAN
         /\ Validate(rule, data).is_compliant => rule.fields \union Asks(rule.type) \subseteq DOMAIN data
         /\ data = [f \in ProductFields |-> "given"] =>
              (Validate(rule, data).is_compliant <=> rule.fields \union Asks(rule.type) \subseteq ProductFields)
<1>1. PICK v, a, t : v = Special(rule.type, data).violations /\ a = Asks(rule.type) /\ t = rule.fields
  OBVIOUS
<1>2. Validate(rule, data).is_compliant <=> Missing(t, data) \union v = {}
  BY <1>1 DEF Validate
<1>3. Validate(rule, data).is_compliant \in BOOLEAN
  BY DEF Validate
<1>4. Missing(a, data) \subseteq v
  BY <1>1, SpecialMissing
<1>5. ASSUME data = [f \in ProductFields |-> "given"]
      PROVE  v \subseteq Missing(a, data) /\ DOMAIN data = ProductFields
  BY <1>1, <1>5, SpecialOfStored
<1>. QED BY <1>1, <1>2, <1>3, <1>4, <1>5 DEF Missing

------------------------------------------------------------------------------

LEMMA EntriesOf ==
  ASSUME NEW t \in Seq(TrailRecord), NEW T, NEW U, U = {e \in Range(t) : e \in T}
  PROVE  Kept(t, U) = Kept(t, T)
<1>1. t \in Seq(Range(t)) /\ \A e \in Range(t) : e \in U <=> e \in T
  BY DEF Range
<1>. QED BY <1>1, KeptAlike

Of(pair) == {e \in TrailRecord : e.good = pair[1] /\ e.requirement = pair[2]}

LEMMA TrailedIs ==
  ASSUME NEW t \in Seq(TrailRecord), NEW pair
  PROVE  Kept(t, {e \in Range(t) : e.good = pair[1] /\ e.requirement = pair[2]}) = Kept(t, Of(pair))
<1>1. \A e \in Range(t) : e \in TrailRecord
  BY DEF Range
<1>2. PICK U : U = {e \in Range(t) : e.good = pair[1] /\ e.requirement = pair[2]}
  OBVIOUS
<1>3. U = {e \in Range(t) : e \in Of(pair)}
  BY <1>1, <1>2 DEF Of
<1>. QED BY <1>2, <1>3, EntriesOf

LEMMA LastAppended ==
  ASSUME NEW E, NEW s \in Seq(E), NEW e \in E
  PROVE  LastSays(Append(s, e), e.status)
BY DEF LastSays

\* A check takes a step and writes neither verdict nor entry.
LEMMA CheckMoves ==
  ASSUME RegulationInv, NEW c \in Inspector, NEW k, inspection' = [inspection EXCEPT ![c] = k], Inspecting(k),
         UNCHANGED <<goods, requirements, compliance, trail, reports, told>>,
         NEW n, NEW t \in Nat,
         regTally' = [calls |-> n, troubles |-> t, crossed |-> regTally.crossed, outdated |-> regTally.outdated],
         regTally.troubles <= t,
         inspection[c].at = "trail" => t # 0 \/ compliance[Subjects(inspection[c])] = NoVerdict
  PROVE  RegulationInv'
<1>1. RegTypeOK /\ RowsHold /\ \A d \in Inspector : Inspecting(inspection[d])
  BY DEF RegulationInv
<1>2. PICK x, o : /\ x = regTally.crossed /\ o = regTally.outdated
                  /\ regTally' = [calls |-> n, troubles |-> t, crossed |-> x, outdated |-> o]
  OBVIOUS
<1>3. WorldStays
  BY <1>1, <1>2 DEF WorldStays, RegTypeOK, IssuedRequirements
<1>4. RegTypeOK'
  BY <1>1, <1>2 DEF RegTypeOK, IssuedRequirements, Checked
<1>5. \A d \in Inspector : inspection'[d] = IF d = c THEN k ELSE inspection[d]
  BY <1>1 DEF RegTypeOK
<1>6. ASSUME NEW d \in Inspector PROVE Inspecting(inspection[d])'
  <2>1. PICK j : j = inspection'[d] /\ Inspecting(j)
    BY <1>1, <1>5
  <2>. QED BY <1>3, <2>1, InspectionStays
<1>7. ASSUME NEW pair \in Good \X RequirementId PROVE RowHolds(pair)' /\ TrailHolds(pair)'
  <2>1. RowHolds(pair) /\ TrailHolds(pair)
    BY <1>1 DEF RowsHold
  <2>2. RowHolds(pair)'
    BY <1>2, <2>1 DEF RowHolds, StatusHolds, Sufficient, IssuedRequirements
  <2>3. TrailHolds(pair)'
    <3> SUFFICES ASSUME ~x, t = 0, compliance[pair].checked, pair \notin o
                 PROVE  \/ \E d \in Inspector : inspection'[d].at = "trail" /\ Subjects(inspection'[d]) = pair
                        \/ LastSays(Trailed(pair), compliance[pair].status)
      BY <1>2 DEF TrailHolds, LastSays, Trailed
    <3>1. regTally.troubles = 0
      BY <1>1 DEF RegTypeOK
    <3>2. CASE LastSays(Trailed(pair), compliance[pair].status)
      BY <3>2
    <3>3. CASE \E d \in Inspector : inspection[d].at = "trail" /\ Subjects(inspection[d]) = pair
      <4>1. PICK d \in Inspector : inspection[d].at = "trail" /\ Subjects(inspection[d]) = pair
        BY <3>3
      <4>2. d # c
        BY <4>1 DEF NoVerdict
      <4>. QED BY <1>5, <4>1, <4>2
    <3>. QED BY <1>2, <2>1, <3>1, <3>2, <3>3 DEF TrailHolds
  <2>. QED BY <2>2, <2>3
<1>8. ReportHolds' /\ ToldHolds'
  BY DEF RegulationInv, ReportHolds, ToldHolds
<1>. QED BY <1>4, <1>6, <1>7, <1>8 DEF RegulationInv, RowsHold

\* The tally's fields, one by one.
LEMMA TallyIs ==
  ASSUME RegulationInv
  PROVE  \E n, t, x, o : /\ regTally = [calls |-> n, troubles |-> t, crossed |-> x, outdated |-> o] /\ t \in Nat
                         /\ n = regTally.calls /\ t = regTally.troubles
                         /\ x = regTally.crossed /\ o = regTally.outdated
BY DEF RegulationInv, RegTypeOK

LEMMA CheckReads ==
  ASSUME RegulationInv, NEW c \in Inspector, NEW k, inspection' = [inspection EXCEPT ![c] = k], Inspecting(k),
         UNCHANGED <<goods, requirements, compliance, trail, reports, told, regTally>>,
         inspection[c].at = "trail" => compliance[Subjects(inspection[c])] = NoVerdict
  PROVE  RegulationInv'
<1>1. PICK n, t, x, o : /\ regTally = [calls |-> n, troubles |-> t, crossed |-> x, outdated |-> o] /\ t \in Nat
                        /\ t = regTally.troubles /\ x = regTally.crossed /\ o = regTally.outdated
  BY TallyIs
<1>2. /\ regTally' = [calls |-> n, troubles |-> t, crossed |-> regTally.crossed, outdated |-> regTally.outdated]
      /\ regTally.troubles <= t
  <2>1. regTally' = [calls |-> n, troubles |-> t, crossed |-> x, outdated |-> o]
    BY <1>1
  <2>. QED BY <1>1, <2>1
<1>. QED BY <1>1, <1>2, CheckMoves

LEMMA CheckTroubled ==
  ASSUME RegulationInv, NEW c \in Inspector, NEW k, inspection' = [inspection EXCEPT ![c] = k], Inspecting(k),
         UNCHANGED <<goods, requirements, compliance, trail, reports, told>>, RegTrouble
  PROVE  RegulationInv'
<1>1. PICK n, t, x, o : /\ regTally = [calls |-> n, troubles |-> t, crossed |-> x, outdated |-> o] /\ t \in Nat
                        /\ t = regTally.troubles /\ x = regTally.crossed /\ o = regTally.outdated
  BY TallyIs
<1>2. PICK u \in Nat : u = t + 1 /\ u # 0 /\ t <= u
  BY <1>1
<1>3. regTally' = [regTally EXCEPT !.troubles = u]
  BY <1>1, <1>2 DEF RegTrouble
<1>4. regTally' = [calls |-> n, troubles |-> u, crossed |-> regTally.crossed, outdated |-> regTally.outdated]
  <2>1. regTally' = [[calls |-> n, troubles |-> t, crossed |-> x, outdated |-> o] EXCEPT !.troubles = u]
    BY <1>1, <1>3, Zenon
  <2>2. regTally' = [calls |-> n, troubles |-> u, crossed |-> x, outdated |-> o]
    BY <2>1
  <2>. QED BY <1>1, <2>2
<1>. QED BY <1>1, <1>2, <1>4, CheckMoves

LEMMA BeginsCheck ==
  ASSUME RegulationInv, NEW c \in Inspector, NEW at \in {"list", "requirement"}, NEW g \in Good, NEW left,
         InspectionBegins(c, at, g, left)
  PROVE  RegulationInv'
<1>1. DOMAIN inspection = Inspector /\ inspection[c] = NoInspection
  BY DEF RegulationInv, RegTypeOK, InspectionBegins
<1>2. PICK k : /\ inspection' = [inspection EXCEPT ![c] = k]
               /\ k = [[[inspection[c] EXCEPT !.at = at] EXCEPT !.good = {g}] EXCEPT !.left = left]
  BY <1>1 DEF InspectionBegins
<1>3. k = [at |-> at, good |-> {g}, left |-> left, now |-> {}, rule |-> NoRule, status |-> "none"]
  <2>1. PICK e : /\ e = NoInspection
                 /\ e = [at |-> "rest", good |-> {}, left |-> {}, now |-> {}, rule |-> NoRule, status |-> "none"]
    BY DEF NoInspection
  <2>2. k = [[[e EXCEPT !.at = at] EXCEPT !.good = {g}] EXCEPT !.left = left]
    BY <1>1, <1>2, <2>1, Zenon
  <2>3. PICK a : a = [e EXCEPT !.at = at]
    OBVIOUS
  <2>4. a = [at |-> at, good |-> {}, left |-> {}, now |-> {}, rule |-> NoRule, status |-> "none"]
    BY <2>1, <2>3
  <2>5. PICK b : b = [a EXCEPT !.good = {g}]
    OBVIOUS
  <2>6. b = [at |-> at, good |-> {g}, left |-> {}, now |-> {}, rule |-> NoRule, status |-> "none"]
    BY <2>4, <2>5
  <2>7. k = [b EXCEPT !.left = left]
    BY <2>2, <2>3, <2>5, Zenon
  <2>. QED BY <2>6, <2>7
<1>4. The({g}) = g
  BY DEF The
<1>5. Inspecting(k)
  BY <1>3, <1>4 DEF Inspecting
<1>6. PICK n, t, x, o : /\ regTally = [calls |-> n, troubles |-> t, crossed |-> x, outdated |-> o] /\ t \in Nat
                        /\ t = regTally.troubles /\ x = regTally.crossed /\ o = regTally.outdated
  BY TallyIs
<1>7. PICK m : regTally' = [regTally EXCEPT !.calls = m]
  BY DEF InspectionBegins, Called
<1>8. /\ regTally' = [calls |-> m, troubles |-> t, crossed |-> regTally.crossed, outdated |-> regTally.outdated]
      /\ regTally.troubles <= t
  <2>1. regTally' = [[calls |-> n, troubles |-> t, crossed |-> x, outdated |-> o] EXCEPT !.calls = m]
    BY <1>6, <1>7, Zenon
  <2>2. regTally' = [calls |-> m, troubles |-> t, crossed |-> x, outdated |-> o]
    BY <2>1
  <2>. QED BY <1>6, <2>2
<1>9. UNCHANGED <<goods, requirements, compliance, trail, reports, told>> /\ inspection[c].at # "trail"
  BY <1>1 DEF InspectionBegins, regTables, NoInspection
<1>. QED BY <1>2, <1>5, <1>6, <1>8, <1>9, CheckMoves

LEMMA GoingHolds ==
  ASSUME NEW k, k = [at |-> k.at, good |-> k.good, left |-> k.left, now |-> k.now, rule |-> k.rule, status |-> k.status],
         The(k.good) \in Good
  PROVE  Inspecting(Going(k))
<1>1. CASE k.left = {}
  BY <1>1, NoInspectionHolds DEF Going
<1>2. CASE k.left # {}
  <2>1. PICK g, l : /\ g = k.good
                    /\ Going(k) = [at |-> "requirement", good |-> g, left |-> l, now |-> {}, rule |-> NoRule,
                                   status |-> "none"]
    BY <1>2 DEF Going
  <2>2. PICK j : j = Going(k)
    OBVIOUS
  <2>. QED BY <2>1 DEF Inspecting
<1>. QED BY <1>1, <1>2

\* A statement that reads: it fails, or the check goes on with what was read.
LEMMA StatementReads ==
  ASSUME RegulationInv, NEW c \in Inspector, NEW at, at # "trail", NEW k, Inspecting(k),
         ReadOf(c, at, inspection' = [inspection EXCEPT ![c] = k])
  PROVE  RegulationInv'
<1>1. UNCHANGED <<goods, requirements, compliance, trail, reports, told>> /\ inspection[c].at = at
  BY DEF ReadOf, regTables
<1>2. CASE inspection' = [inspection EXCEPT ![c] = k] /\ UNCHANGED regTally
  BY <1>1, <1>2, CheckReads
<1>3. CASE InspectionEnds(c) /\ RegTrouble
  <2>1. inspection' = [inspection EXCEPT ![c] = NoInspection]
    BY <1>3 DEF InspectionEnds
  <2>. QED BY <1>1, <1>3, <2>1, NoInspectionHolds, CheckTroubled
<1>. QED BY <1>2, <1>3 DEF ReadOf

LEMMA ReadsKeep ==
  ASSUME RegulationInv, NEW c \in Inspector, ListActive(c) \/ GetRequirement(c) \/ GetProductData(c)
  PROVE  RegulationInv'
<1>1. PICK k : k = inspection[c] /\ Inspecting(k)
  BY DEF RegulationInv
<1>2. k = [at |-> k.at, good |-> k.good, left |-> k.left, now |-> k.now, rule |-> k.rule, status |-> k.status]
  BY <1>1 DEF Inspecting
<1>3. k.at \in {"list", "requirement", "product"} /\ The(k.good) \in Good
  <2>1. k.at \in {"list", "requirement", "product"}
    BY <1>1 DEF ListActive, GetRequirement, GetProductData, ReadOf
  <2>. QED BY <1>1, <2>1 DEF Inspecting
<1>4. CASE ListActive(c)
  <2>1. PICK j, l : /\ ReadOf(c, "list", inspection' = [inspection EXCEPT ![c] = Going(j)])
                    /\ j = [k EXCEPT !.left = l]
    BY <1>1, <1>4 DEF ListActive
  <2>2. /\ j = [at |-> j.at, good |-> j.good, left |-> j.left, now |-> j.now, rule |-> j.rule, status |-> j.status]
        /\ The(j.good) \in Good
    BY <1>2, <1>3, <2>1
  <2>3. PICK i : i = Going(j) /\ Inspecting(i)
    BY <2>2, GoingHolds
  <2>4. ReadOf(c, "list", inspection' = [inspection EXCEPT ![c] = i])
    BY <2>1, <2>3, Zenon
  <2>. QED BY <2>3, <2>4, StatementReads
<1>5. CASE GetRequirement(c)
  <2>1. PICK r, j, l : /\ j = [k EXCEPT !.left = l]
                       /\ ReadOf(c, "requirement", inspection' = [inspection EXCEPT ![c] =
                            IF r \in IssuedRequirements
                            THEN [j EXCEPT !.at = "product", !.now = {r}, !.rule = RequirementToRule(requirements[r])]
                            ELSE Going(j)])
    BY <1>1, <1>5 DEF GetRequirement
  <2>2. /\ j = [at |-> j.at, good |-> j.good, left |-> j.left, now |-> j.now, rule |-> j.rule, status |-> j.status]
        /\ The(j.good) \in Good
    BY <1>2, <1>3, <2>1
  <2>3. PICK i : /\ i = IF r \in IssuedRequirements
                        THEN [j EXCEPT !.at = "product", !.now = {r}, !.rule = RequirementToRule(requirements[r])]
                        ELSE Going(j)
                 /\ ReadOf(c, "requirement", inspection' = [inspection EXCEPT ![c] = i])
    BY <2>1, Zenon
  <2>4. Inspecting(i)
    <3>1. CASE r \in IssuedRequirements
      <4>1. The({r}) = r
        BY DEF The
      <4>2. PICK q : q = RequirementToRule(requirements[r])
        OBVIOUS
      <4>3. i = [at |-> "product", good |-> j.good, left |-> j.left, now |-> {r}, rule |-> q, status |-> j.status]
        BY <2>2, <2>3, <3>1, <4>2
      <4>. QED BY <2>2, <3>1, <4>1, <4>2, <4>3 DEF Inspecting
    <3>2. CASE r \notin IssuedRequirements
      BY <2>2, <2>3, <3>2, GoingHolds
    <3>. QED BY <3>1, <3>2
  <2>. QED BY <2>3, <2>4, StatementReads
<1>6. CASE GetProductData(c)
  <2>1. PICK g, r : g = The(k.good) /\ r = The(k.now)
    OBVIOUS
  <2>2. PICK s : /\ s = IF Validate(k.rule, ProductData(g)).is_compliant THEN "compliant" ELSE "non_compliant"
                 /\ ReadOf(c, "product", inspection' = [inspection EXCEPT ![c] =
                             [k EXCEPT !.at = "verdict", !.status = s]])
    BY <1>1, <1>6, <2>1 DEF GetProductData
  <2>3. PICK i : /\ i = [k EXCEPT !.at = "verdict", !.status = s]
                 /\ ReadOf(c, "product", inspection' = [inspection EXCEPT ![c] = i])
    BY <2>2, Zenon
  <2>4. i = [at |-> "verdict", good |-> k.good, left |-> k.left, now |-> k.now, rule |-> k.rule, status |-> s]
    BY <1>2, <2>3
  <2>5. k.at = "product"
    BY <1>1, <1>6 DEF GetProductData, ReadOf
  <2>6. g \in Good /\ r \in IssuedRequirements /\ (~regTally.crossed => k.rule = RequirementToRule(requirements[r]))
    BY <1>1, <2>1, <2>5 DEF Inspecting
  <2>7. StatusHolds(<<g, r>>, s)
    <3> SUFFICES ASSUME ~regTally.crossed, g \in goods PROVE s = "compliant" <=> Sufficient(r)
      BY <2>2 DEF StatusHolds, Verdict
    <3>1. PICK q : q = k.rule /\ q.fields = requirements[r].fields /\ q.type = MapRegulationType(requirements[r].word)
      BY <2>6 DEF RequirementToRule
    <3>2. PICK d : d = ProductData(g) /\ d = [f \in ProductFields |-> "given"]
      BY DEF ProductData
    <3>3. /\ Validate(q, d).is_compliant \in BOOLEAN
          /\ Validate(q, d).is_compliant <=> q.fields \union Asks(q.type) \subseteq ProductFields
      BY <3>2, ValidatorIsRight
    <3>. QED BY <2>2, <3>1, <3>2, <3>3 DEF Sufficient
  <2>8. Subjects(i) = <<g, r>> /\ i.status = s /\ i.at = "verdict" /\ i.good = k.good /\ i.now = k.now /\ i.rule = k.rule
    BY <2>1, <2>4 DEF Subjects
  <2>9. Inspecting(i)
    BY <2>1, <2>4, <2>6, <2>7, <2>8 DEF Inspecting
  <2>. QED BY <2>3, <2>9, StatementReads
<1>. QED BY <1>4, <1>5, <1>6

LEMMA VerdictKeeps ==
  ASSUME RegulationInv, NEW c \in Inspector, UpdateProductCompliance(c)
  PROVE  RegulationInv'
<1>1. PICK k : k = inspection[c] /\ Inspecting(k) /\ k.at = "verdict"
  BY DEF RegulationInv, UpdateProductCompliance
<1>2. PICK pair, s : pair = Subjects(k) /\ s = k.status /\ StatusHolds(pair, s)
  BY <1>1 DEF Inspecting
<1>3. pair \in Good \X RequirementId /\ pair[2] \in IssuedRequirements
  BY <1>1, <1>2 DEF Inspecting, Subjects, IssuedRequirements
<1>4. k = [at |-> k.at, good |-> k.good, left |-> k.left, now |-> k.now, rule |-> k.rule, status |-> k.status]
  BY <1>1 DEF Inspecting
<1>5. DOMAIN inspection = Inspector
  BY DEF RegulationInv, RegTypeOK
<1>6. PICK j : inspection' = [inspection EXCEPT ![c] = j] /\ j = [k EXCEPT !.at = "trail"]
  BY <1>1, <1>5 DEF UpdateProductCompliance
<1>7. j = [at |-> "trail", good |-> k.good, left |-> k.left, now |-> k.now, rule |-> k.rule, status |-> k.status]
  BY <1>4, <1>6
<1>8. Subjects(j) = pair /\ j.at = "trail"
  BY <1>2, <1>7 DEF Subjects
<1>9. Inspecting(j)
  BY <1>1, <1>2, <1>7, <1>8 DEF Inspecting
<1>10. UNCHANGED <<goods, requirements, trail, reports, told>>
  BY DEF UpdateProductCompliance
<1>11. CASE RegTrouble /\ UNCHANGED compliance
  BY <1>6, <1>9, <1>10, <1>11, CheckTroubled
<1>12. CASE UNCHANGED <<compliance, regTally>>
  BY <1>1, <1>6, <1>9, <1>10, <1>12, CheckReads
<1>13. CASE /\ compliance[pair] # NoVerdict
            /\ compliance' = [compliance EXCEPT ![pair] = [status |-> s, checked |-> TRUE]]
            /\ regTally' = [regTally EXCEPT !.outdated = @ \ {pair}]
  <2>1. RegTypeOK /\ RowsHold /\ \A d \in Inspector : Inspecting(inspection[d])
    BY DEF RegulationInv
  <2>2. PICK n, t, x, o : /\ regTally = [calls |-> n, troubles |-> t, crossed |-> x, outdated |-> o] /\ t \in Nat
                          /\ t = regTally.troubles /\ x = regTally.crossed /\ o = regTally.outdated
    BY TallyIs
  <2>3. regTally' = [calls |-> n, troubles |-> t, crossed |-> x, outdated |-> o \ {pair}]
    BY <1>13, <2>2
  <2>4. WorldStays
    BY <1>10, <2>1, <2>2, <2>3 DEF WorldStays, RegTypeOK, IssuedRequirements
  <2>5. \A p \in Good \X RequirementId :
          compliance'[p] = IF p = pair THEN [status |-> s, checked |-> TRUE] ELSE compliance[p]
    BY <1>13, <2>1 DEF RegTypeOK
  <2>6. RegTypeOK'
    <3>1. IsFiniteSet(Checked \union {pair}) /\ Checked' \subseteq Checked \union {pair}
      <4>1. IsFiniteSet(Checked) /\ DOMAIN compliance' = Good \X RequirementId
              /\ DOMAIN compliance = Good \X RequirementId
        BY <1>13, <2>1 DEF RegTypeOK
      <4>. QED BY <2>5, <4>1, FS_AddElement DEF Checked
    <3>2. IsFiniteSet(Checked')
      BY <3>1, FS_Subset
    <3>. QED BY <1>6, <1>10, <1>13, <2>1, <2>2, <2>3, <3>2 DEF RegTypeOK, IssuedRequirements
  <2>7. \A d \in Inspector : inspection'[d] = IF d = c THEN j ELSE inspection[d]
    BY <1>5, <1>6
  <2>8. ASSUME NEW d \in Inspector PROVE Inspecting(inspection[d])'
    <3>1. PICK i : i = inspection'[d] /\ Inspecting(i)
      BY <1>9, <2>1, <2>7
    <3>. QED BY <2>4, <3>1, InspectionStays
  <2>9. ASSUME NEW p \in Good \X RequirementId PROVE RowHolds(p)' /\ TrailHolds(p)'
    <3>1. RowHolds(p) /\ TrailHolds(p)
      BY <2>1 DEF RowsHold
    <3>2. CASE p = pair
      <4>1. RowHolds(p)'
        BY <1>2, <1>3, <1>10, <1>13, <2>2, <2>3, <2>5, <3>1, <3>2
           DEF RowHolds, StatusHolds, Sufficient, IssuedRequirements
      <4>2. inspection'[c].at = "trail" /\ Subjects(inspection'[c]) = p
        BY <1>8, <2>7, <3>2
      <4>3. TrailHolds(p)'
        BY <4>2 DEF TrailHolds, Subjects
      <4>. QED BY <4>1, <4>3
    <3>3. CASE p # pair
      <4>1. compliance'[p] = compliance[p] /\ (p \in o \ {pair} <=> p \in o)
        BY <2>5, <3>3
      <4>2. RowHolds(p)'
        BY <1>10, <2>2, <2>3, <3>1, <4>1 DEF RowHolds, StatusHolds, Sufficient, IssuedRequirements
      <4>3. TrailHolds(p)'
        <5> SUFFICES ASSUME ~x, t = 0, compliance[p].checked, p \notin o
                     PROVE  \/ \E d \in Inspector : inspection'[d].at = "trail" /\ Subjects(inspection'[d]) = p
                            \/ LastSays(Trailed(p), compliance[p].status)
          BY <1>10, <2>3, <4>1 DEF TrailHolds, LastSays, Trailed
        <5>1. CASE LastSays(Trailed(p), compliance[p].status)
          BY <5>1
        <5>2. CASE \E d \in Inspector : inspection[d].at = "trail" /\ Subjects(inspection[d]) = p
          BY <1>1, <2>7, <5>2
        <5>. QED BY <2>2, <3>1, <5>1, <5>2 DEF TrailHolds
      <4>. QED BY <4>2, <4>3
    <3>. QED BY <3>2, <3>3
  <2>10. ReportHolds' /\ ToldHolds'
    BY <1>10 DEF RegulationInv, ReportHolds, ToldHolds
  <2>. QED BY <2>6, <2>8, <2>9, <2>10 DEF RegulationInv, RowsHold
<1>. QED BY <1>1, <1>2, <1>11, <1>12, <1>13 DEF UpdateProductCompliance

LEMMA EntryKeeps ==
  ASSUME RegulationInv, NEW c \in Inspector, CreateAuditTrail(c)
  PROVE  RegulationInv'
<1>1. PICK k : k = inspection[c] /\ Inspecting(k) /\ k.at = "trail"
  BY DEF RegulationInv, CreateAuditTrail
<1>2. PICK pair, s : pair = Subjects(k) /\ s = k.status /\ StatusHolds(pair, s)
  BY <1>1 DEF Inspecting
<1>3. PICK g, r : g = The(k.good) /\ r = The(k.now) /\ g \in Good /\ r \in IssuedRequirements /\ pair = <<g, r>>
  BY <1>1, <1>2 DEF Inspecting, Subjects
<1>4. k = [at |-> k.at, good |-> k.good, left |-> k.left, now |-> k.now, rule |-> k.rule, status |-> k.status]
  BY <1>1 DEF Inspecting
<1>5. RegTypeOK /\ RowsHold /\ \A d \in Inspector : Inspecting(inspection[d])
  BY DEF RegulationInv
<1>6. PICK j : inspection' = [inspection EXCEPT ![c] = j] /\ j = Going(k) /\ Inspecting(j)
  <2>1. inspection' = [inspection EXCEPT ![c] = Going(k)]
    BY <1>1 DEF CreateAuditTrail
  <2>2. Inspecting(Going(k))
    BY <1>3, <1>4, GoingHolds
  <2>. QED BY <2>1, <2>2
<1>7. UNCHANGED <<goods, requirements, compliance, reports, told>>
  BY DEF CreateAuditTrail
<1>8. RowHolds(pair) /\ r \in RequirementId
  BY <1>3, <1>5 DEF RowsHold, IssuedRequirements
<1>9. CASE RegTrouble /\ UNCHANGED trail
  BY <1>6, <1>7, <1>9, CheckTroubled
<1>10. CASE g \notin goods /\ UNCHANGED <<trail, regTally>>
  <2>1. compliance[pair] = NoVerdict
    BY <1>3, <1>8, <1>10 DEF RowHolds
  <2>. QED BY <1>1, <1>2, <1>6, <1>7, <1>10, <2>1, CheckReads
<1>11. CASE /\ g \in goods /\ UNCHANGED regTally
            /\ trail' = Append(trail, [good |-> g, requirement |-> r, status |-> s])
  <2>1. PICK e \in TrailRecord : e = [good |-> g, requirement |-> r, status |-> s] /\ trail' = Append(trail, e)
    BY <1>2, <1>3, <1>8, <1>11 DEF TrailRecord, StatusHolds
  <2>2. trail \in Seq(TrailRecord) /\ trail' \in Seq(TrailRecord)
    BY <1>5, <2>1 DEF RegTypeOK
  <2>3. WorldStays
    BY <1>5, <1>7, <1>11 DEF WorldStays, RegTypeOK, IssuedRequirements
  <2>4. RegTypeOK'
    BY <1>5, <1>6, <1>7, <1>11, <2>2 DEF RegTypeOK, IssuedRequirements, Checked
  <2>5. \A d \in Inspector : inspection'[d] = IF d = c THEN j ELSE inspection[d]
    BY <1>5, <1>6 DEF RegTypeOK
  <2>6. ASSUME NEW d \in Inspector PROVE Inspecting(inspection[d])'
    <3>1. PICK i : i = inspection'[d] /\ Inspecting(i)
      BY <1>5, <1>6, <2>5
    <3>. QED BY <2>3, <3>1, InspectionStays
  <2>7. ASSUME NEW p \in Good \X RequirementId PROVE RowHolds(p)' /\ TrailHolds(p)'
    <3>1. RowHolds(p) /\ TrailHolds(p)
      BY <1>5 DEF RowsHold
    <3>2. RowHolds(p)'
      BY <1>7, <1>11, <3>1 DEF RowHolds, StatusHolds, Sufficient, IssuedRequirements
    <3>3. PICK q \in Seq(TrailRecord) : q = Kept(trail, Of(p)) /\ Trailed(p) = q
      BY <2>2, TrailedIs, KeptType DEF Trailed
    <3>4. Trailed(p)' = Kept(trail', Of(p))
      BY <2>2, TrailedIs DEF Trailed
    <3>5. Kept(trail', Of(p)) = IF e \in Of(p) THEN Append(q, e) ELSE q
      BY <2>1, <2>2, <3>3, KeptAppended
    <3>6. e \in Of(p) <=> p = pair
      BY <1>3, <2>1 DEF Of
    <3>7. ASSUME ~regTally.crossed, regTally.troubles = 0, compliance[p].checked, p \notin regTally.outdated
          PROVE  \/ \E d \in Inspector : inspection'[d].at = "trail" /\ Subjects(inspection'[d]) = p
                 \/ LastSays(Kept(trail', Of(p)), compliance[p].status)
      <4>1. CASE p = pair
        <5>1. StatusHolds(pair, compliance[pair].status)
          BY <1>8, <3>7, <4>1 DEF RowHolds
        <5>2. compliance[pair].status = s
          BY <1>2, <1>3, <1>11, <3>7, <5>1 DEF StatusHolds, Verdict
        <5>3. LastSays(Append(q, e), e.status) /\ e.status = s
          BY <2>1, LastAppended
        <5>. QED BY <3>5, <3>6, <4>1, <5>2, <5>3
      <4>2. CASE p # pair
        <5>1. Kept(trail', Of(p)) = q
          BY <3>5, <3>6, <4>2
        <5>2. CASE \E d \in Inspector : inspection[d].at = "trail" /\ Subjects(inspection[d]) = p
          BY <1>1, <1>2, <2>5, <4>2, <5>2
        <5>3. CASE LastSays(Trailed(p), compliance[p].status)
          BY <3>3, <5>1, <5>3
        <5>. QED BY <3>1, <3>7, <5>2, <5>3 DEF TrailHolds
      <4>. QED BY <4>1, <4>2
    <3>8. TrailHolds(p)'
      <4>1. LastSays(Trailed(p), compliance[p].status)' <=> LastSays(Kept(trail', Of(p)), compliance[p].status)
        BY <1>7, <3>4 DEF LastSays
      <4>. QED BY <1>7, <1>11, <3>7, <4>1 DEF TrailHolds, Subjects
    <3>. QED BY <3>2, <3>8
  <2>8. ReportHolds' /\ ToldHolds'
    BY <1>7 DEF RegulationInv, ReportHolds, ToldHolds
  <2>. QED BY <2>4, <2>6, <2>7, <2>8 DEF RegulationInv, RowsHold
<1>. QED BY <1>1, <1>2, <1>3, <1>9, <1>10, <1>11 DEF CreateAuditTrail

LEMMA DropKeeps ==
  ASSUME RegulationInv, NEW c \in Inspector, RegCallDropped(c)
  PROVE  RegulationInv'
<1>1. /\ inspection' = [inspection EXCEPT ![c] = NoInspection] /\ RegTrouble
      /\ UNCHANGED <<goods, requirements, compliance, trail, reports, told>>
  BY DEF RegCallDropped, InspectionEnds, regTables
<1>. QED BY <1>1, NoInspectionHolds, CheckTroubled

\* One more call is counted, and nothing else of the tally changes.
CallCounted ==
  /\ regTally'.troubles = regTally.troubles /\ regTally'.crossed = regTally.crossed
  /\ regTally'.outdated = regTally.outdated
  /\ regTally' = [calls |-> regTally'.calls, troubles |-> regTally'.troubles,
                  crossed |-> regTally'.crossed, outdated |-> regTally'.outdated]

LEMMA CalledOnce ==
  ASSUME RegulationInv, Called \/ regTally' = [regTally EXCEPT !.calls = MaxRegCalls]
  PROVE  CallCounted
<1>1. PICK n, t, x, o : regTally = [calls |-> n, troubles |-> t, crossed |-> x, outdated |-> o]
  BY TallyIs
<1>2. PICK m : regTally' = [regTally EXCEPT !.calls = m]
  BY DEF Called
<1>. QED BY <1>1, <1>2 DEF CallCounted

\* Requirements are issued, rows created: what is there stays.
LEMMA CreatedKeep ==
  ASSUME RegulationInv, CallCounted, WorldStays, UNCHANGED <<goods, trail, inspection>>,
         \A r \in RequirementId : requirements'[r] = requirements[r] \/ requirements'[r].active,
         DOMAIN compliance' = Good \X RequirementId,
         \A p \in Good \X RequirementId :
           \/ compliance'[p] = compliance[p]
           \/ ~compliance[p].checked /\ ~compliance'[p].checked /\ p[1] \in goods /\ p[2] \in IssuedRequirements,
         ReportHolds', ToldHolds'
  PROVE  RegulationInv'
<1>1. RegTypeOK /\ RowsHold /\ \A d \in Inspector : Inspecting(inspection[d])
  BY DEF RegulationInv
<1>2. \A r \in IssuedRequirements : r \in (IssuedRequirements)'
  BY DEF WorldStays, IssuedRequirements
<1>3. RegTypeOK'
  <2>1. Checked' = Checked
    BY <1>1 DEF Checked, RegTypeOK
  <2>2. \A r \in (IssuedRequirements)' : requirements'[r].active
    BY <1>1 DEF RegTypeOK, IssuedRequirements
  <2>. QED BY <1>1, <2>1, <2>2 DEF RegTypeOK, CallCounted, WorldStays
<1>4. ASSUME NEW d \in Inspector PROVE Inspecting(inspection[d])'
  <2>1. PICK i : i = inspection[d] /\ Inspecting(i)
    BY <1>1
  <2>2. Inspecting(i)' /\ inspection'[d] = i
    BY <2>1, InspectionStays
  <2>. QED BY <2>2
<1>5. ASSUME NEW p \in Good \X RequirementId PROVE RowHolds(p)' /\ TrailHolds(p)'
  <2>1. RowHolds(p) /\ TrailHolds(p)
    BY <1>1 DEF RowsHold
  <2>2. CASE compliance'[p] = compliance[p]
    <3>1. ASSUME compliance[p].checked, p \notin regTally.outdated
          PROVE  StatusHolds(p, compliance[p].status)'
      <4>1. PICK s : s = compliance[p].status /\ StatusHolds(p, s) /\ p[2] \in IssuedRequirements
        BY <2>1, <3>1 DEF RowHolds, NoVerdict
      <4>2. StatusHolds(p, s)'
        BY <4>1, StatusStays
      <4>. QED BY <2>2, <4>1, <4>2
    <3>2. RowHolds(p)'
      BY <1>2, <2>1, <2>2, <3>1 DEF RowHolds, CallCounted
    <3>3. TrailHolds(p)'
      BY <2>1, <2>2 DEF TrailHolds, CallCounted, LastSays, Trailed, Subjects
    <3>. QED BY <3>2, <3>3
  <2>3. CASE ~compliance'[p].checked /\ p[1] \in goods /\ p[2] \in IssuedRequirements
    BY <1>2, <2>3 DEF RowHolds, TrailHolds
  <2>. QED BY <2>2, <2>3
<1>. QED BY <1>3, <1>4, <1>5 DEF RegulationInv, RowsHold

LEMMA CreationsKeep ==
  ASSUME RegulationInv,
         \/ \E r \in RequirementId, word \in Regime, fields \in FieldChoices : CreateRequirement(r, word, fields)
         \/ \E g \in Good, r \in RequirementId, status \in {"pending", "compliant"} :
              CreateProductCompliance(g, r, status)
         \/ \E rule \in RulesOfTheAPI, data \in DataChoices : CheckCompliance(rule, data)
  PROVE  RegulationInv'
<1>1. RegTypeOK /\ ReportHolds /\ ToldHolds /\ RowsHold
  BY DEF RegulationInv
<1>2. DOMAIN requirements = RequirementId /\ DOMAIN compliance = Good \X RequirementId
  BY <1>1 DEF RegTypeOK
<1>3. CASE \E r \in RequirementId, word \in Regime, fields \in FieldChoices : CreateRequirement(r, word, fields)
  <2>0. PICK r \in RequirementId, word \in Regime, fields \in FieldChoices : CreateRequirement(r, word, fields)
    BY <1>3
  <2>1. PICK row : /\ r \notin IssuedRequirements /\ Called /\ row.active
                   /\ requirements' = [requirements EXCEPT ![r] = row]
                   /\ UNCHANGED <<goods, compliance, trail, reports, told, inspection>>
    <3>1. PICK row : row = [word |-> word, fields |-> fields, active |-> TRUE]
      OBVIOUS
    <3>2. row.active
      BY <3>1
    <3>. QED BY <2>0, <3>1, <3>2, Zenon DEF CreateRequirement
  <2>2. CallCounted
    BY <2>1, CalledOnce
  <2>3. WorldStays
    BY <1>2, <2>1, <2>2 DEF WorldStays, CallCounted, IssuedRequirements
  <2>4. ReportHolds' /\ ToldHolds'
    BY <1>1, <2>1 DEF ReportHolds, ToldHolds
  <2>5. \A q \in RequirementId : requirements'[q] = requirements[q] \/ requirements'[q].active
    BY <1>2, <2>1
  <2>. QED BY <1>2, <2>1, <2>2, <2>3, <2>4, <2>5, CreatedKeep
<1>4. CASE \E g \in Good, r \in RequirementId, status \in {"pending", "compliant"} :
             CreateProductCompliance(g, r, status)
  <2>0. PICK g \in goods, r \in IssuedRequirements, status \in {"pending", "compliant"} :
          CreateProductCompliance(g, r, status)
    BY <1>4 DEF CreateProductCompliance
  <2>1. PICK pair, row :
          /\ pair = <<g, r>> /\ compliance[pair] = NoVerdict /\ Called /\ row.checked = FALSE
          /\ compliance' = [compliance EXCEPT ![pair] = row]
          /\ UNCHANGED <<goods, requirements, trail, reports, told, inspection>>
    <3>1. PICK pair, row : pair = <<g, r>> /\ row = [status |-> status, checked |-> FALSE]
      OBVIOUS
    <3>2. row.checked = FALSE
      BY <3>1
    <3>. QED BY <2>0, <3>1, <3>2, Zenon DEF CreateProductCompliance
  <2>2. CallCounted
    BY <2>1, CalledOnce
  <2>3. WorldStays
    BY <1>2, <2>1, <2>2 DEF WorldStays, CallCounted, IssuedRequirements
  <2>4. ReportHolds' /\ ToldHolds'
    BY <1>1, <2>1 DEF ReportHolds, ToldHolds
  <2>5. ASSUME NEW p \in Good \X RequirementId
        PROVE  \/ compliance'[p] = compliance[p]
               \/ ~compliance[p].checked /\ ~compliance'[p].checked /\ p[1] \in goods /\ p[2] \in IssuedRequirements
    BY <1>2, <2>1 DEF NoVerdict
  <2>6. DOMAIN compliance' = Good \X RequirementId /\ \A q \in RequirementId : requirements'[q] = requirements[q]
    BY <1>2, <2>1
  <2>. QED BY <2>1, <2>2, <2>3, <2>4, <2>5, <2>6, CreatedKeep
<1>5. CASE \E rule \in RulesOfTheAPI, data \in DataChoices : CheckCompliance(rule, data)
  <2>1. PICK rule, data : CheckCompliance(rule, data)
    BY <1>5
  <2>2. CallCounted
    BY <2>1, CalledOnce DEF CheckCompliance
  <2>3. UNCHANGED <<goods, requirements, compliance, trail, reports, inspection>>
    BY <2>1 DEF CheckCompliance, regTables
  <2>4. WorldStays
    BY <1>2, <2>2, <2>3 DEF WorldStays, CallCounted, IssuedRequirements
  <2>5. ToldHolds'
    <3>1. PICK b : /\ told' = [rule |-> rule, data |-> data, is_compliant |-> b]
                   /\ b = Validate(rule, data).is_compliant
      BY <2>1 DEF CheckCompliance
    <3>2. b => rule.fields \union Asks(rule.type) \subseteq DOMAIN data
      BY <3>1, ValidatorIsRight
    <3>. QED BY <3>1, <3>2 DEF ToldHolds
  <2>6. ReportHolds'
    BY <1>1, <2>3 DEF ReportHolds
  <2>7. /\ \A q \in RequirementId : requirements'[q] = requirements[q]
        /\ DOMAIN compliance' = Good \X RequirementId
        /\ \A p \in Good \X RequirementId : compliance'[p] = compliance[p]
    BY <1>2, <2>3
  <2>. QED BY <2>2, <2>3, <2>4, <2>5, <2>6, <2>7, CreatedKeep
<1>. QED BY <1>3, <1>4, <1>5

\* Products that verdicts are counted for are no more than the verdicts.
LEMMA ReportKeeps ==
  ASSUME RegulationInv, GenerateReport
  PROVE  RegulationInv'
<1>1. RegTypeOK /\ RowsHold /\ ReportHolds /\ ToldHolds
  BY DEF RegulationInv
<1>2. CallCounted /\ UNCHANGED <<goods, requirements, compliance, trail, told, inspection>>
  BY CalledOnce DEF GenerateReport, regTables
<1>3. DOMAIN requirements = RequirementId /\ DOMAIN compliance = Good \X RequirementId
  BY <1>1 DEF RegTypeOK
<1>4. PICK C, N, P, G : /\ C = Verdicts({"compliant"}) /\ N = Verdicts({"non_compliant"})
                        /\ P = Verdicts({"pending"}) /\ G = {pair[1] : pair \in Checked}
  OBVIOUS
<1>5. \A p \in Checked : p \in Good \X RequirementId /\ compliance[p].status \in Verdict
  BY <1>1, <1>3 DEF RowsHold, RowHolds, Checked
<1>6. P = {} /\ C \union N = Checked /\ C \intersect N = {}
  BY <1>4, <1>5 DEF Verdicts, Verdict
<1>7. IsFiniteSet(C) /\ IsFiniteSet(N) /\ IsFiniteSet(Checked)
  <2>1. IsFiniteSet(Checked) /\ C \subseteq Checked /\ N \subseteq Checked
    BY <1>1, <1>6 DEF RegTypeOK
  <2>. QED BY <2>1, FS_Subset
<1>8. Cardinality(Checked) = Cardinality(C) + Cardinality(N)
  <2>1. Cardinality(C \union N) = Cardinality(C) + Cardinality(N) - Cardinality(C \intersect N)
    BY <1>7, FS_Union
  <2>2. Cardinality({}) = 0 /\ Cardinality(C) \in Nat /\ Cardinality(N) \in Nat
    BY <1>7, FS_EmptySet, FS_CardinalityType
  <2>3. PICK a \in Nat, b \in Nat : a = Cardinality(C) /\ b = Cardinality(N)
    BY <2>2
  <2>4. Cardinality(Checked) = a + b - 0
    BY <1>6, <2>1, <2>2, <2>3, Zenon
  <2>. QED BY <2>3, <2>4
<1>9. Cardinality(G) <= Cardinality(Checked)
  <2>1. PICK S, f : S = Checked /\ f = [p \in S |-> p[1]]
    OBVIOUS
  <2>2. f \in Surjection(S, G)
    BY <1>4, <2>1, Zenon DEF Surjection
  <2>. QED BY <1>7, <2>1, <2>2, FS_Surjection
<1>10. Cardinality(P) = 0
  BY <1>6, FS_EmptySet
<1>11. reports'[1] = [total |-> Cardinality(G), compliant |-> Cardinality(C),
                      non_compliant |-> Cardinality(N), pending |-> Cardinality(P)]
  <2>1. PICK d : d = CalculateReportData /\ reports'[1] = d
    BY DEF GenerateReport
  <2>. QED BY <1>4, <2>1 DEF CalculateReportData
<1>12. ReportHolds'
  BY <1>8, <1>9, <1>10, <1>11 DEF ReportHolds
<1>13. WorldStays
  BY <1>2, <1>3 DEF WorldStays, CallCounted, IssuedRequirements
<1>14. ToldHolds'
  BY <1>1, <1>2 DEF ToldHolds
<1>15. /\ \A q \in RequirementId : requirements'[q] = requirements[q]
       /\ DOMAIN compliance' = Good \X RequirementId
       /\ \A p \in Good \X RequirementId : compliance'[p] = compliance[p]
  BY <1>2, <1>3
<1>. QED BY <1>2, <1>12, <1>13, <1>14, <1>15, CreatedKeep

LEMMA RevisionKeeps ==
  ASSUME RegulationInv, NEW r \in RequirementId, NEW word, NEW fields, UpdateRequirement(r, word, fields)
  PROVE  RegulationInv'
<1>1. RegTypeOK /\ RowsHold /\ ReportHolds /\ ToldHolds /\ \A d \in Inspector : Inspecting(inspection[d])
  BY DEF RegulationInv
<1>2. DOMAIN requirements = RequirementId /\ r \in IssuedRequirements
        /\ \A q \in IssuedRequirements : requirements[q].active
  BY <1>1 DEF RegTypeOK, UpdateRequirement
<1>3. PICK row : row.active /\ requirements' = [requirements EXCEPT ![r] = row]
  <2>1. requirements' = [requirements EXCEPT
          ![r] = [word |-> word, fields |-> fields, active |-> requirements[r].active]]
    BY <1>2 DEF UpdateRequirement
  <2>. QED BY <1>2, <2>1
<1>4. UNCHANGED <<goods, compliance, trail, reports, told, inspection>>
  BY DEF UpdateRequirement
<1>5. PICK n, t, x, o : /\ regTally = [calls |-> n, troubles |-> t, crossed |-> x, outdated |-> o] /\ t \in Nat
                        /\ t = regTally.troubles /\ x = regTally.crossed /\ o = regTally.outdated
  BY TallyIs
<1>6. PICK m, y, u : /\ regTally' = [calls |-> m, troubles |-> t, crossed |-> y, outdated |-> u]
                     /\ y = (x \/ Crossing) /\ u = o \union {<<g, r>> : g \in Good}
  <2>1. PICK y, u : y = (x \/ Crossing) /\ u = o \union {<<g, r>> : g \in Good}
    OBVIOUS
  <2>2. regTally' = [regTally EXCEPT !.calls = @ + 1, !.crossed = y, !.outdated = u]
    BY <1>5, <2>1 DEF UpdateRequirement
  <2>3. regTally' = [calls |-> n + 1, troubles |-> t, crossed |-> y, outdated |-> u]
    BY <1>5, <2>2
  <2>. QED BY <2>1, <2>3
<1>7. \A q \in RequirementId : requirements'[q] = IF q = r THEN row ELSE requirements[q]
  BY <1>2, <1>3
<1>8. (IssuedRequirements)' = IssuedRequirements
  BY <1>2, <1>3, <1>7 DEF IssuedRequirements, NoRequirement
<1>9. RegTypeOK'
  <2>1. DOMAIN requirements' = RequirementId /\ \A q \in (IssuedRequirements)' : requirements'[q].active
    BY <1>2, <1>3, <1>7, <1>8
  <2>. QED BY <1>1, <1>4, <1>5, <1>6, <2>1 DEF RegTypeOK, Checked
<1>10. ReportHolds' /\ ToldHolds'
  BY <1>1, <1>4 DEF ReportHolds, ToldHolds
<1>11. ASSUME NEW p \in Good \X RequirementId PROVE RowHolds(p) /\ TrailHolds(p)
  BY <1>1 DEF RowsHold
<1>12. CASE y
  <2>1. WorldStays
    BY <1>2, <1>3, <1>4, <1>6, <1>7, <1>8, <1>12 DEF WorldStays, IssuedRequirements
  <2>2. ASSUME NEW d \in Inspector PROVE Inspecting(inspection[d])'
    <3>1. PICK i : i = inspection[d] /\ Inspecting(i)
      BY <1>1
    <3>2. Inspecting(i)' /\ inspection'[d] = i
      BY <1>4, <2>1, <3>1, InspectionStays
    <3>. QED BY <3>2
  <2>3. ASSUME NEW p \in Good \X RequirementId PROVE RowHolds(p)' /\ TrailHolds(p)'
    <3>1. RowHolds(p)'
      BY <1>4, <1>6, <1>8, <1>11, <1>12 DEF RowHolds, StatusHolds
    <3>2. TrailHolds(p)'
      BY <1>6, <1>12 DEF TrailHolds
    <3>. QED BY <3>1, <3>2
  <2>. QED BY <1>9, <1>10, <2>2, <2>3 DEF RegulationInv, RowsHold
<1>13. CASE ~y
  <2>1. \A d \in Inspector : inspection[d] = NoInspection
    BY <1>6, <1>13 DEF Crossing
  <2>2. ASSUME NEW d \in Inspector PROVE Inspecting(inspection[d])'
    <3>1. inspection'[d] = NoInspection
      BY <1>4, <2>1
    <3>. QED BY <3>1, NoInspectionHolds
  <2>3. ASSUME NEW p \in Good \X RequirementId PROVE RowHolds(p)' /\ TrailHolds(p)'
    <3>1. p \notin u => p \notin o /\ p[2] # r /\ p[2] \in RequirementId
      BY <1>6
    <3>2. RowHolds(p) /\ TrailHolds(p) /\ compliance'[p] = compliance[p]
      BY <1>4, <1>11
    <3>3. ASSUME compliance[p].checked, p \notin u PROVE StatusHolds(p, compliance[p].status)'
      <4>1. requirements'[p[2]] = requirements[p[2]] /\ ~regTally.crossed
        BY <1>5, <1>6, <1>7, <1>13, <3>1, <3>3
      <4>2. StatusHolds(p, compliance[p].status)
        BY <1>5, <3>1, <3>2, <3>3 DEF RowHolds
      <4>. QED BY <1>4, <4>1, <4>2 DEF StatusHolds, Sufficient
    <3>4. RowHolds(p)'
      BY <1>4, <1>6, <1>8, <3>2, <3>3 DEF RowHolds
    <3>5. TrailHolds(p)'
      BY <1>4, <1>5, <1>6, <1>13, <3>1, <3>2 DEF TrailHolds, LastSays, Trailed, Subjects
    <3>. QED BY <3>4, <3>5
  <2>. QED BY <1>9, <1>10, <2>2, <2>3 DEF RegulationInv, RowsHold
<1>14. y \in BOOLEAN \/ TRUE
  OBVIOUS
<1>. QED BY <1>12, <1>13

\* A product takes its rows and its entries along.
LEMMA GoodGoneKeeps ==
  ASSUME RegulationInv, NEW g \in Good, GoodGone(g)
  PROVE  RegulationInv'
<1>1. RegTypeOK /\ RowsHold /\ ReportHolds /\ ToldHolds /\ \A d \in Inspector : Inspecting(inspection[d])
  BY DEF RegulationInv
<1>2. /\ goods' = goods \ {g} /\ UNCHANGED <<requirements, reports, told, inspection>>
      /\ compliance' = [pair \in Good \X RequirementId |-> IF pair[1] = g THEN NoVerdict ELSE compliance[pair]]
      /\ trail' = Kept(trail, {entry \in Range(trail) : entry.good # g}) /\ CallCounted
  BY CalledOnce DEF GoodGone
<1>3. trail \in Seq(TrailRecord) /\ DOMAIN requirements = RequirementId /\ DOMAIN compliance = Good \X RequirementId
  BY <1>1 DEF RegTypeOK
<1>4. PICK T : T = {entry \in TrailRecord : entry.good # g}
  OBVIOUS
<1>5. trail' = Kept(trail, T) /\ trail' \in Seq(TrailRecord)
  <2>1. PICK U : U = {entry \in Range(trail) : entry.good # g}
    OBVIOUS
  <2>2. \A e \in Range(trail) : e \in TrailRecord
    BY <1>3 DEF Range
  <2>3. U = {e \in Range(trail) : e \in T}
    BY <1>4, <2>1, <2>2
  <2>4. Kept(trail, U) = Kept(trail, T)
    BY <1>3, <2>3, EntriesOf
  <2>5. Kept(trail, T) \in Seq(TrailRecord)
    BY <1>3, KeptType
  <2>. QED BY <1>2, <2>1, <2>4, <2>5
<1>6. WorldStays
  BY <1>2, <1>3 DEF WorldStays, CallCounted, IssuedRequirements
<1>7. RegTypeOK'
  <2>1. Checked' \subseteq Checked
    BY <1>2, <1>3 DEF Checked, NoVerdict
  <2>2. IsFiniteSet(Checked')
    BY <1>1, <2>1, FS_Subset DEF RegTypeOK
  <2>. QED BY <1>1, <1>2, <1>5, <2>2 DEF RegTypeOK, CallCounted, IssuedRequirements
<1>8. ASSUME NEW d \in Inspector PROVE Inspecting(inspection[d])'
  <2>1. PICK i : i = inspection[d] /\ Inspecting(i)
    BY <1>1
  <2>2. Inspecting(i)' /\ inspection'[d] = i
    BY <1>2, <1>6, <2>1, InspectionStays
  <2>. QED BY <2>2
<1>9. ASSUME NEW p \in Good \X RequirementId PROVE RowHolds(p)' /\ TrailHolds(p)'
  <2>1. RowHolds(p) /\ TrailHolds(p) /\ compliance'[p] = IF p[1] = g THEN NoVerdict ELSE compliance[p]
    BY <1>1, <1>2 DEF RowsHold
  <2>2. CASE p[1] = g
    <3>1. compliance'[p] = NoVerdict /\ ~NoVerdict.checked
      BY <2>1, <2>2 DEF NoVerdict
    <3>. QED BY <3>1 DEF RowHolds, TrailHolds
  <2>3. CASE p[1] # g
    <3>1. RowHolds(p)'
      BY <1>2, <2>1, <2>3 DEF RowHolds, StatusHolds, Sufficient, IssuedRequirements, CallCounted
    <3>2. Trailed(p)' = Trailed(p)
      <4>1. Trailed(p)' = Kept(trail', Of(p)) /\ Trailed(p) = Kept(trail, Of(p))
        BY <1>3, <1>5, TrailedIs DEF Trailed
      <4>2. Kept(Kept(trail, T), Of(p)) = Kept(trail, T \intersect Of(p))
        BY <1>3, KeptTwice
      <4>3. T \intersect Of(p) = Of(p)
        BY <1>4, <2>3 DEF Of
      <4>. QED BY <1>5, <4>1, <4>2, <4>3
    <3>3. TrailHolds(p)'
      <4>1. compliance'[p] = compliance[p]
        BY <2>1, <2>3
      <4>. QED BY <1>2, <2>1, <3>2, <4>1 DEF TrailHolds, LastSays, CallCounted, Subjects
    <3>. QED BY <3>1, <3>3
  <2>. QED BY <2>2, <2>3
<1>10. ReportHolds' /\ ToldHolds'
  BY <1>1, <1>2 DEF ReportHolds, ToldHolds
<1>. QED BY <1>7, <1>8, <1>9, <1>10 DEF RegulationInv, RowsHold

\* A product comes: no check in flight is of it, or that is told.
LEMMA GoodCreatedKeeps ==
  ASSUME RegulationInv, NEW g \in Good, GoodCreated(g)
  PROVE  RegulationInv'
<1>1. RegTypeOK /\ RowsHold /\ ReportHolds /\ ToldHolds /\ \A d \in Inspector : Inspecting(inspection[d])
  BY DEF RegulationInv
<1>2. /\ g \notin goods /\ goods' = goods \union {g}
      /\ UNCHANGED <<requirements, compliance, trail, reports, told, inspection>>
  BY DEF GoodCreated
<1>3. PICK n, t, x, o : /\ regTally = [calls |-> n, troubles |-> t, crossed |-> x, outdated |-> o] /\ t \in Nat
                        /\ t = regTally.troubles /\ x = regTally.crossed /\ o = regTally.outdated
  BY TallyIs
<1>4. PICK m, y : /\ regTally' = [calls |-> m, troubles |-> t, crossed |-> y, outdated |-> o]
                  /\ y = (x \/ Inspected(g))
  <2>1. PICK y : y = (x \/ Inspected(g))
    OBVIOUS
  <2>2. regTally' = [regTally EXCEPT !.calls = @ + 1, !.crossed = y]
    BY <1>3, <2>1 DEF GoodCreated
  <2>3. regTally' = [calls |-> n + 1, troubles |-> t, crossed |-> y, outdated |-> o]
    BY <1>3, <2>2
  <2>. QED BY <2>1, <2>3
<1>5. (IssuedRequirements)' = IssuedRequirements /\ Checked' = Checked
  BY <1>2 DEF IssuedRequirements, Checked
<1>6. RegTypeOK'
  BY <1>1, <1>2, <1>3, <1>4, <1>5 DEF RegTypeOK
<1>7. ReportHolds' /\ ToldHolds'
  BY <1>1, <1>2 DEF ReportHolds, ToldHolds
<1>8. ASSUME NEW p \in Good \X RequirementId PROVE RowHolds(p) /\ TrailHolds(p)
  BY <1>1 DEF RowsHold
<1>9. CASE y
  <2>1. WorldStays
    BY <1>1, <1>2, <1>4, <1>9 DEF WorldStays, RegTypeOK, IssuedRequirements
  <2>2. ASSUME NEW d \in Inspector PROVE Inspecting(inspection[d])'
    <3>1. PICK i : i = inspection[d] /\ Inspecting(i)
      BY <1>1
    <3>2. Inspecting(i)' /\ inspection'[d] = i
      BY <1>2, <2>1, <3>1, InspectionStays
    <3>. QED BY <3>2
  <2>3. ASSUME NEW p \in Good \X RequirementId PROVE RowHolds(p)' /\ TrailHolds(p)'
    <3>1. RowHolds(p)'
      BY <1>2, <1>3, <1>4, <1>5, <1>8, <1>9 DEF RowHolds, StatusHolds
    <3>2. TrailHolds(p)'
      BY <1>4, <1>9 DEF TrailHolds
    <3>. QED BY <3>1, <3>2
  <2>. QED BY <1>6, <1>7, <2>2, <2>3 DEF RegulationInv, RowsHold
<1>10. CASE ~y
  <2>1. ASSUME NEW pair, NEW s, pair[1] # g, StatusHolds(pair, s) PROVE StatusHolds(pair, s)'
    BY <1>2, <1>3, <1>4, <1>10, <2>1 DEF StatusHolds, Sufficient
  <2>2. ASSUME NEW d \in Inspector PROVE Inspecting(inspection[d])'
    <3>1. PICK k : k = inspection[d] /\ Inspecting(k) /\ inspection'[d] = k
      BY <1>1, <1>2
    <3>2. CASE k = NoInspection
      BY <3>1, <3>2, NoInspectionHolds
    <3>3. CASE k # NoInspection
      <4>1. The(k.good) # g
        BY <1>4, <1>10, <3>1, <3>3 DEF Inspected
      <4>2. ASSUME k.at \in {"verdict", "trail"} PROVE StatusHolds(Subjects(k), k.status)'
        <5>1. PICK p, s : p = Subjects(k) /\ s = k.status /\ p[1] # g /\ StatusHolds(p, s)
          BY <3>1, <4>1, <4>2 DEF Inspecting, Subjects
        <5>2. StatusHolds(p, s)'
          BY <2>1, <5>1
        <5>. QED BY <5>1, <5>2
      <4>3. ~regTally'.crossed => ~regTally.crossed
        BY <1>3, <1>4
      <4>4. Inspecting(k)'
        BY <1>2, <1>5, <3>1, <4>2, <4>3 DEF Inspecting
      <4>. QED BY <3>1, <4>4
    <3>. QED BY <3>2, <3>3
  <2>3. ASSUME NEW p \in Good \X RequirementId PROVE RowHolds(p)' /\ TrailHolds(p)'
    <3>1. RowHolds(p) /\ TrailHolds(p) /\ compliance'[p] = compliance[p]
      BY <1>2, <1>8
    <3>2. CASE compliance[p] = NoVerdict
      <4>1. compliance'[p] = NoVerdict /\ ~NoVerdict.checked
        BY <3>1, <3>2 DEF NoVerdict
      <4>. QED BY <4>1 DEF RowHolds, TrailHolds
    <3>3. CASE compliance[p] # NoVerdict
      <4>1. p[1] # g
        BY <1>2, <3>1, <3>3 DEF RowHolds
      <4>2. ASSUME compliance[p].checked, p \notin o PROVE StatusHolds(p, compliance[p].status)'
        <5>1. PICK s : s = compliance[p].status /\ StatusHolds(p, s)
          BY <1>3, <3>1, <4>2 DEF RowHolds
        <5>2. StatusHolds(p, s)'
          BY <2>1, <4>1, <5>1
        <5>. QED BY <3>1, <5>1, <5>2
      <4>3. RowHolds(p)'
        BY <1>2, <1>4, <1>5, <3>1, <4>2 DEF RowHolds
      <4>4. TrailHolds(p)'
        BY <1>2, <1>3, <1>4, <3>1 DEF TrailHolds, LastSays, Trailed, Subjects
      <4>. QED BY <4>3, <4>4
    <3>. QED BY <3>2, <3>3
  <2>. QED BY <1>6, <1>7, <2>2, <2>3 DEF RegulationInv, RowsHold
<1>. QED BY <1>9, <1>10

LEMMA RegulationBegins == RegulationInit => RegulationInv
<1> SUFFICES ASSUME RegulationInit PROVE RegulationInv
  OBVIOUS
<1>1. /\ goods \subseteq Good /\ requirements = [r \in RequirementId |-> NoRequirement]
      /\ compliance = [pair \in Good \X RequirementId |-> NoVerdict]
      /\ trail = <<>> /\ reports = <<>> /\ told = NothingTold
      /\ inspection = [c \in Inspector |-> NoInspection]
      /\ regTally = [calls |-> 0, troubles |-> 0, crossed |-> FALSE, outdated |-> {}]
  BY DEF RegulationInit
<1>2. IssuedRequirements = {} /\ Checked = {}
  BY <1>1 DEF IssuedRequirements, Checked, NoVerdict
<1>3. RegTypeOK
  BY <1>1, <1>2, FS_EmptySet DEF RegTypeOK
<1>4. \A c \in Inspector : Inspecting(inspection[c])
  BY <1>1, NoInspectionHolds
<1>5. \A p \in Good \X RequirementId : RowHolds(p) /\ TrailHolds(p)
  BY <1>1 DEF RowHolds, TrailHolds, NoVerdict
<1>6. ReportHolds /\ ToldHolds
  BY <1>1 DEF ReportHolds, ToldHolds, NothingTold
<1>. QED BY <1>3, <1>4, <1>5, <1>6 DEF RegulationInv, RowsHold

LEMMA RegulationStays ==
  ASSUME RegulationInv, UNCHANGED regVars
  PROVE  RegulationInv'
<1>1. RegTypeOK'
  BY DEF RegulationInv, regVars, RegTypeOK, IssuedRequirements, Checked
<1>2. \A c \in Inspector : Inspecting(inspection[c])'
  BY DEF RegulationInv, regVars, Inspecting, StatusHolds, Sufficient, IssuedRequirements, Subjects
<1>3. ASSUME NEW p \in Good \X RequirementId PROVE RowHolds(p)' /\ TrailHolds(p)'
  <2>1. RowHolds(p) /\ TrailHolds(p)
    BY DEF RegulationInv, RowsHold
  <2>2. RowHolds(p)'
    BY <2>1 DEF regVars, RowHolds, StatusHolds, Sufficient, IssuedRequirements
  <2>3. TrailHolds(p)'
    BY <2>1 DEF regVars, TrailHolds, Subjects, LastSays, Trailed
  <2>. QED BY <2>2, <2>3
<1>4. ReportHolds' /\ ToldHolds'
  BY DEF RegulationInv, regVars, ReportHolds, ToldHolds
<1>. QED BY <1>1, <1>2, <1>3, <1>4 DEF RegulationInv, RowsHold

LEMMA RegulationStep == RegulationInv /\ [RegulationNext]_regVars => RegulationInv'
<1> SUFFICES ASSUME RegulationInv, [RegulationNext]_regVars PROVE RegulationInv'
  OBVIOUS
<1>1. CASE \E r \in RequirementId, word \in Regime, fields \in FieldChoices :
             CreateRequirement(r, word, fields) \/ UpdateRequirement(r, word, fields)
  BY <1>1, CreationsKeep, RevisionKeeps
<1>2. CASE \/ \E g \in Good, r \in RequirementId, status \in {"pending", "compliant"} :
                CreateProductCompliance(g, r, status)
           \/ \E rule \in RulesOfTheAPI, data \in DataChoices : CheckCompliance(rule, data)
  BY <1>2, CreationsKeep
<1>3. CASE (\E g \in Good : GoodCreated(g) \/ GoodGone(g)) \/ GenerateReport
  BY <1>3, GoodCreatedKeeps, GoodGoneKeeps, ReportKeeps
<1>4. CASE \/ \E c \in Inspector, g \in Good, ids \in SUBSET RequirementId : RunComplianceCheck(c, g, ids)
           \/ \E c \in Inspector, g \in Good : RunFullCheck(c, g)
  BY <1>4, BeginsCheck DEF RunComplianceCheck, RunFullCheck
<1>5. CASE \E c \in Inspector :
             \/ ListActive(c) \/ GetRequirement(c) \/ GetProductData(c)
             \/ UpdateProductCompliance(c) \/ CreateAuditTrail(c) \/ RegCallDropped(c)
  BY <1>5, ReadsKeep, VerdictKeeps, EntryKeeps, DropKeeps
<1>6. CASE UNCHANGED regVars
  BY <1>6, RegulationStays
<1>. QED BY <1>1, <1>2, <1>3, <1>4, <1>5, <1>6 DEF RegulationNext

(***************************************************************************)
(* The invariant of the requirements, the checks and their trail.          *)
(***************************************************************************)
THEOREM RegulationInvariant == RegulationSpec => []RegulationInv
BY RegulationBegins, RegulationStep, PTL DEF RegulationSpec

(***************************************************************************)
(* Unless a requirement was changed while a check ran, or the product a    *)
(* check is of was created meanwhile, a verdict says of its requirement    *)
(* what holds and, when all statements went well, the trail says the same  *)
(* in the end; reports add up, and what the API passes has every field     *)
(* that is asked for (run_compliance_check, generate_report,               *)
(* check_compliance).                                                      *)
(***************************************************************************)
THEOREM VerdictsAreRight == RegulationSpec => []VerdictsStand
<1>1. ASSUME RegulationInv PROVE VerdictsStand
  <2>1. RegTypeOK /\ RowsHold /\ ReportHolds /\ ToldHolds
    BY <1>1 DEF RegulationInv
  <2>2. ASSUME ~regTally.crossed, NEW pair \in DOMAIN compliance,
               compliance[pair].checked, pair \notin regTally.outdated
        PROVE  /\ compliance[pair].status = "compliant" <=> Sufficient(pair[2])
               /\ regTally.troubles = 0 /\ ~Crossing => LastSays(Trailed(pair), compliance[pair].status)
    <3>1. RowHolds(pair) /\ TrailHolds(pair)
      BY <2>1, <2>2 DEF RowsHold, RegTypeOK
    <3>2. pair[1] \in goods /\ StatusHolds(pair, compliance[pair].status)
      BY <2>2, <3>1 DEF RowHolds, NoVerdict
    <3>3. ASSUME ~Crossing PROVE \A c \in Inspector : inspection[c].at = "rest"
      BY <3>3 DEF Crossing, NoInspection
    <3>. QED BY <2>2, <3>1, <3>2, <3>3 DEF StatusHolds, TrailHolds
  <2>. QED BY <2>1, <2>2 DEF VerdictsStand, ReportHolds, ToldHolds, Sufficient, LastSays
<1>. QED BY <1>1, RegulationInvariant, PTL

------------------------------------------------------------------------------
(***************************************************************************)
(* The rule engine.  Rules are in the order they are judged by, whatever   *)
(* is inserted and removed, and a filter keeps that order.                 *)
(***************************************************************************)

Entry == [rule : RuleChoices \union PredefinedRules, turn : Nat]

\* The higher priority first, and of two alike the one added first.
Earlier ==
  {pair \in Entry \X Entry :
     \/ pair[1].rule.priority > pair[2].rule.priority
     \/ pair[1].rule.priority = pair[2].rule.priority /\ pair[1].turn < pair[2].turn}

EngineInv ==
  /\ rules \in Seq(Entry) /\ added \in Nat
  /\ InOrder(rules, Earlier)
  /\ \A i \in 1 .. Len(rules) : rules[i].turn <= added
  /\ RulesJudgeEvents

LEMMA Joined ==
  ASSUME NEW E, NEW u \in Seq(E), NEW v \in Seq(E), NEW k \in Nat, NEW m \in Nat, k = Len(u), m = Len(v)
  PROVE  /\ u \o v \in Seq(E) /\ Len(u \o v) = k + m
         /\ \A i \in 1 .. k : (u \o v)[i] = u[i]
         /\ \A i \in 1 .. m : (u \o v)[k + i] = v[i]
<1>1. PICK t \in Seq(E) : /\ t = u \o v /\ Len(t) = Len(u) + Len(v)
                          /\ \A i \in 1 .. Len(u) + Len(v) : t[i] = IF i <= Len(u) THEN u[i] ELSE v[i - Len(u)]
  <2>1. /\ u \o v \in Seq(E) /\ Len(u \o v) = Len(u) + Len(v)
        /\ \A i \in 1 .. Len(u) + Len(v) : (u \o v)[i] = IF i <= Len(u) THEN u[i] ELSE v[i - Len(u)]
    BY ConcatProperties
  <2>. QED BY <2>1, Zenon
<1>2. Len(t) = k + m /\ \A i \in 1 .. k + m : t[i] = IF i <= k THEN u[i] ELSE v[i - k]
  BY <1>1
<1>3. ASSUME NEW i \in 1 .. k PROVE t[i] = u[i]
  BY <1>2
<1>4. ASSUME NEW i \in 1 .. m PROVE t[k + i] = v[i]
  <2>1. k + i \in 1 .. k + m /\ ~(k + i <= k) /\ (k + i) - k = i
    OBVIOUS
  <2>. QED BY <1>2, <2>1
<1>. QED BY <1>1, <1>2, <1>3, <1>4, Zenon

LEMMA Inserted ==
  ASSUME NEW E, NEW s \in Seq(E), NEW e \in E, NEW n \in Nat, n = Len(s), NEW b \in 0 .. n
  PROVE  /\ InsertAt(s, b + 1, e) \in Seq(E) /\ Len(InsertAt(s, b + 1, e)) = n + 1
         /\ InsertAt(s, b + 1, e)[b + 1] = e
         /\ \A i \in 1 .. b : InsertAt(s, b + 1, e)[i] = s[i]
         /\ \A i \in b + 1 .. n : InsertAt(s, b + 1, e)[i + 1] = s[i]
<1>a. PICK k \in Nat : k = b + 1
  OBVIOUS
<1>b. PICK m \in Nat : k = b + 1 /\ m = n - b /\ k + m = n + 1
  <2>1. n - b \in Nat /\ k + (n - b) = n + 1
    BY <1>a
  <2>. QED BY <2>1, <1>a
<1>1. PICK front \in Seq(E) : front = SubSeq(s, 1, b) /\ Len(front) = b /\ \A i \in 1 .. b : front[i] = s[i]
  <2>1. /\ SubSeq(s, 1, b) \in Seq(E) /\ Len(SubSeq(s, 1, b)) = b
        /\ \A i \in 1 .. b : SubSeq(s, 1, b)[i] = s[i]
    OBVIOUS
  <2>. QED BY <2>1, Zenon
<1>2. PICK back \in Seq(E) : back = SubSeq(s, b + 1, n) /\ Len(back) = n - b
                             /\ \A i \in 1 .. n - b : back[i] = s[b + i]
  <2>1. /\ SubSeq(s, b + 1, n) \in Seq(E) /\ Len(SubSeq(s, b + 1, n)) = n - b
        /\ \A i \in 1 .. n - b : SubSeq(s, b + 1, n)[i] = s[b + i]
    OBVIOUS
  <2>. QED BY <2>1, Zenon
<1>3. InsertAt(s, b + 1, e) = front \o <<e>> \o back
  <2>1. (b + 1) - 1 = b
    OBVIOUS
  <2>2. InsertAt(s, b + 1, e) = SubSeq(s, 1, (b + 1) - 1) \o <<e>> \o SubSeq(s, b + 1, Len(s))
    BY DEF InsertAt
  <2>. QED BY <2>1, <2>2, <1>1, <1>2, Zenon
<1>4. PICK half \in Seq(E) : half = front \o <<e>> /\ Len(half) = b + 1 /\ half[b + 1] = e
                             /\ \A i \in 1 .. b : half[i] = s[i]
  <2>1. /\ front \o <<e>> \in Seq(E) /\ Len(front \o <<e>>) = b + 1 /\ (front \o <<e>>)[b + 1] = e
        /\ \A i \in 1 .. b : (front \o <<e>>)[i] = s[i]
    BY <1>1
  <2>. QED BY <2>1, Zenon
<1>5. PICK t \in Seq(E) : /\ t = half \o back /\ Len(t) = n + 1 /\ \A i \in 1 .. b + 1 : t[i] = half[i]
                          /\ \A i \in 1 .. n - b : t[b + 1 + i] = back[i]
  <2>2. k = Len(half) /\ m = Len(back)
    BY <1>b, <1>2, <1>4
  <2>3. /\ half \o back \in Seq(E) /\ Len(half \o back) = k + m
        /\ \A i \in 1 .. k : (half \o back)[i] = half[i]
        /\ \A i \in 1 .. m : (half \o back)[k + i] = back[i]
    BY <2>2, Joined
  <2>. QED BY <1>b, <2>3, Zenon
<1>6. ASSUME NEW i \in b + 1 .. n PROVE t[i + 1] = s[i]
  <2>1. PICK j \in 1 .. n - b : b + 1 + j = i + 1 /\ b + j = i
    <3>1. i - b \in 1 .. n - b /\ b + 1 + (i - b) = i + 1 /\ b + (i - b) = i
      OBVIOUS
    <3>. QED BY <3>1
  <2>2. t[b + 1 + j] = back[j] /\ back[j] = s[b + j]
    BY <1>2, <1>5
  <2>. QED BY <2>1, <2>2
<1>7. InsertAt(s, b + 1, e) = t
  BY <1>3, <1>4, <1>5
<1>8. t[b + 1] = e /\ \A i \in 1 .. b : t[i] = s[i]
  BY <1>4, <1>5
<1>. QED BY <1>5, <1>6, <1>7, <1>8

LEMMA InsertedInOrder ==
  ASSUME NEW E, NEW s \in Seq(E), NEW e \in E, NEW n \in Nat, n = Len(s), NEW b \in 0 .. n, NEW R, InOrder(s, R),
         \A i \in 1 .. b : <<s[i], e>> \in R, \A i \in b + 1 .. n : <<e, s[i]>> \in R
  PROVE  InOrder(InsertAt(s, b + 1, e), R)
<1>0. n = Len(s)
  OBVIOUS
<1>1. PICK t \in Seq(E) : /\ t = InsertAt(s, b + 1, e) /\ Len(t) = n + 1 /\ t[b + 1] = e
                          /\ \A i \in 1 .. b : t[i] = s[i]
                          /\ \A i \in b + 1 .. n : t[i + 1] = s[i]
  <2>1. InsertAt(s, b + 1, e) \in Seq(E) /\ Len(InsertAt(s, b + 1, e)) = n + 1
    BY <1>0, Inserted
  <2>2. InsertAt(s, b + 1, e)[b + 1] = e
    BY <1>0, Inserted
  <2>3. \A i \in 1 .. b : InsertAt(s, b + 1, e)[i] = s[i]
    BY <1>0, Inserted
  <2>4. \A i \in b + 1 .. n : InsertAt(s, b + 1, e)[i + 1] = s[i]
    BY <1>0, Inserted
  <2>. QED BY <2>1, <2>2, <2>3, <2>4, ZenonT(30)
<1>2. ASSUME NEW i \in 1 .. n + 1, NEW j \in 1 .. n + 1, i < j PROVE <<t[i], t[j]>> \in R
  <2>1. \A k, l \in 1 .. n : k < l => <<s[k], s[l]>> \in R
    BY <1>0 DEF InOrder
  <2>2. i <= b => i \in 1 .. b /\ i \in 1 .. n /\ t[i] = s[i]
    BY <1>0, <1>1
  <2>3. j <= b => j \in 1 .. n /\ t[j] = s[j]
    BY <1>0, <1>1
  <2>4. ASSUME i > b + 1 PROVE i - 1 \in 1 .. n /\ t[i] = s[i - 1]
    <3>1. PICK k \in b + 1 .. n : k = i - 1 /\ k + 1 = i /\ k \in 1 .. n
      <4>1. i - 1 \in b + 1 .. n /\ (i - 1) + 1 = i /\ i - 1 \in 1 .. n
        BY <2>4, <1>0
      <4>. QED BY <4>1
    <3>2. t[k + 1] = s[k]
      BY <1>1, Zenon
    <3>. QED BY <3>1, <3>2
  <2>5. ASSUME j > b + 1 PROVE j - 1 \in 1 .. n /\ j - 1 \in b + 1 .. n /\ t[j] = s[j - 1]
    <3>1. PICK k \in b + 1 .. n : k = j - 1 /\ k + 1 = j /\ k \in 1 .. n
      <4>1. j - 1 \in b + 1 .. n /\ (j - 1) + 1 = j /\ j - 1 \in 1 .. n
        BY <2>5, <1>0
      <4>. QED BY <4>1
    <3>2. t[k + 1] = s[k]
      BY <1>1, Zenon
    <3>. QED BY <3>1, <3>2
  <2>6. CASE j <= b
    BY <2>1, <2>2, <2>3, <2>6, <1>2, <1>0
  <2>7. CASE j = b + 1
    BY <2>2, <2>7, <1>1, <1>2, <1>0
  <2>8. CASE j > b + 1 /\ i <= b
    <3>1. i \in 1 .. n /\ j - 1 \in 1 .. n /\ i < j - 1
      BY <2>2, <2>5, <2>8, <1>0
    <3>. QED BY <3>1, <2>1, <2>2, <2>5, <2>8
  <2>9. CASE j > b + 1 /\ i = b + 1
    BY <2>5, <2>9, <1>1, <1>0
  <2>10. CASE j > b + 1 /\ i > b + 1
    <3>1. i - 1 \in 1 .. n /\ j - 1 \in 1 .. n /\ i - 1 < j - 1
      BY <2>4, <2>5, <2>10, <1>2
    <3>. QED BY <3>1, <2>1, <2>4, <2>5, <2>10
  <2>. QED BY <2>6, <2>7, <2>8, <2>9, <2>10, <1>0
<1>. QED BY <1>1, <1>2 DEF InOrder

LEMMA Removed ==
  ASSUME NEW E, NEW s \in Seq(E), NEW n \in Nat, n = Len(s), NEW r \in 1 .. n
  PROVE  /\ RemoveAt(s, r) \in Seq(E) /\ Len(RemoveAt(s, r)) = n - 1
         /\ \A i \in 1 .. r - 1 : RemoveAt(s, r)[i] = s[i]
         /\ \A i \in r .. n - 1 : RemoveAt(s, r)[i] = s[i + 1]
<1>a. PICK k \in Nat : k = r - 1
  OBVIOUS
<1>b. PICK m \in Nat : k = r - 1 /\ m = n - r /\ k + m = n - 1
  <2>1. n - r \in Nat /\ k + (n - r) = n - 1
    BY <1>a
  <2>. QED BY <2>1, <1>a
<1>1. PICK front \in Seq(E) : front = SubSeq(s, 1, r - 1) /\ Len(front) = r - 1 /\ \A i \in 1 .. r - 1 : front[i] = s[i]
  <2>1. /\ SubSeq(s, 1, r - 1) \in Seq(E) /\ Len(SubSeq(s, 1, r - 1)) = r - 1
        /\ \A i \in 1 .. r - 1 : SubSeq(s, 1, r - 1)[i] = s[i]
    OBVIOUS
  <2>. QED BY <2>1, Zenon
<1>2. PICK back \in Seq(E) : back = SubSeq(s, r + 1, n) /\ Len(back) = n - r
                             /\ \A i \in 1 .. n - r : back[i] = s[r + i]
  <2>1. /\ SubSeq(s, r + 1, n) \in Seq(E) /\ Len(SubSeq(s, r + 1, n)) = n - r
        /\ \A i \in 1 .. n - r : SubSeq(s, r + 1, n)[i] = s[r + i]
    OBVIOUS
  <2>. QED BY <2>1, Zenon
<1>3. RemoveAt(s, r) = front \o back
  BY <1>1, <1>2 DEF RemoveAt
<1>4. PICK t \in Seq(E) : /\ t = front \o back /\ Len(t) = n - 1 /\ \A i \in 1 .. r - 1 : t[i] = front[i]
                          /\ \A i \in 1 .. n - r : t[r - 1 + i] = back[i]
  <2>2. k = Len(front) /\ m = Len(back)
    BY <1>b, <1>1, <1>2
  <2>3. /\ front \o back \in Seq(E) /\ Len(front \o back) = k + m
        /\ \A i \in 1 .. k : (front \o back)[i] = front[i]
        /\ \A i \in 1 .. m : (front \o back)[k + i] = back[i]
    BY <2>2, Joined
  <2>. QED BY <1>b, <2>3, Zenon
<1>5. ASSUME NEW i \in r .. n - 1 PROVE t[i] = s[i + 1]
  <2>1. PICK j \in 1 .. n - r : r - 1 + j = i /\ r + j = i + 1
    <3>1. i - (r - 1) \in 1 .. n - r /\ r - 1 + (i - (r - 1)) = i /\ r + (i - (r - 1)) = i + 1
      OBVIOUS
    <3>. QED BY <3>1
  <2>2. t[r - 1 + j] = back[j] /\ back[j] = s[r + j]
    BY <1>2, <1>4
  <2>. QED BY <2>1, <2>2
<1>6. RemoveAt(s, r) = t
  BY <1>3, <1>4
<1>7. \A i \in 1 .. r - 1 : t[i] = s[i]
  BY <1>1, <1>4
<1>. QED BY <1>4, <1>5, <1>6, <1>7

LEMMA RemovedInOrder ==
  ASSUME NEW E, NEW s \in Seq(E), NEW n \in Nat, n = Len(s), NEW r \in 1 .. n, NEW R, InOrder(s, R)
  PROVE  InOrder(RemoveAt(s, r), R)
<1>0. n = Len(s)
  OBVIOUS
<1>1. PICK t \in Seq(E) : /\ t = RemoveAt(s, r) /\ Len(t) = n - 1 /\ \A i \in 1 .. r - 1 : t[i] = s[i]
                          /\ \A i \in r .. n - 1 : t[i] = s[i + 1]
  <2>2. /\ RemoveAt(s, r) \in Seq(E) /\ Len(RemoveAt(s, r)) = n - 1
        /\ \A i \in 1 .. r - 1 : RemoveAt(s, r)[i] = s[i]
        /\ \A i \in r .. n - 1 : RemoveAt(s, r)[i] = s[i + 1]
    BY <1>0, Removed
  <2>. QED BY <2>2, Zenon
<1>2. ASSUME NEW i \in 1 .. n - 1, NEW j \in 1 .. n - 1, i < j PROVE <<t[i], t[j]>> \in R
  <2>1. \A k, l \in 1 .. n : k < l => <<s[k], s[l]>> \in R
    BY <1>0 DEF InOrder
  <2>2. PICK k \in 1 .. n : t[i] = s[k] /\ k = IF i < r THEN i ELSE i + 1
    BY <1>0, <1>1
  <2>3. PICK l \in 1 .. n : t[j] = s[l] /\ l = IF j < r THEN j ELSE j + 1
    BY <1>0, <1>1
  <2>4. k < l
    BY <2>2, <2>3, <1>0, <1>2
  <2>. QED BY <2>1, <2>2, <2>3, <2>4
<1>. QED BY <1>1, <1>2 DEF InOrder

\* A set of positions with all before each of them is a stretch from the first.
LEMMA FirstOnes ==
  ASSUME NEW n \in Nat, NEW D \in SUBSET (1 .. n), \A i \in D : 1 .. i \subseteq D
  PROVE  Cardinality(D) \in 0 .. n /\ D = 1 .. Cardinality(D)
<1> DEFINE O == {i \in 1 .. n + 1 : i \notin D}
<1>1. O \in SUBSET Nat /\ O # {}
  <2>1. n + 1 \in O
    OBVIOUS
  <2>. QED BY <2>1
<1>2. PICK m \in O : \A k \in O : m <= k
  <2> HIDE DEF O
  <2>. QED BY <1>1, LeastNatural
<1>3. D = 1 .. m - 1
  <2>1. ASSUME NEW i \in 1 .. m - 1 PROVE i \in D
    <3>1. i \in 1 .. n + 1 /\ ~(m <= i)
      OBVIOUS
    <3>. QED BY <3>1, <1>2
  <2>2. ASSUME NEW i \in D PROVE i \in 1 .. m - 1
    <3>1. m \notin D /\ m \in 1 .. n + 1
      OBVIOUS
    <3>2. ~(m <= i)
      <4>1. ASSUME m <= i PROVE FALSE
        <5>1. m \in 1 .. i
          BY <3>1, <4>1
        <5>. QED BY <5>1, <3>1
      <4>. QED BY <4>1
    <3>. QED BY <3>1, <3>2
  <2>. QED BY <2>1, <2>2
<1>4. PICK k \in Nat : k = m - 1 /\ k <= n
  OBVIOUS
<1>5. Cardinality(1 .. k) = k
  BY FS_Interval
<1>. QED BY <1>3, <1>4, <1>5

LEMMA Ranked ==
  ASSUME NEW v \in Range(Words), NEW w \in Range(Words)
  PROVE  Rank(v) \in Int /\ Rank(w) \in Int /\ (Rank(v) = Rank(w) <=> v = w)
<1>1. Words \in Seq(Range(Words))
  BY RuleEngineAssumption
<1>2. ASSUME NEW x \in Range(Words) PROVE Rank(x) \in DOMAIN Words /\ Words[Rank(x)] = x
  <2>1. \E i \in DOMAIN Words : Words[i] = x
    BY DEF Range
  <2>. QED BY <2>1 DEF Rank
<1>3. DOMAIN Words \subseteq Int
  BY <1>1
<1>. QED BY <1>2, <1>3

LEMMA EqualsHolds ==
  ASSUME NEW event, NEW field, NEW value
  PROVE  EvaluateCondition(Condition(field, "Equals", value), event)
           <=> CompareValues(FieldValue(event, field), value) = 0
BY DEF EvaluateCondition, Condition

LEMMA GreaterHolds ==
  ASSUME NEW event, NEW field, NEW value
  PROVE  EvaluateCondition(Condition(field, "GreaterThan", value), event)
           <=> CompareValues(FieldValue(event, field), value) > 0
BY DEF EvaluateCondition, Condition

LEMMA LessHolds ==
  ASSUME NEW event, NEW field, NEW value
  PROVE  EvaluateCondition(Condition(field, "LessThan", value), event)
           <=> CompareValues(FieldValue(event, field), value) < 0
BY DEF EvaluateCondition, Condition

\* Two conditions, all or any of them.
LEMMA OfTwo ==
  ASSUME NEW rule, NEW c, NEW d, NEW event, rule.conditions = <<c, d>>
  PROVE  EvaluateConditionGroup(rule, event)
           <=> IF rule.any THEN EvaluateCondition(c, event) \/ EvaluateCondition(d, event)
               ELSE EvaluateCondition(c, event) /\ EvaluateCondition(d, event)
<1>1. DOMAIN rule.conditions = {1, 2} /\ rule.conditions[1] = c /\ rule.conditions[2] = d
  OBVIOUS
<1>. QED BY <1>1, Zenon DEF EvaluateConditionGroup

LEMMA OfType ==
  ASSUME NEW event \in Events, NEW v \in {"QUALITY_CHECK", "SHIP"}
  PROVE  CompareValues(FieldValue(event, "event_type"), Str(v)) = 0 <=> event.event_type = Str(v)
<1>1. v \in Range(Words)
  BY RuleEngineAssumption
<1>2. PICK w \in Range(Words) : event.event_type = <<"string", w>>
  BY RuleEngineAssumption
<1>3. FieldValue(event, "event_type") = <<"string", w>> /\ Str(v) = <<"string", v>>
  BY <1>2, RuleEngineAssumption DEF FieldValue, Str
<1>4. CompareValues(<<"string", w>>, <<"string", v>>) = Sign(Rank(w) - Rank(v))
  BY DEF CompareValues
<1>5. Sign(Rank(w) - Rank(v)) = 0 <=> w = v
  <2>1. Rank(v) \in Int /\ Rank(w) \in Int /\ (Rank(w) = Rank(v) <=> w = v)
    BY <1>1, Ranked
  <2>. QED BY <2>1 DEF Sign
<1>6. <<"string", w>> = <<"string", v>> <=> w = v
  OBVIOUS
<1>. QED BY <1>2, <1>3, <1>4, <1>5, <1>6

LEMMA OfBool ==
  ASSUME NEW event \in Events, NEW field, HasBool(event, field), NEW b \in BOOLEAN
  PROVE  CompareValues(FieldValue(event, field), <<"bool", b>>) = 0 <=> event[field][2] = b
<1>1. field \in DOMAIN event /\ FieldValue(event, field) = event[field] /\ event[field][1] = "bool"
  <2>1. Null[1] = "null"
    BY DEF Null
  <2>. QED BY <2>1 DEF HasBool, FieldValue
<1>2. event[field][2] \in BOOLEAN
  BY <1>1, RuleEngineAssumption
<1>3. CompareValues(event[field], <<"bool", b>>) = BoolToInt(event[field][2]) - BoolToInt(b)
  BY <1>1 DEF CompareValues
<1>4. BoolToInt(event[field][2]) - BoolToInt(b) = 0 <=> event[field][2] = b
  BY <1>2 DEF BoolToInt
<1>. QED BY <1>1, <1>3, <1>4

LEMMA OfNumber ==
  ASSUME NEW event \in Events, NEW n \in Int,
         FieldValue(event, "temperature")[1] \in {"number", "null"}
  PROVE  LET degrees == FieldValue(event, "temperature")
         IN  /\ degrees[1] = "number" => degrees = event.temperature /\ degrees[2] \in Int
             /\ CompareValues(degrees, <<"number", n>>) =
                  IF degrees[1] = "number" THEN Sign(degrees[2] - n) ELSE 0
<1> DEFINE degrees == FieldValue(event, "temperature")
<1>1. ASSUME degrees[1] = "number" PROVE degrees = event.temperature /\ degrees[2] \in Int
  <2>1. Null[1] = "null"
    BY DEF Null
  <2>2. "temperature" \in DOMAIN event /\ degrees = event["temperature"]
    BY <2>1, <1>1 DEF FieldValue
  <2>3. event["temperature"][2] \in Int
    BY <2>2, <1>1, RuleEngineAssumption
  <2>. QED BY <2>2, <2>3
<1>2. CompareValues(degrees, <<"number", n>>) = IF degrees[1] = "number" THEN Sign(degrees[2] - n) ELSE 0
  BY DEF CompareValues
<1>. QED BY <1>1, <1>2

\* The predefined rules match what they are described to match.
LEMMA DescribedRight ==
  ASSUME NEW event \in Events, NEW rule, Describable(rule, event)
  PROVE  EvaluateConditionGroup(rule, event) <=> Described(rule, event)
<1>1. CASE rule = QualityCheckFailure
  <2>1. rule.conditions = <<Condition("event_type", "Equals", Str("QUALITY_CHECK")),
                            Condition("passed", "Equals", <<"bool", FALSE>>)>> /\ rule.any = FALSE
    BY <1>1 DEF QualityCheckFailure
  <2>2. HasBool(event, "passed")
    BY <1>1 DEF Describable, QualityCheckFailure, ShipmentDelay, TemperatureExcursion
  <2>3. EvaluateConditionGroup(rule, event) <=>
          /\ EvaluateCondition(Condition("event_type", "Equals", Str("QUALITY_CHECK")), event)
          /\ EvaluateCondition(Condition("passed", "Equals", <<"bool", FALSE>>), event)
    BY <2>1, OfTwo
  <2>4. EvaluateConditionGroup(rule, event) <=>
          event.event_type = Str("QUALITY_CHECK") /\ event["passed"][2] = FALSE
    <3>1. EvaluateCondition(Condition("event_type", "Equals", Str("QUALITY_CHECK")), event)
            <=> CompareValues(FieldValue(event, "event_type"), Str("QUALITY_CHECK")) = 0
      BY EqualsHolds
    <3>2. CompareValues(FieldValue(event, "event_type"), Str("QUALITY_CHECK")) = 0 <=> event.event_type = Str("QUALITY_CHECK")
      BY OfType
    <3>3. EvaluateCondition(Condition("passed", "Equals", <<"bool", FALSE>>), event)
            <=> CompareValues(FieldValue(event, "passed"), <<"bool", FALSE>>) = 0
      BY EqualsHolds
    <3>4. CompareValues(FieldValue(event, "passed"), <<"bool", FALSE>>) = 0 <=> event["passed"][2] = FALSE
      BY <2>2, OfBool
    <3>. QED BY <2>3, <3>1, <3>2, <3>3, <3>4, Zenon
  <2>5. event["passed"][2] \in BOOLEAN
    <3>1. Null[1] = "null"
      BY DEF Null
    <3>2. "passed" \in DOMAIN event /\ event["passed"][1] = "bool"
      BY <2>2, <3>1 DEF HasBool, FieldValue
    <3>. QED BY <3>2, RuleEngineAssumption
  <2>6. Described(rule, event) <=> event.event_type = Str("QUALITY_CHECK") /\ ~event.passed[2]
    BY <1>1 DEF Described, QualityCheckFailure, ShipmentDelay, TemperatureExcursion
  <2>. QED BY <2>4, <2>5, <2>6
<1>2. CASE rule = ShipmentDelay
  <2>1. rule.conditions = <<Condition("event_type", "Equals", Str("SHIP")),
                            Condition("delayed", "Equals", <<"bool", TRUE>>)>> /\ rule.any = FALSE
    BY <1>2 DEF ShipmentDelay
  <2>2. HasBool(event, "delayed")
    BY <1>2 DEF Describable, QualityCheckFailure, ShipmentDelay, TemperatureExcursion
  <2>3. EvaluateConditionGroup(rule, event) <=>
          /\ EvaluateCondition(Condition("event_type", "Equals", Str("SHIP")), event)
          /\ EvaluateCondition(Condition("delayed", "Equals", <<"bool", TRUE>>), event)
    BY <2>1, OfTwo
  <2>4. EvaluateConditionGroup(rule, event) <=>
          event.event_type = Str("SHIP") /\ event["delayed"][2] = TRUE
    <3>1. EvaluateCondition(Condition("event_type", "Equals", Str("SHIP")), event)
            <=> CompareValues(FieldValue(event, "event_type"), Str("SHIP")) = 0
      BY EqualsHolds
    <3>2. CompareValues(FieldValue(event, "event_type"), Str("SHIP")) = 0 <=> event.event_type = Str("SHIP")
      BY OfType
    <3>3. EvaluateCondition(Condition("delayed", "Equals", <<"bool", TRUE>>), event)
            <=> CompareValues(FieldValue(event, "delayed"), <<"bool", TRUE>>) = 0
      BY EqualsHolds
    <3>4. CompareValues(FieldValue(event, "delayed"), <<"bool", TRUE>>) = 0 <=> event["delayed"][2] = TRUE
      BY <2>2, OfBool
    <3>. QED BY <2>3, <3>1, <3>2, <3>3, <3>4, Zenon
  <2>5. Described(rule, event) <=> event.event_type = Str("SHIP") /\ event.delayed[2]
    BY <1>2 DEF Described, QualityCheckFailure, ShipmentDelay, TemperatureExcursion
  <2>6. event["delayed"][2] \in BOOLEAN
    <3>1. Null[1] = "null"
      BY DEF Null
    <3>2. "delayed" \in DOMAIN event /\ event["delayed"][1] = "bool"
      BY <2>2, <3>1 DEF HasBool, FieldValue
    <3>. QED BY <3>2, RuleEngineAssumption
  <2>. QED BY <2>4, <2>5, <2>6
<1>3. CASE rule = TemperatureExcursion
  <2> DEFINE degrees == FieldValue(event, "temperature")
  <2>1. rule.conditions = <<Condition("temperature", "GreaterThan", <<"number", 25>>),
                            Condition("temperature", "LessThan", <<"number", 2>>)>> /\ rule.any = TRUE
    BY <1>3 DEF TemperatureExcursion
  <2>2. degrees[1] \in {"number", "null"}
    BY <1>3 DEF Describable, QualityCheckFailure, ShipmentDelay, TemperatureExcursion
  <2>3. EvaluateConditionGroup(rule, event) <=>
          \/ EvaluateCondition(Condition("temperature", "GreaterThan", <<"number", 25>>), event)
          \/ EvaluateCondition(Condition("temperature", "LessThan", <<"number", 2>>), event)
    BY <2>1, OfTwo
  <2>4. EvaluateConditionGroup(rule, event) <=>
          CompareValues(degrees, <<"number", 25>>) > 0 \/ CompareValues(degrees, <<"number", 2>>) < 0
    BY <2>3, GreaterHolds, LessHolds
  <2>5. /\ degrees[1] = "number" => degrees = event.temperature /\ degrees[2] \in Int
        /\ CompareValues(degrees, <<"number", 25>>) = IF degrees[1] = "number" THEN Sign(degrees[2] - 25) ELSE 0
        /\ CompareValues(degrees, <<"number", 2>>) = IF degrees[1] = "number" THEN Sign(degrees[2] - 2) ELSE 0
    BY <2>2, OfNumber
  <2>6. Described(rule, event) <=> degrees[1] = "number" /\ event.temperature[2] \notin 2 .. 25
    BY <1>3 DEF Described, QualityCheckFailure, ShipmentDelay, TemperatureExcursion
  <2>. QED BY <2>4, <2>5, <2>6 DEF Sign
<1>. QED BY <1>1, <1>2, <1>3 DEF Describable

LEMMA EngineBegins ==
  ASSUME EngineInit PROVE EngineInv
<1>1. rules = <<>> /\ added = 0 /\ judged = <<>>
  BY DEF EngineInit
<1>2. rules \in Seq(Entry) /\ added \in Nat /\ Len(rules) = 0
  BY <1>1
<1>3. RulesJudgeEvents
  BY <1>1 DEF RulesJudgeEvents
<1>. QED BY <1>2, <1>3 DEF EngineInv, InOrder

\* What is said of the last evaluation, of any.
Judges(evaluations) ==
  evaluations # <<>> =>
    LET event == evaluations[1].event
        results == evaluations[1].results
        asked == Enabled(evaluations[1].entries)
    IN  /\ \A i \in 1 .. Len(asked) - 1 :
             LET a == asked[i]  b == asked[i + 1] IN
             \/ a.rule.priority > b.rule.priority
             \/ a.rule.priority = b.rule.priority /\ a.turn < b.turn
        /\ Len(results) = Len(asked)
        /\ \A i \in DOMAIN results :
             LET rule == asked[i].rule IN
             /\ Describable(rule, event) => results[i].matched = Described(rule, event)
             /\ \A n \in DOMAIN rule.actions :
                  rule.actions[n] # "webhook" /\ results[i].matched =>
                    rule.actions[n] \in {results[i].executed[k] : k \in DOMAIN results[i].executed}

LEMMA JudgesNow == RulesJudgeEvents <=> Judges(judged)
BY DEF RulesJudgeEvents, Judges

LEMMA JudgesNext == RulesJudgeEvents' <=> Judges(judged')
BY DEF RulesJudgeEvents, Judges

LEMMA JudgedStays ==
  ASSUME RulesJudgeEvents, judged' = judged PROVE RulesJudgeEvents'
BY JudgesNow, JudgesNext

LEMMA OneWord ==
  ASSUME NEW x
  PROVE  <<x>> \in Seq(Range(<<x>>))
<1>1. <<x>> \in Seq({x}) /\ Range(<<x>>) = {x}
  BY DEF Range
<1>. QED BY <1>1

LEMMA TwoWords ==
  ASSUME NEW x, NEW y
  PROVE  <<x, y>> \in Seq(Range(<<x, y>>))
<1>1. <<x, y>> \in Seq({x, y}) /\ Range(<<x, y>>) = {x, y}
  BY DEF Range
<1>. QED BY <1>1

LEMMA PrioritiesAreNumbers ==
  ASSUME NEW rule \in RuleChoices \union PredefinedRules
  PROVE  rule.priority \in Int /\ rule.actions \in Seq(Range(rule.actions))
<1>1. CASE rule \in RuleChoices
  BY <1>1, RuleEngineAssumption
<1>2. CASE rule = QualityCheckFailure
  <2>1. rule.priority = 100 /\ rule.actions = <<"alert">>
    BY <1>2 DEF QualityCheckFailure
  <2>2. <<"alert">> \in Seq(Range(<<"alert">>))
    BY OneWord
  <2>. QED BY <2>1, <2>2
<1>3. CASE rule = ShipmentDelay
  <2>1. rule.priority = 80 /\ rule.actions = <<"alert", "tag">>
    BY <1>3 DEF ShipmentDelay
  <2>2. <<"alert", "tag">> \in Seq(Range(<<"alert", "tag">>))
    BY TwoWords
  <2>. QED BY <2>1, <2>2
<1>4. CASE rule = TemperatureExcursion
  <2>1. rule.priority = 95 /\ rule.actions = <<"alert">>
    BY <1>4 DEF TemperatureExcursion
  <2>2. <<"alert">> \in Seq(Range(<<"alert">>))
    BY OneWord
  <2>. QED BY <2>1, <2>2
<1>. QED BY <1>1, <1>2, <1>3, <1>4 DEF PredefinedRules

LEMMA RuleAdded ==
  ASSUME EngineInv, NEW rule \in RuleChoices \union PredefinedRules, AddRule(rule)
  PROVE  EngineInv'
<1>1. PICK n \in Nat : n = Len(rules) /\ DOMAIN rules = 1 .. n
  BY DEF EngineInv
<1>2. added \in Nat /\ added' = added + 1 /\ added' \in Nat /\ judged' = judged
  BY DEF EngineInv, AddRule
<1>3. PICK e \in Entry : e = [rule |-> rule, turn |-> added + 1]
  BY <1>2 DEF Entry
<1> DEFINE D == {i \in 1 .. n : rules[i].rule.priority >= rule.priority}
<1>4. \A i \in 1 .. n : rules[i] \in Entry
  BY <1>1 DEF EngineInv
<1>5. \A i \in 1 .. n : rules[i].rule.priority \in Int /\ rules[i].turn \in Nat /\ rules[i].turn <= added
  BY <1>1, <1>4, PrioritiesAreNumbers DEF Entry, EngineInv
<1>6. rule.priority \in Int
  BY PrioritiesAreNumbers
<1>7. \A i, j \in 1 .. n : i < j => rules[i].rule.priority >= rules[j].rule.priority
  <2>1. ASSUME NEW i \in 1 .. n, NEW j \in 1 .. n, i < j PROVE rules[i].rule.priority >= rules[j].rule.priority
    <3>1. <<rules[i], rules[j]>> \in Earlier
      BY <2>1, <1>1 DEF EngineInv, InOrder
    <3>2. rules[i].rule.priority > rules[j].rule.priority \/ rules[i].rule.priority = rules[j].rule.priority
      BY <3>1 DEF Earlier
    <3>. QED BY <3>2, <1>5, <2>1
  <2>. QED BY <2>1
<1>8. D \in SUBSET (1 .. n) /\ \A j \in D : 1 .. j \subseteq D
  <2>1. ASSUME NEW j \in D, NEW i \in 1 .. j PROVE i \in D
    <3>1. i \in 1 .. n /\ j \in 1 .. n /\ rules[j].rule.priority >= rule.priority
      OBVIOUS
    <3>2. i < j \/ i = j
      BY <3>1
    <3>3. rules[i].rule.priority >= rules[j].rule.priority
      BY <3>1, <3>2, <1>5, <1>7
    <3>4. rules[i].rule.priority >= rule.priority
      BY <3>1, <3>3, <1>5, <1>6
    <3>. QED BY <3>1, <3>4
  <2>. QED BY <2>1
<1>9. PICK b \in 0 .. n : b = Cardinality(D) /\ D = 1 .. b
  <2> HIDE DEF D
  <2>1. Cardinality(D) \in 0 .. n /\ D = 1 .. Cardinality(D)
    BY <1>8, FirstOnes
  <2>. QED BY <2>1
<1>10. rules' = InsertAt(rules, b + 1, e)
  BY <1>1, <1>2, <1>3, <1>9 DEF AddRule
<1>11. \A i \in 1 .. b : <<rules[i], e>> \in Earlier
  <2>1. ASSUME NEW i \in 1 .. b PROVE <<rules[i], e>> \in Earlier
    <3>1. i \in 1 .. n /\ rules[i].rule.priority >= rule.priority
      BY <2>1, <1>9
    <3>2. e.rule.priority = rule.priority /\ e.turn = added + 1
      BY <1>3
    <3>3. \/ rules[i].rule.priority > e.rule.priority
          \/ rules[i].rule.priority = e.rule.priority /\ rules[i].turn < e.turn
      BY <3>1, <3>2, <1>2, <1>5, <1>6
    <3>. QED BY <3>1, <3>3, <1>4 DEF Earlier
  <2>. QED BY <2>1
<1>12. \A i \in b + 1 .. n : <<e, rules[i]>> \in Earlier
  <2>1. ASSUME NEW i \in b + 1 .. n PROVE <<e, rules[i]>> \in Earlier
    <3>1. i \in 1 .. n /\ i \notin 1 .. b
      OBVIOUS
    <3>2. ~(rules[i].rule.priority >= rule.priority)
      BY <3>1, <1>9
    <3>3. e.rule.priority > rules[i].rule.priority
      BY <3>1, <3>2, <1>3, <1>5, <1>6
    <3>. QED BY <3>1, <3>3, <1>4 DEF Earlier
  <2>. QED BY <2>1
<1>13. rules \in Seq(Entry) /\ InOrder(rules, Earlier)
  BY DEF EngineInv
<1>14. InOrder(InsertAt(rules, b + 1, e), Earlier)
  BY <1>1, <1>11, <1>12, <1>13, InsertedInOrder
<1>15. PICK t \in Seq(Entry) : /\ t = rules' /\ Len(t) = n + 1 /\ t[b + 1] = e
                               /\ \A i \in 1 .. b : t[i] = rules[i]
                               /\ \A i \in b + 1 .. n : t[i + 1] = rules[i]
  <2>1. InsertAt(rules, b + 1, e) \in Seq(Entry) /\ Len(InsertAt(rules, b + 1, e)) = n + 1
    BY <1>1, <1>13, Inserted
  <2>2. InsertAt(rules, b + 1, e)[b + 1] = e
    BY <1>1, <1>13, Inserted
  <2>3. \A i \in 1 .. b : InsertAt(rules, b + 1, e)[i] = rules[i]
    BY <1>1, <1>13, Inserted
  <2>4. \A i \in b + 1 .. n : InsertAt(rules, b + 1, e)[i + 1] = rules[i]
    BY <1>1, <1>13, Inserted
  <2>. QED BY <2>1, <2>2, <2>3, <2>4, <1>10, Zenon
<1>16. \A i \in 1 .. n + 1 : t[i].turn <= added + 1
  <2>1. ASSUME NEW i \in 1 .. n + 1 PROVE t[i].turn <= added + 1
    <3>1. CASE i \in 1 .. b
      <4>1. i \in 1 .. n
        BY <3>1
      <4>. QED BY <4>1, <3>1, <1>2, <1>5, <1>15
    <3>2. CASE i = b + 1
      BY <3>2, <1>2, <1>3, <1>15
    <3>3. CASE i \notin 1 .. b /\ i # b + 1
      <4>1. PICK j \in b + 1 .. n : i = j + 1
        <5>1. i - 1 \in b + 1 .. n /\ i = (i - 1) + 1
          BY <3>3
        <5>. QED BY <5>1
      <4>2. j \in 1 .. n
        OBVIOUS
      <4>3. rules[j].turn \in Nat /\ rules[j].turn <= added
        BY <4>2, <1>5
      <4>4. t[i] = rules[j]
        BY <4>1, <1>15
      <4>. QED BY <4>3, <4>4, <1>2
    <3>. QED BY <3>1, <3>2, <3>3
  <2>. QED BY <2>1
<1>17. RulesJudgeEvents'
  BY <1>2, JudgedStays DEF EngineInv
<1>18. InOrder(rules', Earlier)
  BY <1>10, <1>14
<1>19. (InOrder(rules, Earlier))'
  BY <1>18 DEF InOrder, Earlier, Entry
<1>20. rules' \in Seq(Entry) /\ Len(rules') = n + 1 /\ \A i \in 1 .. Len(rules') : rules'[i].turn <= added'
  BY <1>2, <1>15, <1>16
<1>. QED BY <1>2, <1>17, <1>19, <1>20 DEF EngineInv, Entry

LEMMA RuleRemoved ==
  ASSUME EngineInv, NEW id, RemoveRule(id) PROVE EngineInv'
<1>1. PICK n \in Nat : n = Len(rules) /\ DOMAIN rules = 1 .. n
  BY DEF EngineInv
<1>2. PICK r \in 1 .. n : rules' = RemoveAt(rules, r)
  BY <1>1 DEF RemoveRule
<1>3. added' = added /\ judged' = judged
  BY DEF RemoveRule
<1>4. rules \in Seq(Entry) /\ InOrder(rules, Earlier) /\ \A i \in 1 .. n : rules[i].turn <= added
  BY <1>1 DEF EngineInv
<1>5. InOrder(RemoveAt(rules, r), Earlier)
  BY <1>1, <1>4, RemovedInOrder
<1>6. PICK t \in Seq(Entry) : /\ t = rules' /\ Len(t) = n - 1
                              /\ \A i \in 1 .. r - 1 : t[i] = rules[i]
                              /\ \A i \in r .. n - 1 : t[i] = rules[i + 1]
  <2>1. RemoveAt(rules, r) \in Seq(Entry) /\ Len(RemoveAt(rules, r)) = n - 1
    BY <1>1, <1>4, Removed
  <2>2. \A i \in 1 .. r - 1 : RemoveAt(rules, r)[i] = rules[i]
    BY <1>1, <1>4, Removed
  <2>3. \A i \in r .. n - 1 : RemoveAt(rules, r)[i] = rules[i + 1]
    BY <1>1, <1>4, Removed
  <2>. QED BY <2>1, <2>2, <2>3, <1>2, Zenon
<1>7. \A i \in 1 .. n - 1 : t[i].turn <= added
  <2>1. ASSUME NEW i \in 1 .. n - 1 PROVE t[i].turn <= added
    <3>1. CASE i \in 1 .. r - 1
      <4>1. i \in 1 .. n
        OBVIOUS
      <4>. QED BY <4>1, <3>1, <1>4, <1>6
    <3>2. CASE i \notin 1 .. r - 1
      <4>1. i \in r .. n - 1 /\ i + 1 \in 1 .. n
        BY <3>2
      <4>. QED BY <4>1, <1>4, <1>6
    <3>. QED BY <3>1, <3>2
  <2>. QED BY <2>1
<1>8. RulesJudgeEvents'
  BY <1>3, JudgedStays DEF EngineInv
<1>9. (InOrder(rules, Earlier))'
  <2>1. InOrder(rules', Earlier)
    BY <1>2, <1>5
  <2>. QED BY <2>1 DEF InOrder, Earlier, Entry
<1>10. rules' \in Seq(Entry) /\ \A i \in 1 .. Len(rules') : rules'[i].turn <= added'
  BY <1>3, <1>6, <1>7
<1>11. added' \in Nat
  BY <1>3 DEF EngineInv
<1>. QED BY <1>8, <1>9, <1>10, <1>11 DEF EngineInv, Entry

\* What an action that is carried out is found in.
LEMMA Executed ==
  ASSUME NEW rule \in RuleChoices \union PredefinedRules, NEW failing, NEW n \in DOMAIN rule.actions,
         rule.actions[n] # "webhook"
  PROVE  rule.actions[n] \in {ExecuteActions(rule, failing)[k] : k \in DOMAIN ExecuteActions(rule, failing)}
<1>1. PICK s \in Seq(Range(rule.actions)) : s = rule.actions
  BY PrioritiesAreNumbers
<1> DEFINE T == {a \in Range(s) : ~(failing /\ a = "webhook" /\ a \in handlers)}
           d == s[n]
<1>2. ExecuteActions(rule, failing) = Kept(s, T)
  BY <1>1 DEF ExecuteActions
<1>3. n \in 1 .. Len(s) /\ d # "webhook"
  BY <1>1
<1>4. d \in Range(s)
  BY <1>3 DEF Range
<1>5. Occurs(d, s) /\ d \in T
  <2>1. Occurs(d, s)
    BY <1>3, Zenon DEF Occurs
  <2>. QED BY <2>1, <1>3, <1>4
<1>6. PICK k \in Seq(Range(rule.actions)) : k = Kept(s, T)
  BY KeptType
<1>7. Occurs(d, k)
  <2> HIDE DEF T, d
  <2>. QED BY <1>5, <1>6, KeptMembers
<1>8. \E i \in DOMAIN k : k[i] = d
  BY <1>7 DEF Occurs
<1>. QED BY <1>1, <1>2, <1>6, <1>8

LEMMA EitherHolds ==
  ASSUME NEW event, NEW rule, Describable(rule, event)
  PROVE  EvaluateConditionGroup(rule, event) \in BOOLEAN /\ Described(rule, event) \in BOOLEAN
<1>1. EvaluateConditionGroup(rule, event) \in BOOLEAN
  BY Zenon DEF EvaluateConditionGroup
<1>2. CASE rule = QualityCheckFailure
  <2>1. Described(rule, event) = (event.event_type = Str("QUALITY_CHECK") /\ ~event.passed[2])
    BY <1>2 DEF Described, QualityCheckFailure, ShipmentDelay, TemperatureExcursion
  <2>. QED BY <1>1, <2>1
<1>3. CASE rule = ShipmentDelay
  <2>1. Described(rule, event) = (event.event_type = Str("SHIP") /\ event.delayed[2])
    BY <1>3 DEF Described, QualityCheckFailure, ShipmentDelay, TemperatureExcursion
  <2>. QED BY <1>1, <2>1
<1>4. CASE rule = TemperatureExcursion
  <2>1. Described(rule, event)
          = (FieldValue(event, "temperature")[1] = "number" /\ event.temperature[2] \notin 2 .. 25)
    BY <1>4 DEF Described, QualityCheckFailure, ShipmentDelay, TemperatureExcursion
  <2>. QED BY <1>1, <2>1
<1>. QED BY <1>2, <1>3, <1>4 DEF Describable

LEMMA EventEvaluated ==
  ASSUME EngineInv, NEW event \in Events, Evaluate(event) PROVE EngineInv'
<1>1. PICK failing \in [DOMAIN Enabled(rules) -> BOOLEAN] :
        judged' = <<[event |-> event, entries |-> rules, results |-> Results(event, failing)]>>
  BY DEF Evaluate
<1>2. rules' = rules /\ added' = added /\ rules \in Seq(Entry) /\ InOrder(rules, Earlier)
  BY DEF Evaluate, EngineInv
<1>3. PICK asked \in Seq(Entry) : asked = Enabled(rules) /\ InOrder(asked, Earlier)
  <2>1. Enabled(rules) \in Seq(Entry) /\ InOrder(Enabled(rules), Earlier)
    BY <1>2, KeptType, KeptInOrder DEF Enabled
  <2>. QED BY <2>1
<1>4. PICK n \in Nat : n = Len(asked) /\ DOMAIN asked = 1 .. n
  OBVIOUS
<1> DEFINE results == [i \in 1 .. n |-> Result(asked[i].rule, event, failing[i])]
<1>5. judged' = <<[event |-> event, entries |-> rules, results |-> results]>>
  BY <1>1, <1>3, <1>4 DEF Results
<1>6. Len(results) = n /\ DOMAIN results = 1 .. n
  <2>1. results \in [1 .. n -> {results[i] : i \in 1 .. n}]
    OBVIOUS
  <2>2. results \in Seq({results[i] : i \in 1 .. n})
    BY <2>1, <1>4
  <2>. QED BY <2>2
<1>7. \A i \in 1 .. n - 1 : \/ asked[i].rule.priority > asked[i + 1].rule.priority
                            \/ /\ asked[i].rule.priority = asked[i + 1].rule.priority
                               /\ asked[i].turn < asked[i + 1].turn
  <2>1. ASSUME NEW i \in 1 .. n - 1 PROVE <<asked[i], asked[i + 1]>> \in Earlier
    <3>1. i \in 1 .. n /\ i + 1 \in 1 .. n /\ i < i + 1
      OBVIOUS
    <3>. QED BY <3>1, <1>3, <1>4 DEF InOrder
  <2>. QED BY <2>1 DEF Earlier
<1>8. ASSUME NEW i \in 1 .. n
      PROVE  LET rule == asked[i].rule IN
             /\ Describable(rule, event) => results[i].matched = Described(rule, event)
             /\ \A k \in DOMAIN rule.actions :
                  rule.actions[k] # "webhook" /\ results[i].matched =>
                    rule.actions[k] \in {results[i].executed[m] : m \in DOMAIN results[i].executed}
  <2>1. PICK rule \in RuleChoices \union PredefinedRules : rule = asked[i].rule
    <3>1. asked[i] \in Entry
      BY <1>4
    <3>. QED BY <3>1 DEF Entry
  <2>2. /\ results[i].matched = EvaluateConditionGroup(rule, event)
        /\ results[i].executed = IF EvaluateConditionGroup(rule, event) THEN ExecuteActions(rule, failing[i]) ELSE <<>>
    BY <2>1 DEF Result
  <2> HIDE DEF results
  <2>3. Describable(rule, event) => (EvaluateConditionGroup(rule, event) <=> Described(rule, event))
    BY DescribedRight
  <2>4. Describable(rule, event) => results[i].matched = Described(rule, event)
    <3>1. ASSUME Describable(rule, event) PROVE EvaluateConditionGroup(rule, event) = Described(rule, event)
      BY <2>3, <3>1, EitherHolds
    <3>. QED BY <3>1, <2>2
  <2>5. ASSUME NEW k \in DOMAIN rule.actions, rule.actions[k] # "webhook", results[i].matched
        PROVE  rule.actions[k] \in {results[i].executed[m] : m \in DOMAIN results[i].executed}
    <3>1. results[i].executed = ExecuteActions(rule, failing[i])
      BY <2>2, <2>5
    <3>2. rule.actions[k] \in {ExecuteActions(rule, failing[i])[m] : m \in DOMAIN ExecuteActions(rule, failing[i])}
      BY <2>5, Executed
    <3>. QED BY <3>1, <3>2, Zenon
  <2>. QED BY <2>1, <2>4, <2>5, Zenon
<1> DEFINE last == judged'[1]
<1>9. last.event = event /\ last.results = results /\ Enabled(last.entries) = asked
  <2> HIDE DEF results
  <2>1. last = [event |-> event, entries |-> rules, results |-> results]
    BY <1>5
  <2>2. last.event = event /\ last.results = results /\ last.entries = rules
    BY <2>1
  <2>. QED BY <2>2, <1>3
<1>10. RulesJudgeEvents'
  <2> HIDE DEF results, last
  <2>1. judged'[1].event = event /\ judged'[1].results = results /\ Enabled(judged'[1].entries) = asked
    BY <1>9 DEF last
  <2>2. Len(results) = Len(asked)
    BY <1>4, <1>6
  <2>3. \A i \in 1 .. Len(asked) - 1 :
          \/ asked[i].rule.priority > asked[i + 1].rule.priority
          \/ asked[i].rule.priority = asked[i + 1].rule.priority /\ asked[i].turn < asked[i + 1].turn
    BY <1>4, <1>7
  <2>4. \A i \in DOMAIN results :
          /\ Describable(asked[i].rule, event) => results[i].matched = Described(asked[i].rule, event)
          /\ \A k \in DOMAIN asked[i].rule.actions :
               asked[i].rule.actions[k] # "webhook" /\ results[i].matched =>
                 asked[i].rule.actions[k] \in {results[i].executed[m] : m \in DOMAIN results[i].executed}
    BY <1>6, <1>8, ZenonT(30)
  <2>5. Judges(judged')
    BY <2>1, <2>2, <2>3, <2>4 DEF Judges
  <2>. QED BY <2>5, JudgesNext
<1>11. (InOrder(rules, Earlier))'
  BY <1>2 DEF InOrder, Earlier, Entry
<1>12. rules' \in Seq(Entry) /\ added' \in Nat /\ \A i \in 1 .. Len(rules') : rules'[i].turn <= added'
  BY <1>2 DEF EngineInv
<1>. QED BY <1>10, <1>11, <1>12 DEF EngineInv, Entry

\* An evaluation judges by every rule that was enabled, in the order of their priorities, whatever was
\* added and removed before: what the rules are kept in is that order.
THEOREM EngineInvariant == EngineSpec => []EngineInv
<1>1. EngineInit => EngineInv
  BY EngineBegins
<1>2. EngineInv /\ [EngineNext]_engine_vars => EngineInv'
  <2> SUFFICES ASSUME EngineInv, [EngineNext]_engine_vars PROVE EngineInv'
    OBVIOUS
  <2>1. ASSUME NEW rule \in RuleChoices \union PredefinedRules, AddRule(rule) PROVE EngineInv'
    BY <2>1, RuleAdded
  <2>2. ASSUME NEW i \in DOMAIN rules, RemoveRule(rules[i].rule.id) PROVE EngineInv'
    BY <2>2, RuleRemoved
  <2>3. ASSUME rules' = rules, judged' = judged, added' = added PROVE EngineInv'
    <3>1. RulesJudgeEvents'
      BY <2>3, JudgedStays DEF EngineInv
    <3>2. (InOrder(rules, Earlier))'
      BY <2>3 DEF EngineInv, InOrder, Earlier, Entry
    <3>3. rules' \in Seq(Entry) /\ added' \in Nat /\ \A i \in 1 .. Len(rules') : rules'[i].turn <= added'
      BY <2>3 DEF EngineInv
    <3>. QED BY <3>1, <3>2, <3>3 DEF EngineInv, Entry
  <2>4. ASSUME NEW type, RegisterHandler(type) PROVE EngineInv'
    BY <2>3, <2>4 DEF RegisterHandler
  <2>5. ASSUME NEW event \in Events, Evaluate(event) PROVE EngineInv'
    BY <2>5, EventEvaluated
  <2>6. CASE UNCHANGED engine_vars
    BY <2>3, <2>6 DEF engine_vars
  <2>. QED BY <2>1, <2>2, <2>4, <2>5, <2>6 DEF EngineNext
<1>. QED BY <1>1, <1>2, PTL DEF EngineSpec

\* Every evaluation is by the enabled rules in their order, the predefined ones match what their
\* descriptions say, and what a rule asks for is done.
THEOREM RulesAreApplied == EngineSpec => []RulesJudgeEvents
<1>1. EngineInv => RulesJudgeEvents
  BY DEF EngineInv
<1>. QED BY <1>1, EngineInvariant, PTL

------------------------------------------------------------------------------
(***************************************************************************)
(* Monitoring.  Of the errors that are dropped from the recent ones none   *)
(* is of the last hour, now or later; what is recorded counts once; the    *)
(* percentiles are found by their ranks; one check at a time marks.        *)
(***************************************************************************)

ErrorEvent == [code : ErrorCode, at : Nat]
Alert == [about : {"rate", "pool", "redis"}, at : Nat]
Infra == [pool : PoolUsages \union {0}, redis : BOOLEAN]
Watch ==
  {Resting} \union [at : {"infra"}, rate : Nat] \union [at : {"look", "mark", "others"}, seen : Infra]

Since(x) == {e \in ErrorEvent : e.at > x}
After(x) == {t \in Nat : t > x}

\* From the last hour on, as many recent errors as there were.
FaultsHold ==
  /\ faults.counts \in [ErrorCode -> Nat] /\ faults.recent \in Seq(ErrorEvent) /\ struck \in Seq(Nat)
  /\ faults.rate = Len(faults.recent)
  /\ \A x \in Int : x >= clock - Hour => Len(Kept(faults.recent, Since(x))) = Len(Kept(struck, After(x)))
  /\ Counted(faults.counts) = Len(struck)

Ranks(bound, q, s) ==
  /\ 100 * Cardinality({i \in 1 .. Len(s) : s[i] <= bound}) >= q * Len(s)
  /\ 100 * Cardinality({i \in 1 .. Len(s) : s[i] < bound}) <= q * Len(s)

LatencyHolds ==
  LET n == Len(latency.times)
  IN  /\ latency.times \in Seq(ResponseTimes) /\ served \in Seq(ResponseTimes)
      /\ n = IF Len(served) < ResponseCap THEN Len(served) ELSE ResponseCap
      /\ \A i \in 1 .. n : latency.times[i] = served[Len(served) - n + i]
      /\ n > 0 => \A q \in Percentiles : Ranks(latency.at[q], q, latency.times)

\* Alerts a cooldown apart.
Apart == {pair \in Alert \X Alert : pair[2].at - pair[1].at >= Cooldown}

AlertsHold ==
  /\ infra \in Infra /\ watching \in [Watcher -> Watch] /\ alertLog \in Seq(Alert)
  /\ checksMet \in BOOLEAN
  /\ lastAlert \in Nat \union {NeverAlerted} /\ (lastAlert \in Nat => lastAlert <= clock)
  /\ \A d \in Alert : Occurs(d, RateAlerts) => lastAlert \in Nat /\ d.at <= lastAlert
  /\ ~checksMet =>
       /\ InOrder(RateAlerts, Apart)
       /\ \A v, w \in Watcher : watching[v].at = "mark" /\ watching[w].at = "mark" => v = w
       /\ \A w \in Watcher : watching[w].at = "mark" => Cooled(lastAlert)

MonitorInv == clock \in Nat /\ FaultsHold /\ LatencyHolds /\ AlertsHold

LEMMA CountedIs ==
  ASSUME NEW f, NEW g, SumsOf(g, f, ErrorCode) PROVE Counted(f) = g[ErrorCode]
<1>1. IsFiniteSet(ErrorCode) /\ \A n \in ErrorCode : f[n] \in Int
  BY DEF SumsOf
<1> DEFINE Is(k) == k = [s \in SUBSET ErrorCode |-> IF s = {} THEN 0
                           ELSE f[CHOOSE y \in s : TRUE] + k[s \ {CHOOSE y \in s : TRUE}]]
           k == CHOOSE k : Is(k)
<1>2. ASSUME NEW j PROVE Adds(j, f, ErrorCode) <=> Is(j)
  BY Zenon DEF Adds
<1>3. \E j : Is(j)
  <2> HIDE DEF Is
  <2>. QED BY <1>2 DEF SumsOf
<1>4. Adds(k, f, ErrorCode)
  <2> HIDE DEF Is
  <2>. QED BY <1>2, <1>3
<1>5. Counted(f) = k[ErrorCode]
  BY DEF Counted, MapThenSumSet, MapThenFoldSet
<1> HIDE DEF Is, k
<1>6. ErrorCode \in SUBSET ErrorCode
  OBVIOUS
<1>7. k[ErrorCode] = g[ErrorCode]
  <2>1. PICK sums : sums = k
    OBVIOUS
  <2>2. Adds(sums, f, ErrorCode)
    BY <1>4, <2>1
  <2>3. sums[ErrorCode] = g[ErrorCode]
    BY <1>6, <2>2, SameSums
  <2>. QED BY <2>1, <2>3
<1>. QED BY <1>5, <1>7

LEMMA CountedOnce ==
  ASSUME NEW f \in [ErrorCode -> Nat], NEW c \in ErrorCode
  PROVE  Counted(f) \in Nat /\ Counted([f EXCEPT ![c] = @ + 1]) = Counted(f) + 1
<1>1. PICK h \in [ErrorCode -> Nat] : h = [f EXCEPT ![c] = @ + 1]
  <2>1. [f EXCEPT ![c] = @ + 1] \in [ErrorCode -> Nat]
    OBVIOUS
  <2>. QED BY <2>1
<1>2. h[c] = f[c] + 1 /\ \A x \in ErrorCode \ {c} : h[x] = f[x]
  BY <1>1
<1>3. PICK g : SumsOf(g, f, ErrorCode)
  BY SumsExist, MonitoringAssumption
<1>4. PICK k : SumsOf(k, h, ErrorCode)
  BY SumsExist, MonitoringAssumption
<1> DEFINE R == ErrorCode \ {c}
<1>5. IsFiniteSet(R) /\ R \in SUBSET ErrorCode /\ R \in SUBSET R
  BY MonitoringAssumption, FS_Subset
<1>6. g[ErrorCode] = f[c] + g[R] /\ k[ErrorCode] = h[c] + k[R]
  <2>1. ErrorCode \in SUBSET ErrorCode
    OBVIOUS
  <2>2. g[ErrorCode] = f[c] + g[R]
    BY <1>3, <2>1, AnyElement
  <2>3. k[ErrorCode] = h[c] + k[R]
    BY <1>4, <2>1, AnyElement
  <2>. QED BY <2>2, <2>3
<1> HIDE DEF R
<1>7. k[R] = g[R]
  <2>1. Prolongs(h, R, f, ErrorCode)
    BY <1>2, <1>5 DEF Prolongs, R
  <2>2. PICK a : SumsOf(a, h, R) /\ SameOn(a, g, R)
    BY <1>3, <2>1, SumsStay
  <2>3. Adds(a, h, R)
    BY <2>2 DEF SumsOf
  <2>4. a[R] = k[R]
    BY <1>4, <1>5, <2>3, SameSums
  <2>5. a[R] = g[R]
    BY <1>5, <2>2 DEF SameOn
  <2>. QED BY <2>4, <2>5
<1>8. g[ErrorCode] \in Nat /\ k[ErrorCode] \in Nat
  BY <1>3, <1>4, SumsOfNaturals
<1>9. g[R] \in Int /\ f[c] \in Nat
  BY <1>3, <1>5 DEF SumsOf
<1>10. Counted(f) = g[ErrorCode] /\ Counted(h) = k[ErrorCode]
  BY <1>3, <1>4, CountedIs
<1>. QED BY <1>1, <1>2, <1>6, <1>7, <1>8, <1>9, <1>10

LEMMA NoneCounted == Counted([c \in ErrorCode |-> 0]) = 0
<1> DEFINE f == [c \in ErrorCode |-> 0]
<1>1. PICK g : SumsOf(g, f, ErrorCode)
  BY SumsExist, MonitoringAssumption
<1> DEFINE P == {U \in SUBSET ErrorCode : g[U] = 0}
<1>2. {} \in P
  <2>1. g[{}] = 0
    BY <1>1 DEF SumsOf, Adds
  <2>. QED BY <2>1
<1>3. ASSUME NEW U \in SUBSET ErrorCode, \A x \in U : U \ {x} \in P PROVE U \in P
  <2>1. CASE U = {}
    BY <1>2, <2>1
  <2>2. CASE U # {}
    <3>1. PICK z \in U : TRUE
      BY <2>2
    <3>2. g[U] = f[z] + g[U \ {z}] /\ f[z] = 0 /\ g[U \ {z}] = 0
      <4>1. g[U] = f[z] + g[U \ {z}]
        <5> HIDE DEF f
        <5>. QED BY <1>1, AnyElement
      <4>. QED BY <1>3, <4>1
    <3>. QED BY <3>2
  <2>. QED BY <2>1, <2>2
<1>4. P = SUBSET ErrorCode
  <2> HIDE DEF P
  <2>1. P \in SUBSET SUBSET ErrorCode
    BY DEF P
  <2>. QED BY <1>2, <1>3, <2>1, MonitoringAssumption, ByElements
<1>5. g[ErrorCode] = 0
  BY <1>4
<1>6. Counted(f) = g[ErrorCode]
  <2> HIDE DEF f
  <2>. QED BY <1>1, CountedIs
<1>. QED BY <1>5, <1>6

\* A filter adds the last element to the count or not.
LEMMA OneMoreKept ==
  ASSUME NEW E, NEW s \in Seq(E), NEW e \in E, NEW T
  PROVE  /\ Len(Kept(s, T)) \in Nat
         /\ Len(Kept(Append(s, e), T)) = IF e \in T THEN Len(Kept(s, T)) + 1 ELSE Len(Kept(s, T))
<1>1. PICK k \in Seq(E) : k = Kept(s, T)
  BY KeptType
<1>2. Kept(Append(s, e), T) = IF e \in T THEN Append(k, e) ELSE k
  BY <1>1, KeptAppended
<1>3. Len(Append(k, e)) = Len(k) + 1 /\ Len(k) \in Nat
  OBVIOUS
<1>. QED BY <1>1, <1>2, <1>3

LEMMA KeptNoLonger ==
  ASSUME NEW E, NEW s \in Seq(E), NEW T PROVE Len(Kept(s, T)) <= Len(s)
<1>1. PICK n \in Nat : n = Len(s)
  OBVIOUS
<1>2. IsFiniteSet(1 .. n)
  BY FS_Interval
<1>3. Cardinality(1 .. n) = n
  BY FS_Interval
<1>4. {i \in 1 .. n : s[i] \in T} \subseteq 1 .. n
  OBVIOUS
<1>5. Cardinality({i \in 1 .. n : s[i] \in T}) <= n
  BY <1>2, <1>3, <1>4, FS_Subset
<1>6. Len(Kept(s, T)) = Cardinality({i \in 1 .. n : s[i] \in T})
  <2>1. Len(Kept(s, T)) = Cardinality({i \in 1 .. Len(s) : s[i] \in T})
    BY KeptCount
  <2>. QED BY <1>1, <2>1
<1>. QED BY <1>1, <1>5, <1>6

\* Two tests that agree on the list keep as many.
LEMMA AsManyKept ==
  ASSUME NEW E, NEW s \in Seq(E), NEW T, NEW U, \A i \in 1 .. Len(s) : s[i] \in T <=> s[i] \in U
  PROVE  Len(Kept(s, T)) = Len(Kept(s, U))
<1>1. {i \in 1 .. Len(s) : s[i] \in T} = {i \in 1 .. Len(s) : s[i] \in U}
  OBVIOUS
<1>2. Len(Kept(s, T)) = Cardinality({i \in 1 .. Len(s) : s[i] \in T})
  BY KeptCount
<1>3. Len(Kept(s, U)) = Cardinality({i \in 1 .. Len(s) : s[i] \in U})
  BY KeptCount
<1>. QED BY <1>1, <1>2, <1>3

\* What is older than the hour is not of any later one.
LEMMA HourKept ==
  ASSUME NEW s \in Seq(ErrorEvent), NEW x \in Int, NEW T, T = {e \in Range(s) : e.at > x}, NEW y \in Int, y >= x
  PROVE  Kept(s, T) \in Seq(ErrorEvent) /\ Len(Kept(Kept(s, T), Since(y))) = Len(Kept(s, Since(y)))
<1>1. Kept(s, T) \in Seq(ErrorEvent)
  BY KeptType
<1>2. Kept(Kept(s, T), Since(y)) = Kept(s, T \intersect Since(y))
  BY KeptTwice
<1>3. \A i \in 1 .. Len(s) : s[i] \in T \intersect Since(y) <=> s[i] \in Since(y)
  <2>1. ASSUME NEW i \in 1 .. Len(s), s[i] \in Since(y) PROVE s[i] \in T
    <3>1. s[i] \in Range(s)
      BY DEF Range
    <3>2. s[i].at \in Nat /\ s[i].at > y
      BY <2>1 DEF Since, ErrorEvent
    <3>. QED BY <3>1, <3>2
  <2>. QED BY <2>1
<1>4. Len(Kept(s, T \intersect Since(y))) = Len(Kept(s, Since(y)))
  BY <1>3, AsManyKept
<1>. QED BY <1>1, <1>2, <1>4

LEMMA FaultRecorded ==
  ASSUME MonitorInv, NEW code \in ErrorCode, RecordError(code) PROVE FaultsHold'
<1> DEFINE e == [code |-> code, at |-> clock]
           s == Append(faults.recent, e)
           T == {f \in Range(s) : f.at > clock - Hour}
           counts == [faults.counts EXCEPT ![code] = @ + 1]
<1>0. clock \in Nat /\ clock' = clock /\ clock - Hour \in Int
  BY MonitoringAssumption DEF MonitorInv, RecordError
<1>1. /\ faults.counts \in [ErrorCode -> Nat] /\ faults.recent \in Seq(ErrorEvent) /\ struck \in Seq(Nat)
      /\ Counted(faults.counts) = Len(struck)
  BY DEF MonitorInv, FaultsHold
<1>2. e \in ErrorEvent /\ s \in Seq(ErrorEvent)
  BY <1>0, <1>1 DEF ErrorEvent
<1>3. faults' = [counts |-> counts, recent |-> Kept(s, T), rate |-> Len(Kept(s, T))]
  BY DEF RecordError, WithinHour
<1>4. struck' = Append(struck, clock)
  BY DEF RecordError
<1>5. counts \in [ErrorCode -> Nat]
  BY <1>1
<1>6. Counted(counts) = Counted(faults.counts) + 1
  BY <1>1, CountedOnce
<1>7. Len(struck') = Len(struck) + 1 /\ struck' \in Seq(Nat)
  BY <1>0, <1>1, <1>4
<1> HIDE DEF e, s, T, counts
<1>8. Kept(s, T) \in Seq(ErrorEvent) /\ \A x \in Int : x >= clock - Hour =>
        Len(Kept(Kept(s, T), Since(x))) = Len(Kept(s, Since(x)))
  <2>1. PICK h \in Int : h = clock - Hour
    BY <1>0
  <2>2. T = {f \in Range(s) : f.at > h}
    BY <2>1 DEF T
  <2>3. ASSUME NEW x \in Int, x >= h
        PROVE  Kept(s, T) \in Seq(ErrorEvent) /\ Len(Kept(Kept(s, T), Since(x))) = Len(Kept(s, Since(x)))
    BY <1>2, <2>2, <2>3, HourKept
  <2>4. Kept(s, T) \in Seq(ErrorEvent)
    BY <1>2, KeptType
  <2>. QED BY <2>1, <2>3, <2>4
<1>9. ASSUME NEW x \in Int, x >= clock - Hour
      PROVE  Len(Kept(Kept(s, T), Since(x))) = Len(Kept(struck', After(x)))
  <2>1. Len(Kept(faults.recent, Since(x))) = Len(Kept(struck, After(x)))
    BY <1>9 DEF MonitorInv, FaultsHold
  <2>2. Len(Kept(s, Since(x))) = IF e \in Since(x) THEN Len(Kept(faults.recent, Since(x))) + 1
                                 ELSE Len(Kept(faults.recent, Since(x)))
    BY <1>1, <1>2, OneMoreKept DEF s
  <2>3. Len(Kept(Append(struck, clock), After(x))) =
          IF clock \in After(x) THEN Len(Kept(struck, After(x))) + 1 ELSE Len(Kept(struck, After(x)))
    BY <1>0, <1>1, OneMoreKept
  <2>4. e \in Since(x) <=> clock \in After(x)
    BY <1>0, <1>2 DEF e, Since, After
  <2>. QED BY <1>4, <1>8, <1>9, <2>1, <2>2, <2>3, <2>4
<1>10. /\ faults'.counts = counts /\ faults'.recent = Kept(s, T) /\ faults'.rate = Len(Kept(s, T))
  BY <1>3
<1>. QED BY <1>0, <1>1, <1>5, <1>6, <1>7, <1>8, <1>9, <1>10 DEF FaultsHold, Since, After, ErrorEvent

LEMMA NoFaultsHold == faults = NoErrors /\ struck = <<>> => FaultsHold
<1> SUFFICES ASSUME faults = NoErrors, struck = <<>> PROVE FaultsHold
  OBVIOUS
<1>1. faults.counts = [c \in ErrorCode |-> 0] /\ faults.recent = <<>> /\ faults.rate = 0
  BY DEF NoErrors
<1>2. Len(<<>>) = 0 /\ <<>> \in Seq(ErrorEvent) /\ <<>> \in Seq(Nat)
  OBVIOUS
<1>3. \A x \in Int : Kept(<<>>, Since(x)) = <<>> /\ Kept(<<>>, After(x)) = <<>>
  BY KeptOfNone
<1>4. [c \in ErrorCode |-> 0] \in [ErrorCode -> Nat]
  OBVIOUS
<1>5. Counted([c \in ErrorCode |-> 0]) = 0
  BY NoneCounted
<1>6. faults.counts \in [ErrorCode -> Nat] /\ Counted(faults.counts) = Len(struck)
  BY <1>1, <1>2, <1>4, <1>5
<1>7. \A x \in Int : Len(Kept(faults.recent, Since(x))) = Len(Kept(struck, After(x)))
  BY <1>1, <1>3
<1>. QED BY <1>1, <1>2, <1>6, <1>7 DEF FaultsHold

LEMMA FaultsReset ==
  ASSUME faults' = NoErrors, struck' = <<>> PROVE FaultsHold'
<1>1. (faults = NoErrors /\ struck = <<>> => FaultsHold)'
  BY NoFaultsHold, PTL
<1>. QED BY <1>1

LEMMA EarlierHour ==
  ASSUME NEW a \in Nat, NEW b \in Nat, NEW h \in Nat, a >= b, NEW x \in Int, x >= a - h
  PROVE  x >= b - h
OBVIOUS

\* An hour that starts later asks for less.
LEMMA FaultsStay ==
  ASSUME MonitorInv, UNCHANGED <<faults, struck>>, clock' \in Nat, clock' >= clock PROVE FaultsHold'
<1>1. FaultsHold /\ clock \in Nat /\ Hour \in Nat
  BY MonitoringAssumption DEF MonitorInv
<1>2. ASSUME NEW x \in Int, x >= clock' - Hour PROVE x >= clock - Hour
  <2>1. clock \in Nat /\ clock' \in Nat /\ Hour \in Nat /\ clock' >= clock
    BY <1>1
  <2>. QED BY <1>2, <2>1, EarlierHour
<1>3. \A x \in Int : x >= clock' - Hour =>
        Len(Kept(faults'.recent, Since(x))) = Len(Kept(struck', After(x)))
  BY <1>1, <1>2 DEF FaultsHold
<1>. QED BY <1>1, <1>3 DEF FaultsHold, Since, After, ErrorEvent

LEMMA Exceeded ==
  ASSUME NEW s \in Seq(Nat) PROVE \E bound \in Nat : \A i \in 1 .. Len(s) : s[i] <= bound
<1> DEFINE S == {r \in Seq(Nat) : \E bound \in Nat : \A i \in 1 .. Len(r) : r[i] <= bound}
<1>1. <<>> \in S
  OBVIOUS
<1>2. ASSUME NEW r \in Seq(Nat), NEW e \in Nat, r \in S PROVE Append(r, e) \in S
  <2>1. PICK b \in Nat : \A i \in 1 .. Len(r) : r[i] <= b
    BY <1>2
  <2>2. PICK m \in Nat : m >= b /\ m >= e
    <3>1. b + e \in Nat /\ b + e >= b /\ b + e >= e
      OBVIOUS
    <3>. QED BY <3>1
  <2>3. \A i \in 1 .. Len(r) + 1 : Append(r, e)[i] <= m
    <3>1. ASSUME NEW i \in 1 .. Len(r) PROVE Append(r, e)[i] <= m
      <4>1. Append(r, e)[i] = r[i] /\ r[i] \in Nat /\ r[i] <= b
        BY <2>1
      <4>. QED BY <4>1, <2>2
    <3>2. Append(r, e)[Len(r) + 1] = e
      OBVIOUS
    <3>. QED BY <3>1, <3>2, <2>2
  <2>4. Len(Append(r, e)) = Len(r) + 1 /\ Append(r, e) \in Seq(Nat)
    OBVIOUS
  <2>. QED BY <2>2, <2>3, <2>4
<1>3. Seq(Nat) \subseteq S
  <2> HIDE DEF S
  <2>. QED BY <1>1, <1>2, ByAppending
<1>. QED BY <1>3

\* The percentile has its rank.
LEMMA PercentileRanks ==
  ASSUME NEW s \in Seq(ResponseTimes), NEW n \in Nat, n = Len(s), n > 0, NEW q \in Percentiles
  PROVE  Ranks(Percentile(q, s), q, s)
<1>a. q \in Nat /\ q <= 100
  BY MonitoringAssumption
<1>b. \A i \in 1 .. n : s[i] \in ResponseTimes
  OBVIOUS
<1>0. q \in Nat /\ q <= 100 /\ \A i \in 1 .. n : s[i] \in ResponseTimes /\ s[i] \in Nat
  BY <1>a, <1>b, MonitoringAssumption
<1>c. Cardinality(1 .. n) = n
  <2>1. Cardinality(1 .. n) = IF 1 > n THEN 0 ELSE n - 1 + 1
    BY FS_Interval
  <2>. QED BY <2>1
<1>d. s \in Seq(Nat)
  <2>1. s \in [1 .. n -> Nat]
    BY <1>0
  <2>. QED BY <2>1
<1> DEFINE UpTo(v) == {i \in 1 .. n : s[i] <= v}
           Under(v) == {i \in 1 .. n : s[i] < v}
<1>1. PICK p \in Nat : p = n * q /\ p <= 100 * n
  BY <1>0
<1>2. PICK d \in Nat : d = p \div 100 /\ 100 * d <= p /\ p < 100 * d + 100
  OBVIOUS
<1>3. PICK index \in Nat : index = (IF d < n THEN d ELSE n - 1)
  <2>1. (IF d < n THEN d ELSE n - 1) \in Nat
    OBVIOUS
  <2>. QED BY <2>1
<1>4. index < n /\ 100 * index <= p /\ p <= 100 * index + 100
  BY <1>1, <1>2, <1>3
<1>5. \A v \in Nat : /\ Cardinality(UpTo(v)) \in Nat /\ Cardinality(Under(v)) \in Nat
                     /\ IsFiniteSet(UpTo(v))
  <2>1. IsFiniteSet(1 .. n)
    BY FS_Interval
  <2>2. \A v \in Nat : IsFiniteSet(UpTo(v)) /\ IsFiniteSet(Under(v))
    BY <2>1, FS_Subset
  <2> HIDE DEF UpTo, Under
  <2>. QED BY <2>2, FS_CardinalityType
<1> DEFINE S == {v \in Nat : index < Cardinality(UpTo(v))}
<1>6. S # {}
  <2>2. PICK b \in Nat : \A i \in 1 .. n : s[i] <= b
    BY <1>d, Exceeded
  <2>3. UpTo(b) = 1 .. n
    BY <2>2
  <2>. QED BY <1>4, <1>c, <2>3
<1>7. PICK v \in S : \A u \in S : v <= u
  <2>1. S \in SUBSET Nat
    OBVIOUS
  <2> HIDE DEF S
  <2>. QED BY <1>6, <2>1, LeastNatural
<1>8. v \in Nat /\ index < Cardinality(UpTo(v))
  OBVIOUS
<1>9. Cardinality(Under(v)) <= index
  <2>1. CASE v = 0
    <3>1. Under(v) = {}
      BY <1>0, <2>1
    <3> HIDE DEF UpTo, Under
    <3>2. Cardinality(Under(v)) = 0
      BY <3>1, FS_EmptySet
    <3>. QED BY <3>2
  <2>2. CASE v # 0
    <3>1. PICK u \in Nat : v = u + 1
      <4>1. v - 1 \in Nat /\ v = (v - 1) + 1
        BY <1>8, <2>2
      <4>. QED BY <4>1
    <3>2. Under(v) = UpTo(u)
      BY <1>0, <3>1
    <3>3. u \notin S
      <4> HIDE DEF S
      <4>. QED BY <1>7, <3>1, <1>8
    <3>4. ~(index < Cardinality(UpTo(u)))
      BY <3>3
    <3> HIDE DEF UpTo, Under
    <3>. QED BY <3>2, <3>4, <1>5
  <2>. QED BY <2>1, <2>2
<1>10. v \in ResponseTimes
  <2>1. PICK i \in UpTo(v) : i \notin Under(v)
    <3>1. UpTo(v) # Under(v)
      <4> HIDE DEF UpTo, Under
      <4>. QED BY <1>5, <1>8, <1>9
    <3>. QED BY <3>1, <1>0, <1>8
  <2>2. s[i] = v
    BY <2>1, <1>0, <1>8
  <2>. QED BY <2>1, <2>2, <1>0
<1> DEFINE Right(t) == Cardinality(Under(t)) <= index /\ index < Cardinality(UpTo(t))
<1>11. Percentile(q, s) = CHOOSE t \in ResponseTimes : Right(t)
  BY <1>1, <1>2, <1>3 DEF Percentile
<1>12. Right(v)
  BY <1>8, <1>9
<1>13. PICK t \in ResponseTimes : t = Percentile(q, s) /\ Right(t)
  <2> HIDE DEF Right
  <2>. QED BY <1>10, <1>11, <1>12
<1>14. t \in Nat /\ Cardinality(UpTo(t)) \in Nat /\ Cardinality(Under(t)) \in Nat
  <2>1. t \in Nat
    BY MonitoringAssumption
  <2> HIDE DEF UpTo, Under
  <2>. QED BY <2>1, <1>5
<1>15. PICK a, b \in Nat : a = Cardinality(UpTo(t)) /\ b = Cardinality(Under(t))
  <2> HIDE DEF UpTo, Under
  <2>. QED BY <1>14
<1>16. 100 * a >= p /\ 100 * b <= p
  BY <1>4, <1>13, <1>15
<1>17. p = q * n
  BY <1>0, <1>1
<1>. QED BY <1>13, <1>15, <1>16, <1>17 DEF Ranks

LEMMA RequestRecorded ==
  ASSUME MonitorInv, NEW t \in ResponseTimes, RecordRequest(t) PROVE LatencyHolds'
<1>1. PICK s \in Seq(ResponseTimes) : s = latency.times
  BY DEF MonitorInv, LatencyHolds
<1>2. PICK r \in Seq(ResponseTimes) : r = served
  BY DEF MonitorInv, LatencyHolds
<1>3. PICK n \in Nat : n = Len(s)
  OBVIOUS
<1>4. PICK m \in Nat : m = Len(r)
  OBVIOUS
<1>5. PICK cap \in Nat : cap = ResponseCap /\ cap > 0
  BY MonitoringAssumption
<1>6. n = (IF m < cap THEN m ELSE cap) /\ \A i \in 1 .. n : s[i] = r[m - n + i]
  BY <1>1, <1>2, <1>3, <1>4, <1>5 DEF MonitorInv, LatencyHolds
<1>7. PICK u \in Seq(ResponseTimes) : /\ u = Append(s, t) /\ Len(u) = n + 1 /\ u[n + 1] = t
                                      /\ \A i \in 1 .. n : u[i] = s[i]
  <2>1. /\ Append(s, t) \in Seq(ResponseTimes) /\ Len(Append(s, t)) = n + 1 /\ Append(s, t)[n + 1] = t
        /\ \A i \in 1 .. n : Append(s, t)[i] = s[i]
    BY <1>3
  <2>. QED BY <2>1, Zenon
<1>8. PICK z \in Seq(ResponseTimes) : /\ z = served' /\ Len(z) = m + 1 /\ z[m + 1] = t
                                      /\ \A i \in 1 .. m : z[i] = r[i]
  <2>1. /\ Append(r, t) \in Seq(ResponseTimes) /\ Len(Append(r, t)) = m + 1 /\ Append(r, t)[m + 1] = t
        /\ \A i \in 1 .. m : Append(r, t)[i] = r[i]
    BY <1>4
  <2>2. served' = Append(r, t)
    BY <1>2 DEF RecordRequest
  <2>. QED BY <2>1, <2>2, Zenon
<1>9. PICK k \in Nat : k = IF m + 1 < cap THEN m + 1 ELSE cap
  BY <1>5
<1>10. k > 0 /\ n <= m /\ k <= m + 1
  BY <1>5, <1>6, <1>9
<1>11. \A i \in 1 .. n + 1 : u[i] = z[m - n + i]
  <2>1. ASSUME NEW i \in 1 .. n PROVE u[i] = z[m - n + i]
    <3>1. m - n + i \in 1 .. m
      BY <1>10
    <3>. QED BY <3>1, <1>6, <1>7, <1>8
  <2>2. u[n + 1] = z[m - n + (n + 1)]
    <3>1. m - n + (n + 1) = m + 1
      OBVIOUS
    <3>. QED BY <3>1, <1>7, <1>8
  <2>3. \A i \in 1 .. n + 1 : i \in 1 .. n \/ i = n + 1
    OBVIOUS
  <2>. QED BY <2>1, <2>2, <2>3
<1>12. PICK l \in Seq(ResponseTimes) : l = LastOf(u) /\ Len(l) = k /\ \A i \in 1 .. k : l[i] = z[(m + 1) - k + i]
  <2>1. CASE n + 1 > cap
    <3>1. n = cap /\ k = cap
      BY <2>1, <1>6, <1>9
    <3>2. LastOf(u) = SubSeq(u, 2, n + 1)
      <4>1. Len(u) - cap + 1 = 2
        BY <3>1, <1>7
      <4>. QED BY <4>1, <2>1, <1>5, <1>7 DEF LastOf
    <3>3. SubSeq(u, 2, n + 1) \in Seq(ResponseTimes) /\ Len(SubSeq(u, 2, n + 1)) = n
      BY <1>7
    <3>4. \A i \in 1 .. n : SubSeq(u, 2, n + 1)[i] = u[i + 1]
      BY <1>7
    <3>5. ASSUME NEW i \in 1 .. n PROVE u[i + 1] = z[(m + 1) - n + i]
      <4>1. i + 1 \in 1 .. n + 1 /\ m - n + (i + 1) = (m + 1) - n + i
        OBVIOUS
      <4>2. u[i + 1] = z[m - n + (i + 1)]
        BY <4>1, <1>11
      <4>. QED BY <4>1, <4>2
    <3>6. PICK v \in Seq(ResponseTimes) : v = LastOf(u) /\ Len(v) = n /\ \A i \in 1 .. n : v[i] = u[i + 1]
      BY <3>2, <3>3, <3>4, Zenon
    <3>7. \A i \in 1 .. n : v[i] = z[(m + 1) - n + i]
      BY <3>5, <3>6
    <3>8. k = n
      BY <3>1
    <3>. QED BY <3>6, <3>7, <3>8, Zenon
  <2>2. CASE ~(n + 1 > cap)
    <3>1. k = n + 1 /\ m = n /\ LastOf(u) = u
      BY <2>2, <1>5, <1>6, <1>7, <1>9 DEF LastOf
    <3>2. ASSUME NEW i \in 1 .. n + 1 PROVE u[i] = z[(m + 1) - k + i]
      <4>1. (m + 1) - k + i = m - n + i
        BY <3>1
      <4>. QED BY <4>1, <1>11
    <3>. QED BY <3>1, <3>2, <1>7
  <2>. QED BY <2>1, <2>2
<1>13. latency' = [count |-> latency.count + 1, times |-> l, at |-> [q \in Percentiles |-> Percentile(q, l)]]
  BY <1>1, <1>7, <1>12 DEF RecordRequest
<1>14. ASSUME NEW q \in Percentiles PROVE Ranks(latency'.at[q], q, l)
  <2>1. latency'.at[q] = Percentile(q, l)
    BY <1>13
  <2>2. Ranks(Percentile(q, l), q, l)
    BY <1>10, <1>12, PercentileRanks
  <2>. QED BY <2>1, <2>2
<1>15. latency'.times = l
  BY <1>13
<1>. QED BY <1>5, <1>8, <1>9, <1>12, <1>14, <1>15 DEF LatencyHolds, Ranks

LEMMA NoLatencyHolds == latency = NoLatency /\ served = <<>> => LatencyHolds
<1> SUFFICES ASSUME latency = NoLatency, served = <<>> PROVE LatencyHolds
  OBVIOUS
<1>1. latency.times = <<>>
  BY DEF NoLatency
<1>2. Len(<<>>) = 0 /\ <<>> \in Seq(ResponseTimes) /\ 0 < ResponseCap
  BY MonitoringAssumption
<1>. QED BY <1>1, <1>2 DEF LatencyHolds

LEMMA LatencyStays ==
  ASSUME LatencyHolds, UNCHANGED <<latency, served>> PROVE LatencyHolds'
BY DEF LatencyHolds, Ranks

RateOnes == {a \in Alert : a.about = "rate"}
OfRate(log) == Kept(log, RateOnes)

LEMMA RateAlertsAre ==
  ASSUME NEW log \in Seq(Alert)
  PROVE  Kept(log, {a \in Range(log) : a.about = "rate"}) = OfRate(log)
<1>1. log \in Seq(Range(log)) /\ \A a \in Range(log) : a \in Alert
  BY DEF Range
<1>2. \A e \in Range(log) : e \in {a \in Range(log) : a.about = "rate"} <=> e \in RateOnes
  BY <1>1 DEF RateOnes
<1>. QED BY <1>1, <1>2, KeptAlike DEF OfRate

LEMMA RateAppended ==
  ASSUME NEW log \in Seq(Alert), NEW e \in Alert
  PROVE  /\ OfRate(log) \in Seq(Alert)
         /\ OfRate(Append(log, e)) = IF e.about = "rate" THEN Append(OfRate(log), e) ELSE OfRate(log)
<1>1. e \in RateOnes <=> e.about = "rate"
  BY DEF RateOnes
<1>2. OfRate(log) \in Seq(Alert)
  BY KeptType DEF OfRate
<1>. QED BY <1>1, <1>2, KeptAppended DEF OfRate

\* What holds of the alerts, of a log of them.
Spaced(log, met, last, now) ==
  /\ \A d \in Alert : Occurs(d, OfRate(log)) => last \in Nat /\ d.at <= last
  /\ last \in Nat \union {NeverAlerted} /\ (last \in Nat => last <= now)
  /\ ~met => InOrder(OfRate(log), Apart)

OneMarks(now) ==
  /\ \A v, w \in Watcher : watching[v].at = "mark" /\ watching[w].at = "mark" => v = w
  /\ \A w \in Watcher : watching[w].at = "mark" => lastAlert = NeverAlerted \/ now - lastAlert >= Cooldown

LEMMA AlertsAre ==
  AlertsHold <=>
    /\ infra \in Infra /\ watching \in [Watcher -> Watch] /\ alertLog \in Seq(Alert)
    /\ checksMet \in BOOLEAN
    /\ Spaced(alertLog, checksMet, lastAlert, clock)
    /\ ~checksMet => OneMarks(clock)
<1>1. ASSUME alertLog \in Seq(Alert) PROVE RateAlerts = OfRate(alertLog)
  BY <1>1, RateAlertsAre DEF RateAlerts
<1>2. CASE alertLog \in Seq(Alert)
  BY <1>1, <1>2 DEF AlertsHold, Spaced, OneMarks, Cooled
<1>3. CASE alertLog \notin Seq(Alert)
  BY <1>3 DEF AlertsHold
<1>. QED BY <1>2, <1>3

LEMMA AlertsAreNext ==
  AlertsHold' <=>
    /\ infra' \in Infra /\ watching' \in [Watcher -> Watch] /\ alertLog' \in Seq(Alert)
    /\ checksMet' \in BOOLEAN
    /\ Spaced(alertLog', checksMet', lastAlert', clock')
    /\ ~checksMet' => OneMarks(clock)'
<1>1. (AlertsHold <=>
    /\ infra \in Infra /\ watching \in [Watcher -> Watch] /\ alertLog \in Seq(Alert)
    /\ checksMet \in BOOLEAN
    /\ Spaced(alertLog, checksMet, lastAlert, clock)
    /\ ~checksMet => OneMarks(clock))'
  BY AlertsAre, PTL
<1>. QED BY <1>1 DEF Spaced, OneMarks, Infra, Watch, Alert, Resting

\* A step that alerts of nothing moves one check on at most.
LEMMA WatcherMoves ==
  ASSUME MonitorInv, NEW w \in Watcher, NEW r \in Watch, watching' = [watching EXCEPT ![w] = r],
         UNCHANGED <<infra, lastAlert, alertLog, clock>>, checksMet' \in BOOLEAN, checksMet => checksMet',
         r.at = "mark" /\ ~checksMet' => Cooled(lastAlert) /\ \A v \in Watcher \ {w} : watching[v].at # "mark"
  PROVE  AlertsHold'
<1>1. /\ infra \in Infra /\ watching \in [Watcher -> Watch] /\ alertLog \in Seq(Alert)
      /\ Spaced(alertLog, checksMet, lastAlert, clock)
      /\ ~checksMet => OneMarks(clock)
  BY AlertsAre DEF MonitorInv
<1>2. watching' \in [Watcher -> Watch] /\ watching'[w] = r /\ \A v \in Watcher \ {w} : watching'[v] = watching[v]
  BY <1>1
<1>3. Spaced(alertLog, checksMet', lastAlert, clock)
  BY <1>1 DEF Spaced
<1>4. ASSUME ~checksMet' PROVE OneMarks(clock)'
  <2>1. ASSUME NEW v \in Watcher, watching'[v].at = "mark"
        PROVE  lastAlert = NeverAlerted \/ clock - lastAlert >= Cooldown
    <3>1. CASE v = w
      BY <1>2, <1>4, <2>1, <3>1 DEF Cooled
    <3>2. CASE v # w
      BY <1>1, <1>2, <1>4, <2>1, <3>2 DEF OneMarks
    <3>. QED BY <3>1, <3>2
  <2>2. ASSUME NEW v \in Watcher, NEW u \in Watcher, watching'[v].at = "mark", watching'[u].at = "mark"
        PROVE  v = u
    <3>1. CASE r.at = "mark"
      <4>1. \A x \in Watcher \ {w} : watching'[x].at # "mark"
        BY <1>2, <1>4, <3>1
      <4>. QED BY <2>2, <4>1
    <3>2. CASE r.at # "mark"
      <4>1. v # w /\ u # w
        BY <1>2, <2>2, <3>2
      <4>. QED BY <1>1, <1>2, <1>4, <2>2, <4>1 DEF OneMarks
    <3>. QED BY <3>1, <3>2
  <2>. QED BY <2>1, <2>2 DEF OneMarks
<1>. QED BY <1>1, <1>2, <1>3, <1>4, AlertsAreNext

LEMMA AlertsUnmoved ==
  ASSUME MonitorInv, UNCHANGED alerterVars, infra' \in Infra, clock' \in Nat, clock' >= clock
  PROVE  AlertsHold'
<1>1. /\ watching \in [Watcher -> Watch] /\ alertLog \in Seq(Alert) /\ checksMet \in BOOLEAN
      /\ Spaced(alertLog, checksMet, lastAlert, clock)
      /\ ~checksMet => OneMarks(clock)
  BY AlertsAre DEF MonitorInv
<1>2. clock \in Nat /\ Cooldown \in Nat /\ NeverAlerted \notin Nat /\ lastAlert \in Nat \union {NeverAlerted}
  BY <1>1, MonitoringAssumption DEF MonitorInv, Spaced
<1>3. watching' = watching /\ alertLog' = alertLog /\ checksMet' = checksMet /\ lastAlert' = lastAlert
  BY DEF alerterVars
<1>4. lastAlert \in Nat => lastAlert <= clock'
  <2>1. \A a, b, c \in Nat : a <= b /\ b <= c => a <= c
    OBVIOUS
  <2>. QED BY <1>1, <1>2, <2>1 DEF Spaced
<1>5. Spaced(alertLog, checksMet, lastAlert, clock')
  BY <1>1, <1>4 DEF Spaced
<1>6. lastAlert = NeverAlerted \/ clock - lastAlert >= Cooldown =>
        lastAlert = NeverAlerted \/ clock' - lastAlert >= Cooldown
  <2>1. \A a, b, c, d \in Nat : b - a >= d /\ c >= b => c - a >= d
    OBVIOUS
  <2>. QED BY <1>2, <2>1
<1>7. ~checksMet => OneMarks(clock)'
  BY <1>1, <1>3, <1>6 DEF OneMarks
<1>. QED BY <1>1, <1>3, <1>5, <1>7, AlertsAreNext

\* A check that marks is the only one, and its alert a cooldown after the last.
LEMMA Marked ==
  ASSUME MonitorInv, NEW w \in Watcher, Mark(w) PROVE AlertsHold'
<1>1. /\ infra \in Infra /\ watching \in [Watcher -> Watch] /\ alertLog \in Seq(Alert) /\ checksMet \in BOOLEAN
      /\ Spaced(alertLog, checksMet, lastAlert, clock)
      /\ ~checksMet => OneMarks(clock)
  BY AlertsAre DEF MonitorInv
<1> DEFINE e == [about |-> "rate", at |-> clock]
<1>2. e \in Alert /\ e.about = "rate" /\ e.at = clock /\ clock \in Nat
  BY DEF MonitorInv, Alert
<1>3. /\ alertLog' = Append(alertLog, e) /\ lastAlert' = clock /\ checksMet' = checksMet /\ infra' = infra
      /\ clock' = clock
  BY DEF Mark, monitorRest
<1> HIDE DEF e
<1>4. PICK s \in Seq(Alert) : s = OfRate(alertLog) /\ OfRate(alertLog') = Append(s, e)
  BY <1>1, <1>2, <1>3, RateAppended
<1>5. alertLog' \in Seq(Alert)
  BY <1>1, <1>2, <1>3
<1>6. \A d \in Alert : Occurs(d, s) => lastAlert \in Nat /\ d.at <= lastAlert /\ lastAlert <= clock
  BY <1>1, <1>4 DEF Spaced
<1>7. \A d \in Alert : Occurs(d, Append(s, e)) => d.at <= clock
  <2>1. ASSUME NEW d \in Alert, Occurs(d, Append(s, e)) PROVE d.at <= clock
    <3>1. Occurs(d, s) \/ d = e
      BY <1>2, <2>1, OccursAppended
    <3>2. CASE d = e
      BY <1>2, <3>2
    <3>3. CASE Occurs(d, s)
      <4>1. d.at \in Nat /\ lastAlert \in Nat /\ d.at <= lastAlert /\ lastAlert <= clock
        BY <1>6, <3>3 DEF Alert
      <4>2. \A a, b, c \in Nat : a <= b /\ b <= c => a <= c
        OBVIOUS
      <4>. QED BY <1>2, <4>1, <4>2
    <3>. QED BY <3>1, <3>2, <3>3
  <2>. QED BY <2>1
<1>8. watching[w].at = "mark" /\ watching[w] \in Watch
  BY <1>1 DEF Mark
<1>9. ASSUME ~checksMet PROVE InOrder(Append(s, e), Apart)
  <2>1. lastAlert = NeverAlerted \/ clock - lastAlert >= Cooldown
    BY <1>1, <1>8, <1>9 DEF OneMarks
  <2>2. ASSUME NEW d \in Alert, Occurs(d, s) PROVE <<d, e>> \in Apart
    <3>1. d.at \in Nat /\ lastAlert \in Nat /\ d.at <= lastAlert
      BY <1>6, <2>2 DEF Alert
    <3>2. clock - lastAlert >= Cooldown
      BY <2>1, <3>1, MonitoringAssumption
    <3>3. Cooldown \in Nat
      BY MonitoringAssumption
    <3>4. \A a, b, c, x \in Nat : a <= b /\ c - b >= x => c - a >= x
      OBVIOUS
    <3>5. clock - d.at >= Cooldown
      BY <1>2, <3>1, <3>2, <3>3, <3>4
    <3>. QED BY <1>2, <3>5 DEF Apart
  <2>3. InOrder(s, Apart)
    BY <1>1, <1>4, <1>9 DEF Spaced
  <2>. QED BY <1>2, <2>2, <2>3, OrderAppended
<1>10. Spaced(alertLog', checksMet', lastAlert', clock')
  <2>1. OfRate(alertLog') = Append(s, e) /\ checksMet' = checksMet /\ lastAlert' = clock /\ clock' = clock /\ clock <= clock
    BY <1>2, <1>3, <1>4
  <2>. QED BY <1>2, <1>7, <1>9, <2>1 DEF Spaced
<1>11. PICK r \in Watch : r = [watching[w] EXCEPT !.at = "others"] /\ r.at = "others"
  <2>1. watching[w] \in [at : {"look", "mark", "others"}, seen : Infra]
    BY <1>8 DEF Watch, Resting
  <2>2. [watching[w] EXCEPT !.at = "others"] \in [at : {"look", "mark", "others"}, seen : Infra]
        /\ [watching[w] EXCEPT !.at = "others"].at = "others"
    BY <2>1
  <2>. QED BY <2>2 DEF Watch
<1>12. watching' = [watching EXCEPT ![w] = r]
  BY <1>11 DEF Mark
<1>13. watching' \in [Watcher -> Watch] /\ watching'[w] = r /\ \A v \in Watcher \ {w} : watching'[v] = watching[v]
  BY <1>1, <1>12
<1>14. ASSUME ~checksMet PROVE \A v \in Watcher : watching'[v].at # "mark"
  BY <1>1, <1>8, <1>11, <1>13, <1>14 DEF OneMarks
<1>15. ~checksMet => OneMarks(clock)'
  BY <1>14 DEF OneMarks
<1>. QED BY <1>1, <1>3, <1>5, <1>10, <1>13, <1>15, AlertsAreNext

\* Alerts about the pool and Redis are not about the rate.
LEMMA OthersChecked ==
  ASSUME MonitorInv, NEW w \in Watcher, CheckOthers(w) PROVE AlertsHold'
<1>1. /\ infra \in Infra /\ watching \in [Watcher -> Watch] /\ alertLog \in Seq(Alert) /\ checksMet \in BOOLEAN
      /\ Spaced(alertLog, checksMet, lastAlert, clock)
      /\ ~checksMet => OneMarks(clock)
  BY AlertsAre DEF MonitorInv
<1> DEFINE p == [about |-> "pool", at |-> clock]
           d == [about |-> "redis", at |-> clock]
<1>2. p \in Alert /\ d \in Alert /\ p.about # "rate" /\ d.about # "rate" /\ clock \in Nat
  BY DEF MonitorInv, Alert
<1>3. PICK pool, redis : /\ pool \in {<<>>, <<p>>} /\ redis \in {<<>>, <<d>>}
                         /\ alertLog' = alertLog \o pool \o redis
  BY DEF CheckOthers
<1>4. /\ lastAlert' = lastAlert /\ checksMet' = checksMet /\ infra' = infra /\ clock' = clock
      /\ watching' = [watching EXCEPT ![w] = Resting]
  BY DEF CheckOthers, monitorRest
<1> HIDE DEF p, d
<1>5. \A s \in Seq(Alert), e \in Alert : s \o <<>> = s /\ s \o <<e>> = Append(s, e) /\ Append(s, e) \in Seq(Alert)
  OBVIOUS
<1>6. PICK s \in Seq(Alert) : s = alertLog \o pool /\ OfRate(s) = OfRate(alertLog)
  <2>1. CASE pool = <<>>
    BY <1>1, <1>5, <2>1
  <2>2. CASE pool = <<p>>
    <3>1. OfRate(Append(alertLog, p)) = OfRate(alertLog)
      BY <1>1, <1>2, RateAppended
    <3>. QED BY <1>1, <1>2, <1>5, <2>2, <3>1
  <2>. QED BY <1>3, <2>1, <2>2
<1>7. alertLog' \in Seq(Alert) /\ OfRate(alertLog') = OfRate(s)
  <2>1. CASE redis = <<>>
    BY <1>3, <1>5, <1>6, <2>1
  <2>2. CASE redis = <<d>>
    <3>1. OfRate(Append(s, d)) = OfRate(s)
      BY <1>2, RateAppended
    <3>. QED BY <1>2, <1>3, <1>5, <1>6, <2>2, <3>1
  <2>. QED BY <1>3, <2>1, <2>2
<1>8. Spaced(alertLog', checksMet', lastAlert', clock')
  BY <1>1, <1>4, <1>6, <1>7 DEF Spaced
<1>9. Resting \in Watch /\ Resting.at # "mark"
  BY DEF Watch, Resting
<1>10. watching' \in [Watcher -> Watch] /\ \A v \in Watcher : watching'[v].at = "mark" => watching[v].at = "mark"
  BY <1>1, <1>4, <1>9
<1>11. ~checksMet => OneMarks(clock)'
  BY <1>1, <1>4, <1>10 DEF OneMarks
<1>. QED BY <1>1, <1>4, <1>7, <1>8, <1>10, <1>11, AlertsAreNext

LEMMA ChecksMoveOn ==
  ASSUME MonitorInv, NEW w \in Watcher, CheckErrors(w) \/ CheckInfra(w) \/ Look(w)
  PROVE  AlertsHold'
<1>1. /\ infra \in Infra /\ watching \in [Watcher -> Watch] /\ checksMet \in BOOLEAN
      /\ faults.rate \in Nat
  BY AlertsAre DEF MonitorInv, FaultsHold
<1>2. watching[w] \in Watch
  BY <1>1
<1>3. CASE CheckErrors(w)
  <2>1. PICK r \in Watch : r = [at |-> "infra", rate |-> faults.rate] /\ r.at = "infra"
    <3>1. /\ [at |-> "infra", rate |-> faults.rate] \in [at : {"infra"}, rate : Nat]
          /\ [at |-> "infra", rate |-> faults.rate].at = "infra"
      BY <1>1
    <3>. QED BY <3>1 DEF Watch
  <2>2. watching' = [watching EXCEPT ![w] = r] /\ UNCHANGED <<infra, lastAlert, alertLog, clock, checksMet>>
    BY <1>3, <2>1 DEF CheckErrors, monitorRest
  <2>. QED BY <1>1, <2>1, <2>2, WatcherMoves
<1>4. CASE CheckInfra(w)
  <2>1. PICK r \in Watch : /\ r.at \in {"look", "others"}
                           /\ r = [at |-> IF ShouldAlert(CheckedCode, watching[w].rate) THEN "look" ELSE "others",
                                   seen |-> infra]
    <3> DEFINE to == IF ShouldAlert(CheckedCode, watching[w].rate) THEN "look" ELSE "others"
    <3>1. to \in {"look", "others"}
      OBVIOUS
    <3> HIDE DEF to
    <3>2. [at |-> to, seen |-> infra] \in [at : {"look", "mark", "others"}, seen : Infra]
      BY <1>1, <3>1
    <3>3. [at |-> to, seen |-> infra] \in Watch /\ [at |-> to, seen |-> infra].at = to
      BY <3>2 DEF Watch
    <3>. QED BY <3>1, <3>3 DEF to
  <2>2. watching' = [watching EXCEPT ![w] = r] /\ UNCHANGED <<infra, lastAlert, alertLog, clock, checksMet>>
    BY <1>4, <2>1 DEF CheckInfra, monitorRest
  <2>. QED BY <1>1, <2>1, <2>2, WatcherMoves
<1>5. CASE Look(w)
  <2>1. watching[w] \in [at : {"look", "mark", "others"}, seen : Infra] /\ watching[w].at = "look"
    BY <1>2, <1>5 DEF Look, Watch, Resting
  <2> DEFINE to == IF Cooled(lastAlert) THEN "mark" ELSE "others"
  <2>2. PICK r \in Watch : r = [watching[w] EXCEPT !.at = to] /\ r.at = to
    <3>1. /\ [watching[w] EXCEPT !.at = to] \in [at : {"look", "mark", "others"}, seen : Infra]
          /\ [watching[w] EXCEPT !.at = to].at = to
      BY <2>1
    <3>. QED BY <3>1 DEF Watch
  <2>3. watching' = [watching EXCEPT ![w] = r] /\ UNCHANGED <<infra, lastAlert, alertLog, clock>>
    BY <1>5, <2>2 DEF Look, monitorRest
  <2>4. checksMet' = (checksMet \/ (Cooled(lastAlert) /\ \E v \in Watcher : watching[v].at = "mark"))
    BY <1>5 DEF Look
  <2>5. checksMet' \in BOOLEAN /\ (checksMet => checksMet')
    BY <1>1, <2>4
  <2>6. r.at = "mark" => Cooled(lastAlert)
    BY <2>2
  <2>7. r.at = "mark" /\ ~checksMet' => Cooled(lastAlert) /\ \A v \in Watcher \ {w} : watching[v].at # "mark"
    BY <2>4, <2>6
  <2> HIDE DEF to
  <2>. QED BY <2>3, <2>5, <2>7, WatcherMoves
<1>. QED BY <1>3, <1>4, <1>5

\* What the monitors remember is enough for what they say, whatever is recorded and reset in between.
THEOREM MonitorInvariant == MonitorSpec => []MonitorInv
<1>1. MonitorInit => MonitorInv
  <2> SUFFICES ASSUME MonitorInit PROVE MonitorInv
    OBVIOUS
  <2>1. FaultsHold /\ LatencyHolds /\ clock \in Nat
    BY NoFaultsHold, NoLatencyHolds DEF MonitorInit
  <2>2. /\ infra = [pool |-> 0, redis |-> FALSE] /\ lastAlert = NeverAlerted /\ alertLog = <<>>
        /\ watching = [w \in Watcher |-> Resting] /\ checksMet = FALSE
    BY DEF MonitorInit
  <2>3. infra \in Infra /\ watching \in [Watcher -> Watch] /\ \A w \in Watcher : watching[w].at # "mark"
    BY <2>2 DEF Infra, Watch, Resting
  <2>4. OfRate(alertLog) = <<>> /\ alertLog \in Seq(Alert)
    BY <2>2, KeptOfNone DEF OfRate
  <2>5. Len(<<>>) = 0
    OBVIOUS
  <2>6. Spaced(alertLog, checksMet, lastAlert, clock)
    BY <2>2, <2>4, <2>5, MonitoringAssumption DEF Spaced, Occurs, InOrder
  <2>7. OneMarks(clock)
    BY <2>3 DEF OneMarks
  <2>. QED BY <2>1, <2>2, <2>3, <2>4, <2>6, <2>7, AlertsAre DEF MonitorInv
<1>2. MonitorInv /\ [MonitorNext]_monitorVars => MonitorInv'
  <2> SUFFICES ASSUME MonitorInv, [MonitorNext]_monitorVars PROVE MonitorInv'
    OBVIOUS
  <2>0. clock \in Nat /\ infra \in Infra /\ clock <= clock /\ LatencyHolds
    BY AlertsAre DEF MonitorInv
  <2>1. ASSUME NEW code \in ErrorCode, RecordError(code) PROVE MonitorInv'
    <3>1. UNCHANGED <<latency, served, infra, clock>> /\ UNCHANGED alerterVars
      BY <2>1 DEF RecordError
    <3>. QED BY <2>0, <2>1, <3>1, FaultRecorded, LatencyStays, AlertsUnmoved DEF MonitorInv
  <2>2. CASE ResetErrors
    <3>1. UNCHANGED <<latency, served, infra, clock>> /\ UNCHANGED alerterVars
      BY <2>2 DEF ResetErrors
    <3>2. FaultsHold'
      BY <2>2, FaultsReset DEF ResetErrors
    <3>. QED BY <2>0, <3>1, <3>2, LatencyStays, AlertsUnmoved DEF MonitorInv
  <2>3. ASSUME NEW t \in ResponseTimes, RecordRequest(t) PROVE MonitorInv'
    <3>1. UNCHANGED <<faults, struck, infra, clock>> /\ UNCHANGED alerterVars
      BY <2>3 DEF RecordRequest
    <3>. QED BY <2>0, <2>3, <3>1, FaultsStay, RequestRecorded, AlertsUnmoved DEF MonitorInv
  <2>4. CASE ResetRequests
    <3>1. UNCHANGED <<faults, struck, infra, clock>> /\ UNCHANGED alerterVars
      BY <2>4 DEF ResetRequests
    <3>2. LatencyHolds'
      <4>1. (latency = NoLatency /\ served = <<>> => LatencyHolds)'
        BY NoLatencyHolds, PTL
      <4>. QED BY <2>4, <4>1 DEF ResetRequests
    <3>. QED BY <2>0, <3>1, <3>2, FaultsStay, AlertsUnmoved DEF MonitorInv
  <2>5. ASSUME NEW usage \in PoolUsages, UpdatePool(usage) PROVE MonitorInv'
    <3>1. UNCHANGED <<faults, struck, latency, served, clock>> /\ UNCHANGED alerterVars
      BY <2>5 DEF UpdatePool
    <3>2. infra' \in Infra
      BY <2>0, <2>5 DEF UpdatePool, Infra
    <3>. QED BY <2>0, <3>1, <3>2, FaultsStay, LatencyStays, AlertsUnmoved DEF MonitorInv
  <2>6. ASSUME NEW connected \in BOOLEAN, UpdateRedis(connected) PROVE MonitorInv'
    <3>1. UNCHANGED <<faults, struck, latency, served, clock>> /\ UNCHANGED alerterVars
      BY <2>6 DEF UpdateRedis
    <3>2. infra' \in Infra
      BY <2>0, <2>6 DEF UpdateRedis, Infra
    <3>. QED BY <2>0, <3>1, <3>2, FaultsStay, LatencyStays, AlertsUnmoved DEF MonitorInv
  <2>7. ASSUME NEW w \in Watcher,
               CheckErrors(w) \/ CheckInfra(w) \/ Look(w) \/ Mark(w) \/ CheckOthers(w)
        PROVE  MonitorInv'
    <3>1. UNCHANGED <<faults, struck, latency, served, clock>>
      BY <2>7 DEF CheckErrors, CheckInfra, Look, Mark, CheckOthers, monitorRest
    <3>2. AlertsHold'
      BY <2>7, ChecksMoveOn, Marked, OthersChecked
    <3>. QED BY <2>0, <3>1, <3>2, FaultsStay, LatencyStays DEF MonitorInv
  <2>8. CASE MonitorTick
    <3>1. UNCHANGED <<faults, struck, latency, served, infra>> /\ UNCHANGED alerterVars /\ clock' = clock + 1
      BY <2>8 DEF MonitorTick
    <3>2. clock' \in Nat /\ clock' >= clock
      BY <2>0, <3>1
    <3>. QED BY <2>0, <3>1, <3>2, FaultsStay, LatencyStays, AlertsUnmoved DEF MonitorInv
  <2>9. CASE UNCHANGED monitorVars
    <3>1. UNCHANGED <<faults, struck, latency, served, infra, clock>> /\ UNCHANGED alerterVars
      BY <2>9 DEF monitorVars, alerterVars
    <3>. QED BY <2>0, <3>1, FaultsStay, LatencyStays, AlertsUnmoved DEF MonitorInv
  <2>. QED BY <2>1, <2>2, <2>3, <2>4, <2>5, <2>6, <2>7, <2>8, <2>9 DEF MonitorNext
<1>. QED BY <1>1, <1>2, PTL DEF MonitorSpec

LEMMA MonitorsAreRight == MonitorInv => MonitoringHoldsUp
<1> SUFFICES ASSUME MonitorInv PROVE MonitoringHoldsUp
  OBVIOUS
<1>1. CooldownKept
  <2>1. alertLog \in Seq(Alert) /\ (~checksMet => InOrder(RateAlerts, Apart))
    BY DEF MonitorInv, AlertsHold
  <2>2. PICK s \in Seq(Alert) : s = RateAlerts
    BY <2>1, KeptType DEF RateAlerts
  <2>3. ASSUME ~checksMet, NEW i \in 2 .. Len(s) PROVE s[i].at - s[i - 1].at >= Cooldown
    <3>1. i \in 1 .. Len(s) /\ i - 1 \in 1 .. Len(s) /\ i - 1 < i
      OBVIOUS
    <3>2. <<s[i - 1], s[i]>> \in Apart
      BY <2>1, <2>2, <2>3, <3>1 DEF InOrder
    <3>. QED BY <3>2 DEF Apart
  <2>. QED BY <2>2, <2>3 DEF CooldownKept
<1>2. NoErrorMissed
  <2>1. PICK h \in Int : h = clock - Hour
    BY MonitoringAssumption DEF MonitorInv
  <2>2. faults.rate = Len(faults.recent) /\ faults.recent \in Seq(ErrorEvent) /\ struck \in Seq(Nat)
        /\ Counted(faults.counts) = Len(struck)
    BY DEF MonitorInv, FaultsHold
  <2>3. Len(Kept(faults.recent, Since(h))) = Len(Kept(struck, After(h)))
    BY <2>1 DEF MonitorInv, FaultsHold
  <2>4. Len(Kept(faults.recent, Since(h))) <= Len(faults.recent)
    BY <2>2, KeptNoLonger
  <2>5. Len(Kept(struck, After(h))) = Cardinality({i \in 1 .. Len(struck) : struck[i] \in After(h)})
    BY <2>2, KeptCount
  <2>6. {i \in 1 .. Len(struck) : struck[i] \in After(h)} = {i \in DOMAIN struck : struck[i] > clock - Hour}
    BY <2>1, <2>2 DEF After
  <2>. QED BY <2>2, <2>3, <2>4, <2>5, <2>6 DEF NoErrorMissed
<1>3. PercentilesOfTheLatest
  <2>1. PICK s \in Seq(ResponseTimes) : s = latency.times
    BY DEF MonitorInv, LatencyHolds
  <2>2. PICK r \in Seq(ResponseTimes) : r = served
    BY DEF MonitorInv, LatencyHolds
  <2>3. PICK n \in Nat : n = Len(s)
    OBVIOUS
  <2>4. PICK m \in Nat : m = Len(r)
    OBVIOUS
  <2>5. /\ n = IF m < ResponseCap THEN m ELSE ResponseCap
        /\ \A i \in 1 .. n : s[i] = r[m - n + i]
        /\ n > 0 => \A q \in Percentiles : Ranks(latency.at[q], q, s)
    BY <2>1, <2>2, <2>3, <2>4 DEF MonitorInv, LatencyHolds
  <2>6. n <= m
    BY <2>5, MonitoringAssumption
  <2>7. s = SubSeq(r, m - n + 1, m)
    <3>1. PICK t \in Seq(ResponseTimes) : /\ t = SubSeq(r, m - n + 1, m) /\ Len(t) = n
                                          /\ \A i \in 1 .. n : t[i] = r[m - n + i]
      <4>1. PICK a \in 1 .. m + 1 : a = m - n + 1
        <5>1. m - n + 1 \in 1 .. m + 1
          BY <2>6
        <5>. QED BY <5>1
      <4>2. SubSeq(r, a, m) \in Seq(ResponseTimes) /\ Len(SubSeq(r, a, m)) = m - a + 1
        BY <2>4
      <4>3. \A i \in 1 .. m - a + 1 : SubSeq(r, a, m)[i] = r[a + i - 1]
        BY <2>4
      <4>4. m - a + 1 = n /\ \A i \in 1 .. n : a + i - 1 = m - n + i
        BY <4>1
      <4>5. \A i \in 1 .. n : SubSeq(r, a, m)[i] = r[m - n + i]
        BY <4>3, <4>4
      <4>. QED BY <4>1, <4>2, <4>4, <4>5
    <3>2. \A i \in 1 .. n : s[i] = t[i]
      BY <2>5, <3>1
    <3>3. s = t
      <4>1. \A u \in Seq(ResponseTimes) : Len(u) = n => u \in [1 .. n -> ResponseTimes]
        OBVIOUS
      <4>2. s \in [1 .. n -> ResponseTimes]
        BY <2>3, <4>1
      <4>3. t \in [1 .. n -> ResponseTimes]
        BY <3>1, <4>1
      <4>. QED BY <3>2, <4>2, <4>3
    <3>. QED BY <3>1, <3>3
  <2>. QED BY <2>1, <2>2, <2>3, <2>4, <2>5, <2>7 DEF PercentilesOfTheLatest, Ranks
<1>. QED BY <1>1, <1>2, <1>3 DEF MonitoringHoldsUp

\* The rate misses no error of the last hour and the counts none at all, percentiles are those of the
\* latest requests, and alerts about the rate a cooldown apart unless two checks looked at once.
THEOREM MonitoringIsRight == MonitorSpec => []MonitoringHoldsUp
BY MonitorInvariant, MonitorsAreRight, PTL

==============================================================================
