----------------------------- MODULE CarbonMarket -----------------------------
(***************************************************************************)
(* Carbon credits of the backend (services/carbon.rs, carbon_calculator.rs *)
(* and their handlers): footprints, the credits they are issued for, and   *)
(* the trades that sell them.  A call reads a row, checks it, and writes   *)
(* one or two rows in statements of their own, without a transaction: each *)
(* statement is an action, and a call may stop after any of them.          *)
(*                                                                         *)
(* Emissions are whole kilograms per million units of the factors' fourth  *)
(* decimal; names, texts, prices and dates are left out.                   *)
(***************************************************************************)
EXTENDS Integers, FiniteSets, FiniteSetsExt

CONSTANTS
  User, CreditId, TradeId,
  FootprintRequest,   \* the requests for a footprint that are made
  MaxCuts             \* bound on the calls that stop half way

CarbonRequest ==
  [mode : STRING, distance : Int, weight : Int, energy : STRING, packaging : STRING,
   hours : Int, baseline : Int]

ASSUME CarbonAssumption ==
  IsFiniteSet(User) /\ FootprintRequest \subseteq CarbonRequest /\ MaxCuts \in Nat

VARIABLES
  footprints,  \* carbon_footprints: the request of each and what was computed
  credits,     \* carbon_credits, by id
  trades,      \* carbon_trades, by id
  verifs,      \* carbon_verifications: who asked for which credit
  call,        \* the call each user has in flight
  paid,        \* history: settlements that were written
  issuer,      \* history: who a credit was generated for
  serial,      \* history: no two calls overlapped and none was cut off
  cuts         \* calls that stopped half way

carbonVars == <<footprints, credits, trades, verifs, call, paid, issuer, serial, cuts>>
market == <<footprints, verifs, issuer>>

------------------------------------------------------------------------------
(* The calculation, in units of 10^-4 kg.                                  *)

TransportFactor(mode) ==
  CASE mode = "road_electric" -> 250 [] mode = "rail" -> 280 [] mode = "sea" -> 160
    [] mode = "air" -> 6020 [] OTHER -> 960

PackagingFactor(kind) ==
  CASE kind = "plastic" -> 25300 [] kind = "glass" -> 8700 [] kind = "metal" -> 14500
    [] kind = "minimal" -> 2000 [] OTHER -> 9400

\* Tenths: 0.87 for gas is rounded.
EnergyMultiplier(source) ==
  CASE source = "renewable" -> 1 [] source = "diesel" -> 30 [] source = "natural_gas" -> 9
    [] OTHER -> 10

\* Weights in kg; 0 stands for a field that is not given.
Emissions(req) ==
  LET kg == IF req.weight = 0 THEN 1000 ELSE req.weight
  IN  (TransportFactor(req.mode) * req.distance * kg) \div 1000 + kg * 5000
        + (PackagingFactor(req.packaging) * kg) \div 20
        + (12 * req.hours * kg * EnergyMultiplier(req.energy)) \div 10000

\* At least five percent below a baseline that is given.
EligibleCredits(req) ==
  LET base == req.baseline * 10000
      cut  == IF base > Emissions(req) THEN base - Emissions(req) ELSE 0
  IN  IF base > 0 /\ cut * 20 >= base THEN cut ELSE 0

\* generate_credit recomputes the footprint without weight, packaging, storage.
Recomputed(req) == [req EXCEPT !.weight = 0, !.packaging = "none given", !.hours = 0]

------------------------------------------------------------------------------

CreditStatus == {"pending", "verified", "listed", "sold", "retired", "cancelled"}
CarbonCredit == [owner : User, status : CreditStatus, quantity : Nat]
CarbonTrade ==
  [credit : CreditId, seller : User, buyer : User \union {"none"}, quantity : Nat,
   status : {"open", "settled"}]
NoneYet == [status |-> "no row"]
CarbonIdle == [op |-> "idle"]

Exists(row) == row # NoneYet
Issued == {c \in CreditId : Exists(credits[c])}
Traded == {t \in TradeId : Exists(trades[t])}
Holding(status) == {c \in Issued : credits[c].status = status}

\* A call begins; history notes whether another is in flight.
Start(u, next) ==
  /\ call[u] = CarbonIdle
  /\ call' = [call EXCEPT ![u] = next]
  /\ serial' = (serial /\ \A v \in User : call[v] = CarbonIdle)

CarbonReturn(u) == call' = [call EXCEPT ![u] = CarbonIdle] /\ UNCHANGED serial

CalculateFootprint(u, req) ==
  /\ call[u] = CarbonIdle
  /\ footprints' = footprints \union {req}
  /\ UNCHANGED <<credits, trades, verifs, call, paid, issuer, serial, cuts>>

\* Footprints are never changed: reading one and issuing the credit is one step.
GenerateCredit(u, req, c) ==
  /\ call[u] = CarbonIdle /\ req \in footprints /\ ~Exists(credits[c])
  /\ EligibleCredits(Recomputed(req)) > 0
  /\ credits' = [credits EXCEPT ![c] =
                   [owner |-> u, status |-> "pending", quantity |-> EligibleCredits(Recomputed(req))]]
  /\ issuer' = [issuer EXCEPT ![c] = u]
  /\ UNCHANGED <<footprints, trades, verifs, call, paid, serial, cuts>>

Owns(u, c) == Exists(credits[c]) /\ credits[c].owner = u

StartRetire(u, c) ==
  /\ Owns(u, c) /\ credits[c].status # "retired"
  /\ Start(u, [op |-> "retire", credit |-> c])
  /\ UNCHANGED <<credits, trades, market, paid, cuts>>

\* The statement asks for the id alone.
Retire(u) ==
  /\ call[u].op = "retire"
  /\ credits' = [credits EXCEPT ![call[u].credit].status = "retired"]
  /\ CarbonReturn(u)
  /\ UNCHANGED <<trades, market, paid, cuts>>

\* Mutant: a credit that is listed may be listed again.
ListableTwice == {"verified", "pending", "listed"}

Listable == {"verified", "pending"}

\* Any positive quantity up to the credit's; half stands for those below it.
StartList(u, c, qty) ==
  /\ Owns(u, c) /\ credits[c].status \in Listable
  /\ qty \in {credits[c].quantity \div 2, credits[c].quantity} \ {0}
  /\ Start(u, [op |-> "list", credit |-> c, quantity |-> qty])
  /\ UNCHANGED <<credits, trades, market, paid, cuts>>

InsertTrade(u, t) ==
  /\ call[u].op = "list" /\ ~Exists(trades[t])
  /\ trades' = [trades EXCEPT ![t] =
                  [credit |-> call[u].credit, seller |-> u, buyer |-> "none",
                   quantity |-> call[u].quantity, status |-> "open"]]
  /\ call' = [call EXCEPT ![u].op = "mark"]
  /\ UNCHANGED <<credits, market, paid, serial, cuts>>

MarkListed(u) ==
  /\ call[u].op = "mark"
  /\ credits' = [credits EXCEPT ![call[u].credit].status = "listed"]
  /\ CarbonReturn(u)
  /\ UNCHANGED <<trades, market, paid, cuts>>

\* The trade is read here and never again; the credit is not looked at.
StartPurchase(u, t, qty) ==
  /\ Exists(trades[t]) /\ trades[t].status = "open" /\ trades[t].seller # u
  /\ qty \in {trades[t].quantity \div 2, trades[t].quantity} \ {0}
  /\ Start(u, [op |-> "settle", trade |-> t, credit |-> trades[t].credit, quantity |-> qty])
  /\ UNCHANGED <<credits, trades, market, paid, cuts>>

Settle(u) ==
  LET t == call[u].trade
  IN  /\ call[u].op = "settle"
      /\ trades' = [trades EXCEPT ![t].buyer = u, ![t].status = "settled",
                                  ![t].quantity = call[u].quantity]
      /\ paid' = paid \union {<<u, t>>}
      /\ call' = [call EXCEPT ![u].op = "transfer"]
      /\ UNCHANGED <<credits, market, serial, cuts>>

\* Mutant: the credit goes over before the trade is settled.
TransferFirst(u) == call[u].op \in {"settle", "transfer"}

MayTransfer(u) == call[u].op = "transfer"

\* The whole credit goes over, whatever quantity was bought.
Transfer(u) ==
  /\ MayTransfer(u)
  /\ credits' = [credits EXCEPT ![call[u].credit].owner = u, ![call[u].credit].status = "sold"]
  /\ CarbonReturn(u)
  /\ UNCHANGED <<trades, market, paid, cuts>>

RequestVerification(u, c) ==
  /\ call[u] = CarbonIdle /\ Owns(u, c)
  /\ verifs' = verifs \union {<<u, c>>}
  /\ UNCHANGED <<footprints, credits, trades, call, paid, issuer, serial, cuts>>

Tonnes(cs) == MapThenSumSet(LAMBDA c : credits[c].quantity, cs)

\* generate_report, whose row nothing reads back.  What it calls sold are the credits owner
\* holds, those that were sold to him.
ReportOf(u) ==
  LET own == {c \in Issued : credits[c].owner = u}
  IN  [generated |-> Tonnes(own),
       retired   |-> Tonnes(own \intersect Holding("retired")),
       sold      |-> Tonnes(own \intersect Holding("sold")),
       revenue   |-> MapThenSumSet(LAMBDA t : trades[t].quantity,
                       {t \in Traded : trades[t].seller = u /\ trades[t].status = "settled"})]

\* A statement fails, or the process stops: what was written stays.
CutOff(u) ==
  /\ call[u] # CarbonIdle /\ cuts < MaxCuts
  /\ call' = [call EXCEPT ![u] = CarbonIdle]
  /\ serial' = FALSE /\ cuts' = cuts + 1
  /\ UNCHANGED <<credits, trades, market, paid>>

CarbonInit ==
  /\ footprints = {} /\ verifs = {} /\ paid = {} /\ cuts = 0 /\ serial = TRUE
  /\ credits = [c \in CreditId |-> NoneYet] /\ trades = [t \in TradeId |-> NoneYet]
  /\ call = [u \in User |-> CarbonIdle]
  /\ issuer = [c \in CreditId |-> "none"]

CarbonNext ==
  \E u \in User :
    \/ \E req \in FootprintRequest :
         CalculateFootprint(u, req) \/ \E c \in CreditId : GenerateCredit(u, req, c)
    \/ \E c \in CreditId :
         \/ StartRetire(u, c) \/ RequestVerification(u, c)
         \/ Exists(credits[c]) /\ \E q \in {credits[c].quantity \div 2, credits[c].quantity} :
              StartList(u, c, q)
    \/ \E t \in TradeId :
         \/ InsertTrade(u, t)
         \/ Exists(trades[t]) /\ \E q \in {trades[t].quantity \div 2, trades[t].quantity} :
              StartPurchase(u, t, q)
    \/ Retire(u) \/ MarkListed(u) \/ Settle(u) \/ Transfer(u) \/ CutOff(u)

CarbonSpec == CarbonInit /\ [][CarbonNext]_carbonVars

------------------------------------------------------------------------------

MarketSummary ==
  [available |-> Tonnes(Issued \ (Holding("retired") \union Holding("cancelled"))),
   listed    |-> Tonnes(Holding("listed")), sold |-> Tonnes(Holding("sold")),
   retired   |-> Tonnes(Holding("retired")),
   open      |-> Cardinality({t \in Traded : trades[t].status = "open"})]

(***************************************************************************)
(* Title follows payment: whoever owns a credit had it issued, or a        *)
(* purchase of it by that user was settled before -- also when buyers race *)
(* for one trade and calls stop between their two writes.                  *)
(***************************************************************************)
TitleFollowsPayment ==
  \A c \in Issued :
    \/ credits[c].owner = issuer[c]
    \/ \E t \in Traded : trades[t].credit = c /\ <<credits[c].owner, t>> \in paid

(***************************************************************************)
(* As long as calls do not overlap and none is cut off, the two tables     *)
(* agree whenever no call is in flight: a credit is traded at most once, a *)
(* listed one by an open trade of its owner, a sold one by a settled trade *)
(* whose buyer is its owner, and no more is listed than is available.      *)
(***************************************************************************)
SerialMarketAgrees ==
  serial /\ (\A u \in User : call[u] = CarbonIdle) =>
    /\ \A t1, t2 \in Traded : trades[t1].credit = trades[t2].credit => t1 = t2
    /\ \A c \in Issued :
         /\ credits[c].status = "listed" =>
              \E t \in Traded : trades[t].credit = c /\ trades[t].status = "open"
                                /\ trades[t].seller = credits[c].owner
         /\ credits[c].status = "sold" =>
              \E t \in Traded : trades[t].credit = c /\ trades[t].status = "settled"
                                /\ trades[t].buyer = credits[c].owner
    /\ MarketSummary.listed + MarketSummary.sold <= MarketSummary.available
    /\ \A u \in User : ReportOf(u).retired + ReportOf(u).sold <= ReportOf(u).generated

=============================================================================
