---------------------------- MODULE QualityControl ----------------------------
(***************************************************************************)
(* The quality control contract (quality_control.rs over storage.rs): an   *)
(* administrator per product, sensors it authorizes, certifications, and   *)
(* readings that are classified by their thresholds and summed up.  The    *)
(* products are those of the registry it shares its storage with.          *)
(***************************************************************************)
EXTENDS Integers, Sequences, FiniteSets, Functions, FiniteSetsExt, Filtering

CONSTANTS
  Goods,        \* products
  QcAccount,    \* owners, administrators and sensors
  Parameter,    \* what is measured
  ReadingValues, \* values of readings
  Bands,        \* thresholds that sensors give, low and high
  NoThreshold, Nobody,
  MaxReadings, MaxCertificates, MaxLedger

ASSUME QualityAssumption ==
  /\ ReadingValues \subseteq Int /\ MaxReadings \in Nat /\ MaxCertificates \in Nat /\ MaxLedger \in Nat

VARIABLES
  product_owner,  \* DataKey::Product(product).owner, or Nobody
  qc_admin,       \* QualityControlAdmin(product), or Nobody
  sensors,        \* AuthorizedSensor(product, address) with authorized set
  certificates,   \* QualityCertifications(product): the time each is valid
  readings,       \* QualityReadings(product)
  parameters,     \* QualityParameters(product)
  stats,          \* ParameterStats(product, parameter)
  ledger          \* time of the ledger

qc_vars == <<product_owner, qc_admin, sensors, certificates, readings, parameters, stats, ledger>>

NoStats == [count |-> 0, sum |-> 0, min |-> 0, max |-> 0, avg |-> 0]

\* i128 division: towards zero.
Quotient(a, b) == IF a >= 0 THEN a \div b ELSE -((-a) \div b)

\* A fifth beyond a threshold is critical.
ReadingStatus(value, low, high) ==
  LET below == low # NoThreshold /\ value < low
      above == high # NoThreshold /\ value > high
  IN  IF \/ below /\ value < low - Quotient(low, 5)
         \/ above /\ value > high + Quotient(high, 5) THEN "critical"
      ELSE IF below \/ above THEN "warning" ELSE "normal"

\* Mutant: the first value is not told from the initial zero.
UpdatedWithZero(s, value) ==
  [count |-> s.count + 1, sum |-> s.sum + value,
   min |-> IF value < s.min THEN value ELSE s.min,
   max |-> IF value > s.max THEN value ELSE s.max,
   avg |-> Quotient(s.sum + value, s.count + 1)]

UpdatedStats(s, value) ==
  [count |-> s.count + 1, sum |-> s.sum + value,
   min |-> IF s.count = 0 \/ value < s.min THEN value ELSE s.min,
   max |-> IF s.count = 0 \/ value > s.max THEN value ELSE s.max,
   avg |-> Quotient(s.sum + value, s.count + 1)]

IsQualityAdmin(p, who) == who # Nobody /\ qc_admin[p] = who

IsAuthorizedSensor(p, who) == who \in sensors[p]

\* The administrator or the product's owner.
RequireQualityAuth(p, who) == IsQualityAdmin(p, who) \/ product_owner[p] = who

------------------------------------------------------------------------------

\* Any account, and any number of times.
InitQualityControl(p, who) ==
  /\ product_owner[p] # Nobody
  /\ qc_admin' = [qc_admin EXCEPT ![p] = who]
  /\ UNCHANGED <<product_owner, sensors, certificates, readings, parameters, stats, ledger>>

AddQualityCertification(p, who, from, until) ==
  /\ Len(certificates[p]) < MaxCertificates
  /\ RequireQualityAuth(p, who)
  /\ certificates' = [certificates EXCEPT ![p] = Append(@, [from |-> from, until |-> until])]
  /\ UNCHANGED <<product_owner, qc_admin, sensors, readings, parameters, stats, ledger>>

DefineQualityParameters(p, who, ps) ==
  /\ RequireQualityAuth(p, who)
  /\ parameters' = [parameters EXCEPT ![p] = ps]
  /\ UNCHANGED <<product_owner, qc_admin, sensors, certificates, readings, stats, ledger>>

\* The parameter need not be one that was defined.
RecordQualityReading(p, who, param, value, low, high) ==
  /\ Len(readings[p]) < MaxReadings
  /\ IsAuthorizedSensor(p, who) \/ IsQualityAdmin(p, who)
  /\ readings' = [readings EXCEPT ![p] = Append(@,
       [sensor |-> who, parameter |-> param, value |-> value, time |-> ledger, low |-> low,
        high |-> high, status |-> ReadingStatus(value, low, high)])]
  /\ stats' = [stats EXCEPT ![p][param] = UpdatedStats(stats[p][param], value)]
  /\ UNCHANGED <<product_owner, qc_admin, sensors, certificates, parameters, ledger>>

AuthorizeSensor(p, who, sensor) ==
  /\ IsQualityAdmin(p, who)
  /\ sensors' = [sensors EXCEPT ![p] = @ \union {sensor}]
  /\ UNCHANGED <<product_owner, qc_admin, certificates, readings, parameters, stats, ledger>>

RevokeSensor(p, who, sensor) ==
  /\ IsQualityAdmin(p, who)
  /\ sensors' = [sensors EXCEPT ![p] = @ \ {sensor}]
  /\ UNCHANGED <<product_owner, qc_admin, certificates, readings, parameters, stats, ledger>>

\* The registry stores a product.
StoreProduct(p, who) ==
  /\ product_owner[p] = Nobody
  /\ product_owner' = [product_owner EXCEPT ![p] = who]
  /\ UNCHANGED <<qc_admin, sensors, certificates, readings, parameters, stats, ledger>>

CloseLedger ==
  /\ ledger < MaxLedger /\ ledger' = ledger + 1
  /\ UNCHANGED <<product_owner, qc_admin, sensors, certificates, readings, parameters, stats>>

------------------------------------------------------------------------------

\* The first matching readings; one of them even when none is asked for.
GetQualityReadings(p, param, from, to, limit) ==
  LET matching == Kept(readings[p], {r \in Range(readings[p]) :
                                       r.parameter = param /\ r.time >= from /\ r.time <= to})
      wanted == IF limit = 0 THEN 1 ELSE limit
  IN  SubSeq(matching, 1, IF wanted < Len(matching) THEN wanted ELSE Len(matching))

GetQualityCertifications(p) ==
  Kept(certificates[p], {c \in Range(certificates[p]) : c.from <= ledger /\ c.until >= ledger})

GetQualitySummary(p) ==
  LET critical == Cardinality({n \in 1 .. Len(readings[p]) : readings[p][n].status = "critical"})
      warning  == Cardinality({n \in 1 .. Len(readings[p]) : readings[p][n].status = "warning"})
  IN  [total |-> Len(readings[p]), critical |-> critical, warning |-> warning,
       normal |-> Len(readings[p]) - critical - warning, certifications |-> Len(certificates[p])]

QualityInit ==
  /\ product_owner = [p \in Goods |-> Nobody] /\ qc_admin = [p \in Goods |-> Nobody]
  /\ sensors = [p \in Goods |-> {}] /\ certificates = [p \in Goods |-> <<>>]
  /\ readings = [p \in Goods |-> <<>>] /\ parameters = [p \in Goods |-> {}]
  /\ stats = [p \in Goods |-> [x \in Parameter |-> NoStats]]
  /\ ledger = 0

QualityNext ==
  \/ CloseLedger
  \/ \E p \in Goods, who \in QcAccount :
       \/ InitQualityControl(p, who) \/ StoreProduct(p, who)
       \/ \E until \in 0 .. MaxLedger : AddQualityCertification(p, who, 0, until)
       \/ \E ps \in SUBSET Parameter : DefineQualityParameters(p, who, ps)
       \/ \E param \in Parameter, value \in ReadingValues, band \in Bands :
            RecordQualityReading(p, who, param, value, band[1], band[2])
       \/ \E sensor \in QcAccount : AuthorizeSensor(p, who, sensor) \/ RevokeSensor(p, who, sensor)

QualitySpec == QualityInit /\ [][QualityNext]_qc_vars

------------------------------------------------------------------------------

\* The sum of some of a product's readings.
Total(p, ns) == MapThenSumSet(LAMBDA n : readings[p][n].value, ns)

(***************************************************************************)
(* The running figures never drift from the readings they were made of:    *)
(* count, extremes and mean of a parameter are those of its readings, also *)
(* below zero, and the mean lies between the extremes.                     *)
(***************************************************************************)
FiguresFollowReadings ==
  \A p \in Goods, x \in Parameter :
    LET mine   == {n \in 1 .. Len(readings[p]) : readings[p][n].parameter = x}
        values == {readings[p][n].value : n \in mine}
        s      == stats[p][x]
    IN  /\ s.count = Cardinality(mine)
        /\ mine # {} => /\ s.min = Min(values) /\ s.max = Max(values)
                        /\ s.avg = Quotient(Total(p, mine), s.count)
                        /\ s.min <= s.avg /\ s.avg <= s.max
        /\ Len(GetQualityReadings(p, x, 0, MaxLedger, MaxReadings)) = s.count
        /\ Len(GetQualityCertifications(p)) <= GetQualitySummary(p).certifications

==============================================================================
