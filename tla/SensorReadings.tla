--------------------------- MODULE SensorReadings ---------------------------
(***************************************************************************)
(* Sensors, their readings and the alerts these raise                      *)
(* (services/iot_service.rs, handlers/iot.rs).  Each statement is a step   *)
(* of the agent that runs it and may fail; what follows then depends on    *)
(* whether the code returns the error or drops it.  Tables are sequences   *)
(* in the order of their inserts; a column that may be NULL is a set of at *)
(* most one value.                                                         *)
(***************************************************************************)
EXTENDS Integers, Sequences, FiniteSets

CONSTANTS
  Agent,           \* requests and the synchronisation loop
  Sensor,          \* device_id
  ThresholdRows,   \* rows create_threshold may be given
  ReadingRows,     \* rows create_reading may be given
  MaxIotCalls,     \* bound on calls
  MaxIotFaults     \* bound on statements that fail

\* A reading is of one product, or of none.
ASSUME IotAssumption == \A r \in ReadingRows : \A p, q \in r.product : p = q

VARIABLES
  sensors,      \* iot_devices, by device_id
  thresholds,   \* temperature_thresholds
  readings,     \* temperature_readings, with the thresholds that were there before
  sensorAlerts, \* temperature_alerts, with the reading they are about
  summaries,    \* temperature_summaries of the one period, by device
  work,         \* what each agent is doing
  iotTally      \* calls, faults; history: crossed, two agents were at work on a twin together

sensorVars == <<sensors, thresholds, readings, sensorAlerts, summaries>>

AtRest == [at |-> "rest"]

------------------------------------------------------------------------------
(* An agent takes up a call, passes a statement, or has it fail.           *)

BeginWork(a, job) ==
  /\ work[a] = AtRest /\ iotTally.calls < MaxIotCalls
  /\ work' = [work EXCEPT ![a] = job]
  /\ iotTally' = [iotTally EXCEPT !.calls = @ + 1]

\* A call of one statement.
Single(a) == /\ work[a] = AtRest /\ iotTally.calls < MaxIotCalls
             /\ iotTally' = [iotTally EXCEPT !.calls = @ + 1]
             /\ UNCHANGED work

Next1(a, job) == work' = [work EXCEPT ![a] = job] /\ UNCHANGED iotTally

\* The statement fails, and the agent goes on with `job`.
Fault(a, job) ==
  /\ iotTally.faults < MaxIotFaults
  /\ iotTally' = [iotTally EXCEPT !.faults = @ + 1]
  /\ work' = [work EXCEPT ![a] = job]
  /\ UNCHANGED sensorVars

------------------------------------------------------------------------------
(* Devices and thresholds.                                                 *)

CreateDevice(a, d) ==
  /\ Single(a) /\ d \notin sensors
  /\ sensors' = sensors \union {d}
  /\ UNCHANGED <<thresholds, readings, sensorAlerts, summaries>>

\* UNIQUE (product_id, device_id, threshold_type): two NULLs are not equal.
SameThreshold(r, s) ==
  r.device # {} /\ <<r.product, r.device, r.type>> = <<s.product, s.device, s.type>>

CreateThreshold(a, row) ==
  /\ Single(a) /\ row.device \subseteq sensors
  /\ \A i \in DOMAIN thresholds : ~SameThreshold(row, thresholds[i])
  /\ thresholds' = Append(thresholds, row)
  /\ UNCHANGED <<sensors, readings, sensorAlerts, summaries>>

GetThresholds(product) == {i \in DOMAIN thresholds : thresholds[i].product = product}

------------------------------------------------------------------------------
(* create_reading.                                                         *)

CheckAnomaly(r) ==
  \/ r.temp < -50 \/ r.temp > 100
  \/ \E q \in r.quality : q < 50

\* The first statement notes when the device was seen, and its failure is dropped: nothing reads it.
CreateReading(a, row) == BeginWork(a, [at |-> "insert", row |-> row]) /\ UNCHANGED sensorVars

InsertReading(a) ==
  /\ work[a].at = "insert"
  /\ LET row == work[a].row IN
     /\ IF row.device \in sensors
        THEN /\ readings' = Append(readings, [row |-> row, anomaly |-> CheckAnomaly(row),
                                              before |-> DOMAIN thresholds])
             /\ Next1(a, IF row.product = {} THEN AtRest
                         ELSE [at |-> "check", row |-> row, reading |-> Len(readings')])
        ELSE UNCHANGED readings /\ Next1(a, AtRest)
     /\ UNCHANGED <<sensors, thresholds, sensorAlerts, summaries>>

\* Mutant: a threshold must name the device as well.
WatchingBoth(row) ==
  {i \in DOMAIN thresholds : {thresholds[i].product} = row.product /\ row.device \in thresholds[i].device}

\* check_thresholds: no code clears is_active.
Watching(row) ==
  {i \in DOMAIN thresholds : {thresholds[i].product} = row.product \/ row.device \in thresholds[i].device}

Breached(threshold, temp) ==
  \/ threshold.type \in {"min", "critical_min"} /\ \E m \in threshold.min : temp < m
  \/ threshold.type \in {"max", "critical_max"} /\ \E m \in threshold.max : temp > m

CheckThresholds(a) ==
  /\ work[a].at = "check"
  /\ LET breached == {i \in Watching(work[a].row) : Breached(thresholds[i], work[a].row.temp)}
     IN Next1(a, IF breached = {} THEN AtRest
                 ELSE [at |-> "alert", row |-> work[a].row, reading |-> work[a].reading,
                       left |-> breached])
  /\ UNCHANGED sensorVars

AlertsLeft(a, i) ==
  IF work[a].left = {i} THEN AtRest ELSE [work[a] EXCEPT !.left = @ \ {i}]

CreateAlert(a) ==
  /\ work[a].at = "alert"
  /\ \E i \in work[a].left :
     /\ sensorAlerts' = Append(sensorAlerts, [product |-> work[a].row.product, device |-> work[a].row.device,
                                  threshold |-> i, level |-> thresholds[i].level,
                                  reading |-> work[a].reading,
                                  acknowledged |-> FALSE, resolved |-> FALSE])
     /\ Next1(a, AlertsLeft(a, i))
     /\ UNCHANGED <<sensors, thresholds, readings, summaries>>

\* The reading is an error of the request; the errors after it are dropped.
ReadingFails(a) ==
  \/ work[a].at \in {"insert", "check"} /\ Fault(a, AtRest)
  \/ work[a].at = "alert" /\ \E i \in work[a].left : Fault(a, AlertsLeft(a, i))

------------------------------------------------------------------------------
(* Alerts, readings and summaries.                                         *)

AcknowledgeSensorAlert(a) ==
  /\ Single(a)
  /\ \E i \in DOMAIN sensorAlerts : sensorAlerts' = [sensorAlerts EXCEPT ![i].acknowledged = TRUE]
  /\ UNCHANGED <<sensors, thresholds, readings, summaries>>

ResolveSensorAlert(a) ==
  /\ Single(a)
  /\ \E i \in DOMAIN sensorAlerts : sensorAlerts' = [sensorAlerts EXCEPT ![i].resolved = TRUE]
  /\ UNCHANGED <<sensors, thresholds, readings, summaries>>

\* `product` and `resolved` are filters: every value, or one.
GetAlerts(product, resolved) ==
  {i \in DOMAIN sensorAlerts : sensorAlerts[i].product \subseteq product /\ sensorAlerts[i].resolved \in resolved}

GetReadings(devices, from, to) ==
  {i \in DOMAIN readings : readings[i].row.device \in devices /\ readings[i].row.stamp \in from .. to}

\* generate_summary: statistics of the readings, then a count of the alerts, then the row.
GenerateSummary(a, d, from, to) ==
  LET found == GetReadings({d}, from, to)
  IN /\ BeginWork(a, [at |-> "count", device |-> d, total |-> Cardinality(found),
                  anomalies |-> Cardinality({i \in found : readings[i].anomaly})])
     /\ UNCHANGED sensorVars

CountSensorAlerts(a) ==
  /\ work[a].at = "count"
  /\ Next1(a, [at |-> "summary", device |-> work[a].device, total |-> work[a].total,
               anomalies |-> work[a].anomalies,
               alerts |-> Cardinality({i \in DOMAIN sensorAlerts : sensorAlerts[i].device = work[a].device})])
  /\ UNCHANGED sensorVars

UpsertSummary(a) ==
  /\ work[a].at = "summary"
  /\ summaries' = [summaries EXCEPT ![work[a].device] =
                     <<work[a].total, work[a].anomalies, work[a].alerts>>]
  /\ Next1(a, AtRest)
  /\ UNCHANGED <<sensors, thresholds, readings, sensorAlerts>>

SummaryFails(a) == work[a].at \in {"count", "summary"} /\ Fault(a, AtRest)

ReadingStep(a) ==
  \/ \E row \in ReadingRows : CreateReading(a, row)
  \/ InsertReading(a) \/ CheckThresholds(a) \/ CreateAlert(a) \/ ReadingFails(a)

SensorStep(a) ==
  \/ ReadingStep(a)
  \/ \E d \in Sensor : CreateDevice(a, d) \/ GenerateSummary(a, d, 1, 2)
  \/ \E row \in ThresholdRows : CreateThreshold(a, row)
  \/ AcknowledgeSensorAlert(a) \/ ResolveSensorAlert(a)
  \/ CountSensorAlerts(a) \/ UpsertSummary(a) \/ SummaryFails(a)

SensorInit ==
  /\ sensors \in SUBSET Sensor
  /\ thresholds = <<>> /\ sensorAlerts = <<>>
  /\ readings \in {<<>>} \union
       {<<[row |-> r, anomaly |-> CheckAnomaly(r), before |-> {}]>> :
          r \in {q \in ReadingRows : q.device \in sensors}}
  /\ summaries = [d \in Sensor |-> <<>>]
  /\ work = [a \in Agent |-> AtRest]
  /\ iotTally = [calls |-> 0, faults |-> 0, crossed |-> FALSE]

SensorNext == \E a \in Agent : SensorStep(a)

SensorSpec == SensorInit /\ [][SensorNext]_<<sensorVars, work, iotTally>>

------------------------------------------------------------------------------

(***************************************************************************)
(* A breach is heard of: unless a statement has failed, a reading of a     *)
(* product for which nothing is left to do has one alert for each          *)
(* threshold on its product or its device that was there before it and     *)
(* that it breaches, whatever other requests did meanwhile, and get_alerts *)
(* finds it among those of the product.  The first reading beyond a        *)
(* threshold is a breach: the column duration_minutes, which the migration *)
(* comments "How long threshold must be breached to trigger alert", is     *)
(* stored and never looked at.                                             *)
(***************************************************************************)
EveryBreachAlerted ==
  iotTally.faults = 0 =>
    \A i \in DOMAIN readings :
      LET row == readings[i].row
          over == \A a \in Agent : work[a].at \in {"check", "alert"} => work[a].reading # i
      IN row.product # {} /\ over =>
           \A t \in readings[i].before :
             /\ \/ t \in UNION {GetThresholds(p) : p \in row.product}
                \/ thresholds[t].device = {row.device}
             /\ Breached(thresholds[t], row.temp)
             => Cardinality({n \in GetAlerts(row.product, BOOLEAN) :
                               sensorAlerts[n].reading = i /\ sensorAlerts[n].threshold = t}) = 1
=============================================================================
