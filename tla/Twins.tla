-------------------------------- MODULE Twins --------------------------------
(***************************************************************************)
(* Digital twins (services/digital_twin_service.rs), the health the        *)
(* physics model computes for them (services/physics_model_service.rs,     *)
(* handlers/physics_model.rs), and the synchronisation that copies the     *)
(* newest reading of a sensor into a twin                                  *)
(* (services/iot_twin_sync_service.rs).                                    *)
(*                                                                         *)
(* A twin's JSON state is a function from keys to <<kind, value>>: a       *)
(* Decimal is written as text, and text is not read back as a number.      *)
(* Clients write any object; JSON that is none is left out.  The decay     *)
(* model has its default parameters; results of simulations and            *)
(* predictions, which the code makes up, and the Monte Carlo run, which    *)
(* writes nothing, are left out.                                           *)
(***************************************************************************)
EXTENDS SensorReadings, Functions, Filtering

CONSTANTS
  SyncLoop,       \* the agent of start_sync_loop; the others call trigger_sync
  TwinId,
  SyncFrequency,  \* [sync types in use -> ticks]
  HealthScore,    \* [<<temperature, humidity, ticks>> -> percent]: exp(-rate * hours)
  ClientStates,   \* the states clients write, as functions below
  HistoryCap,     \* entries of health_history that are kept: 100 in the code
  MaxTicks        \* bound on the clock

\* Times can be compared; there are finitely many devices.
ASSUME TwinAssumption ==
  /\ SyncLoop \in Agent /\ IsFiniteSet(Sensor) /\ HistoryCap \in Nat
  /\ \A r \in ReadingRows : r.stamp \in Int

VARIABLES
  twins,       \* digital_twins, or NoTwin; history: synced, the time of the reading that
               \* synchronisation last wrote the time of, as a set
  twinStates,  \* twin_states of each twin
  metrics,     \* twin_health_metrics of each twin: <<type, value, severity>>
  syncs,       \* iot_twin_sync: when each <<device, twin, type>> was last synchronised
  sims,        \* the status of each twin's simulation, or "none"
  forecasts,   \* predictions of each twin: the accuracy of the one there is, as a set, or "none"
  audits,      \* prediction_accuracy_audit of each twin
  ticks

twinTables == <<twins, twinStates, metrics, syncs, sims, forecasts, audits>>
twinVars == <<sensors, thresholds, readings, sensorAlerts, summaries, work, iotTally,
              twins, twinStates, metrics, syncs, sims, forecasts, audits, ticks>>

NoTwin == [state |-> <<>>, health |-> <<>>, since |-> -1, synced |-> {}]
Created(state, when) == [state |-> state, health |-> <<>>, since |-> when, synced |-> {}]

\* old || new, of JSON objects.
Overwritten(old, new) ==
  [k \in DOMAIN old \union DOMAIN new |-> IF k \in DOMAIN new THEN new[k] ELSE old[k]]

BusyOn(a, t) == work[a] # AtRest /\ "twin" \in DOMAIN work[a] /\ work[a].twin = t

\* Calls on twins note whether two of them are under way together.
BeginOn(a, t, job) ==
  /\ work[a] = AtRest /\ iotTally.calls < MaxIotCalls
  /\ work' = [work EXCEPT ![a] = job]
  /\ iotTally' = [iotTally EXCEPT !.calls = @ + 1,
                                  !.crossed = @ \/ \E b \in Agent : BusyOn(b, t)]
  /\ UNCHANGED sensorVars

Onward(a, at) == Next1(a, [work[a] EXCEPT !.at = at]) /\ UNCHANGED sensorVars
End(a) == Next1(a, AtRest) /\ UNCHANGED sensorVars

------------------------------------------------------------------------------
(* digital_twin_service.rs.                                                *)

CreateTwin(a, t, state) ==
  /\ Single(a) /\ twins[t] = NoTwin
  /\ twins' = [twins EXCEPT ![t] = Created(state, ticks)]
  /\ UNCHANGED sensorVars /\ UNCHANGED <<twinStates, metrics, syncs, sims, forecasts, audits, ticks>>

\* update_twin_state replaces the state and records it.
UpdateTwinState(a, t, state) ==
  /\ BeginOn(a, t, [at |-> "record", state |-> state, source |-> "client", twin |-> t])
  /\ twins' = IF twins[t] = NoTwin THEN twins ELSE [twins EXCEPT ![t].state = state]
  /\ UNCHANGED <<twinStates, metrics, syncs, sims, forecasts, audits, ticks>>

\* INSERT INTO twin_states, of a client or of a synchronisation.
RecordState(a) ==
  /\ work[a].at = "record"
  /\ LET t == work[a].twin IN
     /\ twinStates' = IF twins[t] = NoTwin THEN twinStates
                      ELSE [twinStates EXCEPT ![t] = Append(@, <<work[a].source, work[a].state>>)]
     /\ IF work[a].source = "client" THEN End(a) ELSE Onward(a, "stamp")
     /\ UNCHANGED <<twins, metrics, syncs, sims, forecasts, audits, ticks>>

CreateSimulation(a, t) ==
  /\ Single(a) /\ twins[t] # NoTwin /\ sims[t] = "none"
  /\ sims' = [sims EXCEPT ![t] = "pending"]
  /\ UNCHANGED sensorVars /\ UNCHANGED <<twins, twinStates, metrics, syncs, forecasts, audits, ticks>>

\* Whatever its status.
RunSimulation(a, t) ==
  /\ BeginOn(a, t, [at |-> "execute", twin |-> t])
  /\ sims' = IF sims[t] = "none" THEN sims ELSE [sims EXCEPT ![t] = "running"]
  /\ UNCHANGED <<twins, twinStates, metrics, syncs, forecasts, audits, ticks>>

ExecuteSimulation(a) ==
  /\ work[a].at = "execute"
  /\ IF sims[work[a].twin] = "none" THEN End(a) ELSE Onward(a, "complete")
  /\ UNCHANGED twinTables /\ UNCHANGED ticks

CompleteSimulation(a) ==
  /\ work[a].at = "complete"
  /\ sims' = [sims EXCEPT ![work[a].twin] = "completed"]
  /\ End(a)
  /\ UNCHANGED <<twins, twinStates, metrics, syncs, forecasts, audits, ticks>>

CreatePrediction(a, t) ==
  /\ Single(a) /\ twins[t] # NoTwin /\ forecasts[t] = {}
  /\ forecasts' = [forecasts EXCEPT ![t] = {"none"}]
  /\ UNCHANGED sensorVars /\ UNCHANGED <<twins, twinStates, metrics, syncs, sims, audits, ticks>>

\* audit_prediction_accuracy: the audit, then the prediction it is about.
AuditAccuracy(a, t, accuracy) ==
  /\ forecasts[t] # {}
  /\ BeginOn(a, t, [at |-> "accuracy", accuracy |-> accuracy, twin |-> t])
  /\ audits' = [audits EXCEPT ![t] = Append(@, accuracy)]
  /\ UNCHANGED <<twins, twinStates, metrics, syncs, sims, forecasts, ticks>>

UpdatePrediction(a) ==
  /\ work[a].at = "accuracy"
  /\ forecasts' = [forecasts EXCEPT ![work[a].twin] = {work[a].accuracy}]
  /\ End(a)
  /\ UNCHANGED <<twins, twinStates, metrics, syncs, sims, audits, ticks>>

------------------------------------------------------------------------------
(* physics_model_service.rs.                                               *)

\* Decimals are text in a JSON state, and as_f64 of text is nothing.
AsNumber(state, key, default) ==
  IF key \in DOMAIN state /\ state[key][1] = "number" THEN state[key][2] ELSE default

\* Of a request, or of a synchronisation that has more to do.
Computing(t, temp, humidity, hours, sync, todo) ==
  [at |-> "health", twin |-> t, temp |-> temp, humidity |-> humidity,
   score |-> HealthScore[<<temp, humidity, hours>>], sync |-> sync, todo |-> todo, seen |-> <<>>]

\* Also a handler of its own.
CalculateHealthScore(a, t, temp, humidity, hours) ==
  /\ BeginOn(a, t, Computing(t, temp, humidity, hours, <<>>, {}))
  /\ UNCHANGED twinTables /\ UNCHANGED ticks

ReadHealthHistory(a) ==
  /\ work[a].at = "health"
  /\ IF twins[work[a].twin] = NoTwin THEN End(a)
     ELSE /\ Next1(a, [work[a] EXCEPT !.at = "write", !.seen = twins[work[a].twin].health])
          /\ UNCHANGED sensorVars
  /\ UNCHANGED twinTables /\ UNCHANGED ticks

\* Mutant: an entry goes as soon as the history is full.
KeepFewer(s) == IF Len(s) >= HistoryCap THEN SubSeq(s, Len(s) - HistoryCap + 2, Len(s)) ELSE s

KeepLast(s) == IF Len(s) > HistoryCap THEN SubSeq(s, Len(s) - HistoryCap + 1, Len(s)) ELSE s

UpdateTwinHealth(a) ==
  /\ work[a].at = "write"
  /\ twins' = [twins EXCEPT ![work[a].twin].health = KeepLast(Append(work[a].seen, work[a].score))]
  /\ Onward(a, "overall_health")
  /\ UNCHANGED <<twinStates, metrics, syncs, sims, forecasts, audits, ticks>>

Graded(value, normal, warning) ==
  IF value <= normal THEN "normal" ELSE IF value <= warning THEN "warning" ELSE "critical"

HealthSeverity(score) ==
  IF score >= 80 THEN "normal" ELSE IF score >= 60 THEN "warning" ELSE "critical"

\* The three inserts, each with the step after it.
MetricOf(job) ==
  CASE job.at = "overall_health"     -> <<job.at, job.score, HealthSeverity(job.score)>>
    [] job.at = "temperature_stress" -> <<job.at, job.temp, Graded(job.temp, 25, 30)>>
    [] job.at = "humidity_stress"    -> <<job.at, job.humidity, Graded(job.humidity, 60, 70)>>

StoreHealthMetrics(a) ==
  /\ work[a].at \in {"overall_health", "temperature_stress", "humidity_stress"}
  /\ metrics' = [metrics EXCEPT ![work[a].twin] = Append(@, MetricOf(work[a]))]
  /\ CASE work[a].at = "overall_health"     -> Onward(a, "temperature_stress")
       [] work[a].at = "temperature_stress" -> Onward(a, "humidity_stress")
       [] work[a].at = "humidity_stress"    -> IF work[a].sync = <<>> THEN End(a) ELSE Onward(a, "decay")
  /\ UNCHANGED <<twins, twinStates, syncs, sims, forecasts, audits, ticks>>

------------------------------------------------------------------------------
(* iot_twin_sync_service.rs.                                               *)

\* configure_iot_sync: a new row has been synchronised now; one that exists keeps its time.
ConfigureIotSync(a, d, t, type) ==
  /\ Single(a) /\ twins[t] # NoTwin
  /\ <<d, t, type>> \notin DOMAIN syncs
  /\ syncs' = Overwritten(syncs, [k \in {<<d, t, type>>} |-> ticks])
  /\ UNCHANGED sensorVars /\ UNCHANGED <<twins, twinStates, metrics, sims, forecasts, audits, ticks>>

\* The rows are read once, with the times they then have.
SyncBegins(a, due) ==
  /\ work[a] = AtRest /\ iotTally.calls < MaxIotCalls
  /\ work' = [work EXCEPT ![a] = [at |-> "pick", todo |-> {<<k, syncs[k]>> : k \in due}]]
  /\ iotTally' = [iotTally EXCEPT !.calls = @ + 1]
  /\ UNCHANGED sensorVars /\ UNCHANGED twinTables /\ UNCHANGED ticks

ProcessActiveSyncs == DOMAIN syncs # {} /\ SyncBegins(SyncLoop, DOMAIN syncs)

TriggerSync(a, d) ==
  LET due == {k \in DOMAIN syncs : k[1] = d}
  IN a # SyncLoop /\ due # {} /\ SyncBegins(a, due)

AfterSync(a, s) == IF work[a].todo = {s} THEN AtRest
                   ELSE [at |-> "pick", todo |-> work[a].todo \ {s}]

SyncTypes == {"temperature", "humidity", "quality", "decay"}

\* process_sync: a type it does not know is stamped all the same.
ProcessSync(a) ==
  /\ work[a].at = "pick"
  /\ \E s \in work[a].todo :
     IF ticks - s[2] < SyncFrequency[s[1][3]]
     THEN Next1(a, AfterSync(a, s))
     ELSE /\ work' = [work EXCEPT ![a] = [at |-> IF s[1][3] \in SyncTypes THEN s[1][3] ELSE "stamp",
                                          todo |-> work[a].todo, sync |-> s, twin |-> s[1][2]]]
          /\ iotTally' = [iotTally EXCEPT
               !.crossed = @ \/ \E b \in Agent : BusyOn(b, s[1][2])]
  /\ UNCHANGED sensorVars /\ UNCHANGED twinTables /\ UNCHANGED ticks

OfDevice(d) == {i \in DOMAIN readings : readings[i].row.device = d}

\* Mutant: the reading that was inserted last.
LastInserted(d) == {i \in OfDevice(d) : \A j \in OfDevice(d) : j <= i}

\* ORDER BY reading_timestamp DESC LIMIT 1.
Newest(d) == {i \in OfDevice(d) : \A j \in OfDevice(d) : readings[j].row.stamp <= readings[i].row.stamp}

\* json! of columns: NULL becomes null, a Decimal and a time become text.
Json(row) ==
  [c \in DOMAIN row |-> IF row[c] = {} THEN <<"null", 0>> ELSE <<"text", CHOOSE v \in row[c] : TRUE>>]

\* What a synchronisation of the type merges; {} when it has nothing to merge.
Merged(type, r) ==
  CASE type = "temperature" ->
         {Json([temperature |-> {r.temp}, last_reading_at |-> {r.stamp},
                humidity |-> r.humidity, quality_score |-> r.quality])}
    [] type = "humidity" ->
         {Json([last_humidity_reading_at |-> {r.stamp}, humidity |-> r.humidity])}
    [] type = "quality" ->
         IF r.quality = {} THEN {}
         ELSE {Json([last_quality_reading_at |-> {r.stamp}, quality_score |-> r.quality])}

\* sync_temperature, sync_humidity and sync_quality read the newest reading.
ReadNewest(a) ==
  /\ work[a].at \in {"temperature", "humidity", "quality"}
  /\ LET found == Newest(work[a].sync[1][1])
         Job(data) == [at |-> "merge", type |-> work[a].at, state |-> data, source |-> "sync",
                       twin |-> work[a].twin, sync |-> work[a].sync, todo |-> work[a].todo]
     IN \/ /\ \E i \in found : \E data \in Merged(work[a].at, readings[i].row) : Next1(a, Job(data))
           /\ UNCHANGED sensorVars
        \/ /\ found = {} \/ \E i \in found : Merged(work[a].at, readings[i].row) = {}
           /\ Onward(a, "stamp")
  /\ UNCHANGED twinTables /\ UNCHANGED ticks

LastReadingAt(state) ==
  IF "last_reading_at" \in DOMAIN state THEN {state["last_reading_at"][2]} ELSE {}

SyncedBy(state, before) == IF LastReadingAt(state) = {} THEN before ELSE LastReadingAt(state)

\* sync_temperature alone records it.
MergeState(a) ==
  /\ work[a].at = "merge"
  /\ twins' = [twins EXCEPT ![work[a].twin].state = Overwritten(@, work[a].state),
                            ![work[a].twin].synced = SyncedBy(work[a].state, @)]
  /\ Onward(a, IF work[a].type = "temperature" THEN "record" ELSE "stamp")
  /\ UNCHANGED <<twinStates, metrics, syncs, sims, forecasts, audits, ticks>>

SyncDecay(a) ==
  /\ work[a].at = "decay" /\ "score" \notin DOMAIN work[a]
  /\ LET twin == twins[work[a].twin]
     IN Next1(a, Computing(work[a].twin, AsNumber(twin.state, "temperature", 20),
                           AsNumber(twin.state, "humidity", 50),
                           ticks - twin.since, work[a].sync, work[a].todo))
  /\ UNCHANGED sensorVars /\ UNCHANGED twinTables /\ UNCHANGED ticks

MergeDecay(a) ==
  /\ work[a].at = "decay" /\ "score" \in DOMAIN work[a]
  /\ twins' = [twins EXCEPT ![work[a].twin].state =
                 Overwritten(@, [health_score |-> <<"number", work[a].score>>])]
  /\ Onward(a, "stamp")
  /\ UNCHANGED <<twinStates, metrics, syncs, sims, forecasts, audits, ticks>>

StampSync(a) ==
  /\ work[a].at = "stamp"
  /\ syncs' = [syncs EXCEPT ![work[a].sync[1]] = ticks]
  /\ Next1(a, AfterSync(a, work[a].sync)) /\ UNCHANGED sensorVars
  /\ UNCHANGED <<twins, twinStates, metrics, sims, forecasts, audits, ticks>>

\* The loop goes on with the next row; a request ends.
TwinFails(a) ==
  /\ work[a] # AtRest /\ "twin" \in DOMAIN work[a]
  /\ Fault(a, IF a = SyncLoop THEN AfterSync(a, work[a].sync) ELSE AtRest)
  /\ UNCHANGED twinTables /\ UNCHANGED ticks

------------------------------------------------------------------------------

Tick ==
  /\ ticks < MaxTicks /\ ticks' = ticks + 1
  /\ UNCHANGED sensorVars /\ UNCHANGED <<work, iotTally>> /\ UNCHANGED twinTables

TwinStep(a) ==
  \/ \E t \in TwinId : \E state \in ClientStates : UpdateTwinState(a, t, state) \/ CreateTwin(a, t, state)
  \/ \E t \in TwinId : CalculateHealthScore(a, t, 40, 50, 1)
  \/ \E d \in Sensor, t \in TwinId : \E type \in DOMAIN SyncFrequency : ConfigureIotSync(a, d, t, type)
  \/ \E d \in Sensor : TriggerSync(a, d)

\* Simulations and predictions have tables of their own.
RecordStep(a) ==
  \/ \E t \in TwinId : CreateSimulation(a, t) \/ RunSimulation(a, t) \/ CreatePrediction(a, t)
  \/ \E t \in TwinId : \E accuracy \in {"right", "wrong"} : AuditAccuracy(a, t, accuracy)
  \/ ExecuteSimulation(a) \/ CompleteSimulation(a) \/ UpdatePrediction(a) \/ TwinFails(a)

TwinWork(a) ==
  \/ RecordState(a)
  \/ ReadHealthHistory(a) \/ UpdateTwinHealth(a) \/ StoreHealthMetrics(a)
  \/ ProcessSync(a) \/ ReadNewest(a) \/ MergeState(a) \/ SyncDecay(a) \/ MergeDecay(a)
  \/ StampSync(a) \/ TwinFails(a)

TwinInit ==
  /\ SensorInit
  /\ twins \in [TwinId -> {NoTwin} \union {Created(state, 0) : state \in ClientStates}]
  /\ twinStates = [t \in TwinId |-> <<>>]
  /\ metrics = [t \in TwinId |-> <<>>]
  /\ syncs \in [{k \in Sensor \X TwinId \X DOMAIN SyncFrequency :
                   k[1] \in sensors /\ twins[k[2]] # NoTwin} -> {0}]
  /\ sims = [t \in TwinId |-> "none"]
  /\ forecasts = [t \in TwinId |-> {}]
  /\ audits = [t \in TwinId |-> <<>>]
  /\ ticks = 0

\* Of what sensors do, twins depend on the readings alone.
TwinNext ==
  \/ Tick
  \/ ProcessActiveSyncs
  \/ \E a \in Agent \ {SyncLoop} :
       \/ ReadingStep(a) /\ UNCHANGED twinTables /\ UNCHANGED ticks
       \/ TwinStep(a)
  \/ \E a \in Agent : TwinWork(a)

TwinSpec == TwinInit /\ [][TwinNext]_twinVars

------------------------------------------------------------------------------

(***************************************************************************)
(* Synchronisation never goes back in time: as long as no two calls on a   *)
(* twin have been under way together, what it writes into a twin that one  *)
(* sensor feeds is not older than what it wrote there before, in whatever  *)
(* order the readings arrive and whatever clients write in between, their  *)
(* own times included.  (The loop and a triggered synchronisation at once  *)
(* can write an older reading over a newer one.)                           *)
(***************************************************************************)
SerialTwinMovesOn ==
  [][\A t \in TwinId :
       /\ ~iotTally'.crossed
       /\ Cardinality({k[1] : k \in {l \in DOMAIN syncs : l[2] = t}}) = 1
       => \A old \in twins[t].synced : \A new \in twins'[t].synced : old <= new]_twinVars

(***************************************************************************)
(* What a twin remembers of its health is what was computed: unless a      *)
(* statement failed or two calls on the twin were under way together, its  *)
(* health_history holds the last scores of twin_health_metrics, as many as *)
(* are kept.  (Two computations at once read the same history, and the     *)
(* second write loses the entry of the first.)                             *)
(***************************************************************************)
SerialHistoryBacksMetrics ==
  ~iotTally.crossed /\ iotTally.faults = 0 =>
    \A t \in TwinId : (\A a \in Agent : ~BusyOn(a, t)) =>
      LET scores == Kept(metrics[t], {m \in Range(metrics[t]) : m[1] = "overall_health"})
          kept   == Len(twins[t].health)
      IN /\ kept = IF Len(scores) < HistoryCap THEN Len(scores) ELSE HistoryCap
         /\ \A i \in 0 .. kept - 1 : twins[t].health[kept - i] = scores[Len(scores) - i][2]
=============================================================================
