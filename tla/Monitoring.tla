----------------------------- MODULE Monitoring -----------------------------
(***************************************************************************)
(* Monitoring in the memory of a process (monitoring.rs): errors of the    *)
(* last hour with their rate, response times with their percentiles, the   *)
(* state of the pool and of Redis, and the alerter with its cooldown.      *)
(* Each kind of figure is behind a lock of its own; a check of the alerts  *)
(* takes one after the other, and others write in between.                 *)
(*                                                                         *)
(* A rate is the number of errors per hour, the thresholds are rates too.  *)
(* Dashboards and lists, which only read, averages, correlation ids and    *)
(* the figures nothing decides by are left out.  AppState holds a          *)
(* MonitoringSystem, but nothing records into it, and each request to look *)
(* at one makes its own.                                                   *)
(***************************************************************************)
EXTENDS Integers, Sequences, FiniteSets, FiniteSetsExt, Functions, Filtering

CONSTANTS
  Watcher,        \* tasks that check for alerts
  ErrorCode,      \* error codes
  CriticalCode,   \* critical_error_codes
  CheckedCode,    \* the code check_alerts asks about
  AlertRate,      \* error_rate_threshold
  Cooldown, Hour,
  NeverAlerted,   \* last_alert of a new alerter
  ResponseTimes,  \* response times that are recorded
  ResponseCap,    \* how many of them are kept
  Percentiles,    \* the two that are computed
  PoolUsages, PoolAlert,
  MaxMonitored,   \* bound on calls
  MaxClock        \* bound on the clock

ASSUME MonitoringAssumption ==
  /\ IsFiniteSet(ErrorCode) /\ CriticalCode \subseteq ErrorCode /\ CheckedCode \in ErrorCode
  /\ Cooldown \in Nat /\ Hour \in Nat \ {0} /\ ResponseCap \in Nat \ {0}
  /\ ResponseTimes \subseteq Nat /\ Percentiles \subseteq 0 .. 100
  /\ NeverAlerted \notin Nat

VARIABLES
  faults,      \* ErrorMetrics: counts by code, recent ones with their times, rate
  latency,     \* PerformanceMetrics of one endpoint
  infra,       \* InfrastructureMetrics: pool usage, Redis
  lastAlert,   \* last_alert of the alerter
  watching,    \* what each task is doing
  clock,
  monitored,   \* calls so far
  struck,      \* history: times of the errors since their last reset
  served,      \* history: response times since their last reset
  alertLog,    \* history: alerts triggered, about what and when
  checksMet    \* history: two checks were between their look and their mark

monitorVars == <<faults, latency, infra, lastAlert, watching, clock, monitored,
                 struck, served, alertLog, checksMet>>
alerterVars == <<lastAlert, watching, alertLog, checksMet>>

Call == monitored < MaxMonitored /\ monitored' = monitored + 1

Resting == [at |-> "rest"]

------------------------------------------------------------------------------
(* Errors. *)

NoErrors == [counts |-> [c \in ErrorCode |-> 0], recent |-> <<>>, rate |-> 0]

WithinHour(recent) == Kept(recent, {e \in Range(recent) : e.at > clock - Hour})

RecordError(code) ==
  /\ Call
  /\ LET recent == WithinHour(Append(faults.recent, [code |-> code, at |-> clock]))
     IN  faults' = [counts |-> [faults.counts EXCEPT ![code] = @ + 1],
                    recent |-> recent, rate |-> Len(recent)]
  /\ struck' = Append(struck, clock)
  /\ UNCHANGED <<latency, infra, clock, served>> /\ UNCHANGED alerterVars

ResetErrors ==
  /\ Call
  /\ faults' = NoErrors /\ struck' = <<>>
  /\ UNCHANGED <<latency, infra, clock, served>> /\ UNCHANGED alerterVars

------------------------------------------------------------------------------
(* Response times. *)

NoLatency == [count |-> 0, times |-> <<>>, at |-> [q \in Percentiles |-> 0]]

LastOf(times) ==
  IF Len(times) > ResponseCap THEN SubSeq(times, Len(times) - ResponseCap + 1, Len(times)) ELSE times

\* sorted_times[(len * q) as usize], the last one at most.
Percentile(q, times) ==
  LET n == Len(times)
      index == IF (n * q) \div 100 < n THEN (n * q) \div 100 ELSE n - 1
  IN  CHOOSE t \in ResponseTimes :
        /\ Cardinality({i \in 1 .. n : times[i] < t}) <= index
        /\ index < Cardinality({i \in 1 .. n : times[i] <= t})

RecordRequest(t) ==
  /\ Call
  /\ LET times == LastOf(Append(latency.times, t))
     IN  latency' = [count |-> latency.count + 1, times |-> times,
                     at |-> [q \in Percentiles |-> Percentile(q, times)]]
  /\ served' = Append(served, t)
  /\ UNCHANGED <<faults, infra, clock, struck>> /\ UNCHANGED alerterVars

ResetRequests ==
  /\ Call
  /\ latency' = NoLatency /\ served' = <<>>
  /\ UNCHANGED <<faults, infra, clock, struck>> /\ UNCHANGED alerterVars

------------------------------------------------------------------------------
(* The pool and Redis. *)

UpdatePool(usage) ==
  /\ Call
  /\ infra' = [infra EXCEPT !.pool = usage]
  /\ UNCHANGED <<faults, latency, clock, struck, served>> /\ UNCHANGED alerterVars

UpdateRedis(connected) ==
  /\ Call
  /\ infra' = [infra EXCEPT !.redis = connected]
  /\ UNCHANGED <<faults, latency, clock, struck, served>> /\ UNCHANGED alerterVars
------------------------------------------------------------------------------
(* Alerts. *)

ShouldAlert(code, rate) == rate > AlertRate \/ code \in CriticalCode

monitorRest == <<faults, latency, infra, clock, struck, served>>

\* check_alerts reads the errors, ...
CheckErrors(w) ==
  /\ Call
  /\ watching[w] = Resting
  /\ watching' = [watching EXCEPT ![w] = [at |-> "infra", rate |-> faults.rate]]
  /\ UNCHANGED <<lastAlert, alertLog, checksMet>> /\ UNCHANGED monitorRest

\* ... then the infrastructure, and asks the alerter.
CheckInfra(w) ==
  /\ watching[w].at = "infra"
  /\ watching' = [watching EXCEPT ![w] =
       [at |-> IF ShouldAlert(CheckedCode, watching[w].rate) THEN "look" ELSE "others",
        seen |-> infra]]
  /\ UNCHANGED <<lastAlert, alertLog, checksMet, monitored>> /\ UNCHANGED monitorRest

\* Mutant: the last instant of the cooldown counts as over.
CooledEarly(last) == last = NeverAlerted \/ clock - last >= Cooldown - 1

Cooled(last) == last = NeverAlerted \/ clock - last >= Cooldown

\* check_cooldown looks under the read lock and lets go of it, ...
Look(w) ==
  /\ watching[w].at = "look"
  /\ watching' = [watching EXCEPT ![w].at = IF Cooled(lastAlert) THEN "mark" ELSE "others"]
  /\ checksMet' = (checksMet \/ (Cooled(lastAlert) /\ \E v \in Watcher : watching[v].at = "mark"))
  /\ UNCHANGED <<lastAlert, alertLog, monitored>> /\ UNCHANGED monitorRest

\* ... and marks the time under the write lock; the alert follows.
Mark(w) ==
  /\ watching[w].at = "mark"
  /\ lastAlert' = clock
  /\ alertLog' = Append(alertLog, [about |-> "rate", at |-> clock])
  /\ watching' = [watching EXCEPT ![w].at = "others"]
  /\ UNCHANGED <<checksMet, monitored>> /\ UNCHANGED monitorRest

\* The pool and Redis are alerted about without a look at the cooldown.
CheckOthers(w) ==
  /\ watching[w].at = "others"
  /\ LET seen == watching[w].seen
         pool == IF seen.pool > PoolAlert THEN <<[about |-> "pool", at |-> clock]>> ELSE <<>>
         redis == IF ~seen.redis THEN <<[about |-> "redis", at |-> clock]>> ELSE <<>>
     IN  alertLog' = alertLog \o pool \o redis
  /\ watching' = [watching EXCEPT ![w] = Resting]
  /\ UNCHANGED <<lastAlert, checksMet, monitored>> /\ UNCHANGED monitorRest

MonitorTick ==
  /\ clock < MaxClock
  /\ clock' = clock + 1
  /\ UNCHANGED <<faults, latency, infra, monitored, struck, served>> /\ UNCHANGED alerterVars

------------------------------------------------------------------------------

MonitorInit ==
  /\ faults = NoErrors /\ latency = NoLatency
  /\ infra = [pool |-> 0, redis |-> FALSE]
  /\ lastAlert = NeverAlerted /\ watching = [w \in Watcher |-> Resting]
  /\ clock = 0 /\ monitored = 0
  /\ struck = <<>> /\ served = <<>> /\ alertLog = <<>> /\ checksMet = FALSE

MonitorNext ==
  \/ \E code \in ErrorCode : RecordError(code)
  \/ ResetErrors
  \/ \E t \in ResponseTimes : RecordRequest(t)
  \/ ResetRequests
  \/ \E usage \in PoolUsages : UpdatePool(usage)
  \/ \E connected \in BOOLEAN : UpdateRedis(connected)
  \/ \E w \in Watcher : CheckErrors(w) \/ CheckInfra(w) \/ Look(w) \/ Mark(w) \/ CheckOthers(w)
  \/ MonitorTick

MonitorSpec == MonitorInit /\ [][MonitorNext]_monitorVars

------------------------------------------------------------------------------

RateAlerts == Kept(alertLog, {a \in Range(alertLog) : a.about = "rate"})

CooldownKept ==
  ~checksMet => \A i \in 2 .. Len(RateAlerts) :
                  RateAlerts[i].at - RateAlerts[i - 1].at >= Cooldown

Counted(counts) == MapThenSumSet(LAMBDA code : counts[code], ErrorCode)

\* The rate falls with the next error only, not with time.
NoErrorMissed ==
  /\ faults.rate >= Cardinality({i \in DOMAIN struck : struck[i] > clock - Hour})
  /\ Counted(faults.counts) = Len(struck)

\* At least q of a hundred kept times are no longer than the percentile, at
\* most q of a hundred are shorter; those kept are the latest.
PercentilesOfTheLatest ==
  LET n == Len(latency.times)
  IN  /\ latency.times = SubSeq(served, Len(served) - n + 1, Len(served))
      /\ n = IF Len(served) < ResponseCap THEN Len(served) ELSE ResponseCap
      /\ n > 0 => \A q \in Percentiles :
           LET bound == latency.at[q]
           IN  /\ 100 * Cardinality({i \in 1 .. n : latency.times[i] <= bound}) >= q * n
               /\ 100 * Cardinality({i \in 1 .. n : latency.times[i] < bound}) <= q * n

(***************************************************************************)
(* What the monitors say is so, whatever is recorded and reset while       *)
(* alerts are checked: the rate never misses an error of the last hour and *)
(* the counts none at all; percentiles are those of the latest requests;   *)
(* and alerts about the rate are a cooldown apart, unless two checks       *)
(* looked before either had marked its alert (should_alert).               *)
(***************************************************************************)
MonitoringHoldsUp == CooldownKept /\ NoErrorMissed /\ PercentilesOfTheLatest

=============================================================================
