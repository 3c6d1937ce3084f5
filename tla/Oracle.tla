-------------------------------- MODULE Oracle --------------------------------
(***************************************************************************)
(* The oracle contract (oracle.rs), for one feed: feeds share nothing but  *)
(* the admin and the timelock.  Every report recomputes the snapshot from  *)
(* the fresh reports of all reporters; a recomputation that finds neither  *)
(* consensus nor anything to fall back on fails, and with it the whole     *)
(* transaction.  The feed's type, the proof hash (all-zero hashes are      *)
(* refused) and the submission time, which nothing reads, are left out.    *)
(***************************************************************************)
EXTENDS Integers, Sequences, FiniteSets, FiniteSetsExt

CONSTANTS
  Address,    \* accounts that may be the admin or the timelock
  Reporter,   \* accounts that report
  None,       \* an absent storage entry
  Values,     \* values that are reported
  Stakes,     \* stakes sources are registered with
  Configs,    \* feed configurations the controllers choose from
  Fallbacks,  \* values and times of observation of the fallback they set
  Bps,        \* basis points of the whole (10_000)
  U32,        \* one more than u32::MAX
  MaxRounds,  \* bound on the number of reports
  MaxTime     \* bound on the ledger clock

FeedConfig ==
  [min_value : Int, max_value : Int, max_age : Nat, min_sources : Nat, max_deviation : Nat]

ASSUME OracleAssumption ==
  /\ IsFiniteSet(Reporter) /\ None \notin Address
  /\ Values \subseteq Int /\ Stakes \subseteq Int /\ Configs \subseteq FeedConfig
  /\ Fallbacks \subseteq [value : Int, observed_at : Nat]
  /\ Bps \in Nat \ {0} /\ U32 \in Nat \ {0} /\ MaxRounds \in Nat /\ MaxTime \in Nat
  /\ None \notin FeedConfig
  /\ None \notin [value : Int, observed_at : Nat, source_count : Nat]

VARIABLES
  o_admin,    \* DataKey::Admin
  o_timelock, \* DataKey::TimelockContract
  config,     \* DataKey::OracleFeedConfig
  sources,    \* DataKey::OracleFeedSources and OracleSource, by registered reporter
  reports,    \* DataKey::OracleReport, by reporter that has one
  snapshot,   \* DataKey::OracleSnapshot
  fallback,   \* DataKey::OracleFallback
  broken,     \* DataKey::OracleCircuitBreaker
  o_now,      \* ledger timestamp
  rounds      \* history: reports accepted so far

control == <<o_admin, o_timelock, config>>

o_vars == <<control, sources, reports, snapshot, fallback, broken, o_now, rounds>>

OracleSource == [stake : Nat, reward_points : Nat, slash_count : Nat]
OracleReport == [value : Int, observed_at : Nat]
OracleSnapshot == [value : Int, observed_at : Nat, source_count : Nat]

------------------------------------------------------------------------------

RequireController(a) == o_admin # None /\ a \in {o_admin, o_timelock}

ValidFeedConfig(c) ==
  /\ c.min_value <= c.max_value
  /\ c.max_age # 0 /\ c.min_sources # 0 /\ c.max_deviation # 0

InRange(v) == config.min_value <= v /\ v <= config.max_value

\* The bound on the age of a report, on submission and at every recomputation.
NotTooOld(t) == t <= o_now /\ o_now - t <= config.max_age

Fresh(rep) == {r \in DOMAIN rep : NotTooOld(rep[r].observed_at) /\ InRange(rep[r].value)}

\* Division of i128: toward zero.
Half(x) == IF x < 0 THEN -((-x) \div 2) ELSE x \div 2

\* Value i of the sorted ones: fewer than i are less, and no fewer are at most that.
IsRanked(v, i, R, rep) ==
  /\ Cardinality({r \in R : rep[r].value < v}) < i
  /\ Cardinality({r \in R : rep[r].value <= v}) >= i

SortedValues(R, rep) ==
  [i \in 1 .. Cardinality(R) |-> CHOOSE v \in {rep[r].value : r \in R} : IsRanked(v, i, R, rep)]

\* Mutant: the index of the middle is that of the element before it.
MedianBelow(s) ==
  LET mid == Len(s) \div 2
  IN  IF Len(s) % 2 = 1 THEN s[IF mid = 0 THEN 1 ELSE mid] ELSE Half(s[mid] + s[mid + 1])

Median(s) ==
  LET mid == Len(s) \div 2
  IN  IF Len(s) % 2 = 1 THEN s[mid + 1] ELSE Half(s[mid] + s[mid + 1])

Abs(x) == IF x < 0 THEN -x ELSE x

\* Mutant: the deviation of a value from itself is not zero.
DeviationPlusOne(v, ref) == ((Abs(v - ref) * Bps) \div Abs(IF ref = 0 THEN 1 ELSE ref) + Bps) % U32

\* The quotient is cast to 32 bits: a huge deviation wraps around.
DeviationBps(v, ref) ==
  IF ref = 0 THEN IF v = 0 THEN 0 ELSE U32 - 1
  ELSE ((Abs(v - ref) * Bps) \div Abs(ref)) % U32

Reward(s) == [s EXCEPT !.reward_points = @ + 1]

Slash(s) == [s EXCEPT !.slash_count = @ + 1, !.stake = IF @ > 1 THEN @ - 1 ELSE 0]

HasFallback == snapshot # None \/ fallback # None

\* Err(OracleFallbackUnavailable), without it, undoes the transaction.
FallBack ==
  /\ HasFallback
  /\ broken' = TRUE
  /\ UNCHANGED snapshot

Enough(R) == Cardinality(R) >= config.min_sources

\* recompute_snapshot, on the reports as they now are.
Recompute(rep) ==
  LET F == Fresh(rep)
      reference == Median(SortedValues(F, rep))
      accepted == {r \in F : DeviationBps(rep[r].value, reference) <= config.max_deviation}
  IN  \/ /\ ~Enough(F)
         /\ FallBack
         /\ UNCHANGED sources
      \/ /\ Enough(F)
         /\ sources' = [r \in DOMAIN sources |->
                          IF r \in accepted THEN Reward(sources[r])
                          ELSE IF r \in F THEN Slash(sources[r])
                          ELSE sources[r]]
         /\ \/ ~Enough(accepted) /\ FallBack
            \/ /\ Enough(accepted)
               /\ snapshot' = [value |-> Median(SortedValues(accepted, rep)),
                               observed_at |-> Max({rep[r].observed_at : r \in accepted}),
                               source_count |-> Cardinality(accepted)]
               /\ broken' = FALSE

------------------------------------------------------------------------------

OracleInit(admin) ==
  /\ o_admin = None
  /\ o_admin' = admin
  /\ UNCHANGED <<o_timelock, config, sources, reports, snapshot, fallback, broken, o_now, rounds>>

SetTimelockContract(caller, t) ==
  /\ RequireController(caller)
  /\ o_timelock' = t
  /\ UNCHANGED <<o_admin, config, sources, reports, snapshot, fallback, broken, o_now, rounds>>

\* What was stored under an earlier configuration stays.
ConfigureFeed(caller, c) ==
  /\ RequireController(caller)
  /\ ValidFeedConfig(c)
  /\ config' = c
  /\ UNCHANGED <<o_admin, o_timelock, sources, reports, snapshot, fallback, broken, o_now, rounds>>

RegisterSource(caller, r, stake) ==
  /\ RequireController(caller)
  /\ config # None
  /\ stake > 0
  /\ r \notin DOMAIN sources
  /\ sources' = [x \in DOMAIN sources \union {r} |->
                   IF x = r THEN [stake |-> stake, reward_points |-> 0, slash_count |-> 0]
                   ELSE sources[x]]
  /\ UNCHANGED <<control, reports, snapshot, fallback, broken, o_now, rounds>>

\* The time of the observation is the caller's, and nothing checks it.
SetFallbackValue(caller, f) ==
  /\ RequireController(caller)
  /\ config # None
  /\ InRange(f.value)
  /\ fallback' = [value |-> f.value, observed_at |-> f.observed_at, source_count |-> 0]
  /\ UNCHANGED <<control, sources, reports, snapshot, broken, o_now, rounds>>

\* A reporter's report replaces its earlier one, also when it observed later.
SubmitReport(r, v, observed_at) ==
  LET rep == [x \in DOMAIN reports \union {r} |->
                IF x = r THEN [value |-> v, observed_at |-> observed_at] ELSE reports[x]]
  IN  /\ rounds < MaxRounds
      /\ config # None
      /\ r \in DOMAIN sources
      /\ InRange(v)
      /\ NotTooOld(observed_at)
      /\ reports' = rep
      /\ Recompute(rep)
      /\ rounds' = rounds + 1
      /\ UNCHANGED <<control, fallback, o_now>>

\* The snapshot get_feed_value serves as it is; nobody looks at the flag.
Servable == snapshot # None /\ o_now - snapshot.observed_at <= config.max_age

\* get_feed_value writes the flag when it has to fall back.
GetFeedValue ==
  /\ config # None
  /\ ~Servable
  /\ FallBack
  /\ UNCHANGED <<control, sources, reports, fallback, o_now, rounds>>

ClearCircuitBreaker(caller) ==
  /\ RequireController(caller)
  /\ broken' = FALSE
  /\ UNCHANGED <<control, sources, reports, snapshot, fallback, o_now, rounds>>

OracleTick ==
  /\ o_now < MaxTime
  /\ o_now' = o_now + 1
  /\ UNCHANGED <<control, sources, reports, snapshot, fallback, broken, rounds>>

Init ==
  /\ o_admin = None /\ o_timelock = None /\ config = None
  /\ sources = <<>> /\ reports = <<>>
  /\ snapshot = None /\ fallback = None
  /\ broken = FALSE
  /\ o_now = 0 /\ rounds = 0

Next ==
  \/ \E a \in Address : OracleInit(a)
  \/ \E c, t \in Address : SetTimelockContract(c, t)
  \/ \E a \in Address, c \in Configs : ConfigureFeed(a, c)
  \/ \E a \in Address, r \in Reporter, s \in Stakes : RegisterSource(a, r, s)
  \/ \E a \in Address, f \in Fallbacks : SetFallbackValue(a, f)
  \/ \E r \in Reporter, v \in Values, t \in 0 .. MaxTime : SubmitReport(r, v, t)
  \/ GetFeedValue
  \/ \E a \in Address : ClearCircuitBreaker(a)
  \/ OracleTick

Spec == Init /\ [][Next]_o_vars

------------------------------------------------------------------------------

\* v lies within the allowed deviation from ref, the quotient rounded down.
\* From zero everything else deviates by u32::MAX.
Within(v, ref) ==
  IF ref = 0 THEN v = 0 \/ config.max_deviation >= U32 - 1
  ELSE Abs(v - ref) * Bps < (config.max_deviation + 1) * Abs(ref)

\* No deviation of a fresh report is too large for 32 bits.
NoWrap(F, rep) ==
  \A v \in {rep[r].value : r \in F} :
    LET ref == Median(SortedValues(F, rep))
    IN  ref # 0 => Abs(v - ref) * Bps < U32 * Abs(ref)

\* The value of a new snapshot is as near as configured to one between two that H reported.
NearWhatWasSaid(H, rep) ==
  LET said == {rep[r].value : r \in H}
  IN  \E ref \in Min(said) .. Max(said) : Within(snapshot'.value, ref)

BoundedStep ==
  snapshot' # snapshot /\ NoWrap(Fresh(reports'), reports') =>
    \A H \in SUBSET Fresh(reports') :
      2 * Cardinality(H) > Cardinality(Fresh(reports')) => NearWhatWasSaid(H, reports')

(***************************************************************************)
(* Whatever fewer than half of the fresh reporters say, a new snapshot is  *)
(* within the allowed deviation of a value between two that the others     *)
(* reported -- as long as no deviation is too large for 32 bits.           *)
(***************************************************************************)
MinorityBounded == [][BoundedStep]_o_vars

Agreeing(r, rep) == {x \in Fresh(rep) : rep[x].value = rep[r].value}

UnslashedStep ==
  \A r \in DOMAIN sources :
    sources'[r].slash_count > sources[r].slash_count =>
      /\ r \in Fresh(reports')
      /\ 2 * Cardinality(Agreeing(r, reports')) <= Cardinality(Fresh(reports'))

(***************************************************************************)
(* A reporter that says what most fresh reporters say is not slashed, in   *)
(* its own round or in any other's.                                        *)
(***************************************************************************)
AgreeingNotSlashed == [][UnslashedStep]_o_vars

=============================================================================
