------------------------------ MODULE MCBackend ------------------------------
(***************************************************************************)
(* Small instances of the backend's services for TLC.  The run has parts,  *)
(* which share nothing: the carbon market; the audit log; access; routing; *)
(* sensors with the records of their twins; the twins; regulation; and the *)
(* rules.                                                                  *)
(***************************************************************************)
EXTENDS CarbonMarket, AuditTrail, Access, PredictiveRouting, Twins, Regulation, RuleEngine

CONSTANTS dev, crate

VARIABLE part

Alike == Permutations(Session) \union Permutations(KeyId)

\* Deliveries by sea: one that offsets a ton, and no other.
SomeFootprints == {[mode |-> "sea", distance |-> 100, weight |-> 1000, energy |-> "grid",
                    packaging |-> "minimal", hours |-> 0, baseline |-> 1050]}

SomeRequests == {[method |-> "GET", path |-> p, status |-> 200, address |-> "a"] :
                   p \in {"/products", "/health"}}

BasicLimit == [t \in Tiers |-> 60]

TwoPlaces == {"a", "b"}
OnePlan == {<<"a", "b">>}

\* One on the product, one on the device.
SomeThresholds ==
  {[product |-> crate, device |-> {}, type |-> "max", min |-> {}, max |-> {30}, level |-> "warning"],
   [product |-> crate, device |-> {dev}, type |-> "critical_min", min |-> {35}, max |-> {},
    level |-> "critical"]}

\* Of a product, and older; of none, and newer.
SomeReadings ==
  {[device |-> dev, product |-> {crate}, temp |-> 40, humidity |-> {65}, quality |-> {}, stamp |-> 1],
   [device |-> dev, product |-> {}, temp |-> 20, humidity |-> {}, quality |-> {1}, stamp |-> 2]}

\* Nothing, and a number with a time after all readings.
SomeStates ==
  {[k \in {} |-> k], [temperature |-> <<"number", 40>>, last_reading_at |-> <<"text", 3>>]}

Frequencies == ("temperature" :> 0) @@ ("decay" :> 1)

\* exp(-rate * hours) with the default parameters, for a tick of two days.
Scores == [x \in {20, 40} \X {50} \X (0 .. 1) |->
             IF x[3] = 0 THEN 100 ELSE IF x[1] = 20 THEN 62 ELSE 38]

\* All that a rule of the API asks for, within the EU and in time, and all but one field of it.
Filled(fields) ==
  [f \in fields |-> IF f = "data_location" THEN "EU" ELSE IF f = "cert_expiry" THEN "soon" ELSE "true"]
SomeData ==
  UNION {LET all == rule.fields \union Asks(rule.type) \union {"verified_by_auditor"}
         IN  {Filled(all \ {f}) : f \in all} : rule \in RulesOfTheAPI}
  \union {[Filled({"data_location", "consent"}) EXCEPT !["data_location"] = "US"],
          [Filled({"certification_body", "cert_expiry"}) EXCEPT !["cert_expiry"] = "past"]}

\* Of the operators, those the predefined rules leave out; and a rule that never runs.
SomeRules ==
  {[id |-> "paged", enabled |-> TRUE, priority |-> 95, any |-> TRUE, actions |-> <<"webhook", "tag">>,
    conditions |-> <<Condition("event_type", "Contains", Str("SHIP")),
                     Condition("category", "In", <<"array", <<Str("food")>>>>),
                     Condition("weight", "GreaterThanOrEqual", <<"number", 7>>)>>],
   [id |-> "paged", enabled |-> FALSE, priority |-> 95, any |-> FALSE, actions |-> <<"email">>,
    conditions |-> <<>>]}

EventOf(type, fields) == ("event_type" :> Str(type)) @@ fields

\* With the fields the rules read, without them, and with one of another type.
SomeEvents ==
  {EventOf("QUALITY_CHECK", "passed" :> <<"bool", FALSE>>),
   EventOf("QUALITY_CHECK", "category" :> Str("food")),
   EventOf("SHIP", ("delayed" :> <<"bool", TRUE>>) @@ ("temperature" :> <<"number", 1>>)),
   EventOf("SHIP", ("delayed" :> <<"bool", FALSE>>) @@ ("temperature" :> <<"number", 25>>)
                     @@ ("passed" :> Str("food")))}
SomeWords == <<"QUALITY_CHECK", "SHIP", "food">>
SomeMatches == {<<"SHIP", "SHIP">>}

\* A part that is not the run's stands still, at one of its initial states.  The log has a row
\* from before the chain; a purge can empty it.
MCInit ==
  /\ part \in {"market", "audit", "access", "routing", "sensors", "twins", "regulation", "rules"}
  /\ CarbonInit /\ AuditInit /\ AccessInit /\ RoutingInit /\ TwinInit
  /\ RegulationInit /\ EngineInit
  /\ part \notin {"sensors", "twins"} => sensors = {} /\ twins = [t \in TwinId |-> NoTwin]
  /\ part # "routing" => edges = {}
  /\ part = "audit" <=> auditRows # <<>>
  /\ part # "regulation" => goods = Good

OthersStill ==
  /\ part # "market" => UNCHANGED carbonVars
  /\ part # "audit" => UNCHANGED auditVars
  /\ part # "access" => UNCHANGED accessVars
  /\ part # "routing" => UNCHANGED routingVars
  /\ part \notin {"sensors", "twins"} => UNCHANGED twinVars
  /\ part # "regulation" => UNCHANGED regVars
  /\ part # "rules" => UNCHANGED engine_vars
  /\ UNCHANGED part

\* Of twins nothing is claimed once two calls have crossed.  Calls and failures have
\* a bound in common.
MCNext ==
  /\ \/ part = "market" /\ CarbonNext
     \/ part = "audit" /\ AuditNext
     \/ part = "access" /\ AccessNext
     \/ part = "routing" /\ RoutingNext /\ jobs' + failures' <= MaxJobs
     \/ part = "sensors" /\ SensorNext /\ UNCHANGED twinTables /\ UNCHANGED ticks
     \/ part = "sensors" /\ \E a \in Agent \ {SyncLoop} : RecordStep(a)
     \/ part = "twins" /\ ~iotTally.crossed /\ TwinNext
        /\ iotTally'.calls + iotTally'.faults <= MaxIotCalls
     \/ part = "regulation" /\ RegulationNext
     \/ part = "rules" /\ EngineNext
  /\ OthersStill

MCSpec == MCInit /\ [][MCNext]_<<carbonVars, auditVars, accessVars,
                                routingVars, twinVars, regVars, engine_vars, part>>
==============================================================================
