--------------------------- MODULE PredictiveRouting ---------------------------
(***************************************************************************)
(* Shipments and their anomaly scores                                      *)
(* (services/predictive_routing_service.rs and its handlers).  A place     *)
(* carries an anomaly signal; positions report signals; scoring reads the  *)
(* whole graph, scores the shipments one after the other, raises alerts    *)
(* and at last spreads the signals along the edges -- from the graph it    *)
(* read at the beginning, each statement on its own, while other callers   *)
(* report, score and spread.                                               *)
(*                                                                         *)
(* Signals and scores are percentages in integers, composite scores        *)
(* hundredths of a percent.  The time score of a shipment is any of a few: *)
(* it depends on the clock.  No statement of the backend takes a shipment  *)
(* out of transit, lowers a signal or writes a delay rate; edges that are  *)
(* disrupted are given.                                                    *)
(***************************************************************************)
EXTENDS Integers, Sequences, SequencesExt, FiniteSetsExt

CONSTANTS
  Caller, RouteId, Place,
  Unknown,         \* no node, no route
  Plans,           \* planned paths of new shipments
  DisruptedEdges,  \* edges marked as disrupted
  TimeScores,      \* time scores a shipment may have
  Reports,         \* signals that are reported
  MaxJobs, MaxFailures \* bounds on calls and on failing statements

ASSUME RoutingAssumption ==
  /\ Plans \subseteq Seq(Place) /\ TimeScores \subseteq 0 .. 100
  /\ Reports \subseteq 0 .. 100 /\ DisruptedEdges \subseteq Place \X Place
  /\ Unknown \notin 0 .. 100

VARIABLES
  nodes,      \* route_nodes: the signal of each known place
  edges,      \* route_edges
  routes,     \* shipment_routes, all in transit
  scores,     \* the latest anomaly_scores row of each route
  alerts,     \* routing_alerts, oldest first
  exports,    \* routing_export_log: how many are pending and completed
  job,        \* what each caller is doing
  jobs, failures,
  reported,   \* history: the greatest signal reported at a place
  warned,     \* history: routes a caller scored as high and went on from, since an
              \* alert of theirs was last closed or an hour went by
  jobsOverlapped  \* history: two callers were at work together

routingVars == <<nodes, edges, routes, scores, alerts, exports, job, jobs, failures, reported, warned, jobsOverlapped>>
tables == <<nodes, edges, routes, scores, alerts, exports, reported, warned>>

NoJob == [at |-> "idle"]
Put(c, fields) == job' = [job EXCEPT ![c] = fields]
GoOn(c, at) == Put(c, [job[c] EXCEPT !.at = at])
Done(c) == Put(c, NoJob)

HighThreshold == 6000
CriticalThreshold == 8500

------------------------------------------------------------------------------
(* The graph a scorer has read, and what it computes from it.              *)

Known(g) == {p \in Place : g.nodes[p] # Unknown}

Touching(g, p) == {e \in g.edges : p \in {e[1], e[2]}}
Peer(e, p) == IF e[1] = p THEN e[2] ELSE e[1]

\* One neighbour for every edge whose other end was read.
NeighbourEdges(g, p) == {e \in Touching(g, p) : Peer(e, p) \in Known(g)}

SignalSum(g, p) == MapThenSumSet(LAMBDA e : g.nodes[Peer(e, p)], NeighbourEdges(g, p))

MeanSignal(g, p) ==
  LET es == NeighbourEdges(g, p)
  IN IF es = {} THEN 0 ELSE SignalSum(g, p) \div Cardinality(es)

AtMost100(x) == IF x > 100 THEN 100 ELSE x
Greatest(S) == IF S = {} THEN 0 ELSE Max(S)

\* The rest of the planned path, from the current place if it is on it.
HopsLeft(r) ==
  LET i == IF r.current \in Range(r.planned) THEN CHOOSE k \in DOMAIN r.planned : r.planned[k] = r.current ELSE 1
  IN SubSeq(r.planned, i, Len(r.planned))

Disrupted(g, r) ==
  \E i \in 1 .. Len(HopsLeft(r)) - 1 :
    <<HopsLeft(r)[i], HopsLeft(r)[i + 1]>> \in g.edges \cap DisruptedEdges

Deviations(r) == Len(SelectSeq(r.actual, LAMBDA p : p \notin Range(r.planned)))

ExtractFeatures(g, r, time) ==
  [time |-> time, deviations |-> Deviations(r), disrupted |-> Disrupted(g, r),
   iot |-> Greatest({g.nodes[p] : p \in Range(r.actual) \cap Known(g)}),
   neighbour |-> MeanSignal(g, r.current)]

ComputeScore(f) ==
  LET path == AtMost100(AtMost100(20 * f.deviations) + IF f.disrupted THEN 30 ELSE 0)
  IN  [path |-> path, iot |-> f.iot,
       composite |-> 35 * f.time + 25 * path + 20 * f.iot + 20 * f.neighbour]

RiskLevel(composite) ==
  CASE composite >= 8500 -> "critical" [] composite >= 6000 -> "high"
    [] composite >= 3500 -> "medium" [] OTHER -> "low"

AlertOf(route, s) ==
  [route |-> route, status |-> "open", recent |-> TRUE,
   type |-> CASE s.composite >= CriticalThreshold -> "critical_risk" [] s.iot >= 70 -> "env_anomaly"
              [] s.path >= 60 -> "route_disruption" [] OTHER -> "delay_predicted"]

------------------------------------------------------------------------------
(* Calls.                                                                  *)

BeginJob(c, fields) ==
  /\ job[c] = NoJob
  /\ jobs < MaxJobs /\ jobs' = jobs + 1
  /\ jobsOverlapped' = (jobsOverlapped \/ \E d \in Caller : job[d] # NoJob)
  /\ Put(c, fields)
  /\ UNCHANGED <<tables, failures>>

Proceeds(c, at) == job[c].at = at /\ UNCHANGED <<jobs, failures, jobsOverlapped>>

\* A statement fails and the call with it.
Fail(c) ==
  /\ job[c] # NoJob
  /\ failures < MaxFailures /\ failures' = failures + 1
  /\ Done(c)
  /\ UNCHANGED <<tables, jobs, jobsOverlapped>>

(* create_shipment_route: nodes and edges along the path, then the route.  *)
(* (The destination's node comes first; nothing sees a node before an edge.) *)
CreateShipmentRoute(c, r, plan) ==
  routes[r] = Unknown /\ BeginJob(c, [at |-> "upsert", route |-> r, plan |-> plan, next |-> 1])

Upsert(signals, p) == IF signals[p] = Unknown THEN [signals EXCEPT ![p] = 0] ELSE signals

UpsertPath(c) ==
  LET j == job[c]
  IN  /\ Proceeds(c, "upsert")
      /\ nodes' = Upsert(nodes, j.plan[j.next])
      /\ edges' = IF j.next = 1 THEN edges ELSE edges \union {<<j.plan[j.next - 1], j.plan[j.next]>>}
      /\ Put(c, IF j.next = Len(j.plan) THEN [j EXCEPT !.at = "insert"] ELSE [j EXCEPT !.next = @ + 1])
      /\ UNCHANGED <<routes, scores, alerts, exports, reported, warned>>

NewRoute(plan) == [planned |-> plan, actual |-> <<>>, current |-> plan[1], status |-> "in_transit"]

InsertRoute(c) ==
  LET j == job[c]
  IN  /\ Proceeds(c, "insert")
      /\ routes[j.route] = Unknown
      /\ routes' = [routes EXCEPT ![j.route] = NewRoute(j.plan)]
      /\ Done(c)
      /\ UNCHANGED <<nodes, edges, scores, alerts, exports, reported, warned>>

(* update_position: the node, the route, the signal if there is one; then  *)
(* the shipment is scored.                                                 *)
UpdatePosition(c, r, p, signal) ==
  BeginJob(c, [at |-> "move", route |-> r, place |-> p, signal |-> signal])

ScoreOne(r) == [at |-> "load", all |-> FALSE, todo |-> <<r>>, graph |-> [nodes |-> nodes, edges |-> {}]]

Move(c) ==
  LET j == job[c]
  IN  /\ Proceeds(c, "move")
      /\ nodes' = Upsert(nodes, j.place)
      /\ routes' = [routes EXCEPT ![j.route] =
                      IF @ = Unknown THEN @
                      ELSE [@ EXCEPT !.current = j.place, !.actual = Append(@, j.place)]]
      /\ Put(c, IF j.signal = Unknown THEN ScoreOne(j.route) ELSE [j EXCEPT !.at = "merge"])
      /\ UNCHANGED <<edges, scores, alerts, exports, reported, warned>>

Merge(c) ==
  LET j == job[c]
  IN  /\ Proceeds(c, "merge")
      /\ nodes' = [nodes EXCEPT ![j.place] = Max({@, j.signal})]
      /\ reported' = [reported EXCEPT ![j.place] = Max({@, j.signal})]
      /\ Put(c, ScoreOne(j.route))
      /\ UNCHANGED <<edges, routes, scores, alerts, exports, warned>>

------------------------------------------------------------------------------
(* score_shipment and score_all_in_transit.                                *)

ScoreShipment(c, r) == BeginJob(c, ScoreOne(r))

ScoreAllInTransit(c) ==
  BeginJob(c, [at |-> "load", all |-> TRUE, todo |-> <<>>, graph |-> [nodes |-> nodes, edges |-> {}]])

LoadGraph(c) ==
  /\ \/ Proceeds(c, "load") /\ Put(c, [job[c] EXCEPT !.at = "edges", !.graph.nodes = nodes])
     \/ Proceeds(c, "edges") /\ Put(c, [job[c] EXCEPT !.at = "routes", !.graph.edges = edges])
  /\ UNCHANGED tables

\* One route that is not there is an error; a route is scored as it was read,
\* and the routes in transit come in any order.
LoadRoutes(c) ==
  LET j == job[c]
      found == {r \in (IF j.all THEN RouteId ELSE Range(j.todo)) :
                  routes[r] # Unknown /\ (j.all => routes[r].status = "in_transit")}
  IN  /\ Proceeds(c, "routes")
      /\ IF found = {} /\ ~j.all THEN Done(c)
         ELSE \E ids \in SetToSeqs(found) :
                Put(c, [at |-> "score", all |-> j.all, graph |-> j.graph,
                        todo |-> [i \in DOMAIN ids |-> [id |-> ids[i], row |-> routes[ids[i]]]]])
      /\ UNCHANGED tables

\* What follows a route: the next one, if all are scored.
NextRoute(j) ==
  IF j.all THEN [at |-> "score", all |-> TRUE, graph |-> j.graph, todo |-> Tail(j.todo)] ELSE NoJob

PersistScore(c) ==
  LET j == job[c]
  IN  /\ Proceeds(c, "score") /\ j.todo # <<>>
      /\ \E time \in TimeScores :
           LET s == ComputeScore(ExtractFeatures(j.graph, Head(j.todo).row, time))
           IN  /\ scores' = [scores EXCEPT ![Head(j.todo).id] = s.composite]
               /\ Put(c, IF s.composite >= HighThreshold
                            THEN [at |-> "count", all |-> j.all, graph |-> j.graph, todo |-> j.todo, score |-> s]
                            ELSE NextRoute(j))
      /\ UNCHANGED <<nodes, edges, routes, alerts, exports, reported, warned>>

\* Mutant: the query for their number always returns a row, and that there is one is enough.
RowReturned(r) == r \in RouteId

OpenAlert(r) == \E i \in DOMAIN alerts : alerts[i].route = r /\ alerts[i].status = "open" /\ alerts[i].recent

\* generate_alert: one that is open, and not an hour old, is enough.
CountAlerts(c) ==
  LET r == Head(job[c].todo).id
  IN  /\ Proceeds(c, "count")
      /\ IF OpenAlert(r)
           THEN Put(c, NextRoute(job[c])) /\ warned' = warned \union {r}
           ELSE GoOn(c, "alert") /\ UNCHANGED warned
      /\ UNCHANGED <<nodes, edges, routes, scores, alerts, exports, reported>>

InsertAlert(c) ==
  LET r == Head(job[c].todo).id
  IN  /\ Proceeds(c, "alert")
      /\ alerts' = Append(alerts, AlertOf(r, job[c].score))
      /\ warned' = warned \union {r}
      /\ Put(c, NextRoute(job[c]))
      /\ UNCHANGED <<nodes, edges, routes, scores, exports, reported>>

\* Mutant: a place takes the mean of its neighbours, even a lower one.
SpreadMean(g, p) == (MeanSignal(g, p) * 8) \div 10

Spread(g, p) == Max({g.nodes[p], (MeanSignal(g, p) * 8) \div 10})

\* propagate_graph_signals: one UPDATE for each place that was read and has neighbours.
Propagate(c) ==
  LET j == job[c]  g == j.graph
      todo == {p \in Known(g) : NeighbourEdges(g, p) # {}}
  IN  /\ \/ /\ Proceeds(c, "score") /\ j.all /\ j.todo = <<>>
            /\ Put(c, [at |-> "spread", graph |-> g, places |-> todo])
            /\ UNCHANGED nodes
         \/ /\ Proceeds(c, "spread")
            /\ IF j.places = {} THEN Done(c) /\ UNCHANGED nodes
               ELSE \E p \in j.places :
                      /\ nodes' = [nodes EXCEPT ![p] = Spread(g, p)]
                      /\ Put(c, [j EXCEPT !.places = @ \ {p}])
      /\ UNCHANGED <<edges, routes, scores, alerts, exports, reported, warned>>

------------------------------------------------------------------------------
(* Alerts, exports, the clock.                                             *)

Outside == UNCHANGED <<nodes, edges, routes, scores, exports, job, jobs, failures, reported, jobsOverlapped>>

\* Whatever state the alert is in.
Closed(i, status) ==
  /\ alerts' = [alerts EXCEPT ![i].status = status]
  /\ warned' = warned \ {alerts[i].route} /\ Outside

AcknowledgeAlert(i) == Closed(i, "acknowledged")
ResolveAlert(i) == Closed(i, "resolved")

HourPasses ==
  /\ alerts' = [i \in DOMAIN alerts |-> [alerts[i] EXCEPT !.recent = FALSE]]
  /\ warned' = {} /\ Outside

ActiveAlerts == {i \in DOMAIN alerts : alerts[i].status \in {"open", "acknowledged"}}
HighRisk == {r \in RouteId : scores[r] # Unknown /\ RiskLevel(scores[r]) \in {"high", "critical"}}

\* export_training_data: the log entry first, its completion at last.
ExportTrainingData(c) == BeginJob(c, [at |-> "log"])

Export(c) ==
  /\ \/ Proceeds(c, "log") /\ GoOn(c, "complete") /\ exports' = [exports EXCEPT !.pending = @ + 1]
     \/ /\ Proceeds(c, "complete") /\ Done(c)
        /\ exports' = [pending |-> exports.pending - 1, completed |-> exports.completed + 1]
  /\ UNCHANGED <<nodes, edges, routes, scores, alerts, reported, warned>>

\* Nothing, or one shipment that was created and not moved or scored yet.
RoutingInit ==
  /\ \/ /\ nodes = [p \in Place |-> Unknown] /\ edges = {}
        /\ routes = [r \in RouteId |-> Unknown]
     \/ \E s \in RouteId, plan \in Plans :
          /\ nodes = [p \in Place |-> IF p \in Range(plan) THEN 0 ELSE Unknown]
          /\ edges = {<<plan[i], plan[i + 1]>> : i \in 1 .. Len(plan) - 1}
          /\ routes = [r \in RouteId |-> IF r = s THEN NewRoute(plan) ELSE Unknown]
  /\ scores = [r \in RouteId |-> Unknown]
  /\ alerts = <<>> /\ exports = [pending |-> 0, completed |-> 0]
  /\ job = [c \in Caller |-> NoJob] /\ jobs = 0 /\ failures = 0
  /\ reported = [p \in Place |-> 0] /\ warned = {} /\ jobsOverlapped = FALSE

Work(c) ==
  \/ \E r \in RouteId : ScoreShipment(c, r) \/ \E plan \in Plans : CreateShipmentRoute(c, r, plan)
  \/ \E r \in RouteId, p \in Place, s \in Reports \union {Unknown} : UpdatePosition(c, r, p, s)
  \/ ScoreAllInTransit(c) \/ ExportTrainingData(c)
  \/ UpsertPath(c) \/ InsertRoute(c) \/ Move(c) \/ Merge(c) \/ LoadGraph(c) \/ LoadRoutes(c)
  \/ PersistScore(c) \/ CountAlerts(c) \/ InsertAlert(c) \/ Propagate(c) \/ Export(c) \/ Fail(c)

RoutingNext ==
  \/ \E c \in Caller : Work(c)
  \/ \E i \in DOMAIN alerts : AcknowledgeAlert(i) \/ ResolveAlert(i)
  \/ HourPasses

RoutingSpec == RoutingInit /\ [][RoutingNext]_routingVars

------------------------------------------------------------------------------

(***************************************************************************)
(* Every signal goes back to a report, and no report is forgotten.         *)
(* Spreading dampens: however calls interleave, no place shows more than   *)
(* the greatest signal that was reported anywhere.  And a place keeps at   *)
(* least what was reported there -- as long as no two calls are at work    *)
(* together: spreading writes what it read before the shipments were       *)
(* scored, over a signal that was merged since.                            *)
(***************************************************************************)
SignalsTraceReports ==
  \A p \in Place : nodes[p] # Unknown =>
    /\ nodes[p] <= Greatest(Range(reported))
    /\ ~jobsOverlapped => nodes[p] >= reported[p]

(***************************************************************************)
(* A high score is not passed over: when a scorer has found a shipment's   *)
(* score high and gone on, that shipment has an open alert of the last     *)
(* hour, until an alert of it is closed or an hour goes by -- and after    *)
(* that the next high score raises another --, whichever alerts of other   *)
(* shipments are open.  Any open alert will do: a comment in               *)
(* generate_alert says "skip if an open alert of the same type exists",    *)
(* but its query has no type, and a critical score raises nothing beside   *)
(* an open alert of a delay.                                               *)
(***************************************************************************)
HighScoreAlerted ==
  \A r \in warned :
    \E i \in DOMAIN alerts : alerts[i].route = r /\ alerts[i].status = "open" /\ alerts[i].recent
=============================================================================
