----------------------------- MODULE RuleEngine -----------------------------
(***************************************************************************)
(* The rule engine of the backend (services/rule_engine.rs): rules in the  *)
(* order of their priorities, evaluated against an event with what is      *)
(* known of its product.  The actions of a rule that matches are carried   *)
(* out one after the other; a webhook may fail.  (main.rs adds the         *)
(* predefined rules and two handlers; nothing evaluates an event yet.)     *)
(*                                                                         *)
(* A JSON value is <<type, value>>; an event is a function from the fields *)
(* it has, with those of its product and the variables, to values.         *)
(* Floating-point numbers are integers, regular expressions and substrings *)
(* a constant relation; names and texts are left out.                      *)
(***************************************************************************)
EXTENDS Integers, Sequences, FiniteSets, SequencesExt, Filtering

CONSTANTS
  RuleChoices,  \* rules that are added, besides the predefined ones
  Events,       \* events that are evaluated
  Words,        \* strings, in their order
  Resembles,    \* pairs of a string and a pattern it contains or matches
  MaxRules      \* bound on rules ever added

\* An event has a type; what a JSON value says it is, it is.
ASSUME RuleEngineAssumption ==
  /\ Words \in Seq(Range(Words)) /\ \A i, j \in DOMAIN Words : Words[i] = Words[j] => i = j
  /\ {"QUALITY_CHECK", "SHIP"} \subseteq Range(Words)
  /\ \A event \in Events :
       /\ "event_type" \in DOMAIN event /\ \E w \in Range(Words) : event.event_type = <<"string", w>>
       /\ \A field \in DOMAIN event :
            /\ event[field][1] = "bool" => event[field][2] \in BOOLEAN
            /\ event[field][1] = "number" => event[field][2] \in Int
  /\ \A rule \in RuleChoices : rule.priority \in Int /\ rule.actions \in Seq(Range(rule.actions))

VARIABLES
  rules,        \* rules, as they are evaluated
  handlers,     \* action types with a handler
  judged,       \* the last evaluation: its event, rules and results
  added         \* history: number of rules added

engine_vars == <<rules, handlers, judged, added>>

Null == <<"null">>
Str(w) == <<"string", w>>

FieldValue(event, field) == IF field \in DOMAIN event THEN event[field] ELSE Null

Rank(w) == CHOOSE i \in DOMAIN Words : Words[i] = w

Sign(n) == IF n > 0 THEN 1 ELSE IF n < 0 THEN -1 ELSE 0

BoolToInt(b) == IF b THEN 1 ELSE 0

\* Values of different types, and of other types, compare as equal.
CompareValues(a, b) ==
  IF a[1] # b[1] THEN 0
  ELSE CASE a[1] = "string" -> Sign(Rank(a[2]) - Rank(b[2]))
         [] a[1] = "number" -> Sign(a[2] - b[2])
         [] a[1] = "bool" -> BoolToInt(a[2]) - BoolToInt(b[2])
         [] OTHER -> 0

StringContains(value, pattern) ==
  value[1] = "string" /\ pattern[1] = "string" /\ <<value[2], pattern[2]>> \in Resembles

ValueInArray(value, array) ==
  array[1] = "array" /\ \E i \in DOMAIN array[2] : array[2][i] = value

EvaluateCondition(c, event) ==
  LET value == FieldValue(event, c.field)
  IN  \/ c.operator = "Equals" /\ CompareValues(value, c.value) = 0
      \/ c.operator = "NotEquals" /\ CompareValues(value, c.value) # 0
      \/ c.operator = "GreaterThan" /\ CompareValues(value, c.value) > 0
      \/ c.operator = "LessThan" /\ CompareValues(value, c.value) < 0
      \/ c.operator = "GreaterThanOrEqual" /\ CompareValues(value, c.value) >= 0
      \/ c.operator = "LessThanOrEqual" /\ CompareValues(value, c.value) <= 0
      \/ c.operator \in {"Contains", "Matches"} /\ StringContains(value, c.value)
      \/ c.operator = "NotContains" /\ ~StringContains(value, c.value)
      \/ c.operator = "In" /\ ValueInArray(value, c.value)
      \/ c.operator = "NotIn" /\ ~ValueInArray(value, c.value)

EvaluateConditionGroup(rule, event) ==
  IF rule.any THEN \E i \in DOMAIN rule.conditions : EvaluateCondition(rule.conditions[i], event)
  ELSE \A i \in DOMAIN rule.conditions : EvaluateCondition(rule.conditions[i], event)

Condition(field, operator, value) == [field |-> field, operator |-> operator, value |-> value]

\* get_default_rules
QualityCheckFailure ==
  [id |-> "quality-check-failure", enabled |-> TRUE, priority |-> 100, any |-> FALSE,
   conditions |-> <<Condition("event_type", "Equals", Str("QUALITY_CHECK")),
                    Condition("passed", "Equals", <<"bool", FALSE>>)>>,
   actions |-> <<"alert">>]
ShipmentDelay ==
  [id |-> "shipment-delay", enabled |-> TRUE, priority |-> 80, any |-> FALSE,
   conditions |-> <<Condition("event_type", "Equals", Str("SHIP")),
                    Condition("delayed", "Equals", <<"bool", TRUE>>)>>,
   actions |-> <<"alert", "tag">>]
TemperatureExcursion ==
  [id |-> "temperature-excursion", enabled |-> TRUE, priority |-> 95, any |-> TRUE,
   conditions |-> <<Condition("temperature", "GreaterThan", <<"number", 25>>),
                    Condition("temperature", "LessThan", <<"number", 2>>)>>,
   actions |-> <<"alert">>]

PredefinedRules == {QualityCheckFailure, ShipmentDelay, TemperatureExcursion}

------------------------------------------------------------------------------

\* add_rule sorts the rules, of which all but the last are sorted; the sort is
\* stable.  Nothing keeps ids apart.
AddRule(rule) ==
  /\ added < MaxRules
  /\ added' = added + 1
  /\ LET before == Cardinality({i \in DOMAIN rules : rules[i].rule.priority >= rule.priority})
     IN  rules' = InsertAt(rules, before + 1, [rule |-> rule, turn |-> added'])
  /\ UNCHANGED <<handlers, judged>>

\* The first rule of that id.
RemoveRule(id) ==
  /\ \E i \in DOMAIN rules :
       /\ rules[i].rule.id = id /\ \A j \in 1 .. i - 1 : rules[j].rule.id # id
       /\ rules' = RemoveAt(rules, i)
  /\ UNCHANGED <<handlers, judged, added>>

RegisterHandler(type) ==
  /\ handlers' = handlers \union {type}
  /\ UNCHANGED <<rules, judged, added>>

Enabled(entries) == Kept(entries, {entry \in Range(entries) : entry.rule.enabled})

\* An action without a handler passes for executed; alerts do not fail.
ExecuteActions(rule, failing) ==
  Kept(rule.actions, {a \in Range(rule.actions) : ~(failing /\ a = "webhook" /\ a \in handlers)})

Result(rule, event, failing) ==
  LET matched == EvaluateConditionGroup(rule, event)
      executed == IF matched THEN ExecuteActions(rule, failing) ELSE <<>>
  IN  [matched |-> matched, executed |-> executed,
       error |-> matched /\ Len(executed) < Len(rule.actions)]

\* Mutant: a rule that fails ends the evaluation.
ResultsUntilError(event, failing) ==
  LET results == [i \in DOMAIN Enabled(rules) |-> Result(Enabled(rules)[i].rule, event, failing[i])]
      failed == {i \in DOMAIN results : results[i].error}
  IN  IF failed = {} THEN results ELSE SubSeq(results, 1, CHOOSE i \in failed : \A j \in failed : i <= j)

Results(event, failing) ==
  [i \in DOMAIN Enabled(rules) |-> Result(Enabled(rules)[i].rule, event, failing[i])]

Evaluate(event) ==
  /\ \E failing \in [DOMAIN Enabled(rules) -> BOOLEAN] :
       judged' = <<[event |-> event, entries |-> rules, results |-> Results(event, failing)]>>
  /\ UNCHANGED <<rules, handlers, added>>

EngineInit ==
  /\ rules = <<>> /\ handlers = {} /\ judged = <<>> /\ added = 0

EngineNext ==
  \/ \E rule \in RuleChoices \union PredefinedRules : AddRule(rule)
  \/ \E i \in DOMAIN rules : RemoveRule(rules[i].rule.id)
  \/ \E type \in {"alert", "webhook"} : RegisterHandler(type)
  \/ \E event \in Events : Evaluate(event)

EngineSpec == EngineInit /\ [][EngineNext]_engine_vars

------------------------------------------------------------------------------

\* What the descriptions of the predefined rules say of an event that has the fields they read.
HasBool(event, field) == FieldValue(event, field)[1] = "bool"
Described(rule, event) ==
  CASE rule = QualityCheckFailure -> event.event_type = Str("QUALITY_CHECK") /\ ~event.passed[2]
    [] rule = ShipmentDelay -> event.event_type = Str("SHIP") /\ event.delayed[2]
    [] rule = TemperatureExcursion ->
         FieldValue(event, "temperature")[1] = "number" /\ event.temperature[2] \notin 2 .. 25
Describable(rule, event) ==
  \/ rule = QualityCheckFailure /\ HasBool(event, "passed")
  \/ rule = ShipmentDelay /\ HasBool(event, "delayed")
  \/ rule = TemperatureExcursion /\ FieldValue(event, "temperature")[1] \in {"number", "null"}

(***************************************************************************)
(* An evaluation judges by every rule that was enabled, the higher         *)
(* priority first and of two alike the one added first, whatever was added *)
(* and removed and whichever action failed; what a rule that matches asks  *)
(* for is done but for webhooks that fail.  The predefined rules match     *)
(* what their descriptions say, if the event has the fields they read:     *)
(* without them a comparison for equality holds.                           *)
(***************************************************************************)
RulesJudgeEvents ==
  judged # <<>> =>
    LET event == judged[1].event
        results == judged[1].results
        asked == Enabled(judged[1].entries)
    IN  /\ \A i \in 1 .. Len(asked) - 1 :
             LET a == asked[i]  b == asked[i + 1] IN
             \/ a.rule.priority > b.rule.priority
             \/ a.rule.priority = b.rule.priority /\ a.turn < b.turn
        /\ Len(results) = Len(asked)
        /\ \A i \in DOMAIN results :
             LET rule == asked[i].rule IN
             /\ Describable(rule, event) => results[i].matched = Described(rule, event)
             /\ \A n \in DOMAIN rule.actions :
                  rule.actions[n] # "webhook" /\ results[i].matched =>
                    rule.actions[n] \in {results[i].executed[k] : k \in DOMAIN results[i].executed}

==============================================================================
