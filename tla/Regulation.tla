----------------------------- MODULE Regulation -----------------------------
(***************************************************************************)
(* Regulatory requirements and what products are found to comply with      *)
(* (services/regulatory_service.rs, compliance/validator.rs and rules.rs,  *)
(* handlers/compliance.rs).  A check of a product takes one requirement    *)
(* after the other: reads it, reads the product, validates, writes the     *)
(* verdict and an entry of the trail, each a statement of its own; a read  *)
(* that fails ends the check, a write that fails goes unnoticed.           *)
(*                                                                         *)
(* Data are functions of the fields given; a violation is the name of the  *)
(* field, as is a warning.  Names, severities, dates, notes and the        *)
(* tallies of an answer are left out.  Statements are taken to do what     *)
(* their text says.                                                        *)
(***************************************************************************)
EXTENDS Integers, Sequences, FiniteSets, Functions, Filtering

CONSTANTS
  Inspector,        \* clients
  Good,             \* products
  RequirementId,
  Regime,           \* words regulation_type is written with
  FieldChoices,     \* required_fields of a requirement
  DataChoices,      \* data brought to the API's check: functions of fields
  MaxRegCalls, MaxRegTroubles  \* bounds on calls, and on statements that fail

VARIABLES
  goods,         \* products: those that are there
  requirements,  \* regulatory_requirements
  compliance,    \* product_compliance: a row for each product and requirement, or NoVerdict
  trail,         \* compliance_audit_trail, in order
  reports,       \* compliance_reports: the last one
  told,          \* the API's last check: its rule, its data and its result
  inspection,    \* the check each client has in flight
  regTally       \* calls, troubles; history: a requirement changed during a check, or the
                 \* product it is of was created; verdicts older than their requirement

regVars == <<goods, requirements, compliance, trail, reports, told, inspection, regTally>>
regTables == <<goods, requirements, compliance, trail>>

NoRequirement == [word |-> "none", fields |-> {}, active |-> FALSE]
NoRule == [type |-> "none", fields |-> {}, active |-> FALSE]
NoVerdict == [status |-> "none", checked |-> FALSE]
IssuedRequirements == {r \in RequirementId : requirements[r] # NoRequirement}
NoInspection == [at |-> "rest", good |-> {}, left |-> {}, now |-> {}, rule |-> NoRule,
           status |-> "none"]

------------------------------------------------------------------------------
(***************************************************************************)
(* The validator.                                                          *)
(***************************************************************************)

MapRegulationType(word) ==
  CASE word = "gdpr" -> "GDPR"
    [] word \in {"fda", "fda_21_cfr_11"} -> "FDA21CFR11"
    [] word = "fsma" -> "FSMA"
    [] word = "conflict_minerals" -> "ConflictMinerals"
    [] word \in {"organic", "organic_certification"} -> "OrganicCertification"
    [] word = "soc2" -> "SOC2"
    [] word \in {"iso", "iso27001"} -> "ISO27001"
    [] OTHER -> "GDPR"

Missing(fields, data) == fields \ DOMAIN data

\* Data kept outside the EU, or without consent.
ValidateGdpr(data) ==
  [violations |-> Missing({"consent"}, data) \union
     {f \in {"data_location"} \intersect DOMAIN data : data[f] # "EU"},
   warnings |-> Missing({"right_to_be_forgotten_enabled"}, data)]

ValidateFda(data) ==
  [violations |-> Missing({"digital_signature", "signer_id", "timestamp"}, data), warnings |-> {}]

ValidateFsma(data) ==
  [violations |-> Missing({"origin", "processing_steps", "distribution"}, data), warnings |-> {}]

ValidateConflictMinerals(data) ==
  [violations |-> Missing({"mineral_source", "audit_report"}, data),
   warnings |-> IF "verified_by_auditor" \in DOMAIN data /\ data["verified_by_auditor"] = "true"
                THEN {} ELSE {"verified_by_auditor"}]

\* An expiry date in the past; one within 90 days warns; one that cannot be read does neither.
ValidateOrganic(data) ==
  LET expires(when) == {f \in {"cert_expiry"} \intersect DOMAIN data : data[f] = when}
  IN  [violations |-> Missing({"certification_body"}, data) \union expires("past"),
       warnings |-> expires("soon")]

Special(type, data) ==
  CASE type = "GDPR" -> ValidateGdpr(data)
    [] type = "FDA21CFR11" -> ValidateFda(data)
    [] type = "FSMA" -> ValidateFsma(data)
    [] type = "ConflictMinerals" -> ValidateConflictMinerals(data)
    [] type = "OrganicCertification" -> ValidateOrganic(data)
    [] OTHER -> [violations |-> {}, warnings |-> {}]

\* Mutant: only the regime's own fields are asked for.
ValidateSpecial(rule, data) ==
  LET special == Special(rule.type, data)
  IN  [is_compliant |-> special.violations = {}, violations |-> special.violations,
       warnings |-> special.warnings]

Validate(rule, data) ==
  LET special == Special(rule.type, data)
      violations == Missing(rule.fields, data) \union special.violations
  IN  [is_compliant |-> violations = {}, violations |-> violations, warnings |-> special.warnings]

GdprDataResidency == [type |-> "GDPR", fields |-> {"data_location", "consent"}, active |-> TRUE]
FdaElectronicSignature ==
  [type |-> "FDA21CFR11", fields |-> {"digital_signature", "signer_id"}, active |-> TRUE]
FsmaTraceability ==
  [type |-> "FSMA", fields |-> {"origin", "processing_steps", "distribution"}, active |-> TRUE]
ConflictMineralsDueDiligence ==
  [type |-> "ConflictMinerals", fields |-> {"mineral_source", "audit_report"}, active |-> TRUE]
OrganicCertification ==
  [type |-> "OrganicCertification", fields |-> {"certification_body", "cert_expiry"},
   active |-> TRUE]

RulesOfTheAPI == {GdprDataResidency, FdaElectronicSignature, FsmaTraceability,
                  ConflictMineralsDueDiligence, OrganicCertification}

NothingTold == [rule |-> NoRule, data |-> <<>>, is_compliant |-> FALSE]

\* POST /compliance/check: of the caller's data.  It reads and writes nothing the others do, so a
\* behaviour holds no other call.
CheckCompliance(rule, data) ==
  /\ regTally.calls = 0 /\ regTally' = [regTally EXCEPT !.calls = MaxRegCalls]
  /\ told' = [rule |-> rule, data |-> data, is_compliant |-> Validate(rule, data).is_compliant]
  /\ UNCHANGED regTables /\ UNCHANGED <<reports, inspection>>

------------------------------------------------------------------------------
(***************************************************************************)
(* Calls of one statement.                                                 *)
(***************************************************************************)

The(S) == CHOOSE x \in S : TRUE

Crossing == \E i \in Inspector : inspection[i] # NoInspection

Called ==
  /\ regTally.calls < MaxRegCalls
  /\ regTally' = [regTally EXCEPT !.calls = @ + 1]

CreateRequirement(r, word, fields) ==
  /\ r \notin IssuedRequirements /\ Called
  /\ requirements' = [requirements EXCEPT ![r] =
                         [word |-> word, fields |-> fields, active |-> TRUE]]
  /\ UNCHANGED <<goods, compliance, trail, reports, told, inspection>>

\* Whether it is active stays; the verdicts that name it stay as well.
UpdateRequirement(r, word, fields) ==
  /\ r \in IssuedRequirements /\ regTally.calls < MaxRegCalls
  /\ requirements' = [requirements EXCEPT
       ![r] = [word |-> word, fields |-> fields, active |-> @.active]]
  /\ regTally' = [regTally EXCEPT !.calls = @ + 1, !.crossed = @ \/ Crossing,
                    !.outdated = @ \union {<<g, r>> : g \in Good}]
  /\ UNCHANGED <<goods, compliance, trail, reports, told, inspection>>

\* UNIQUE (product_id, requirement_id), and both have to be there.
CreateProductCompliance(g, r, status) ==
  /\ g \in goods /\ r \in IssuedRequirements /\ compliance[<<g, r>>] = NoVerdict
  /\ Called
  /\ compliance' = [compliance EXCEPT ![<<g, r>>] = [status |-> status, checked |-> FALSE]]
  /\ UNCHANGED <<goods, requirements, trail, reports, told, inspection>>

Inspected(g) == \E i \in Inspector : inspection[i] # NoInspection /\ The(inspection[i].good) = g

\* INSERT INTO products, whose ids clients choose: also one that was there before.
GoodCreated(g) ==
  /\ g \in Good \ goods /\ regTally.calls < MaxRegCalls
  /\ goods' = goods \union {g}
  /\ regTally' = [regTally EXCEPT !.calls = @ + 1, !.crossed = @ \/ Inspected(g)]
  /\ UNCHANGED <<requirements, compliance, trail, reports, told, inspection>>

\* DELETE FROM products: ON DELETE CASCADE.
GoodGone(g) ==
  /\ g \in goods /\ Called
  /\ goods' = goods \ {g}
  /\ compliance' = [pair \in Good \X RequirementId |->
                      IF pair[1] = g THEN NoVerdict ELSE compliance[pair]]
  /\ trail' = Kept(trail, {entry \in Range(trail) : entry.good # g})
  /\ UNCHANGED <<requirements, reports, told, inspection>>

Checked == {pair \in DOMAIN compliance : compliance[pair].checked}

Verdicts(S) == {pair \in Checked : compliance[pair].status \in S}

\* The total counts products, the rest rows.
CalculateReportData ==
  [total |-> Cardinality({pair[1] : pair \in Checked}),
   compliant |-> Cardinality(Verdicts({"compliant"})),
   non_compliant |-> Cardinality(Verdicts({"non_compliant"})),
   pending |-> Cardinality(Verdicts({"pending"}))]

\* The rate is a percentage of products that rows are counted for, or none.
GenerateReport ==
  LET data == CalculateReportData
  IN  /\ Called
      /\ reports' = <<data, IF data.total > 0 THEN <<(100 * data.compliant) \div data.total>>
                                               ELSE <<>>>>
      /\ UNCHANGED regTables /\ UNCHANGED <<told, inspection>>

------------------------------------------------------------------------------
(***************************************************************************)
(* The check of a product, statement by statement.                         *)
(***************************************************************************)

InspectionBegins(c, at, g, left) ==
  /\ inspection[c] = NoInspection /\ Called
  /\ inspection' = [inspection EXCEPT ![c].at = at, ![c].good = {g}, ![c].left = left]
  /\ UNCHANGED regTables /\ UNCHANGED <<reports, told>>

\* Of the requirements the request names, or of all that are active.
RunComplianceCheck(c, g, ids) == ids # {} /\ InspectionBegins(c, "requirement", g, ids)
RunFullCheck(c, g) == InspectionBegins(c, "list", g, {})

InspectionEnds(c) == inspection' = [inspection EXCEPT ![c] = NoInspection]

RegTrouble ==
  /\ regTally.troubles < MaxRegTroubles
  /\ regTally' = [regTally EXCEPT !.troubles = @ + 1]

\* A statement of the check that reads: an error ends the check.
ReadOf(c, at, step) ==
  /\ inspection[c].at = at
  /\ \/ step /\ UNCHANGED regTally
     \/ InspectionEnds(c) /\ RegTrouble
  /\ UNCHANGED regTables /\ UNCHANGED <<reports, told>>

Going(check) ==
  IF check.left = {} THEN NoInspection
  ELSE [check EXCEPT !.at = "requirement", !.now = {}, !.rule = NoRule, !.status = "none"]

ListActive(c) ==
  ReadOf(c, "list", inspection' = [inspection EXCEPT ![c] =
    Going([inspection[c] EXCEPT !.left = {r \in IssuedRequirements : requirements[r].active}])])

RequirementToRule(row) ==
  [type |-> MapRegulationType(row.word), fields |-> row.fields, active |-> row.active]

\* One nobody has issued is pending in the answer.
GetRequirement(c) ==
  \E r \in inspection[c].left :
    LET rest == [inspection[c] EXCEPT !.left = @ \ {r}]
    IN  ReadOf(c, "requirement", inspection' = [inspection EXCEPT ![c] =
          IF r \in IssuedRequirements
          THEN [rest EXCEPT !.at = "product", !.now = {r},
                            !.rule = RequirementToRule(requirements[r])]
          ELSE Going(rest)])

ProductFields ==
  {"id", "name", "category", "origin_location", "certifications", "custom_fields", "tags"}

\* A column without a value is given all the same: it is null.
ProductData(g) == IF g \in goods THEN [f \in ProductFields |-> "given"] ELSE <<>>

GetProductData(c) ==
  LET check == inspection[c]
      result == Validate(check.rule, ProductData(The(check.good)))
  IN  ReadOf(c, "product", inspection' = [inspection EXCEPT ![c] =
        [check EXCEPT !.at = "verdict",
           !.status = IF result.is_compliant THEN "compliant" ELSE "non_compliant"]])

Subjects(check) == <<The(check.good), The(check.now)>>

\* An update alone: where no row was created none is written, and no error is told.
UpdateProductCompliance(c) ==
  LET check == inspection[c]
      pair == Subjects(check)
  IN  /\ check.at = "verdict"
      /\ \/ RegTrouble /\ UNCHANGED compliance
         \/ compliance[pair] = NoVerdict /\ UNCHANGED <<compliance, regTally>>
         \/ /\ compliance[pair] # NoVerdict
            /\ compliance' = [compliance EXCEPT ![pair] = [status |-> check.status, checked |-> TRUE]]
            /\ regTally' = [regTally EXCEPT !.outdated = @ \ {pair}]
      /\ inspection' = [inspection EXCEPT ![c].at = "trail"]
      /\ UNCHANGED <<goods, requirements, trail, reports, told>>

CreateAuditTrail(c) ==
  LET check == inspection[c]
      g == The(check.good)
  IN  /\ check.at = "trail"
      /\ \/ RegTrouble /\ UNCHANGED trail
         \/ g \notin goods /\ UNCHANGED <<trail, regTally>>
         \/ /\ g \in goods /\ UNCHANGED regTally
            /\ trail' = Append(trail, [good |-> g, requirement |-> The(check.now),
                                       status |-> check.status])
      /\ inspection' = [inspection EXCEPT ![c] = Going(check)]
      /\ UNCHANGED <<goods, requirements, compliance, reports, told>>

RegCallDropped(c) ==
  /\ inspection[c] # NoInspection /\ RegTrouble /\ InspectionEnds(c)
  /\ UNCHANGED regTables /\ UNCHANGED <<reports, told>>

------------------------------------------------------------------------------

RegulationInit ==
  /\ goods \in SUBSET Good
  /\ requirements = [r \in RequirementId |-> NoRequirement]
  /\ compliance = [pair \in Good \X RequirementId |-> NoVerdict]
  /\ trail = <<>> /\ reports = <<>> /\ told = NothingTold
  /\ inspection = [c \in Inspector |-> NoInspection]
  /\ regTally = [calls |-> 0, troubles |-> 0, crossed |-> FALSE, outdated |-> {}]

RegulationNext ==
  \/ \E r \in RequirementId, word \in Regime, fields \in FieldChoices :
       CreateRequirement(r, word, fields) \/ UpdateRequirement(r, word, fields)
  \/ \E g \in Good, r \in RequirementId, status \in {"pending", "compliant"} :
       CreateProductCompliance(g, r, status)
  \/ \E g \in Good : GoodCreated(g) \/ GoodGone(g)
  \/ GenerateReport
  \/ \E rule \in RulesOfTheAPI, data \in DataChoices : CheckCompliance(rule, data)
  \/ \E c \in Inspector, g \in Good, ids \in SUBSET RequirementId : RunComplianceCheck(c, g, ids)
  \/ \E c \in Inspector, g \in Good : RunFullCheck(c, g)
  \/ \E c \in Inspector :
       \/ ListActive(c) \/ GetRequirement(c) \/ GetProductData(c)
       \/ UpdateProductCompliance(c) \/ CreateAuditTrail(c) \/ RegCallDropped(c)

RegulationSpec == RegulationInit /\ [][RegulationNext]_regVars

------------------------------------------------------------------------------

\* What a regime asks for in the end, of the API or through a requirement.
Asks(type) ==
  CASE type = "GDPR" -> {"consent"}
    [] type = "FDA21CFR11" -> {"digital_signature", "signer_id", "timestamp"}
    [] type = "FSMA" -> {"origin", "processing_steps", "distribution"}
    [] type = "ConflictMinerals" -> {"mineral_source", "audit_report"}
    [] type = "OrganicCertification" -> {"certification_body"}
    [] OTHER -> {}

Trailed(pair) ==
  Kept(trail, {entry \in Range(trail) : entry.good = pair[1] /\ entry.requirement = pair[2]})

(***************************************************************************)
(* Unless a requirement was changed while a check ran, or the product a    *)
(* check is of was created meanwhile, a checked row says of its            *)
(* requirement what holds: compliant just when a product's stored data     *)
(* name every field the requirement and its regime ask for -- checks that  *)
(* overlap, stop half-way, or lose a write and products that go change     *)
(* nothing about that --, and when all statements went well the trail's    *)
(* last word is the same.  A report counts nothing as pending, and no more *)
(* products than verdicts.  What the API passes names every field of its   *)
(* rule and regime.                                                        *)
(***************************************************************************)
VerdictsStand ==
  /\ ~regTally.crossed => \A pair \in DOMAIN compliance :
       compliance[pair].checked /\ pair \notin regTally.outdated =>
         LET row == requirements[pair[2]]
             asked == row.fields \union Asks(MapRegulationType(row.word))
         IN  /\ (compliance[pair].status = "compliant") <=> asked \subseteq ProductFields
             /\ regTally.troubles = 0 /\ ~Crossing =>
                  LET entries == Trailed(pair)
                  IN  entries[Len(entries)].status = compliance[pair].status
  /\ reports # <<>> => reports[1].pending = 0 /\
       reports[1].total <= reports[1].compliant + reports[1].non_compliant
  /\ told.is_compliant =>
       told.rule.fields \union Asks(told.rule.type) \subseteq DOMAIN told.data

==============================================================================
