------------------------------ MODULE SpecReview ------------------------------
(***************************************************************************)
(* A specification review (internal/canary/specsmith.go): three documents  *)
(* are fetched one after the other, each is analysed into facts and        *)
(* findings, and when the audit is over the live challenge is compared and *)
(* the two checks and the status are made.                                 *)
(*                                                                         *)
(* What a fetched document shows is a value here.  How it is found is in   *)
(* OperationLookup (path, response, parameters) and Schemas (what makes a  *)
(* schema concrete), and the schema proposed as a repair in                *)
(* SchemaInference.                                                        *)
(***************************************************************************)
EXTENDS Scoring

CONSTANTS
  Targets,          \* [method, query]: the audited method, and whether the URL has a query
  OpenAPIDocs,      \* what /openapi.json may show
  RegistrationDocs, \* what /.well-known/agent-registration.json may show
  SkillDocs,        \* what /skill.md may show
  Challenges        \* what the live challenge may show, None if there is none

SchemaKinds == {"none", "generic", "concrete"}

\* input and output are the schema of the JSON body, or input is the query parameters.
Operations == [summary : BOOLEAN, input : SchemaKinds, inputExample : BOOLEAN,
               output : SchemaKinds, outputExample : BOOLEAN]

NoOperation == [summary |-> FALSE, input |-> "none", inputExample |-> FALSE,
                output |-> "none", outputExample |-> FALSE]

\* How far the analysis of the OpenAPI document comes.
Outlines == {"unavailable", "truncated", "garbage", "otherVersion", "noPaths",
             "noPath", "noMethod", "operation"}

Registrations == [available : BOOLEAN, parses : BOOLEAN, active : BOOLEAN,
                  covers : BOOLEAN, identified : BOOLEAN]

\* "insecure" is an http resource for an https target, which never matches.
Resources == {"missing", "malformed", "insecure", "mismatch", "match"}
ChallengeType == [resource : Resources, bazaar : BOOLEAN, input : BOOLEAN, output : BOOLEAN]

ASSUME ReviewAssumption ==
  /\ Targets \subseteq [method : {"GET", "POST"}, query : BOOLEAN]
  /\ OpenAPIDocs \subseteq [outline : Outlines, operation : Operations]
  /\ RegistrationDocs \subseteq Registrations
  /\ SkillDocs \subseteq {"missing", "unusable", "usable"}
  /\ Challenges \subseteq ChallengeType \cup {None}
  /\ None \notin [matches : BOOLEAN, bazaar : BazaarKinds] \cup {"READY", "NEEDS_REPAIR"}

Kinds == <<"openapi", "agent_registration", "skill">>

VARIABLES
  stage,      \* how many documents have been fetched, 0 to 3, then 4 when they are
              \* analysed, and 5 when the review is finalized
  target,
  docs,       \* the documents fetched so far
  valid,      \* the kinds of those that are marked valid
  operation,  \* SpecOperation: the facts about the operation
  live,       \* the challenge the review was finalized with, or None
  findings,   \* SpecFindings, in the order they were added
  raised,     \* every finding addFinding was called with
  checks,     \* the two checks
  status      \* "READY" or "NEEDS_REPAIR", or None

vars == <<stage, target, docs, valid, operation, live, findings, raised, checks, status>>

-----------------------------------------------------------------------------
(* Findings *)

MaxSpecFindings == 64

Finding(code, severity) == [code |-> code, severity |-> severity]
Error(code) == Finding(code, "error")
Warning(code) == Finding(code, "warning")
Info(code) == Finding(code, "info")

When(condition, finding) == IF condition THEN <<finding>> ELSE << >>

\* Mutation: the report has room for eight findings.
AddFinding8(list, finding) ==
  IF Len(list) >= 8 \/ \E i \in DOMAIN list : list[i].code = finding.code
  THEN list ELSE Append(list, finding)

\* One finding of a code, and no more than MaxSpecFindings.
AddFinding(list, finding) ==
  IF Len(list) >= MaxSpecFindings \/ \E i \in DOMAIN list : list[i].code = finding.code
  THEN list ELSE Append(list, finding)

AddAt(list, new, i) == IF i \in DOMAIN new THEN AddFinding(list, new[i]) ELSE list
AddThree(list, new, i) == AddAt(AddAt(AddAt(list, new, i), new, i + 1), new, i + 2)

\* The calls of addFinding, one after the other: never more than 12 in a step.
AddFindings(list, new) ==
  AddThree(AddThree(AddThree(AddThree(list, new, 1), new, 4), new, 7), new, 10)

Raise(new) ==
  /\ findings' = AddFindings(findings, new)
  /\ raised' = raised \cup {new[i] : i \in DOMAIN new}

-----------------------------------------------------------------------------
(* The OpenAPI document *)

RequiresInput == target.method = "POST" \/ target.query

NoFacts == [found |-> FALSE, summary |-> FALSE, requestSchema |-> FALSE,
            concreteRequest |-> FALSE, requestExample |-> FALSE, responseSchema |-> FALSE,
            concreteResponse |-> FALSE, responseExample |-> FALSE]

\* A GET without a query needs no input; only a POST is searched for an example.
Facts(op) ==
  [found            |-> TRUE,
   summary          |-> op.summary,
   requestSchema    |-> RequiresInput => op.input # "none",
   concreteRequest  |-> RequiresInput => op.input = "concrete",
   requestExample   |-> target.method = "POST" /\ op.inputExample,
   responseSchema   |-> op.output # "none",
   concreteResponse |-> op.output = "concrete",
   responseExample  |-> op.outputExample]

\* Mutation: a response schema that says nothing is taken for one.
OperationFindingsLax(facts) ==
  When(~facts.summary, Warning("summary_missing"))
  \o When(~facts.requestSchema, Error("request_schema_missing"))
  \o When(facts.requestSchema /\ ~facts.concreteRequest, Warning("request_schema_generic"))
  \o When(~facts.responseSchema, Warning("response_schema_missing"))

OperationFindings(facts) ==
  When(~facts.summary, Warning("summary_missing"))
  \o When(~facts.requestSchema, Error("request_schema_missing"))
  \o When(facts.requestSchema /\ ~facts.concreteRequest, Warning("request_schema_generic"))
  \o When(RequiresInput /\ ~facts.requestExample, Info("request_example_missing"))
  \o When(~facts.responseSchema, Warning("response_schema_missing"))
  \o When(facts.responseSchema /\ ~facts.concreteResponse, Warning("response_schema_generic"))
  \o When(~facts.responseExample, Info("response_example_missing"))

OutlineFindings(outline) ==
  When(outline = "unavailable", Warning("openapi_missing"))
  \o When(outline = "truncated", Error("openapi_too_large"))
  \o When(outline = "garbage", Error("openapi_invalid"))
  \o When(outline = "otherVersion", Error("openapi_version"))
  \o When(outline = "noPaths", Error("openapi_paths_missing"))
  \o When(outline = "noPath", Error("operation_missing"))
  \o When(outline = "noMethod", Error("method_missing"))

OpenAPIFacts(doc) == IF doc.outline = "operation" THEN Facts(doc.operation) ELSE NoFacts

OpenAPIFindings(doc) ==
  IF doc.outline = "operation" THEN OperationFindings(OpenAPIFacts(doc))
  ELSE OutlineFindings(doc.outline)

OpenAPIValid(doc) == doc.outline \in {"noPaths", "noPath", "noMethod", "operation"}

-----------------------------------------------------------------------------
(* The other two documents *)

RegistrationFindings(doc) ==
  IF ~doc.available THEN <<Info("agent_registration_missing")>>
  ELSE IF ~doc.parses THEN <<Warning("agent_registration_invalid")>>
  ELSE When(~doc.active, Warning("agent_registration_inactive"))
       \o When(~doc.covers, Warning("service_not_registered"))
       \o When(~doc.identified, Info("agent_id_missing"))

SkillFindings(doc) ==
  When(doc = "missing", Info("skill_document_missing"))
  \o When(doc = "unusable", Warning("skill_document_invalid"))

-----------------------------------------------------------------------------
(* The live challenge *)

ChallengeFindings(c) ==
  When(c.resource = "missing", Warning("challenge_resource_missing"))
  \o When(c.resource = "malformed", Error("challenge_resource_invalid"))
  \o When(c.resource = "insecure", Error("challenge_resource_insecure"))
  \o When(c.resource = "mismatch", Error("challenge_resource_mismatch"))
  \o When(~c.bazaar, Warning("bazaar_extension_missing"))
  \o When(c.bazaar /\ target.method = "POST" /\ ~c.input, Warning("bazaar_input_missing"))
  \o When(c.bazaar /\ ~c.output, Info("bazaar_output_missing"))

\* Mutation: the Bazaar input of a POST is not asked for.
ContractKeptWithoutInput(c) ==
  /\ operation.concreteRequest /\ operation.concreteResponse
  /\ c # None
  /\ c.resource = "match" /\ c.bazaar

\* contractReady of finalize.
ContractKept(c) ==
  /\ operation.concreteRequest /\ operation.concreteResponse
  /\ c # None
  /\ c.resource = "match" /\ c.bazaar
  /\ target.method = "POST" => c.input

-----------------------------------------------------------------------------
(* The review *)

Init ==
  /\ stage = 0
  /\ target \in Targets
  /\ docs = << >>
  /\ valid = {}
  /\ operation = NoFacts
  /\ live = None
  /\ findings = << >>
  /\ raised = {}
  /\ checks = << >>
  /\ status = None

\* fetchSpecDocument: whatever goes wrong is a document that is not available.
Fetch(doc) ==
  /\ stage' = stage + 1
  /\ docs' = Append(docs, doc)
  /\ UNCHANGED <<target, valid, operation, live, findings, raised, checks, status>>

FetchOpenAPI      == stage = 0 /\ \E doc \in OpenAPIDocs : Fetch(doc)
FetchRegistration == stage = 1 /\ \E doc \in RegistrationDocs : Fetch(doc)
FetchSkill        == stage = 2 /\ \E doc \in SkillDocs : Fetch(doc)

Analyze ==
  /\ stage = 3
  /\ stage' = 4
  /\ operation' = OpenAPIFacts(docs[1])
  /\ valid' = {Kinds[i] : i \in {j \in 1 .. 3 :
                 CASE j = 1 -> OpenAPIValid(docs[1])
                   [] j = 2 -> docs[2].available /\ docs[2].parses
                   [] j = 3 -> docs[3] = "usable"}}
  /\ Raise(OpenAPIFindings(docs[1]) \o RegistrationFindings(docs[2]) \o SkillFindings(docs[3]))
  /\ UNCHANGED <<target, docs, live, checks, status>>

Severe(list) == \E i \in DOMAIN list : list[i].severity \in {"error", "warning"}

\* finalize, when the audit is complete: with the challenge, if it was a valid one.
Finalize ==
  /\ stage = 4
  /\ stage' = 5
  /\ live' \in Challenges
  /\ Raise(IF live' = None THEN <<Info("challenge_metadata_unavailable")>>
           ELSE ChallengeFindings(live'))
  /\ status' = IF Severe(findings') THEN "NEEDS_REPAIR" ELSE "READY"
  /\ checks' =
       <<IF "openapi" \in valid /\ operation.found
           THEN Passed("service_discovery") ELSE Warned("service_discovery"),
         IF ContractKept(live')
           THEN Passed("request_contract") ELSE Warned("request_contract")>>
  /\ UNCHANGED <<target, docs, valid, operation>>

Next == FetchOpenAPI \/ FetchRegistration \/ FetchSkill \/ Analyze \/ Finalize

Spec == Init /\ [][Next]_vars

-----------------------------------------------------------------------------
(* Properties *)

\* The facts come of an operation that was found in a document that is valid.
TypeOK ==
  /\ stage \in 0 .. 5
  /\ target \in Targets
  /\ Len(docs) = IF stage < 3 THEN stage ELSE 3
  /\ valid \subseteq {"openapi", "agent_registration", "skill"}
  /\ DOMAIN operation = DOMAIN NoFacts
  /\ operation.found => "openapi" \in valid
  /\ operation.concreteRequest => operation.requestSchema /\ operation.found
  /\ operation.concreteResponse => operation.responseSchema /\ operation.found
  /\ Len(findings) <= MaxSpecFindings
  /\ live \in Challenges \cup {None}
  /\ status \in {"READY", "NEEDS_REPAIR", None}

\* The status reads the findings, the checks read the facts, and they agree: with a
\* challenge to compare, READY means that both checks pass (specsmith.go:443-463).
ReadyMeansChecked ==
  status = "READY" /\ live # None => \A i \in 1 .. 2 : checks[i].status = "pass"

\* No finding is lost to the limit of 64 or to another one of the same code, so the
\* status speaks for all of them, in whatever order they came (specsmith.go:546-556).
NothingDropped == raised = {findings[i] : i \in DOMAIN findings}

\* What the audit is told of a review is enough for the two checks: SpecChecks makes
\* the same of it, and it is one of the results Auditor allows for (specsmith.go:450-463).
AgreesWithScoring ==
  LET inspection == [discovery |-> "openapi" \in valid /\ operation.found,
                     schemas   |-> operation.concreteRequest /\ operation.concreteResponse]
      terms == IF live = None THEN None
               ELSE [matches |-> live.resource = "match",
                     bazaar  |-> IF ~live.bazaar THEN "none"
                                 ELSE IF live.input THEN "input" ELSE "declared"]
  IN  stage = 5 =>
        /\ inspection.schemas => inspection.discovery
        /\ checks = SpecChecks(inspection, terms, target.method)

=============================================================================
