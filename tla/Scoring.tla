------------------------------- MODULE Scoring -------------------------------
(***************************************************************************)
(* The checks of a report and what is computed from them: the outcome      *)
(* check (auditor.go:275-325), the two checks of a specification review    *)
(* (specsmith.go:437-464) and finalizeReport (auditor.go:344-383).         *)
(* Evidence texts are left out.                                            *)
(***************************************************************************)
EXTENDS Payment

CheckNames == {"reachability", "x402_challenge", "payment_budget", "paid_delivery",
               "task_outcome", "service_discovery", "request_contract"}
CheckStatuses == {"pass", "warn", "fail", "skip"}

Check(name, status, weight, points) ==
  [name |-> name, status |-> status, weight |-> weight, points |-> points]

Weight(name) ==
  CASE name = "x402_challenge" -> 30
    [] name \in {"paid_delivery", "task_outcome"} -> 25
    [] name \in {"service_discovery", "request_contract"} -> 15
    [] OTHER -> 10

Passed(name) == Check(name, "pass", Weight(name), Weight(name))
Failed(name) == Check(name, "fail", Weight(name), 0)
Skipped(name) == Check(name, "skip", Weight(name), 0)
\* Half the weight, rounded down: 12 of 25, 7 of 15.
Warned(name) == Check(name, "warn", Weight(name), Weight(name) \div 2)

-----------------------------------------------------------------------------
(* The outcome check *)

Is2xx(status) == status \in 200 .. 299

\* An expected status of 0 is a request that names none.
StatusMatches(expectedStatus, status) ==
  \/ expectedStatus = 0 /\ Is2xx(status)
  \/ expectedStatus = status

\* Evaluate returns an error unless the score is a percentage and a reason is given.
UsableJudgement(judgement) ==
  judgement.score \in 0 .. 100 /\ judgement.reasoned

SemanticPassScoreFloor == 50

\* Mutation: the evaluator's `passed` is believed whatever score comes with it.
OutcomeWithoutFloor(judgement) ==
  Check("task_outcome", IF judgement.passed THEN "pass" ELSE "fail", 25,
        (judgement.score * 25) \div 100)

\* A failed outcome keeps the points of its score.
SemanticOutcomeCheck(judgement) ==
  Check("task_outcome",
        CASE ~judgement.passed -> "fail"
          [] judgement.passed /\ judgement.score < SemanticPassScoreFloor -> "warn"
          [] OTHER -> "pass",
        25,
        (judgement.score * 25) \div 100)

-----------------------------------------------------------------------------
(* The two checks of a specification review *)

\* inspection is what the fetched documents showed: `discovery`, a valid OpenAPI
\* document with the operation, and `schemas`, concrete request and response
\* schemas; terms is the parsed challenge or None.
ContractReady(inspection, terms, method) ==
  /\ inspection.schemas
  /\ terms # None
  /\ terms.matches
  /\ terms.bazaar # "none"
  /\ method = "POST" => terms.bazaar = "input"

SpecChecks(inspection, terms, method) ==
  <<IF inspection.discovery
      THEN Passed("service_discovery") ELSE Warned("service_discovery"),
    IF ContractReady(inspection, terms, method)
      THEN Passed("request_contract") ELSE Warned("request_contract")>>

-----------------------------------------------------------------------------
(* finalizeReport *)

MaxChecks == 7

\* The loop over report.Checks: a report holds at most MaxChecks of them, so
\* the sum is written out.
SumOver(values) ==
  LET Term(i) == IF i \in DOMAIN values THEN values[i] ELSE 0
  IN  Term(1) + Term(2) + Term(3) + Term(4) + Term(5) + Term(6) + Term(7)

TotalWeight(checks) == SumOver([i \in DOMAIN checks |-> checks[i].weight])

\* A skipped check is not assessed.
AssessedWeight(checks) ==
  SumOver([i \in DOMAIN checks |-> IF checks[i].status = "skip" THEN 0 ELSE checks[i].weight])

PointsOf(checks) ==
  SumOver([i \in DOMAIN checks |-> IF checks[i].status = "skip" THEN 0 ELSE checks[i].points])

Percent(part, whole) == IF whole > 0 THEN (part * 100) \div whole ELSE 0

HasStatus(checks, status) == \E i \in DOMAIN checks : checks[i].status = status

Verdict(tier, checks) ==
  CASE HasStatus(checks, "fail") -> "FAIL"
    [] ~HasStatus(checks, "fail") /\ tier = "probe" /\ HasStatus(checks, "warn")
         -> "PROBE_PASS_WITH_WARNINGS"
    [] ~HasStatus(checks, "fail") /\ tier = "probe" /\ ~HasStatus(checks, "warn")
         -> "PROBE_PASS"
    [] ~HasStatus(checks, "fail") /\ tier # "probe" /\ HasStatus(checks, "warn")
         -> "PASS_WITH_WARNINGS"
    [] OTHER -> "PASS"

\* Mutation: the score is taken over the weight of every check.
FinalizeOverTotal(report) ==
  [report EXCEPT
     !.score    = Percent(PointsOf(report.checks), TotalWeight(report.checks)),
     !.coverage = Percent(AssessedWeight(report.checks), TotalWeight(report.checks)),
     !.verdict  = Verdict(report.tier, report.checks)]

FinalizeReport(report) ==
  [report EXCEPT
     !.score    = Percent(PointsOf(report.checks), AssessedWeight(report.checks)),
     !.coverage = Percent(AssessedWeight(report.checks), TotalWeight(report.checks)),
     !.verdict  = Verdict(report.tier, report.checks)]

=============================================================================
