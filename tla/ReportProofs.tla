---------------------------- MODULE ReportProofs ----------------------------
(* The reports of Auditor, for any number of audits: what a stored one says of *)
(* money, checks, numbers and verdicts.                                        *)
EXTENDS AuditorProofs

-----------------------------------------------------------------------------
(* The report at each stage of its audit *)

\* The order in which the checks of a report are made.
CheckOrder == <<"reachability", "x402_challenge", "payment_budget", "paid_delivery",
                "task_outcome", "service_discovery", "request_contract">>

\* A check has the name and the weight of its place and no more points than that;
\* passed, it has all of them, or half when the evaluator gave its score.
Sound(c, name) ==
  /\ c.name = name
  /\ c.weight = Weight(name)
  /\ c.points <= c.weight
  /\ c.status = "pass" => c.points = c.weight \/ (name = "task_outcome" /\ c.points >= 12)

InOrder(checks, n) == Len(checks) = n /\ \A i \in 1 .. n : Sound(checks[i], CheckOrder[i])

\* A skipped check has its reason.
Justified(checks, r) ==
  \A i \in DOMAIN checks : checks[i].status = "skip" =>
    ~r.pay \/ \E j \in 1 .. i - 1 : checks[j].status = "fail"

\* The report of an audit that is to pay, or is paying.
PassedThree(rep, r) ==
  /\ rep.tier = "probe" /\ r.pay
  /\ InOrder(rep.checks, 3)
  /\ \A i \in 1 .. 3 : rep.checks[i].status = "pass"

\* A report with a paid answer.
Delivered(rep, r, n) ==
  /\ ~HasStatus(rep.checks, "skip")
  /\ r.pay /\ n > 0
  /\ rep.checks[4].status # "fail" => Is2xx(rep.paidStatus)

\* The report of an audit that has all checks but the outcome.
Graded(rep, r, n) ==
  /\ InOrder(rep.checks, 4)
  /\ Justified(rep.checks, r)
  /\ rep.tier = "probe" => HasStatus(rep.checks, "fail") /\ HasStatus(rep.checks, "skip")
  /\ rep.tier # "probe" => Delivered(rep, r, n)

\* The report of an audit that asked for no payment and found nothing wrong.
Unpaid(rep, r, t, chosen) ==
  /\ ~r.pay /\ rep.probeStatus = 402 /\ t # None /\ chosen = None
  /\ \A i \in 1 .. 5 : rep.checks[i].status \in {"pass", "skip"}
  /\ rep.checks[1].status = "pass" /\ rep.checks[5].status = "skip"

\* The report of an audit that has made all its five checks: r is its request, t
\* the challenge, chosen the requirement and n the number of paid requests sent.
Audited(rep, r, t, chosen, n) ==
  /\ InOrder(rep.checks, 5)
  /\ Justified(rep.checks, r)
  /\ rep.tier = "probe" =>
       /\ HasStatus(rep.checks, "skip")
       /\ HasStatus(rep.checks, "fail") \/ Unpaid(rep, r, t, chosen)
  /\ rep.tier # "probe" =>
       /\ Delivered(rep, r, n)
       /\ rep.checks[5].status # "fail" => StatusMatches(r.expectedStatus, rep.paidStatus)
  /\ rep.checks[5].status = "pass" =>
       r.expectation = "none" \/ (rep.semantic.passed /\ rep.semantic.score >= 50)

\* The report at each stage of its audit.
StageOK(stage, rep, r, t, chosen, n) ==
  /\ stage \in {"idle", "inspecting", "probing"} => rep = EmptyReport
  /\ stage \in Committed => PassedThree(rep, r)
  /\ stage = "evaluating" =>
       /\ Graded(rep, r, n)
       /\ rep.tier # "probe" => StatusMatches(r.expectedStatus, rep.paidStatus)
  /\ stage = "completing" => Audited(rep, r, t, chosen, n)

\* The stored report, the checks of the specification review among it.
StoredOK(a) ==
  /\ pc[a] = "done" /\ stored[a] = report[a]
  /\ \E rep \in ReportType :
       /\ Audited(rep, request[a], terms[a], selected[a], copies[a])
       /\ stored[a] = FinalizeReport([rep EXCEPT !.checks = @ \o FinalChecks(a)])

\* The report of an audit at any time: it names the requirement the audit chose and
\* the payer of the payment it authorized; the documents have been looked at if the
\* caller asked for that.
ReportOK(a) ==
  /\ StageOK(pc[a], report[a], request[a], terms[a], selected[a], copies[a])
  /\ report[a].selected = selected[a]
  /\ auth[a] # None => report[a].attempted /\ report[a].payer = auth[a].transfer.from
  /\ pc[a] \in {"idle", "inspecting"} => inspection[a] = None
  /\ pc[a] = "inspecting" => request[a].specReview
  /\ pc[a] \in (Running \ {"inspecting"}) \cup {"done"}
       => (inspection[a] # None <=> request[a].specReview)
  /\ stored[a] # None => StoredOK(a)

ReportInv == SpendingInv /\ \A a \in Audits : ReportOK(a)

-----------------------------------------------------------------------------
(* Checks *)

\* The constructors make sound checks.
LEMMA SoundChecks ==
  ASSUME NEW name \in CheckNames
  PROVE  /\ Sound(Passed(name), name) /\ Passed(name).status = "pass"
         /\ Sound(Failed(name), name) /\ Failed(name).status = "fail"
         /\ Sound(Skipped(name), name) /\ Skipped(name).status = "skip"
         /\ Sound(Warned(name), name) /\ Warned(name).status = "warn"
<1>1. Weight(name) \in {10, 15, 25, 30}
  BY DEF Weight
<1>2. Weight(name) \in Nat /\ Weight(name) \div 2 <= Weight(name)
  BY <1>1
<1>. QED  BY <1>2 DEF Sound, Check, Passed, Failed, Skipped, Warned

\* So does the evaluator's judgement; it passes only with a score of 50 or more.
LEMMA SoundJudgement ==
  ASSUME NEW judgement \in Judgements, UsableJudgement(judgement)
  PROVE  LET c == SemanticOutcomeCheck(judgement) IN
         /\ Sound(c, "task_outcome")
         /\ c.status \in {"pass", "warn", "fail"}
         /\ c.status = "pass" => judgement.passed /\ judgement.score >= 50
<1>1. judgement.passed \in BOOLEAN /\ judgement.score \in 0 .. 100
  BY AuditAssumption DEF JudgementType, UsableJudgement
<1>. DEFINE points == (judgement.score * 25) \div 100
            status == CASE ~judgement.passed -> "fail"
               [] judgement.passed /\ judgement.score < SemanticPassScoreFloor -> "warn"
               [] OTHER -> "pass"
<1>2. points <= 25 /\ (judgement.score >= 50 => points >= 12)
  BY <1>1
<1>3. status \in {"pass", "warn", "fail"}
      /\ (status = "pass" => judgement.passed /\ judgement.score >= 50)
  BY <1>1 DEF SemanticPassScoreFloor
<1>4. SemanticOutcomeCheck(judgement) = Check("task_outcome", status, 25, points)
  BY DEF SemanticOutcomeCheck
<1>5. Weight("task_outcome") = 25
  BY DEF Weight
<1>. HIDE DEF points, status
<1>. QED  BY <1>2, <1>3, <1>4, <1>5 DEF Check, Sound

\* The outcome without an evaluator: none, if the status is the one expected, or one check.
LEMMA ImmediateFacts ==
  ASSUME NEW r, NEW status
  PROVE  \/ ImmediateOutcome(r, status) = << >> /\ StatusMatches(r.expectedStatus, status)
         \/ \E c \in CheckType :
              /\ ImmediateOutcome(r, status) = <<c>>
              /\ Sound(c, "task_outcome")
              /\ c.status \in {"pass", "warn", "fail"}
              /\ c.status # "fail" => StatusMatches(r.expectedStatus, status)
              /\ c.status = "pass" => r.expectation = "none"
<1>1. "task_outcome" \in CheckNames
  BY DEF CheckNames
<1>. DEFINE matches == StatusMatches(r.expectedStatus, status)
<1>2. CASE ~matches
  <2>1. ImmediateOutcome(r, status) = <<Failed("task_outcome")>>
    BY <1>2 DEF ImmediateOutcome
  <2>. QED  BY <1>1, <2>1, SoundChecks, CheckTypes
<1>3. CASE matches /\ r.expectation = "none"
  <2>1. ImmediateOutcome(r, status) = <<Passed("task_outcome")>>
    BY <1>3 DEF ImmediateOutcome
  <2>. QED  BY <1>1, <1>3, <2>1, SoundChecks, CheckTypes
<1>4. CASE matches /\ r.expectation # "none" /\ ~EvaluatorConfigured
  <2>1. ImmediateOutcome(r, status) = <<Warned("task_outcome")>>
    BY <1>4 DEF ImmediateOutcome
  <2>. QED  BY <1>1, <1>4, <2>1, SoundChecks, CheckTypes
<1>5. CASE matches /\ r.expectation # "none" /\ EvaluatorConfigured
  BY <1>5 DEF ImmediateOutcome
<1>. QED  BY <1>2, <1>3, <1>4, <1>5, AuditAssumption

\* A report with more checks, the same otherwise.
ExtendedBy(next, rep, new) ==
  LET n == Len(rep.checks) IN
  /\ next.checks = rep.checks \o new
  /\ Len(next.checks) = n + Len(new)
  /\ DOMAIN next.checks = 1 .. n + Len(new)
  /\ \A i \in 1 .. n : next.checks[i] = rep.checks[i]
  /\ \A i \in 1 .. Len(new) : next.checks[n + i] = new[i]
  /\ next.tier = rep.tier /\ next.probeStatus = rep.probeStatus
  /\ next.paidStatus = rep.paidStatus /\ next.semantic = rep.semantic
  /\ next.selected = rep.selected /\ next.attempted = rep.attempted /\ next.payer = rep.payer

\* That is what adding checks to a report gives.
LEMMA Added ==
  ASSUME NEW rep \in ReportType, NEW new \in Seq(CheckType)
  PROVE  ExtendedBy([rep EXCEPT !.checks = @ \o new], rep, new)
<1>. DEFINE next == [rep EXCEPT !.checks = @ \o new]
<1>1. rep.checks \in Seq(CheckType)
  BY DEF ReportType
<1>2. /\ next.checks = rep.checks \o new
      /\ next.tier = rep.tier /\ next.probeStatus = rep.probeStatus
      /\ next.paidStatus = rep.paidStatus /\ next.semantic = rep.semantic
      /\ next.selected = rep.selected /\ next.attempted = rep.attempted /\ next.payer = rep.payer
  BY DEF ReportType
<1>3. /\ Len(rep.checks \o new) = Len(rep.checks) + Len(new)
      /\ DOMAIN (rep.checks \o new) = 1 .. Len(rep.checks) + Len(new)
      /\ \A i \in 1 .. Len(rep.checks) : (rep.checks \o new)[i] = rep.checks[i]
      /\ \A i \in 1 .. Len(new) : (rep.checks \o new)[Len(rep.checks) + i] = new[i]
  BY <1>1
<1>. HIDE DEF next
<1>. QED  BY <1>2, <1>3 DEF ExtendedBy, next

\* The outcome completes the checks.
LEMMA OutcomeAdded ==
  ASSUME NEW rep \in ReportType, NEW c \in CheckType, NEW r, NEW t, NEW chosen, NEW n \in Nat,
         Graded(rep, r, n),
         Sound(c, "task_outcome"), c.status \in {"pass", "warn", "fail"},
         rep.tier # "probe" /\ c.status # "fail" => StatusMatches(r.expectedStatus, rep.paidStatus),
         c.status = "pass" => r.expectation = "none"
                              \/ (rep.semantic.passed /\ rep.semantic.score >= 50)
  PROVE  Audited([rep EXCEPT !.checks = @ \o <<c>>], r, t, chosen, n)
<1>. DEFINE next == [rep EXCEPT !.checks = @ \o <<c>>]
<1>1. /\ Len(rep.checks) = 4 /\ DOMAIN rep.checks = 1 .. 4
      /\ \A i \in 1 .. 4 : Sound(rep.checks[i], CheckOrder[i])
  BY DEF Graded, InOrder, ReportType
<1>2. /\ Len(next.checks) = 5 /\ DOMAIN next.checks = 1 .. 5
      /\ \A i \in 1 .. 4 : next.checks[i] = rep.checks[i]
      /\ next.checks[5] = c
      /\ next.tier = rep.tier /\ next.paidStatus = rep.paidStatus /\ next.semantic = rep.semantic
  <2>. DEFINE new == <<c>>
  <2>1. new \in Seq(CheckType) /\ Len(new) = 1 /\ new[1] = c
    OBVIOUS
  <2>2. next = [rep EXCEPT !.checks = @ \o new]
    OBVIOUS
  <2>. HIDE DEF new, next
  <2>3. ExtendedBy(next, rep, new)
    BY <2>1, <2>2, Added
  <2>4. 4 + 1 = 5 /\ 1 \in 1 .. Len(new)
    BY <2>1
  <2>. QED  BY <1>1, <2>1, <2>3, <2>4 DEF ExtendedBy
<1>. HIDE DEF next
<1>3. InOrder(next.checks, 5)
  BY <1>1, <1>2 DEF InOrder, CheckOrder
<1>4. Justified(next.checks, r)
  BY <1>1, <1>2 DEF Graded, Justified
<1>5. \A s \in {"fail", "skip"} : HasStatus(rep.checks, s) => HasStatus(next.checks, s)
  BY <1>1, <1>2 DEF HasStatus
<1>6. HasStatus(next.checks, "skip") => HasStatus(rep.checks, "skip")
  BY <1>1, <1>2 DEF HasStatus
<1>7. rep.tier # "probe" => Delivered(next, r, n)
  BY <1>2, <1>6 DEF Graded, Delivered
<1>. QED  BY <1>2, <1>3, <1>4, <1>5, <1>7 DEF Audited, Graded, next

\* Appending is associative.
LEMMA Associative ==
  ASSUME NEW s \in Seq(CheckType), NEW t \in Seq(CheckType), NEW u \in Seq(CheckType)
  PROVE  s \o (t \o u) = (s \o t) \o u
OBVIOUS

-----------------------------------------------------------------------------
(* The reports of an audit that ends early *)

\* Five checks, with a failure and what it makes the audit skip.
LEMMA EndedEarly ==
  ASSUME NEW rep \in ReportType, rep.tier = "probe", NEW r, NEW t, NEW chosen, NEW n \in Nat,
         \/ rep.checks = <<Failed("reachability"), Skipped("x402_challenge"),
                           Skipped("payment_budget"), Skipped("paid_delivery"), Skipped("task_outcome")>>
         \/ rep.checks = <<Passed("reachability"), Failed("x402_challenge"),
                           Skipped("payment_budget"), Skipped("paid_delivery"), Skipped("task_outcome")>>
         \/ rep.checks = <<Passed("reachability"), Passed("x402_challenge"),
                           Failed("payment_budget"), Skipped("paid_delivery"), Skipped("task_outcome")>>
         \/ /\ rep.checks = <<Passed("reachability"), Passed("x402_challenge"),
                              Skipped("payment_budget"), Skipped("paid_delivery"), Skipped("task_outcome")>>
            /\ ~r.pay /\ rep.probeStatus = 402 /\ t # None /\ chosen = None
  PROVE  Audited(rep, r, t, chosen, n)
<1>1. \A name \in CheckNames :
         /\ Sound(Passed(name), name) /\ Passed(name).status = "pass"
         /\ Sound(Failed(name), name) /\ Failed(name).status = "fail"
         /\ Sound(Skipped(name), name) /\ Skipped(name).status = "skip"
  BY SoundChecks
<1>2. {"reachability", "x402_challenge", "payment_budget", "paid_delivery", "task_outcome"}
        \subseteq CheckNames
  BY DEF CheckNames
<1>3. InOrder(rep.checks, 5)
  <2>1. Len(rep.checks) = 5
    OBVIOUS
  <2>2. /\ Sound(rep.checks[1], "reachability") /\ Sound(rep.checks[2], "x402_challenge")
        /\ Sound(rep.checks[3], "payment_budget") /\ Sound(rep.checks[4], "paid_delivery")
        /\ Sound(rep.checks[5], "task_outcome")
    BY <1>1, <1>2
  <2>. QED  BY <2>1, <2>2 DEF InOrder, CheckOrder
<1>4. Justified(rep.checks, r)
  BY <1>1, <1>2 DEF Justified
<1>5. rep.checks[5].status = "skip" /\ HasStatus(rep.checks, "skip")
  BY <1>1, <1>2 DEF HasStatus
<1>6. HasStatus(rep.checks, "fail") \/ Unpaid(rep, r, t, chosen)
  BY <1>1, <1>2 DEF HasStatus, Unpaid
<1>. QED  BY <1>3, <1>4, <1>5, <1>6 DEF Audited

\* A resource that is not payable still gets its outcome check.
LEMMA NotPayable ==
  ASSUME NEW rep \in ReportType, rep.tier = "probe", NEW r, NEW n \in Nat,
         rep.checks = <<Passed("reachability"), Failed("x402_challenge"),
                        Skipped("payment_budget"), Skipped("paid_delivery")>>
  PROVE  Graded(rep, r, n)
<1>1. \A name \in CheckNames :
         /\ Sound(Passed(name), name) /\ Passed(name).status = "pass"
         /\ Sound(Failed(name), name) /\ Failed(name).status = "fail"
         /\ Sound(Skipped(name), name) /\ Skipped(name).status = "skip"
  BY SoundChecks
<1>2. {"reachability", "x402_challenge", "payment_budget", "paid_delivery"} \subseteq CheckNames
  BY DEF CheckNames
<1>3. InOrder(rep.checks, 4)
  BY <1>1, <1>2 DEF InOrder, CheckOrder
<1>4. Justified(rep.checks, r)
  BY <1>1, <1>2 DEF Justified
<1>5. HasStatus(rep.checks, "fail") /\ HasStatus(rep.checks, "skip")
  BY <1>1, <1>2 DEF HasStatus
<1>. QED  BY <1>3, <1>4, <1>5 DEF Graded

\* A payment that is not authorized, or not answered.
LEMMA Undelivered ==
  ASSUME NEW rep \in ReportType, NEW r, NEW t, NEW chosen, NEW n \in Nat, PassedThree(rep, r)
  PROVE  Audited([rep EXCEPT !.checks = @ \o <<Failed("paid_delivery"), Skipped("task_outcome")>>],
                 r, t, chosen, n)
<1>. DEFINE new == <<Failed("paid_delivery"), Skipped("task_outcome")>>
            next == [rep EXCEPT !.checks = @ \o new]
<1>1. /\ Sound(Failed("paid_delivery"), "paid_delivery") /\ Failed("paid_delivery").status = "fail"
      /\ Sound(Skipped("task_outcome"), "task_outcome") /\ Skipped("task_outcome").status = "skip"
      /\ new \in Seq(CheckType)
  BY SoundChecks, CheckTypes DEF CheckNames
<1>2. Len(new) = 2 /\ new[1] = Failed("paid_delivery") /\ new[2] = Skipped("task_outcome")
  OBVIOUS
<1>3. next = [rep EXCEPT !.checks = @ \o new]
  OBVIOUS
<1>. HIDE DEF new, next
<1>4. ExtendedBy(next, rep, new)
  BY <1>1, <1>3, Added
<1>5. /\ Len(next.checks) = 5 /\ DOMAIN next.checks = 1 .. 5
      /\ \A i \in 1 .. 3 : next.checks[i] = rep.checks[i]
      /\ next.checks[4] = Failed("paid_delivery") /\ next.checks[5] = Skipped("task_outcome")
      /\ next.tier = "probe"
  BY <1>2, <1>4 DEF PassedThree, InOrder, ExtendedBy
<1>6. InOrder(next.checks, 5)
  BY <1>1, <1>5 DEF PassedThree, InOrder, CheckOrder
<1>7. Justified(next.checks, r)
  BY <1>1, <1>5 DEF PassedThree, Justified
<1>8. HasStatus(next.checks, "fail") /\ HasStatus(next.checks, "skip")
  BY <1>1, <1>5 DEF HasStatus
<1>. QED  BY <1>1, <1>5, <1>6, <1>7, <1>8 DEF Audited, new, next

\* A paid answer.
LEMMA PaidGraded ==
  ASSUME NEW rep \in ReportType, NEW r, NEW n \in Nat \ {0}, NEW status \in Nat, PassedThree(rep, r)
  PROVE  LET paid == [rep EXCEPT !.tier = "verified", !.paidStatus = status] IN
         Graded([paid EXCEPT !.checks = @ \o
                   <<IF Is2xx(status) THEN Passed("paid_delivery") ELSE Failed("paid_delivery")>>], r, n)
<1>. DEFINE paid == [rep EXCEPT !.tier = "verified", !.paidStatus = status]
            c == IF Is2xx(status) THEN Passed("paid_delivery") ELSE Failed("paid_delivery")
            new == <<c>>
            next == [paid EXCEPT !.checks = @ \o new]
<1>1. /\ Sound(c, "paid_delivery") /\ c.status \in {"pass", "fail"}
      /\ c.status # "fail" => Is2xx(status)
      /\ c \in CheckType
  BY SoundChecks, CheckTypes DEF CheckNames
<1>2. /\ paid \in ReportType /\ paid.tier = "verified" /\ paid.paidStatus = status
      /\ paid.checks = rep.checks
  BY DEF ReportType
<1>. HIDE DEF c, paid
<1>3. new \in Seq(CheckType) /\ Len(new) = 1 /\ new[1] = c /\ next = [paid EXCEPT !.checks = @ \o new]
  BY <1>1
<1>. HIDE DEF new, next
<1>4. ExtendedBy(next, paid, new)
  BY <1>2, <1>3, Added
<1>5. /\ Len(next.checks) = 4 /\ DOMAIN next.checks = 1 .. 4
      /\ \A i \in 1 .. 3 : next.checks[i] = rep.checks[i]
      /\ next.checks[4] = c /\ next.tier = "verified" /\ next.paidStatus = status
  <2>1. Len(paid.checks) = 3 /\ 3 + 1 = 4 /\ 1 \in 1 .. Len(new)
    BY <1>2, <1>3 DEF PassedThree, InOrder
  <2>. QED  BY <1>2, <1>3, <1>4, <2>1 DEF ExtendedBy
<1>6. InOrder(next.checks, 4)
  BY <1>1, <1>5 DEF PassedThree, InOrder, CheckOrder
<1>7. ~HasStatus(next.checks, "skip")
  BY <1>1, <1>5 DEF PassedThree, HasStatus
<1>8. Justified(next.checks, r)
  BY <1>7 DEF Justified, HasStatus
<1>. QED  BY <1>1, <1>5, <1>6, <1>7, <1>8 DEF Graded, Delivered, PassedThree, paid, c, new, next

-----------------------------------------------------------------------------
(* The steps of an audit *)

\* What the report of an audit depends on is left as it is.
Kept(b) ==
  /\ pc'[b] = pc[b] /\ request'[b] = request[b] /\ inspection'[b] = inspection[b]
  /\ terms'[b] = terms[b] /\ selected'[b] = selected[b] /\ auth'[b] = auth[b]
  /\ copies'[b] = copies[b] /\ report'[b] = report[b] /\ stored'[b] = stored[b]

\* The steps that change it.
OwnStep(a) ==
  \/ \E r \in Requests : Accept(a, r) \/ Refuse(a, r)
  \/ Inspect(a) \/ ProbeStep(a) \/ AuthorizationFails(a) \/ Authorized(a)
  \/ PayStep(a) \/ Redeliver(a) \/ FinishStep(a)

\* A step is one of those, of one audit, or changes no report.
LEMMA OneAuditSteps ==
  ASSUME DataOK, [Next]_vars
  PROVE  \/ \A b \in Audits : Kept(b)
         \/ \E a \in Audits : OwnStep(a) /\ \A b \in Audits \ {a} : Kept(b)
<1>. DEFINE Others(a) == \A b \in Audits \ {a} : Kept(b)
<1>. USE DEF Kept, Goto, askVars, moneyVars
<1>0. /\ pc = [a \in Audits |-> pc[a]] /\ request = [a \in Audits |-> request[a]]
      /\ inspection = [a \in Audits |-> inspection[a]] /\ terms = [a \in Audits |-> terms[a]]
      /\ selected = [a \in Audits |-> selected[a]] /\ auth = [a \in Audits |-> auth[a]]
      /\ copies = [a \in Audits |-> copies[a]] /\ report = [a \in Audits |-> report[a]]
      /\ stored = [a \in Audits |-> stored[a]]
  BY DEF DataOK
<1>1. ASSUME NEW a \in Audits, NEW r \in Requests, Accept(a, r) \/ Refuse(a, r)
      PROVE  Others(a)
  BY <1>0, <1>1 DEF Accept, Refuse
<1>2. ASSUME NEW a \in Audits, Inspect(a)
      PROVE  Others(a)
  BY <1>0, <1>2 DEF Inspect
<1>3. ASSUME NEW a \in Audits, ProbeStep(a)
      PROVE  Others(a)
  <2>1. CASE ProbeFails(a)
    BY <1>0, <2>1 DEF ProbeFails, Conclude, Record
  <2>2. ASSUME NEW reply \in Replies, ProbeNotChallenged(a, reply)
        PROVE  Others(a)
    BY <1>0, <2>2 DEF ProbeNotChallenged, EvaluateOutcome, Record
  <2>3. ASSUME NEW reply \in Replies, ProbeBadChallenge(a, reply)
        PROVE  Others(a)
    BY <1>0, <2>3 DEF ProbeBadChallenge, Conclude, Record
  <2>4. ASSUME NEW reply \in Replies, ProbeUnpaid(a, reply) \/ ProbeUnaffordable(a, reply)
        PROVE  Others(a)
    BY <1>0, <2>4 DEF ProbeUnpaid, ProbeUnaffordable, Challenged, Conclude, Record
  <2>5. ASSUME NEW reply \in Replies, ProbeSelects(a, reply)
        PROVE  Others(a)
    BY <1>0, <2>5 DEF ProbeSelects, Challenged, Record
  <2>. QED  BY <1>3, <2>1, <2>2, <2>3, <2>4, <2>5 DEF ProbeStep
<1>4. ASSUME NEW a \in Audits, AuthorizationFails(a) \/ Authorized(a)
      PROVE  Others(a)
  BY <1>0, <1>4 DEF AuthorizationFails, Authorized, Conclude, Record
<1>5. ASSUME NEW a \in Audits, PayStep(a) \/ Redeliver(a)
      PROVE  Others(a)
  BY <1>0, <1>5 DEF PayStep, SendPaid, PaidFails, PaidAnswers, EvaluateOutcome, Conclude, Record, Redeliver
<1>6. ASSUME NEW a \in Audits, FinishStep(a)
      PROVE  Others(a)
  BY <1>0, <1>6 DEF FinishStep, EvaluatorAnswers, EvaluatorFails, Complete, SaveFails, Conclude, Record
<1>7. ASSUME NEW a \in Audits, Authorize(a) \/ Address(a) \/ FetchEnds(a) \/ Sign(a) \/ SignEnds(a)
                               \/ Disconnect(a)
      PROVE  \A b \in Audits : Kept(b)
  BY <1>7 DEF Authorize, Address, FetchEnds, Sign, SignEnds, Disconnect, auditVars
<1>8. ASSUME NEW a \in Audits, NEW copy \in 1 .. MaxCopies, Settle(a, copy)
      PROVE  \A b \in Audits : Kept(b)
  BY <1>8 DEF Settle
<1>9. ASSUME Rotate \/ UNCHANGED vars
      PROVE  \A b \in Audits : Kept(b)
  BY <1>9 DEF Rotate, vars, auditVars
<1>. HIDE DEF Kept
<1>. QED  BY <1>1, <1>2, <1>3, <1>4, <1>5, <1>6, <1>7, <1>8, <1>9
          DEF Next, AuditStep, AuthorizeStep, Terminated, OwnStep

\* A report whose audit does nothing stays as it should be.
LEMMA KeptReport ==
  ASSUME NEW b \in Audits, Kept(b), ReportOK(b)
  PROVE  ReportOK(b)'
BY DEF Kept, ReportOK, StoredOK, FinalChecks

\* Initially no report holds anything.
LEMMA InitReports == Init => ReportInv
<1>1. ASSUME Init, NEW a \in Audits
      PROVE  ReportOK(a)
  BY <1>1 DEF Init, ReportOK, StageOK, EmptyReport, Committed, Running
<1>. QED  BY <1>1, InitSpending DEF ReportInv

-----------------------------------------------------------------------------
(* One audit's own steps *)

\* Conclude leaves a complete report.
LEMMA Concluded ==
  ASSUME DataOK, NEW a \in Audits, ReportOK(a), pc[a] \in Running \ {"inspecting"},
         NEW rep \in ReportType, NEW new \in Seq(CheckType), Conclude(a, rep, new),
         UNCHANGED <<request, inspection, selected, auth, copies, stored>>,
         rep.selected = report[a].selected, rep.attempted = report[a].attempted,
         rep.payer = report[a].payer,
         Audited([rep EXCEPT !.checks = @ \o new], request[a], terms'[a], selected[a], copies[a])
  PROVE  ReportOK(a)'
<1>. DEFINE next == [rep EXCEPT !.checks = @ \o new]
<1>1. ExtendedBy(next, rep, new)
  BY Added
<1>2. report'[a] = next /\ pc'[a] = "completing"
  BY DEF Conclude, Record, Goto, DataOK
<1>3. Audited(next, request[a], terms'[a], selected[a], copies[a])
  OBVIOUS
<1>. HIDE DEF next
<1>4. StageOK(pc'[a], report'[a], request'[a], terms'[a], selected'[a], copies'[a])
  BY <1>2, <1>3 DEF StageOK, Committed
<1>5. /\ report'[a].selected = selected'[a]
      /\ auth'[a] # None => report'[a].attempted /\ report'[a].payer = auth'[a].transfer.from
  BY <1>1, <1>2 DEF ExtendedBy, ReportOK
<1>6. inspection'[a] # None <=> request'[a].specReview
  BY DEF ReportOK
<1>7. stored'[a] = None
  BY DEF ReportOK, StoredOK, Running
<1>. QED  BY <1>2, <1>4, <1>5, <1>6, <1>7 DEF ReportOK

\* evaluateOutcome completes a report, or leaves it to the evaluator.
LEMMA Evaluated ==
  ASSUME DataOK, NEW a \in Audits, ReportOK(a), pc[a] \in Running \ {"inspecting"},
         NEW rep \in ReportType, NEW new \in Seq(CheckType), NEW status,
         EvaluateOutcome(a, rep, new, status),
         UNCHANGED <<request, inspection, terms, selected, auth, copies, stored>>,
         rep.selected = report[a].selected, rep.attempted = report[a].attempted,
         rep.payer = report[a].payer, rep.tier # "probe" => rep.paidStatus = status,
         Graded([rep EXCEPT !.checks = @ \o new], request[a], copies[a])
  PROVE  ReportOK(a)'
<1>. DEFINE mid == [rep EXCEPT !.checks = @ \o new]
            outcome == ImmediateOutcome(request[a], status)
<1>1. mid \in ReportType /\ outcome \in Seq(CheckType) /\ new \o outcome \in Seq(CheckType)
  BY AppendTypes, OutcomeTypes
<1>2. /\ ExtendedBy(mid, rep, new)
      /\ Graded(mid, request[a], copies[a])
  BY Added
<1>3. /\ report'[a] = [rep EXCEPT !.checks = @ \o (new \o outcome)]
      /\ pc'[a] = IF outcome = << >> THEN "evaluating" ELSE "completing"
  BY DEF EvaluateOutcome, Record, Goto, DataOK
<1>4. report'[a] = [mid EXCEPT !.checks = @ \o outcome]
  <2>1. rep.checks \in Seq(CheckType) /\ mid.checks = rep.checks \o new
    BY DEF ReportType
  <2>2. mid.checks \o outcome = rep.checks \o (new \o outcome)
    <3>. HIDE DEF mid, outcome
    <3>1. rep.checks \o (new \o outcome) = (rep.checks \o new) \o outcome
      BY <1>1, <2>1, Associative
    <3>. QED  BY <2>1, <3>1
  <2>. HIDE DEF outcome
  <2>. QED  BY <1>3, <2>2 DEF ReportType
<1>5. mid.tier # "probe" => mid.paidStatus = status
  BY <1>2 DEF ExtendedBy
<1>. HIDE DEF mid
<1>6. ExtendedBy(report'[a], mid, outcome)
  <2>. HIDE DEF outcome
  <2>. QED  BY <1>1, <1>4, Added
<1>7. \/ outcome = << >> /\ StatusMatches(request[a].expectedStatus, status)
      \/ \E c \in CheckType :
           /\ outcome = <<c>>
           /\ Sound(c, "task_outcome")
           /\ c.status \in {"pass", "warn", "fail"}
           /\ c.status # "fail" => StatusMatches(request[a].expectedStatus, status)
           /\ c.status = "pass" => request[a].expectation = "none"
  BY ImmediateFacts
<1>. HIDE DEF outcome
<1>8. StageOK(pc'[a], report'[a], request'[a], terms'[a], selected'[a], copies'[a])
  <2>1. CASE outcome = << >> /\ StatusMatches(request[a].expectedStatus, status)
    <3>1. report'[a] = mid
      <4>1. mid.checks \in Seq(CheckType)
        BY <1>1 DEF ReportType
      <4>2. mid.checks \o << >> = mid.checks
        BY <4>1
      <4>. QED  BY <1>1, <1>4, <2>1, <4>2 DEF ReportType
    <3>2. pc'[a] = "evaluating"
      BY <1>3, <2>1
    <3>. QED  BY <1>2, <1>5, <2>1, <3>1, <3>2 DEF StageOK, Committed
  <2>2. ASSUME NEW c \in CheckType, outcome = <<c>>,
               Sound(c, "task_outcome"), c.status \in {"pass", "warn", "fail"},
               c.status # "fail" => StatusMatches(request[a].expectedStatus, status),
               c.status = "pass" => request[a].expectation = "none"
        PROVE  StageOK(pc'[a], report'[a], request'[a], terms'[a], selected'[a], copies'[a])
    <3>1. pc'[a] = "completing"
      BY <1>3, <2>2
    <3>2. copies[a] \in Nat
      BY DEF DataOK
    <3>3. Audited([mid EXCEPT !.checks = @ \o <<c>>], request[a], terms'[a], selected[a], copies[a])
      BY <1>1, <1>2, <1>5, <2>2, <3>2, OutcomeAdded
    <3>4. Audited(report'[a], request'[a], terms'[a], selected'[a], copies'[a])
      BY <1>4, <2>2, <3>3
    <3>. QED  BY <3>1, <3>4 DEF StageOK, Committed
  <2>. QED  BY <1>7, <2>1, <2>2
<1>9. /\ report'[a].selected = selected'[a]
      /\ auth'[a] # None => report'[a].attempted /\ report'[a].payer = auth'[a].transfer.from
  BY <1>2, <1>6 DEF ExtendedBy, ReportOK
<1>10. inspection'[a] # None <=> request'[a].specReview
  BY DEF ReportOK
<1>11. stored'[a] = None
  BY DEF ReportOK, StoredOK, Running
<1>. QED  BY <1>3, <1>8, <1>9, <1>10, <1>11 DEF ReportOK

\* Before the probe.
LEMMA StartReports ==
  ASSUME DataOK, NEW a \in Audits, ReportOK(a),
         Inspect(a) \/ \E r \in Requests : Accept(a, r) \/ Refuse(a, r)
  PROVE  ReportOK(a)'
<1>1. ASSUME NEW r \in Requests, Accept(a, r) \/ Refuse(a, r)
      PROVE  ReportOK(a)'
  <2>1. r.specReview \in BOOLEAN
    BY AuditAssumption DEF RequestType
  <2>2. /\ pc[a] = "idle" /\ request'[a] = r
        /\ pc'[a] = "rejected" \/ pc'[a] = (IF r.specReview THEN "inspecting" ELSE "probing")
        /\ UNCHANGED <<inspection, terms, selected, auth, copies, report, stored>>
    BY <1>1 DEF Accept, Refuse, Goto, DataOK, moneyVars
  <2>3. StageOK(pc'[a], report'[a], request'[a], terms'[a], selected'[a], copies'[a])
    BY <2>2 DEF ReportOK, StageOK, Committed
  <2>. QED  BY <2>1, <2>2, <2>3 DEF ReportOK, StoredOK, Running
<1>2. CASE Inspect(a)
  <2>1. /\ pc[a] = "inspecting" /\ pc'[a] = "probing"
        /\ \E found \in Inspections : inspection'[a] = found
        /\ UNCHANGED <<request, terms, selected, auth, copies, report, stored>>
    BY <1>2 DEF Inspect, Goto, DataOK, moneyVars
  <2>2. inspection'[a] # None
    BY <2>1, NoneAssumption
  <2>3. StageOK(pc'[a], report'[a], request'[a], terms'[a], selected'[a], copies'[a])
    BY <2>1 DEF ReportOK, StageOK, Committed
  <2>. QED  BY <2>1, <2>2, <2>3 DEF ReportOK, StoredOK, Running
<1>. QED  BY <1>1, <1>2

\* The first checks of a report.
LEMMA FirstChecks ==
  ASSUME NEW rep \in ReportType, rep.checks = << >>, NEW new \in Seq(CheckType)
  PROVE  LET next == [rep EXCEPT !.checks = @ \o new] IN
         /\ next \in ReportType /\ next.checks = new
         /\ next.tier = rep.tier /\ next.probeStatus = rep.probeStatus
         /\ next.selected = rep.selected
<1>1. << >> \o new = new
  OBVIOUS
<1>2. ExtendedBy([rep EXCEPT !.checks = @ \o new], rep, new)
  BY Added
<1>. QED  BY <1>1, <1>2, AppendTypes DEF ExtendedBy

\* The answer to the unpaid request.
LEMMA ProbeReports ==
  ASSUME IInv, NEW a \in Audits, ReportOK(a), ProbeStep(a)
  PROVE  ReportOK(a)'
<1>. DEFINE fields(rep) == /\ rep.selected = report[a].selected
                           /\ rep.attempted = report[a].attempted
                           /\ rep.payer = report[a].payer
<1>0. /\ DataOK /\ pc[a] = "probing" /\ pc[a] \in Running \ {"inspecting"}
      /\ report[a] = EmptyReport /\ report[a] \in ReportType /\ copies[a] \in Nat
      /\ selected[a] = None
  <2>1. pc[a] = "probing"
    BY DEF ProbeStep, ProbeFails, ProbeNotChallenged, ProbeBadChallenge, ProbeUnpaid,
           ProbeUnaffordable, ProbeSelects, Challenged, ProbeAnswered
  <2>2. report[a] = EmptyReport
    BY <2>1 DEF ReportOK, StageOK
  <2>. QED  BY <2>1, <2>2 DEF IInv, DataOK, ScopeOK, Running
<1>1. /\ EmptyReport.checks = << >> /\ EmptyReport.tier = "probe"
  BY DEF EmptyReport
<1>2. CASE ProbeFails(a)
  <2>. DEFINE new == <<Failed("reachability"), Skipped("x402_challenge"), Skipped("payment_budget"),
                       Skipped("paid_delivery"), Skipped("task_outcome")>>
              next == [report[a] EXCEPT !.checks = @ \o new]
  <2>1. new \in Seq(CheckType)
    BY CheckTypes DEF CheckNames
  <2>2. next \in ReportType /\ next.tier = "probe" /\ next.checks = new
    <3>. HIDE DEF new
    <3>. QED  BY <1>0, <1>1, <2>1, FirstChecks
  <2>3. Audited(next, request[a], terms[a], selected[a], copies[a])
    <3>. HIDE DEF next
    <3>. QED  BY <1>0, <2>2, EndedEarly
  <2>4. /\ Conclude(a, report[a], new)
        /\ UNCHANGED <<request, inspection, terms, selected, auth, copies, stored>>
    BY <1>2 DEF ProbeFails, askVars, moneyVars
  <2>. HIDE DEF new
  <2>. QED  BY <1>0, <2>1, <2>3, <2>4, Concluded
<1>3. ASSUME NEW reply \in Replies, ProbeNotChallenged(a, reply)
      PROVE  ReportOK(a)'
  <2>. DEFINE new == <<Passed("reachability"), Failed("x402_challenge"), Skipped("payment_budget"),
                       Skipped("paid_delivery")>>
              rep == [report[a] EXCEPT !.probeStatus = reply.status]
              mid == [rep EXCEPT !.checks = @ \o new]
  <2>1. new \in Seq(CheckType)
    BY CheckTypes DEF CheckNames
  <2>2. /\ rep \in ReportType /\ rep.checks = << >> /\ rep.tier = "probe" /\ fields(rep)
    <3>1. reply.status \in Nat
      BY AuditAssumption DEF Answers
    <3>. QED  BY <1>0, <1>1, <3>1 DEF ReportType
  <2>3. EvaluateOutcome(a, rep, new, reply.status)
    BY <1>3 DEF ProbeNotChallenged
  <2>. HIDE DEF rep
  <2>4. mid \in ReportType /\ mid.tier = "probe" /\ mid.checks = new
    <3>. HIDE DEF new
    <3>. QED  BY <2>1, <2>2, FirstChecks
  <2>5. Graded(mid, request[a], copies[a])
    <3>. HIDE DEF mid
    <3>. QED  BY <1>0, <2>4, NotPayable
  <2>6. UNCHANGED <<request, inspection, terms, selected, auth, copies, stored>>
    BY <1>3 DEF ProbeNotChallenged, askVars, moneyVars
  <2>. HIDE DEF new
  <2>. QED  BY <1>0, <2>1, <2>2, <2>3, <2>5, <2>6, Evaluated
<1>. DEFINE answered == [report[a] EXCEPT !.probeStatus = 402]
<1>4. /\ answered \in ReportType /\ answered.checks = << >> /\ answered.tier = "probe"
      /\ answered.probeStatus = 402 /\ fields(answered)
  BY <1>0, <1>1 DEF ReportType
<1>5. ASSUME NEW reply \in Replies, ProbeBadChallenge(a, reply)
      PROVE  ReportOK(a)'
  <2>. DEFINE new == <<Passed("reachability"), Failed("x402_challenge"), Skipped("payment_budget"),
                       Skipped("paid_delivery"), Skipped("task_outcome")>>
              next == [answered EXCEPT !.checks = @ \o new]
  <2>1. new \in Seq(CheckType)
    BY CheckTypes DEF CheckNames
  <2>2. /\ Conclude(a, answered, new)
        /\ UNCHANGED <<request, inspection, terms, selected, auth, copies, stored>>
    BY <1>5 DEF ProbeBadChallenge, askVars, moneyVars
  <2>. HIDE DEF answered
  <2>3. next \in ReportType /\ next.tier = "probe" /\ next.checks = new
    <3>. HIDE DEF new
    <3>. QED  BY <1>4, <2>1, FirstChecks
  <2>4. Audited(next, request[a], terms'[a], selected[a], copies[a])
    <3>. HIDE DEF next
    <3>. QED  BY <1>0, <2>3, EndedEarly
  <2>. HIDE DEF new
  <2>. QED  BY <1>0, <1>4, <2>1, <2>2, <2>4, Concluded
<1>6. ASSUME NEW reply \in Replies, ProbeUnpaid(a, reply)
      PROVE  ReportOK(a)'
  <2>. DEFINE new == <<Passed("reachability"), Passed("x402_challenge"), Skipped("payment_budget"),
                       Skipped("paid_delivery"), Skipped("task_outcome")>>
              next == [answered EXCEPT !.checks = @ \o new]
  <2>1. new \in Seq(CheckType)
    BY CheckTypes DEF CheckNames
  <2>2. /\ Conclude(a, answered, new)
        /\ UNCHANGED <<request, inspection, selected, auth, copies, stored>>
        /\ ~request[a].pay
    BY <1>6 DEF ProbeUnpaid, moneyVars
  <2>3. terms'[a] # None
    <3>1. /\ ChallengeParses(ChallengeDocument(reply))
          /\ terms'[a] = ParsePaymentChallenge(ChallengeDocument(reply))
      BY <1>0, <1>6 DEF ProbeUnpaid, Challenged, DataOK
    <3>. QED  BY <3>1, ReplyTerms, NoneAssumption
  <2>. HIDE DEF answered
  <2>4. next \in ReportType /\ next.tier = "probe" /\ next.checks = new /\ next.probeStatus = 402
    <3>. HIDE DEF new
    <3>. QED  BY <1>4, <2>1, FirstChecks
  <2>5. Audited(next, request[a], terms'[a], selected[a], copies[a])
    <3>. HIDE DEF next
    <3>. QED  BY <1>0, <2>2, <2>3, <2>4, EndedEarly
  <2>. HIDE DEF new
  <2>. QED  BY <1>0, <1>4, <2>1, <2>2, <2>5, Concluded
<1>7. ASSUME NEW reply \in Replies, ProbeUnaffordable(a, reply)
      PROVE  ReportOK(a)'
  <2>. DEFINE new == <<Passed("reachability"), Passed("x402_challenge"), Failed("payment_budget"),
                       Skipped("paid_delivery"), Skipped("task_outcome")>>
              next == [answered EXCEPT !.checks = @ \o new]
  <2>1. new \in Seq(CheckType)
    BY CheckTypes DEF CheckNames
  <2>2. /\ Conclude(a, answered, new)
        /\ UNCHANGED <<request, inspection, selected, auth, copies, stored>>
    BY <1>7 DEF ProbeUnaffordable, moneyVars
  <2>. HIDE DEF answered
  <2>3. next \in ReportType /\ next.tier = "probe" /\ next.checks = new
    <3>. HIDE DEF new
    <3>. QED  BY <1>4, <2>1, FirstChecks
  <2>4. Audited(next, request[a], terms'[a], selected[a], copies[a])
    <3>. HIDE DEF next
    <3>. QED  BY <1>0, <2>3, EndedEarly
  <2>. HIDE DEF new
  <2>. QED  BY <1>0, <1>4, <2>1, <2>2, <2>4, Concluded
<1>8. ASSUME NEW reply \in Replies, ProbeSelects(a, reply)
      PROVE  ReportOK(a)'
  <2>. DEFINE new == <<Passed("reachability"), Passed("x402_challenge"), Passed("payment_budget")>>
              chosen == Choice(a, reply)
              rep == [report[a] EXCEPT !.probeStatus = 402, !.selected = chosen]
              next == [rep EXCEPT !.checks = @ \o new]
  <2>1. new \in Seq(CheckType) /\ PassedThree([tier |-> "probe", checks |-> new], request[a])
    <3>1. request[a].pay
      BY <1>8 DEF ProbeSelects
    <3>2. \A name \in CheckNames : Sound(Passed(name), name) /\ Passed(name).status = "pass"
      BY SoundChecks
    <3>3. {"reachability", "x402_challenge", "payment_budget"} \subseteq CheckNames
      BY DEF CheckNames
    <3>. QED  BY <3>1, <3>2, <3>3, CheckTypes DEF PassedThree, InOrder, CheckOrder
  <2>2. /\ pc'[a] = "authorizing" /\ selected'[a] = chosen /\ report'[a] = next
        /\ UNCHANGED <<request, inspection, auth, copies, stored>>
    BY <1>0, <1>8 DEF ProbeSelects, Goto, Record, DataOK
  <2>3. rep \in ReportType /\ rep.checks = << >> /\ rep.tier = "probe" /\ rep.selected = chosen
    <3>1. ChallengeParses(ChallengeDocument(reply)) /\ request[a].pay /\ chosen # None
      BY <1>8 DEF ProbeSelects, Challenged
    <3>2. 402 \in Nat /\ chosen \in Requirements \cup {None}
      BY <3>1, ChoiceFacts
    <3>. HIDE DEF chosen
    <3>3. rep \in ReportType
      <4>1. \A n \in Nat, q \in Requirements \cup {None} :
               [report[a] EXCEPT !.probeStatus = n, !.selected = q] \in ReportType
        BY <1>0, FieldTypes
      <4>. QED  BY <3>2, <4>1
    <3>4. rep.checks = << >> /\ rep.tier = "probe" /\ rep.selected = chosen
      BY <1>0, <1>1 DEF ReportType
    <3>. QED  BY <3>3, <3>4
  <2>. HIDE DEF rep, chosen
  <2>4. next.tier = "probe" /\ next.checks = new /\ next.selected = chosen
    <3>. HIDE DEF new
    <3>. QED  BY <2>1, <2>3, FirstChecks
  <2>. HIDE DEF new, next
  <2>5. PassedThree(next, request[a])
    BY <2>1, <2>4 DEF PassedThree
  <2>6. StageOK(pc'[a], report'[a], request'[a], terms'[a], selected'[a], copies'[a])
    BY <2>2, <2>5 DEF StageOK, Committed
  <2>7. auth'[a] = None
    BY <1>0, <2>2 DEF IInv, ScopeOK
  <2>. QED  BY <1>0, <2>2, <2>4, <2>6, <2>7 DEF ReportOK, StoredOK, Running
<1>. QED  BY <1>2, <1>3, <1>5, <1>6, <1>7, <1>8 DEF ProbeStep

\* The return of Authorize, and the paid request.
LEMMA PaymentReports ==
  ASSUME SpendingInv, NEW a \in Audits, ReportOK(a),
         AuthorizationFails(a) \/ Authorized(a) \/ PayStep(a) \/ Redeliver(a)
  PROVE  ReportOK(a)'
<1>. DEFINE lost == <<Failed("paid_delivery"), Skipped("task_outcome")>>
<1>0. /\ DataOK /\ pc[a] \in Committed /\ pc[a] \in Running \ {"inspecting"}
      /\ report[a] \in ReportType /\ copies[a] \in Nat
      /\ PassedThree(report[a], request[a])
  <2>1. pc[a] \in Committed
    BY DEF AuthorizationFails, Authorized, PayStep, SendPaid, PaidFails, PaidAnswers, Redeliver,
           Committed
  <2>2. PassedThree(report[a], request[a])
    BY <2>1 DEF ReportOK, StageOK
  <2>. QED  BY <2>1, <2>2 DEF SpendingInv, IInv, DataOK, Committed, Running
<1>1. CASE AuthorizationFails(a) \/ PaidFails(a)
  <2>1. /\ Conclude(a, report[a], lost)
        /\ UNCHANGED <<request, inspection, terms, selected, auth, copies, stored>>
    BY <1>1 DEF AuthorizationFails, PaidFails, askVars, moneyVars
  <2>2. lost \in Seq(CheckType)
    BY CheckTypes DEF CheckNames
  <2>3. Audited([report[a] EXCEPT !.checks = @ \o lost], request[a], terms'[a], selected[a], copies[a])
    BY <1>0, Undelivered
  <2>. HIDE DEF lost
  <2>. QED  BY <1>0, <2>1, <2>2, <2>3, Concluded
<1>2. CASE Authorized(a)
  <2>1. /\ call[a].stage = "signed" /\ pc[a] = "authorizing" /\ pc'[a] = "paying"
        /\ auth'[a] = Envelope(selected[a], typed[a])
        /\ report'[a] = [report[a] EXCEPT !.attempted = TRUE, !.payer = call[a].payer,
                                          !.header = header[a]]
        /\ UNCHANGED <<request, inspection, terms, selected, copies, stored>>
    BY <1>0, <1>2 DEF Authorized, Goto, askVars, DataOK
  <2>2. call[a].payer = auth'[a].transfer.from
    BY <2>1 DEF SpendingInv, IInv, MoneyTrail, SigningOK, Envelope
  <2>3. /\ report'[a].attempted /\ report'[a].payer = call[a].payer
        /\ report'[a].selected = report[a].selected
        /\ report'[a].checks = report[a].checks /\ report'[a].tier = report[a].tier
    BY <1>0, <2>1 DEF ReportType
  <2>4. PassedThree(report'[a], request'[a])
    BY <1>0, <2>1, <2>3 DEF PassedThree
  <2>5. StageOK(pc'[a], report'[a], request'[a], terms'[a], selected'[a], copies'[a])
    BY <2>1, <2>4 DEF StageOK, Committed
  <2>. QED  BY <2>1, <2>2, <2>3, <2>5 DEF ReportOK, StoredOK, Running
<1>3. CASE SendPaid(a) \/ Redeliver(a)
  <2>1. /\ pc[a] \in {"paying", "awaiting"} /\ pc'[a] = "awaiting"
        /\ UNCHANGED <<request, inspection, terms, selected, auth, report, stored>>
    BY <1>0, <1>3 DEF SendPaid, Redeliver, Goto, askVars, DataOK
  <2>2. StageOK(pc'[a], report'[a], request'[a], terms'[a], selected'[a], copies'[a])
    BY <1>0, <2>1 DEF StageOK, Committed
  <2>. QED  BY <2>1, <2>2 DEF ReportOK, StoredOK, Running
<1>4. ASSUME NEW status \in PaidStatuses, PaidAnswers(a, status)
      PROVE  ReportOK(a)'
  <2>. DEFINE rep == [report[a] EXCEPT !.tier = "verified", !.paidStatus = status]
              new == <<IF Is2xx(status) THEN Passed("paid_delivery") ELSE Failed("paid_delivery")>>
  <2>1. /\ EvaluateOutcome(a, rep, new, status) /\ pc[a] = "awaiting"
        /\ UNCHANGED <<request, inspection, terms, selected, auth, copies, stored>>
    BY <1>4 DEF PaidAnswers, askVars, moneyVars
  <2>2. new \in Seq(CheckType)
    BY CheckTypes DEF CheckNames
  <2>3. status \in Nat /\ copies[a] \in Nat \ {0}
    BY <1>0, <2>1, AuditAssumption DEF SpendingInv, DeliveriesOK
  <2>4. Graded([rep EXCEPT !.checks = @ \o new], request[a], copies[a])
    BY <1>0, <2>3, PaidGraded
  <2>5. /\ rep \in ReportType /\ rep.selected = report[a].selected
        /\ rep.attempted = report[a].attempted /\ rep.payer = report[a].payer
        /\ rep.paidStatus = status
    BY <1>0, <2>3 DEF ReportType
  <2>. HIDE DEF rep, new
  <2>. QED  BY <1>0, <2>1, <2>2, <2>4, <2>5, Evaluated
<1>. QED  BY <1>1, <1>2, <1>3, <1>4 DEF PayStep

\* The judgement of the evaluator, and the end.
LEMMA FinishReports ==
  ASSUME DataOK, NEW a \in Audits, ReportOK(a), FinishStep(a)
  PROVE  ReportOK(a)'
<1>0. report[a] \in ReportType /\ copies[a] \in Nat
  BY DEF DataOK
<1>1. ASSUME NEW judgement \in Judgements, EvaluatorAnswers(a, judgement)
      PROVE  ReportOK(a)'
  <2>. DEFINE rep == [report[a] EXCEPT !.semantic = judgement]
              c == SemanticOutcomeCheck(judgement)
  <2>1. /\ pc[a] = "evaluating" /\ Conclude(a, rep, <<c>>) /\ UsableJudgement(judgement)
        /\ UNCHANGED <<request, inspection, terms, selected, auth, copies, stored>>
    BY <1>1 DEF EvaluatorAnswers, askVars, moneyVars
  <2>2. /\ c \in CheckType /\ Sound(c, "task_outcome") /\ c.status \in {"pass", "warn", "fail"}
        /\ c.status = "pass" => judgement.passed /\ judgement.score >= 50
    BY <2>1, SoundJudgement, SemanticCheckType
  <2>3. /\ rep \in ReportType /\ rep.checks = report[a].checks /\ rep.tier = report[a].tier
        /\ rep.paidStatus = report[a].paidStatus /\ rep.semantic = judgement
        /\ rep.selected = report[a].selected
        /\ rep.attempted = report[a].attempted /\ rep.payer = report[a].payer
    BY <1>0 DEF ReportType
  <2>. HIDE DEF rep, c
  <2>4. /\ Graded(report[a], request[a], copies[a])
        /\ report[a].tier # "probe" => StatusMatches(request[a].expectedStatus, report[a].paidStatus)
    BY <2>1 DEF ReportOK, StageOK
  <2>5. Graded(rep, request[a], copies[a])
    BY <2>3, <2>4 DEF Graded, Delivered
  <2>6. Audited([rep EXCEPT !.checks = @ \o <<c>>], request[a], terms'[a], selected[a], copies[a])
    BY <1>0, <2>2, <2>3, <2>4, <2>5, OutcomeAdded
  <2>7. <<c>> \in Seq(CheckType) /\ pc[a] \in Running \ {"inspecting"}
    BY <2>1, <2>2 DEF Running
  <2>. QED  BY <2>1, <2>3, <2>6, <2>7, Concluded
<1>2. CASE EvaluatorFails(a)
  <2>. DEFINE c == Warned("task_outcome")
  <2>1. /\ pc[a] = "evaluating" /\ Conclude(a, report[a], <<c>>)
        /\ UNCHANGED <<request, inspection, terms, selected, auth, copies, stored>>
    BY <1>2 DEF EvaluatorFails, askVars, moneyVars
  <2>2. c \in CheckType /\ Sound(c, "task_outcome") /\ c.status = "warn"
    BY CheckTypes, SoundChecks DEF CheckNames
  <2>. HIDE DEF c
  <2>3. /\ Graded(report[a], request[a], copies[a])
        /\ report[a].tier # "probe" => StatusMatches(request[a].expectedStatus, report[a].paidStatus)
    BY <2>1 DEF ReportOK, StageOK
  <2>4. Audited([report[a] EXCEPT !.checks = @ \o <<c>>], request[a], terms'[a], selected[a], copies[a])
    BY <1>0, <2>2, <2>3, OutcomeAdded
  <2>5. <<c>> \in Seq(CheckType) /\ pc[a] \in Running \ {"inspecting"}
    BY <2>1, <2>2 DEF Running
  <2>. QED  BY <1>0, <2>1, <2>4, <2>5, Concluded
<1>3. CASE Complete(a) \/ SaveFails(a)
  <2>1. /\ pc[a] = "completing" /\ report'[a] = FinalReport(a)
        /\ \/ pc'[a] = "done" /\ stored'[a] = FinalReport(a)
           \/ pc'[a] = "failed" /\ stored'[a] = stored[a]
        /\ UNCHANGED <<request, inspection, terms, selected, auth, copies>>
    BY <1>3 DEF Complete, SaveFails, Goto, DataOK, askVars, moneyVars
  <2>2. Audited(report[a], request[a], terms[a], selected[a], copies[a]) /\ stored[a] = None
    BY <2>1 DEF ReportOK, StageOK, StoredOK
  <2>3. /\ FinalReport(a).selected = report[a].selected
        /\ FinalReport(a).attempted = report[a].attempted /\ FinalReport(a).payer = report[a].payer
    <3>. DEFINE whole == [report[a] EXCEPT !.checks = @ \o FinalChecks(a)]
    <3>1. /\ whole \in ReportType /\ whole.selected = report[a].selected
          /\ whole.attempted = report[a].attempted /\ whole.payer = report[a].payer
      <4>1. FinalChecks(a) \in Seq(CheckType)
        BY SpecCheckTypes DEF FinalChecks
      <4>. QED  BY <1>0, <4>1, AppendTypes, Added DEF ExtendedBy
    <3>2. FinalReport(a) = FinalizeReport(whole)
      BY DEF FinalReport
    <3>. HIDE DEF whole
    <3>. QED  BY <3>1, <3>2 DEF FinalizeReport, ReportType
  <2>4. StageOK(pc'[a], report'[a], request'[a], terms'[a], selected'[a], copies'[a])
    BY <2>1 DEF StageOK, Committed
  <2>5. stored'[a] # None => StoredOK(a)'
    <3>1. FinalChecks(a)' = FinalChecks(a)
      BY <2>1 DEF FinalChecks
    <3>. QED  BY <1>0, <2>1, <2>2, <3>1 DEF StoredOK, FinalReport
  <2>. QED  BY <2>1, <2>3, <2>4, <2>5 DEF ReportOK, Running
<1>. QED  BY <1>1, <1>2, <1>3 DEF FinishStep

\* The invariant of the reports.
LEMMA NextReports == ReportInv /\ [Next]_vars => ReportInv'
<1>. SUFFICES ASSUME ReportInv, [Next]_vars PROVE ReportInv'
  OBVIOUS
<1>1. SpendingInv' /\ IInv /\ DataOK
  BY NextSpends DEF ReportInv, SpendingInv, IInv
<1>2. ASSUME NEW a \in Audits, OwnStep(a)
      PROVE  ReportOK(a)'
  BY <1>1, <1>2, StartReports, ProbeReports, PaymentReports, FinishReports DEF OwnStep, ReportInv
<1>3. \A b \in Audits : Kept(b) => ReportOK(b)'
  BY KeptReport DEF ReportInv
<1>. QED  BY <1>1, <1>2, <1>3, OneAuditSteps DEF ReportInv

\* It always holds.
LEMMA AlwaysReportInv == Spec => []ReportInv
BY InitReports, NextReports, PTL DEF Spec

-----------------------------------------------------------------------------
(* Payments and reports *)

\* A stored report does not hide that money has moved, nor to whom (auditor.go:137-164).
THEOREM PaymentsAreReported == Spec => []NoHiddenPayment
<1>1. ReportInv => NoHiddenPayment
  <2>. SUFFICES ASSUME ReportInv, NEW s \in settled
                PROVE  LET a == s.audit IN
                       /\ pc[a] \notin {"idle", "rejected", "inspecting", "probing", "authorizing", "paying"}
                       /\ stored[a] # None => /\ stored[a].attempted
                                              /\ stored[a].payer = s.transfer.from
                                              /\ stored[a].selected.amount = s.transfer.value
                                              /\ stored[a].selected.payTo = s.transfer.to
    BY DEF NoHiddenPayment
  <2>. DEFINE a == s.audit
  <2>1. a \in Audits /\ auth[a] # None /\ s.transfer = auth[a].transfer
    BY SettledWasSent DEF ReportInv
  <2>. HIDE DEF a
  <2>2. pc[a] \notin {"idle", "rejected", "inspecting", "probing", "authorizing"}
    BY <2>1 DEF ReportInv, SpendingInv, IInv, ScopeOK
  <2>3. pc[a] # "paying"
    <3>1. copies[a] \in Nat /\ s.copy \in 1 .. copies[a]
      BY <2>1 DEF ReportInv, SpendingInv, IInv, DataOK, DeliveriesOK, a
    <3>. QED  BY <2>1, <3>1 DEF ReportInv, SpendingInv, DeliveriesOK
  <2>4. auth[a].transfer = Transfer(selected[a], typed[a].from, typed[a].nonce)
    BY <2>1 DEF ReportInv, SpendingInv, IInv, MoneyTrail, EnvelopeOK, SigningOK
  <2>5. s.transfer.value = selected[a].amount /\ s.transfer.to = selected[a].payTo
    BY <2>1, <2>4 DEF Transfer
  <2>6. /\ report[a].selected = selected[a] /\ report[a].attempted
        /\ report[a].payer = s.transfer.from
        /\ stored[a] # None => stored[a] = report[a]
    BY <2>1 DEF ReportInv, ReportOK, StoredOK
  <2>. QED  BY <2>2, <2>3, <2>5, <2>6 DEF a
<1>. QED  BY <1>1, AlwaysReportInv, PTL

-----------------------------------------------------------------------------
(* What the store holds *)

\* A stored report: rep is what the audit had found when it called complete.
Finalized(done, rep, extra) ==
  /\ ExtendedBy(done, rep, extra)
  /\ done.score = Percent(PointsOf(done.checks), AssessedWeight(done.checks))
  /\ done.coverage = Percent(AssessedWeight(done.checks), TotalWeight(done.checks))
  /\ done.verdict = Verdict(done.tier, done.checks)

\* The two checks of a specification review, or none.
LEMMA ReviewChecks ==
  ASSUME ReportInv, NEW a \in Audits, pc[a] = "done"
  PROVE  /\ FinalChecks(a) \in Seq(CheckType)
         /\ Len(FinalChecks(a)) = IF request[a].specReview THEN 2 ELSE 0
         /\ \A i \in 1 .. Len(FinalChecks(a)) :
              /\ Sound(FinalChecks(a)[i], CheckOrder[5 + i])
              /\ FinalChecks(a)[i].status \in {"pass", "warn"}
<1>1. inspection[a] # None <=> request[a].specReview
  BY DEF ReportInv, ReportOK
<1>2. CASE ~request[a].specReview
  BY <1>1, <1>2 DEF FinalChecks
<1>3. CASE request[a].specReview
  <2>. DEFINE discovery == IF inspection[a].discovery
                             THEN Passed("service_discovery") ELSE Warned("service_discovery")
              contract == IF ContractReady(inspection[a], terms[a], Method(request[a]))
                            THEN Passed("request_contract") ELSE Warned("request_contract")
  <2>1. FinalChecks(a) = <<discovery, contract>>
    BY <1>1, <1>3 DEF FinalChecks, SpecChecks
  <2>2. /\ Sound(discovery, "service_discovery") /\ discovery.status \in {"pass", "warn"}
        /\ Sound(contract, "request_contract") /\ contract.status \in {"pass", "warn"}
        /\ discovery \in CheckType /\ contract \in CheckType
    BY SoundChecks, CheckTypes DEF CheckNames
  <2>. HIDE DEF discovery, contract
  <2>3. CheckOrder[6] = "service_discovery" /\ CheckOrder[7] = "request_contract"
    BY DEF CheckOrder
  <2>. QED  BY <1>3, <2>1, <2>2, <2>3
<1>. QED  BY <1>2, <1>3

\* Every stored report is one whose audit had made all its checks.
LEMMA StoredReport ==
  ASSUME ReportInv, NEW a \in Audits, stored[a] # None
  PROVE  /\ pc[a] = "done" /\ stored[a] \in ReportType
         /\ \E rep \in ReportType :
              /\ Audited(rep, request[a], terms[a], selected[a], copies[a])
              /\ Finalized(stored[a], rep, FinalChecks(a))
<1>1. pc[a] = "done" /\ stored[a] \in ReportType
  BY DEF ReportInv, ReportOK, StoredOK, SpendingInv, IInv, DataOK
<1>2. PICK rep \in ReportType :
        /\ Audited(rep, request[a], terms[a], selected[a], copies[a])
        /\ stored[a] = FinalizeReport([rep EXCEPT !.checks = @ \o FinalChecks(a)])
  BY DEF ReportInv, ReportOK, StoredOK
<1>. DEFINE whole == [rep EXCEPT !.checks = @ \o FinalChecks(a)]
<1>3. FinalChecks(a) \in Seq(CheckType)
  BY <1>1, ReviewChecks
<1>4. whole \in ReportType /\ ExtendedBy(whole, rep, FinalChecks(a))
  BY <1>3, AppendTypes, Added
<1>5. stored[a] = FinalizeReport(whole)
  BY <1>2
<1>. HIDE DEF whole
<1>6. /\ stored[a].checks = whole.checks /\ stored[a].tier = whole.tier
      /\ stored[a].probeStatus = whole.probeStatus /\ stored[a].paidStatus = whole.paidStatus
      /\ stored[a].semantic = whole.semantic /\ stored[a].selected = whole.selected
      /\ stored[a].attempted = whole.attempted /\ stored[a].payer = whole.payer
      /\ stored[a].score = Percent(PointsOf(whole.checks), AssessedWeight(whole.checks))
      /\ stored[a].coverage = Percent(AssessedWeight(whole.checks), TotalWeight(whole.checks))
      /\ stored[a].verdict = Verdict(whole.tier, whole.checks)
  BY <1>4, <1>5 DEF FinalizeReport, ReportType
<1>7. Finalized(stored[a], rep, FinalChecks(a))
  BY <1>4, <1>6 DEF Finalized, ExtendedBy
<1>. QED  BY <1>1, <1>2, <1>7

\* Its checks, those of the specification review among them.
LEMMA StoredChecks ==
  ASSUME ReportInv, NEW a \in Audits, stored[a] # None,
         NEW rep \in ReportType,
         Audited(rep, request[a], terms[a], selected[a], copies[a]),
         Finalized(stored[a], rep, FinalChecks(a))
  PROVE  LET checks == stored[a].checks
             n == IF request[a].specReview THEN 7 ELSE 5
         IN  /\ DOMAIN checks = 1 .. n /\ InOrder(checks, n)
             /\ \A i \in 1 .. 5 : checks[i] = rep.checks[i]
             /\ \A i \in 6 .. n : checks[i].status \in {"pass", "warn"}
             /\ Justified(checks, request[a])
<1>. DEFINE checks == stored[a].checks
            extra == FinalChecks(a)
            n == IF request[a].specReview THEN 7 ELSE 5
<1>1. /\ Len(extra) = n - 5
      /\ \A i \in 1 .. Len(extra) : /\ Sound(extra[i], CheckOrder[5 + i])
                                    /\ extra[i].status \in {"pass", "warn"}
  <2>1. pc[a] = "done"
    BY StoredReport
  <2>2. /\ Len(extra) = IF request[a].specReview THEN 2 ELSE 0
        /\ \A i \in 1 .. Len(extra) : /\ Sound(extra[i], CheckOrder[5 + i])
                                      /\ extra[i].status \in {"pass", "warn"}
    BY <2>1, ReviewChecks
  <2>. HIDE DEF extra
  <2>. QED  BY <2>2
<1>2. /\ Len(rep.checks) = 5 /\ DOMAIN rep.checks = 1 .. 5
      /\ \A i \in 1 .. 5 : Sound(rep.checks[i], CheckOrder[i])
      /\ Justified(rep.checks, request[a])
  BY DEF Audited, InOrder, ReportType
<1>. HIDE DEF extra
<1>3. /\ Len(checks) = 5 + (n - 5) /\ DOMAIN checks = 1 .. 5 + (n - 5)
      /\ \A i \in 1 .. 5 : checks[i] = rep.checks[i]
      /\ \A i \in 1 .. n - 5 : checks[5 + i] = extra[i]
  BY <1>1, <1>2 DEF Finalized, ExtendedBy, extra
<1>. HIDE DEF checks
<1>4. \A i \in 6 .. n : Sound(checks[i], CheckOrder[i]) /\ checks[i].status \in {"pass", "warn"}
  <2>. SUFFICES ASSUME NEW i \in 6 .. n
                PROVE  Sound(checks[i], CheckOrder[i]) /\ checks[i].status \in {"pass", "warn"}
    OBVIOUS
  <2>1. i - 5 \in 1 .. n - 5 /\ 5 + (i - 5) = i
    OBVIOUS
  <2>. HIDE DEF n
  <2>2. checks[i] = extra[i - 5]
    BY <1>3, <2>1
  <2>. QED  BY <1>1, <2>1, <2>2
<1>5. InOrder(checks, n) /\ DOMAIN checks = 1 .. n
  BY <1>2, <1>3, <1>4 DEF InOrder
<1>6. Justified(checks, request[a])
  <2>. SUFFICES ASSUME NEW i \in 1 .. n, checks[i].status = "skip", request[a].pay
                PROVE  \E j \in 1 .. i - 1 : checks[j].status = "fail"
    BY <1>5 DEF Justified
  <2>1. i \in 1 .. 5
    BY <1>4
  <2>2. PICK j \in 1 .. i - 1 : rep.checks[j].status = "fail"
    BY <1>2, <1>3, <2>1 DEF Justified
  <2>. QED  BY <1>3, <2>1, <2>2
<1>. QED  BY <1>3, <1>4, <1>5, <1>6 DEF checks

\* No path through Audit leaves a check out, makes one twice or skips one without a
\* reason (auditor.go:64-186, specsmith.go:463).
THEOREM EveryCheckIsMade == Spec => []ChecksComplete
<1>1. ReportInv => ChecksComplete
  <2>. SUFFICES ASSUME ReportInv, NEW a \in Audits, stored[a] # None
                PROVE  LET checks == stored[a].checks IN
                       /\ Len(checks) = IF request[a].specReview THEN MaxChecks ELSE 5
                       /\ \A i, j \in DOMAIN checks : checks[i].name = checks[j].name => i = j
                       /\ Justified(checks, request[a])
    BY DEF ChecksComplete, Justified
  <2>. DEFINE checks == stored[a].checks
              n == IF request[a].specReview THEN 7 ELSE 5
  <2>1. DOMAIN checks = 1 .. n /\ InOrder(checks, n) /\ Justified(checks, request[a])
    BY StoredReport, StoredChecks
  <2>2. \A i, j \in 1 .. 7 : CheckOrder[i] = CheckOrder[j] => i = j
    BY DEF CheckOrder
  <2>3. \A i \in 1 .. n : i \in 1 .. 7 /\ checks[i].name = CheckOrder[i]
    BY <2>1 DEF InOrder, Sound
  <2>4. Len(checks) = n
    BY <2>1 DEF InOrder
  <2>. QED  BY <2>1, <2>2, <2>3, <2>4 DEF MaxChecks
<1>. QED  BY <1>1, AlwaysReportInv, PTL

\* A verdict says no more than the audit has seen (auditor.go:174-187, 305-325, 366-382).
THEOREM VerdictsAreHonest == Spec => []VerdictHonest
<1>1. ReportInv => VerdictHonest
  <2>. SUFFICES ASSUME ReportInv, NEW a \in Audits, stored[a] # None
                PROVE  LET rep == stored[a]  r == request[a] IN
                       /\ rep.verdict \in {"PROBE_PASS", "PROBE_PASS_WITH_WARNINGS"} =>
                            /\ rep.probeStatus = 402 /\ terms[a] # None
                            /\ ~r.pay /\ copies[a] = 0
                            /\ \A s \in signed : s.data # typed[a]
                       /\ rep.verdict \in {"PASS", "PASS_WITH_WARNINGS"} =>
                            /\ r.pay /\ copies[a] > 0
                            /\ Is2xx(rep.paidStatus)
                            /\ StatusMatches(r.expectedStatus, rep.paidStatus)
                       /\ rep.verdict = "PASS" =>
                            r.expectation = "none" \/ (rep.semantic.passed /\ rep.semantic.score >= 50)
    BY DEF VerdictHonest
  <2>. DEFINE done == stored[a]
  <2>1. PICK rep \in ReportType :
          /\ Audited(rep, request[a], terms[a], selected[a], copies[a])
          /\ Finalized(done, rep, FinalChecks(a))
    BY StoredReport
  <2>2. done \in ReportType
    BY StoredReport
  <2>. DEFINE n == IF request[a].specReview THEN 7 ELSE 5
  <2>3. /\ DOMAIN done.checks = 1 .. n
        /\ \A i \in 1 .. 5 : done.checks[i] = rep.checks[i]
    BY <2>1, StoredChecks
  <2>4. /\ done.tier = rep.tier /\ done.probeStatus = rep.probeStatus
        /\ done.paidStatus = rep.paidStatus /\ done.semantic = rep.semantic
        /\ done.verdict = Verdict(done.tier, done.checks)
    BY <2>1 DEF Finalized, ExtendedBy
  <2>5. /\ DOMAIN rep.checks = 1 .. 5
        /\ \A i \in 1 .. 5 : rep.checks[i].status \in CheckStatuses
    <3>1. rep.checks \in Seq(CheckType) /\ Len(rep.checks) = 5
      BY <2>1 DEF Audited, InOrder, ReportType
    <3>2. \A i \in 1 .. 5 : rep.checks[i] \in CheckType
      BY <3>1
    <3>3. \A c \in CheckType : c.status \in CheckStatuses
      BY DEF CheckType
    <3>4. DOMAIN rep.checks = 1 .. 5
      BY <3>1
    <3>. QED  BY <3>2, <3>3, <3>4
  <2>. HIDE DEF done
  <2>6. HasStatus(rep.checks, "fail") => HasStatus(done.checks, "fail")
    BY <2>3, <2>5 DEF HasStatus
  <2>7. ASSUME done.verdict \in {"PROBE_PASS", "PROBE_PASS_WITH_WARNINGS"}
        PROVE  /\ done.probeStatus = 402 /\ terms[a] # None
               /\ ~request[a].pay /\ copies[a] = 0
               /\ \A s \in signed : s.data # typed[a]
    <3>1. ~HasStatus(done.checks, "fail") /\ done.tier = "probe"
      BY <2>4, <2>7 DEF Verdict
    <3>2. Unpaid(rep, request[a], terms[a], selected[a])
      BY <2>1, <2>4, <2>6, <3>1 DEF Audited
    <3>3. typed[a] = None /\ auth[a] = None
      BY <3>2 DEF Unpaid, ReportInv, SpendingInv, IInv, MoneyTrail, SigningOK, ScopeOK
    <3>4. copies[a] = 0
      BY <3>3 DEF ReportInv, SpendingInv, IInv, ScopeOK, DataOK
    <3>5. \A s \in signed : s.data \in Transfers
      BY DEF ReportInv, SpendingInv, IInv, SP!IInv, SP!TypeOK
    <3>. QED  BY <2>4, <3>2, <3>3, <3>4, <3>5, NoneAssumption DEF Unpaid
  <2>8. ASSUME done.verdict \in {"PASS", "PASS_WITH_WARNINGS"}
        PROVE  /\ request[a].pay /\ copies[a] > 0
               /\ Is2xx(done.paidStatus)
               /\ StatusMatches(request[a].expectedStatus, done.paidStatus)
               /\ rep.checks[5].status # "skip"
    <3>1. ~HasStatus(done.checks, "fail") /\ done.tier # "probe"
      BY <2>4, <2>8 DEF Verdict
    <3>2. /\ Delivered(rep, request[a], copies[a])
          /\ rep.checks[5].status # "fail" => StatusMatches(request[a].expectedStatus, rep.paidStatus)
      BY <2>1, <2>4, <3>1 DEF Audited
    <3>3. rep.checks[4].status # "fail" /\ rep.checks[5].status # "fail"
      BY <2>5, <2>6, <3>1 DEF HasStatus
    <3>. QED  BY <2>4, <2>5, <3>2, <3>3 DEF Delivered, HasStatus
  <2>9. ASSUME done.verdict = "PASS"
        PROVE  request[a].expectation = "none" \/ (done.semantic.passed /\ done.semantic.score >= 50)
    <3>1. ~HasStatus(done.checks, "fail") /\ ~HasStatus(done.checks, "warn")
      BY <2>4, <2>9 DEF Verdict
    <3>2. rep.checks[5].status = "pass"
      <4>1. done.checks[5].status \notin {"fail", "warn"}
        BY <2>3, <3>1 DEF HasStatus
      <4>. QED  BY <2>3, <2>5, <2>8, <2>9, <4>1 DEF CheckStatuses
    <3>. QED  BY <2>1, <2>4, <3>2 DEF Audited
  <2>. QED  BY <2>7, <2>8, <2>9 DEF done
<1>. QED  BY <1>1, AlwaysReportInv, PTL

-----------------------------------------------------------------------------
(* The numbers of a report *)

\* A percentage is one, and 100 only of the whole.
LEMMA PercentBounds ==
  ASSUME NEW part \in Nat, NEW whole \in Nat, part <= whole
  PROVE  /\ Percent(part, whole) \in 0 .. 100
         /\ whole > 0 /\ part = whole => Percent(part, whole) = 100
<1>1. CASE whole = 0
  BY <1>1 DEF Percent
<1>2. CASE whole > 0
  <2>. DEFINE q == (part * 100) \div whole
  <2>1. part * 100 <= whole * 100 /\ part * 100 \in Nat
    OBVIOUS
  <2>2. q \in Nat /\ whole * q <= part * 100 /\ part * 100 < whole * (q + 1)
    BY <1>2, <2>1
  <2>3. q <= 100
    BY <1>2, <2>1, <2>2
  <2>4. part = whole => q = 100
    BY <1>2, <2>2, <2>3
  <2>. QED  BY <1>2, <2>2, <2>3, <2>4 DEF Percent
<1>. QED  BY <1>1, <1>2

\* The loop of finalizeReport over five checks, and over seven.
LEMMA SumOfChecks ==
  ASSUME NEW values, \A i \in DOMAIN values : values[i] \in Nat
  PROVE  /\ DOMAIN values = 1 .. 5 =>
              SumOver(values) = values[1] + values[2] + values[3] + values[4] + values[5]
         /\ DOMAIN values = 1 .. 7 =>
              SumOver(values) = values[1] + values[2] + values[3] + values[4] + values[5]
                                + values[6] + values[7]
<1>. DEFINE Term(i) == IF i \in DOMAIN values THEN values[i] ELSE 0
<1>1. SumOver(values) = Term(1) + Term(2) + Term(3) + Term(4) + Term(5) + Term(6) + Term(7)
  BY DEF SumOver
<1>2. ASSUME DOMAIN values = 1 .. 5
      PROVE  SumOver(values) = values[1] + values[2] + values[3] + values[4] + values[5]
  <2>1. /\ Term(1) = values[1] /\ Term(2) = values[2] /\ Term(3) = values[3]
        /\ Term(4) = values[4] /\ Term(5) = values[5] /\ Term(6) = 0 /\ Term(7) = 0
    BY <1>2
  <2>2. values[1] \in Nat /\ values[2] \in Nat /\ values[3] \in Nat /\ values[4] \in Nat /\ values[5] \in Nat
    BY <1>2
  <2>. HIDE DEF Term
  <2>. QED  BY <1>1, <2>1, <2>2
<1>3. ASSUME DOMAIN values = 1 .. 7
      PROVE  SumOver(values) = values[1] + values[2] + values[3] + values[4] + values[5]
                                + values[6] + values[7]
  <2>1. /\ Term(1) = values[1] /\ Term(2) = values[2] /\ Term(3) = values[3]
        /\ Term(4) = values[4] /\ Term(5) = values[5] /\ Term(6) = values[6] /\ Term(7) = values[7]
    BY <1>3
  <2>. HIDE DEF Term
  <2>. QED  BY <1>1, <2>1
<1>. QED  BY <1>2, <1>3

\* The points and the weight a check counts for.
Assessed(c) == IF c.status = "skip" THEN 0 ELSE c.weight
Points(c)   == IF c.status = "skip" THEN 0 ELSE c.points

\* The three sums over the checks of a report.
LEMMA ReportSums ==
  ASSUME NEW checks \in Seq(CheckType), NEW n \in {5, 7}, InOrder(checks, n)
  PROVE  LET five(f(_)) == f(checks[1]) + f(checks[2]) + f(checks[3]) + f(checks[4]) + f(checks[5])
             all(f(_)) == IF n = 5 THEN five(f) ELSE five(f) + f(checks[6]) + f(checks[7])
         IN  /\ TotalWeight(checks) = IF n = 5 THEN 100 ELSE 130
             /\ AssessedWeight(checks) = all(Assessed)
             /\ PointsOf(checks) = all(Points)
<1>1. DOMAIN checks = 1 .. n /\ \A i \in 1 .. n : checks[i] \in CheckType
  BY DEF InOrder
<1>2. \A i \in 1 .. n : /\ checks[i].weight \in Nat
                        /\ Assessed(checks[i]) \in Nat /\ Points(checks[i]) \in Nat
  BY <1>1 DEF CheckType, Assessed, Points
<1>3. \A i \in 1 .. n : checks[i].weight = Weight(CheckOrder[i])
  BY DEF InOrder, Sound
<1>. DEFINE weights == [i \in DOMAIN checks |-> checks[i].weight]
            assessed == [i \in DOMAIN checks |-> IF checks[i].status = "skip" THEN 0 ELSE checks[i].weight]
            points == [i \in DOMAIN checks |-> IF checks[i].status = "skip" THEN 0 ELSE checks[i].points]
<1>4. /\ DOMAIN weights = 1 .. n /\ \A i \in 1 .. n : weights[i] = Weight(CheckOrder[i])
      /\ DOMAIN assessed = 1 .. n /\ \A i \in 1 .. n : assessed[i] = Assessed(checks[i])
      /\ DOMAIN points = 1 .. n /\ \A i \in 1 .. n : points[i] = Points(checks[i])
  BY <1>1, <1>3 DEF Assessed, Points
<1>5. /\ Weight(CheckOrder[1]) = 10 /\ Weight(CheckOrder[2]) = 30 /\ Weight(CheckOrder[3]) = 10
      /\ Weight(CheckOrder[4]) = 25 /\ Weight(CheckOrder[5]) = 25
      /\ Weight(CheckOrder[6]) = 15 /\ Weight(CheckOrder[7]) = 15
  BY DEF CheckOrder, Weight
<1>6. /\ TotalWeight(checks) = SumOver(weights) /\ AssessedWeight(checks) = SumOver(assessed)
      /\ PointsOf(checks) = SumOver(points)
  BY DEF TotalWeight, AssessedWeight, PointsOf
<1>. HIDE DEF weights, assessed, points
<1>7. /\ \A i \in DOMAIN weights : weights[i] \in Nat
      /\ \A i \in DOMAIN assessed : assessed[i] \in Nat
      /\ \A i \in DOMAIN points : points[i] \in Nat
  BY <1>2, <1>3, <1>4
<1>8. CASE n = 5
  <2>1. 1 \in 1 .. n /\ 2 \in 1 .. n /\ 3 \in 1 .. n /\ 4 \in 1 .. n /\ 5 \in 1 .. n
    BY <1>8
  <2>2. /\ SumOver(weights) = weights[1] + weights[2] + weights[3] + weights[4] + weights[5]
        /\ SumOver(assessed) = assessed[1] + assessed[2] + assessed[3] + assessed[4] + assessed[5]
        /\ SumOver(points) = points[1] + points[2] + points[3] + points[4] + points[5]
    BY <1>4, <1>8, <1>7, SumOfChecks
  <2>. QED  BY <1>4, <1>5, <1>6, <1>8, <2>1, <2>2
<1>9. CASE n = 7
  <2>1. /\ 1 \in 1 .. n /\ 2 \in 1 .. n /\ 3 \in 1 .. n /\ 4 \in 1 .. n /\ 5 \in 1 .. n
        /\ 6 \in 1 .. n /\ 7 \in 1 .. n
    BY <1>9
  <2>2. /\ SumOver(weights) = weights[1] + weights[2] + weights[3] + weights[4] + weights[5]
                              + weights[6] + weights[7]
        /\ SumOver(assessed) = assessed[1] + assessed[2] + assessed[3] + assessed[4] + assessed[5]
                               + assessed[6] + assessed[7]
        /\ SumOver(points) = points[1] + points[2] + points[3] + points[4] + points[5]
                             + points[6] + points[7]
    BY <1>4, <1>9, <1>7, SumOfChecks
  <2>. QED  BY <1>4, <1>5, <1>6, <1>9, <2>1, <2>2
<1>. QED  BY <1>8, <1>9

\* What a check may count for.
LEMMA CheckSums ==
  ASSUME NEW c \in CheckType, NEW i \in 1 .. 7, Sound(c, CheckOrder[i])
  PROVE  /\ Points(c) \in Nat /\ Assessed(c) \in Nat /\ Points(c) <= Assessed(c)
         /\ Assessed(c) = IF c.status = "skip" THEN 0 ELSE Weight(CheckOrder[i])
         /\ c.status = "pass" => Points(c) = Assessed(c) \/ (i = 5 /\ Points(c) >= 12)
<1>1. c.weight \in Nat /\ c.points \in Nat
  BY DEF CheckType
<1>2. CheckOrder[i] = "task_outcome" => i = 5
  BY DEF CheckOrder
<1>. QED  BY <1>1, <1>2 DEF Points, Assessed, Sound

\* The numbers of a stored report: what its checks count for, one by one.
LEMMA StoredNumbers ==
  ASSUME ReportInv, NEW a \in Audits, stored[a] # None,
         NEW rep \in ReportType,
         Audited(rep, request[a], terms[a], selected[a], copies[a]),
         Finalized(stored[a], rep, FinalChecks(a))
  PROVE  LET checks == stored[a].checks
             n == IF request[a].specReview THEN 7 ELSE 5
             whole == IF request[a].specReview THEN 130 ELSE 100
             five(f(_)) == f(checks[1]) + f(checks[2]) + f(checks[3]) + f(checks[4]) + f(checks[5])
             all(f(_)) == IF n = 5 THEN five(f) ELSE five(f) + f(checks[6]) + f(checks[7])
         IN  /\ \A i \in 1 .. n :
                  /\ Points(checks[i]) \in Nat /\ Assessed(checks[i]) \in Nat
                  /\ Points(checks[i]) <= Assessed(checks[i])
                  /\ Assessed(checks[i]) = IF checks[i].status = "skip"
                                             THEN 0 ELSE Weight(CheckOrder[i])
                  /\ checks[i].status = "pass" =>
                       Points(checks[i]) = Assessed(checks[i]) \/ (i = 5 /\ Points(checks[i]) >= 12)
                  /\ checks[i].status \in CheckStatuses
             /\ stored[a].score = Percent(all(Points), all(Assessed))
             /\ stored[a].coverage = Percent(all(Assessed), whole)
<1>. DEFINE checks == stored[a].checks
            n == IF request[a].specReview THEN 7 ELSE 5
<1>1. checks \in Seq(CheckType) /\ n \in {5, 7} /\ DOMAIN checks = 1 .. n /\ InOrder(checks, n)
  <2>1. checks \in Seq(CheckType)
    BY StoredReport DEF ReportType
  <2>. QED  BY <2>1, StoredChecks
<1>2. /\ stored[a].score = Percent(PointsOf(checks), AssessedWeight(checks))
      /\ stored[a].coverage = Percent(AssessedWeight(checks), TotalWeight(checks))
  BY DEF Finalized
<1>3. \A i \in 1 .. n : i \in 1 .. 7
  OBVIOUS
<1>4. n = 5 <=> ~request[a].specReview
  OBVIOUS
<1>. HIDE DEF checks, n
<1>5. \A i \in 1 .. n : /\ checks[i] \in CheckType /\ Sound(checks[i], CheckOrder[i])
                        /\ checks[i].status \in CheckStatuses
  <2>1. \A c \in CheckType : c.status \in CheckStatuses
    BY DEF CheckType
  <2>2. \A i \in 1 .. n : checks[i] \in CheckType
    BY <1>1
  <2>. QED  BY <1>1, <2>1, <2>2 DEF InOrder
<1>6. \A i \in 1 .. n :
        /\ Points(checks[i]) \in Nat /\ Assessed(checks[i]) \in Nat
        /\ Points(checks[i]) <= Assessed(checks[i])
        /\ Assessed(checks[i]) = IF checks[i].status = "skip" THEN 0 ELSE Weight(CheckOrder[i])
        /\ checks[i].status = "pass" =>
             Points(checks[i]) = Assessed(checks[i]) \/ (i = 5 /\ Points(checks[i]) >= 12)
  BY <1>3, <1>5, CheckSums
<1>. DEFINE five(f(_)) == f(checks[1]) + f(checks[2]) + f(checks[3]) + f(checks[4]) + f(checks[5])
            all(f(_)) == IF n = 5 THEN five(f) ELSE five(f) + f(checks[6]) + f(checks[7])
<1>7. /\ TotalWeight(checks) = IF n = 5 THEN 100 ELSE 130
      /\ AssessedWeight(checks) = all(Assessed)
      /\ PointsOf(checks) = all(Points)
  BY <1>1, ReportSums
<1>. QED  BY <1>2, <1>4, <1>5, <1>6, <1>7 DEF checks, n

\* A score is a percentage of what was assessed, and coverage says how much that is
\* (auditor.go:344-365, README.md:133).
THEOREM NumbersAreSound == Spec => []ScoreSound
<1>1. ReportInv => ScoreSound
  <2>. SUFFICES ASSUME ReportInv, NEW a \in Audits, stored[a] # None
                PROVE  LET rep == stored[a] IN
                       /\ rep.score \in 0 .. 100
                       /\ rep.coverage \in 0 .. 100
                       /\ rep.coverage = 100 <=> rep.tier = "verified"
                       /\ rep.verdict = "PASS" => rep.score >= 87
                       /\ rep.verdict = "PROBE_PASS" => rep.score = 100
    BY DEF ScoreSound
  <2>. DEFINE checks == stored[a].checks
              n == IF request[a].specReview THEN 7 ELSE 5
              whole == IF request[a].specReview THEN 130 ELSE 100
              five(f(_)) == f(checks[1]) + f(checks[2]) + f(checks[3]) + f(checks[4]) + f(checks[5])
              all(f(_)) == IF n = 5 THEN five(f) ELSE five(f) + f(checks[6]) + f(checks[7])
              part == all(Assessed)
              points == all(Points)
  <2>1. PICK rep \in ReportType :
          /\ Audited(rep, request[a], terms[a], selected[a], copies[a])
          /\ Finalized(stored[a], rep, FinalChecks(a))
    BY StoredReport
  <2>2. /\ DOMAIN checks = 1 .. n
        /\ \A i \in 1 .. 5 : checks[i] = rep.checks[i]
        /\ \A i \in 6 .. n : checks[i].status \in {"pass", "warn"}
    BY <2>1, StoredChecks
  <2>3. DOMAIN rep.checks = 1 .. 5
    BY <2>1 DEF Audited, InOrder, ReportType
  <2>4. /\ stored[a].verdict = Verdict(stored[a].tier, checks) /\ stored[a].tier = rep.tier
        /\ rep.tier \in {"probe", "verified"}
    BY <2>1 DEF Finalized, ExtendedBy, ReportType
  <2>5. /\ \A i \in 1 .. n :
             /\ Points(checks[i]) \in Nat /\ Assessed(checks[i]) \in Nat
             /\ Points(checks[i]) <= Assessed(checks[i])
             /\ Assessed(checks[i]) = IF checks[i].status = "skip" THEN 0 ELSE Weight(CheckOrder[i])
             /\ checks[i].status = "pass" =>
                  Points(checks[i]) = Assessed(checks[i]) \/ (i = 5 /\ Points(checks[i]) >= 12)
             /\ checks[i].status \in CheckStatuses
        /\ stored[a].score = Percent(points, part)
        /\ stored[a].coverage = Percent(part, whole)
    BY <2>1, StoredNumbers
  <2>. HIDE DEF checks
  <2>6. /\ 1 \in 1 .. n /\ 2 \in 1 .. n /\ 3 \in 1 .. n /\ 4 \in 1 .. n /\ 5 \in 1 .. n
        /\ n = 7 => 6 \in 1 .. n /\ 7 \in 1 .. n
    OBVIOUS
  <2>7. /\ Weight(CheckOrder[1]) = 10 /\ Weight(CheckOrder[2]) = 30 /\ Weight(CheckOrder[3]) = 10
        /\ Weight(CheckOrder[4]) = 25 /\ Weight(CheckOrder[5]) = 25
        /\ Weight(CheckOrder[6]) = 15 /\ Weight(CheckOrder[7]) = 15
    BY DEF CheckOrder, Weight
  <2>8. /\ part \in Nat /\ points \in Nat /\ points <= part /\ part <= whole
        /\ (\A i \in 1 .. n : checks[i].status # "skip") => part = whole
        /\ (\E i \in 1 .. n : checks[i].status = "skip") => part <= whole - 10
    <3>1. /\ Assessed(checks[1]) \in {0, 10} /\ Assessed(checks[2]) \in {0, 30}
          /\ Assessed(checks[3]) \in {0, 10} /\ Assessed(checks[4]) \in {0, 25}
          /\ Assessed(checks[5]) \in {0, 25}
          /\ n = 7 => Assessed(checks[6]) \in {0, 15} /\ Assessed(checks[7]) \in {0, 15}
      BY <2>5, <2>6, <2>7
    <3>2. part \in Nat /\ points \in Nat /\ points <= part /\ part <= whole
      BY <2>5, <2>6, <3>1
    <3>3. ASSUME \A i \in 1 .. n : checks[i].status # "skip"
          PROVE  part = whole
      <4>1. /\ Assessed(checks[1]) = 10 /\ Assessed(checks[2]) = 30 /\ Assessed(checks[3]) = 10
            /\ Assessed(checks[4]) = 25 /\ Assessed(checks[5]) = 25
        BY <2>5, <2>6, <2>7, <3>3
      <4>2. n = 7 => Assessed(checks[6]) = 15 /\ Assessed(checks[7]) = 15
        BY <2>5, <2>6, <2>7, <3>3
      <4>. QED  BY <4>1, <4>2
    <3>4. ASSUME NEW i \in 1 .. n, checks[i].status = "skip"
          PROVE  part <= whole - 10
      <4>1. Assessed(checks[i]) = 0
        BY <2>5, <3>4
      <4>2. i \in {1, 2, 3, 4, 5} \/ (n = 7 /\ i \in {6, 7})
        OBVIOUS
      <4>. QED  BY <3>1, <4>1, <4>2
    <3>. QED  BY <3>2, <3>3, <3>4
  <2>9. stored[a].score \in 0 .. 100 /\ stored[a].coverage \in 0 .. 100
    <3>. HIDE DEF part, points
    <3>. QED  BY <2>5, <2>8, PercentBounds
  <2>10. stored[a].coverage = 100 <=> stored[a].tier = "verified"
    <3>1. CASE stored[a].tier = "verified"
      <4>1. ~HasStatus(rep.checks, "skip") /\ rep.checks[5].status # "skip"
        BY <2>1, <2>3, <2>4, <3>1 DEF Audited, Delivered, HasStatus
      <4>2. \A i \in 1 .. n : checks[i].status # "skip"
        BY <2>2, <2>3, <4>1 DEF HasStatus
      <4>. HIDE DEF part, points
      <4>. QED  BY <2>5, <2>8, <3>1, <4>2, PercentBounds
    <3>2. CASE stored[a].tier = "probe"
      <4>1. \E i \in 1 .. n : checks[i].status = "skip"
        BY <2>1, <2>2, <2>3, <2>4, <3>2 DEF Audited, HasStatus
      <4>2. part <= whole - 10
        BY <2>8, <4>1
      <4>. HIDE DEF part, points
      <4>3. (part * 100) \div whole < 100
        BY <2>8, <4>2
      <4>. QED  BY <2>5, <2>8, <3>2, <4>3 DEF Percent
    <3>. QED  BY <2>4, <3>1, <3>2
  <2>11. ASSUME stored[a].verdict = "PASS"
         PROVE  stored[a].score >= 87
    <3>1. /\ ~HasStatus(checks, "fail") /\ ~HasStatus(checks, "warn") /\ stored[a].tier # "probe"
      BY <2>4, <2>11 DEF Verdict
    <3>2. ~HasStatus(rep.checks, "skip")
      BY <2>1, <2>4, <3>1 DEF Audited, Delivered
    <3>3. \A i \in 1 .. n : checks[i].status = "pass"
      BY <2>2, <2>3, <2>5, <3>1, <3>2 DEF HasStatus, CheckStatuses
    <3>4. part = whole /\ points >= whole - 13
      <4>1. CASE n = 5
        BY <2>5, <2>6, <2>7, <3>3, <4>1
      <4>2. CASE n = 7
        BY <2>5, <2>6, <2>7, <3>3, <4>2
      <4>. QED  BY <4>1, <4>2
    <3>. HIDE DEF part, points
    <3>5. (points * 100) \div whole >= 87
      BY <2>8, <3>4
    <3>. QED  BY <2>5, <3>4, <3>5 DEF Percent
  <2>12. ASSUME stored[a].verdict = "PROBE_PASS"
         PROVE  stored[a].score = 100
    <3>1. ~HasStatus(checks, "fail") /\ ~HasStatus(checks, "warn") /\ stored[a].tier = "probe"
      BY <2>4, <2>12 DEF Verdict
    <3>2. Unpaid(rep, request[a], terms[a], selected[a])
      <4>1. ~HasStatus(rep.checks, "fail")
        BY <2>2, <2>3, <3>1 DEF HasStatus
      <4>. QED  BY <2>1, <2>4, <3>1, <4>1 DEF Audited
    <3>3. /\ \A i \in 1 .. n : checks[i].status \in {"pass", "skip"}
          /\ checks[1].status = "pass" /\ checks[5].status = "skip"
      <4>1. checks[1].status = "pass" /\ checks[5].status = "skip"
        BY <2>2, <3>2 DEF Unpaid
      <4>2. \A i \in 1 .. n : checks[i].status \notin {"fail", "warn"}
        BY <2>2, <3>1 DEF HasStatus
      <4>. QED  BY <2>5, <4>1, <4>2 DEF CheckStatuses
    <3>4. \A i \in 1 .. n : Points(checks[i]) = Assessed(checks[i])
      BY <2>5, <3>3
    <3>5. Assessed(checks[1]) = 10
      BY <2>5, <2>6, <2>7, <3>3
    <3>6. points = part /\ part > 0
      BY <2>5, <2>6, <3>4, <3>5
    <3>. HIDE DEF part, points
    <3>. QED  BY <2>5, <2>8, <3>6, PercentBounds
  <2>. QED  BY <2>9, <2>10, <2>11, <2>12
<1>. QED  BY <1>1, AlwaysReportInv, PTL

=============================================================================
