------------------------------- MODULE Auditor -------------------------------
(***************************************************************************)
(* Auditor.Audit (internal/canary/auditor.go), many audits at once, with   *)
(* the remote signer they share, the target they pay, the chain that       *)
(* settles the payments and the store that keeps the reports.              *)
(*                                                                         *)
(* An audit moves through these stages; a step is one call that leaves the *)
(* process, together with everything the code does up to the next one.     *)
(*   idle         before the call of Audit                                 *)
(*   inspecting   fetching the specification documents                     *)
(*   probing      the unpaid request is out                                *)
(*   authorizing  inside PaymentAuthorizer.Authorize (see RemoteSigner)    *)
(*   paying       authorized, the paid request not yet out                 *)
(*   awaiting     the paid request is with the target                      *)
(*   evaluating   the evaluator is judging the answer                      *)
(*   completing   every check is made; finalize and save                   *)
(*   done, failed, rejected   answered with 200, 500, 400                  *)
(*                                                                         *)
(* As in RemoteSigner, a successful answer needs a caller that has not     *)
(* gone: an answer that wins the race against the disconnection is the run *)
(* in which the disconnection comes just after it.                         *)
(***************************************************************************)
EXTENDS Scoring

CONSTANTS
  Audits,               \* calls of Audit; also their report ids
  Requests,             \* what callers may ask for
  Replies,              \* what a target may answer to the unpaid request
  PaidStatuses,         \* HTTP statuses it may answer to the paid one
  Judgements,           \* what the evaluator may say
  EvaluatorConfigured,  \* whether Auditor.evaluator is set
  Wallets, KeyRings,    \* see RemoteSigner
  MaxCopies             \* bound on the deliveries of one paid request

RequestType ==
  [method : Texts, body : {"none", "json", "oversized"}, contentType : Texts,
   expectation : {"none", "stated", "oversized"}, expectedStatus : Int,
   specReview : BOOLEAN, generateRepairs : BOOLEAN,
   pay : BOOLEAN, cap : Int, network : Texts \cup {None},
   asset : AddressTexts \cup {None}]

JudgementType == [passed : BOOLEAN, score : Int, reasoned : BOOLEAN]

ASSUME AuditAssumption ==
  /\ Requests \subseteq RequestType
  /\ Replies \subseteq Answers
  /\ PaidStatuses \subseteq Nat
  /\ Judgements \subseteq JudgementType
  /\ EvaluatorConfigured \in BOOLEAN
  /\ KeyRings \subseteq Seq(Wallets)
  /\ None \notin Wallets /\ None \notin Audits
  /\ MaxCopies \in Nat \ {0}

VARIABLES
  pc,          \* the stage of each audit
  request,     \* its AuditRequest, None before Audit is called
  inspection,  \* what the specification documents showed, or None
  terms,       \* the parsed challenge, or None
  header,      \* the header a payment for it must be sent in
  selected,    \* the requirement SelectPayment chose, or None
  typed,       \* the typed data given to the signer, or None
  auth,        \* the payment envelope, or None
  report,      \* the AuditReport under construction
  stored,      \* the report the store holds under this id, or None
  drawn,       \* how many nonces have been drawn from crypto/rand
  copies,      \* how many copies of the paid request the target received
  settled,     \* transfers the chain has executed
  address, lock, call, gone, ring, signed   \* see RemoteSigner

askVars    == <<request, inspection, terms, header>>
signerVars == <<address, lock, call, gone, ring, signed>>
moneyVars  == <<selected, typed, auth, drawn, copies, settled>>
vars == <<pc, askVars, moneyVars, report, stored, signerVars>>

Transfers == [from : Wallets, to : AddressTexts, value : Nat, network : Networks,
              asset : AddressTexts, nonce : Nat]

Envelopes == [accepted : Requirements, transfer : Transfers]

Inspections == {i \in [discovery : BOOLEAN, schemas : BOOLEAN] : i.schemas => i.discovery}

ASSUME NoneAssumption ==
  /\ None \notin Requests /\ None \notin Terms
  /\ None \notin Transfers /\ None \notin Envelopes /\ None \notin Inspections

Signer == INSTANCE RemoteSigner WITH Callers <- Audits, TypedData <- Transfers

Running == {"inspecting", "probing", "authorizing", "paying", "awaiting",
            "evaluating", "completing"}
Final == {"done", "failed", "rejected"}

EmptyReport ==
  [tier |-> "probe", checks |-> << >>, probeStatus |-> 0, selected |-> None,
   attempted |-> FALSE, payer |-> None, header |-> None, paidStatus |-> 0,
   semantic |-> None, score |-> 0, coverage |-> 0, verdict |-> "none"]

Method(r) == IF r.method = "" THEN "GET" ELSE r.method

\* validateRequest, but for the URL.  A body that reaches Audit through the
\* HTTP handler is valid JSON already.
RequestValid(r) ==
  /\ Method(r) \in {"GET", "POST"}
  /\ r.body # "oversized"
  /\ Method(r) = "GET" => r.body = "none"
  /\ r.body # "none" => r.contentType \in {"", "application/json"}
  /\ r.expectation # "oversized"
  /\ r.expectedStatus \in 0 .. 599
  /\ r.generateRepairs => r.specReview

Init ==
  /\ pc = [a \in Audits |-> "idle"]
  /\ request = [a \in Audits |-> None]
  /\ inspection = [a \in Audits |-> None]
  /\ terms = [a \in Audits |-> None]
  /\ header = [a \in Audits |-> None]
  /\ selected = [a \in Audits |-> None]
  /\ typed = [a \in Audits |-> None]
  /\ auth = [a \in Audits |-> None]
  /\ report = [a \in Audits |-> EmptyReport]
  /\ stored = [a \in Audits |-> None]
  /\ drawn = 0
  /\ copies = [a \in Audits |-> 0]
  /\ settled = {}
  /\ Signer!Init

Goto(a, stage) == pc' = [pc EXCEPT ![a] = stage]

\* report.Checks = append(report.Checks, ...)
Record(a, rep, checks) == report' = [report EXCEPT ![a] = [rep EXCEPT !.checks = @ \o checks]]

\* The last checks of an audit that needs no evaluator.
Conclude(a, rep, checks) == Record(a, rep, checks) /\ Goto(a, "completing")

-----------------------------------------------------------------------------
(* Starting, and the unpaid request *)

\* ValidateURL resolves the host, so a request with no other fault may still
\* be refused.
Refuse(a, r) ==
  /\ pc[a] = "idle"
  /\ request' = [request EXCEPT ![a] = r]
  /\ Goto(a, "rejected")
  /\ UNCHANGED <<inspection, terms, header, moneyVars, report, stored, signerVars>>

Accept(a, r) ==
  /\ pc[a] = "idle"
  /\ RequestValid(r)
  /\ request' = [request EXCEPT ![a] = r]
  /\ Goto(a, IF r.specReview THEN "inspecting" ELSE "probing")
  /\ UNCHANGED <<inspection, terms, header, moneyVars, report, stored, signerVars>>

\* A document that cannot be fetched is a finding, never an error.
Inspect(a) ==
  /\ pc[a] = "inspecting"
  /\ \E found \in Inspections :
       /\ a \in gone => ~found.discovery
       /\ inspection' = [inspection EXCEPT ![a] = found]
  /\ Goto(a, "probing")
  /\ UNCHANGED <<request, terms, header, moneyVars, report, stored, signerVars>>

\* Mutation: a probe that fails to connect leaves task_outcome out.
ProbeFailsShort(a) ==
  /\ pc[a] = "probing"
  /\ Conclude(a, report[a],
       <<Failed("reachability"), Skipped("x402_challenge"), Skipped("payment_budget"),
         Skipped("paid_delivery")>>)
  /\ UNCHANGED <<askVars, moneyVars, stored, signerVars>>

ProbeFails(a) ==
  /\ pc[a] = "probing"
  /\ Conclude(a, report[a],
       <<Failed("reachability"), Skipped("x402_challenge"), Skipped("payment_budget"),
         Skipped("paid_delivery"), Skipped("task_outcome")>>)
  /\ UNCHANGED <<askVars, moneyVars, stored, signerVars>>

ProbeAnswered(a) == pc[a] = "probing" /\ a \notin gone

\* The outcome check, when it needs no evaluator: none of them otherwise.
ImmediateOutcome(r, status) ==
  CASE ~StatusMatches(r.expectedStatus, status) -> <<Failed("task_outcome")>>
    [] StatusMatches(r.expectedStatus, status) /\ r.expectation = "none"
         -> <<Passed("task_outcome")>>
    [] StatusMatches(r.expectedStatus, status) /\ r.expectation # "none" /\ ~EvaluatorConfigured
         -> <<Warned("task_outcome")>>
    [] OTHER -> << >>

\* evaluateOutcome up to the call of the evaluator.
EvaluateOutcome(a, rep, checks, status) ==
  LET outcome == ImmediateOutcome(request[a], status) IN
  /\ Record(a, rep, checks \o outcome)
  /\ Goto(a, IF outcome = << >> THEN "evaluating" ELSE "completing")

ProbeNotChallenged(a, reply) ==
  /\ ProbeAnswered(a)
  /\ reply.status # 402
  /\ EvaluateOutcome(a, [report[a] EXCEPT !.probeStatus = reply.status],
       <<Passed("reachability"), Failed("x402_challenge"), Skipped("payment_budget"),
         Skipped("paid_delivery")>>, reply.status)
  /\ UNCHANGED <<askVars, moneyVars, stored, signerVars>>

ProbeBadChallenge(a, reply) ==
  /\ ProbeAnswered(a)
  /\ reply.status = 402
  /\ ~ChallengeParses(ChallengeDocument(reply))
  /\ Conclude(a, [report[a] EXCEPT !.probeStatus = 402],
       <<Passed("reachability"), Failed("x402_challenge"), Skipped("payment_budget"),
         Skipped("paid_delivery"), Skipped("task_outcome")>>)
  /\ UNCHANGED <<askVars, moneyVars, stored, signerVars>>

\* A challenge that parses: what the three actions below share.
Challenged(a, reply) ==
  /\ ProbeAnswered(a)
  /\ reply.status = 402
  /\ ChallengeParses(ChallengeDocument(reply))
  /\ terms' = [terms EXCEPT ![a] = ParsePaymentChallenge(ChallengeDocument(reply))]
  /\ header' = [header EXCEPT ![a] = AuthorizationHeader(reply)]

ProbeUnpaid(a, reply) ==
  /\ Challenged(a, reply)
  /\ ~request[a].pay
  /\ Conclude(a, [report[a] EXCEPT !.probeStatus = 402],
       <<Passed("reachability"), Passed("x402_challenge"), Skipped("payment_budget"),
         Skipped("paid_delivery"), Skipped("task_outcome")>>)
  /\ UNCHANGED <<request, inspection, moneyVars, stored, signerVars>>

Choice(a, reply) ==
  SelectPayment(ParsePaymentChallenge(ChallengeDocument(reply)).accepts, request[a])

ProbeUnaffordable(a, reply) ==
  /\ Challenged(a, reply)
  /\ request[a].pay
  /\ Choice(a, reply) = None
  /\ Conclude(a, [report[a] EXCEPT !.probeStatus = 402],
       <<Passed("reachability"), Passed("x402_challenge"), Failed("payment_budget"),
         Skipped("paid_delivery"), Skipped("task_outcome")>>)
  /\ UNCHANGED <<request, inspection, moneyVars, stored, signerVars>>

ProbeSelects(a, reply) ==
  /\ Challenged(a, reply)
  /\ request[a].pay
  /\ Choice(a, reply) # None
  /\ selected' = [selected EXCEPT ![a] = Choice(a, reply)]
  /\ Record(a, [report[a] EXCEPT !.probeStatus = 402, !.selected = Choice(a, reply)],
       <<Passed("reachability"), Passed("x402_challenge"), Passed("payment_budget")>>)
  /\ Goto(a, "authorizing")
  /\ UNCHANGED <<request, inspection, typed, auth, drawn, copies, settled, stored, signerVars>>

-----------------------------------------------------------------------------
(* PaymentAuthorizer.Authorize: its own checks, the address, a fresh nonce,  *)
(* the signature.  The steps of the signer are those of RemoteSigner.        *)

auditVars == <<pc, askVars, selected, auth, copies, settled, report, stored>>

Authorize(a) ==
  /\ pc[a] = "authorizing"
  /\ Authorizable(selected[a])
  /\ Signer!Call(a)
  /\ UNCHANGED <<auditVars, typed, drawn>>

Address(a) == Signer!Address(a) /\ UNCHANGED <<auditVars, typed, drawn>>
FetchEnds(a) == Signer!FetchEnds(a) /\ UNCHANGED <<auditVars, typed, drawn>>

\* Mutation: the nonce is not drawn anew for each authorization.
SignWithOldNonce(a) ==
  /\ Signer!Sign(a)
  /\ typed' = [typed EXCEPT ![a] = Transfer(selected[a], call[a].payer, drawn)]
  /\ UNCHANGED <<auditVars, drawn>>

Sign(a) ==
  /\ Signer!Sign(a)
  /\ drawn' = drawn + 1
  /\ typed' = [typed EXCEPT ![a] = Transfer(selected[a], call[a].payer, drawn + 1)]
  /\ UNCHANGED auditVars

SignEnds(a) ==
  /\ Signer!SignAnswered(a, typed[a]) \/ Signer!SignLost(a, typed[a]) \/ Signer!SignFailed(a)
  /\ UNCHANGED <<auditVars, typed, drawn>>

\* Mutation: the error of Authorize is not looked at.
AuthorizationErrorIgnored(a) ==
  /\ pc[a] = "authorizing"
  /\ Authorizable(selected[a]) => call[a].stage = "failed"
  /\ Goto(a, "paying")
  /\ UNCHANGED <<askVars, moneyVars, report, stored, signerVars>>

AuthorizationFails(a) ==
  /\ pc[a] = "authorizing"
  /\ Authorizable(selected[a]) => call[a].stage = "failed"
  /\ Conclude(a, report[a], <<Failed("paid_delivery"), Skipped("task_outcome")>>)
  /\ UNCHANGED <<askVars, moneyVars, stored, signerVars>>

\* Mutation: the report is told of the payment only after the paid answer.
AuthorizedSilently(a) ==
  /\ pc[a] = "authorizing"
  /\ call[a].stage = "signed"
  /\ auth' = [auth EXCEPT ![a] = Envelope(selected[a], typed[a])]
  /\ Goto(a, "paying")
  /\ UNCHANGED <<askVars, selected, typed, drawn, copies, settled, report, stored, signerVars>>

Authorized(a) ==
  /\ pc[a] = "authorizing"
  /\ call[a].stage = "signed"
  /\ auth' = [auth EXCEPT ![a] = Envelope(selected[a], typed[a])]
  /\ report' = [report EXCEPT ![a] =
       [@ EXCEPT !.attempted = TRUE, !.payer = call[a].payer, !.header = header[a]]]
  /\ Goto(a, "paying")
  /\ UNCHANGED <<askVars, selected, typed, drawn, copies, settled, stored, signerVars>>

-----------------------------------------------------------------------------
(* The paid request *)

\* A request is not sent under a context that is already cancelled.
SendPaid(a) ==
  /\ pc[a] = "paying"
  /\ a \notin gone
  /\ copies' = [copies EXCEPT ![a] = 1]
  /\ Goto(a, "awaiting")
  /\ UNCHANGED <<askVars, selected, typed, auth, drawn, settled, report, stored, signerVars>>

\* net/http sends an idempotent request again when the kept-alive connection it
\* took breaks before the answer begins.
Redeliver(a) ==
  /\ pc[a] = "awaiting"
  /\ a \notin gone
  /\ Method(request[a]) = "GET"
  /\ copies[a] < MaxCopies
  /\ copies' = [copies EXCEPT ![a] = @ + 1]
  /\ UNCHANGED <<pc, askVars, selected, typed, auth, drawn, settled, report, stored, signerVars>>

\* Mutation: a paid request that fails is authorized and sent once more.
PaidRetries(a) ==
  /\ pc[a] \in {"paying", "awaiting"}
  /\ Goto(a, "authorizing")
  /\ call' = [call EXCEPT ![a] = [stage |-> "idle", payer |-> None]]
  /\ UNCHANGED <<askVars, moneyVars, report, stored, address, lock, ring, signed, gone>>

\* No answer: the target may or may not have received the request.
PaidFails(a) ==
  /\ pc[a] \in {"paying", "awaiting"}
  /\ Conclude(a, report[a], <<Failed("paid_delivery"), Skipped("task_outcome")>>)
  /\ UNCHANGED <<askVars, moneyVars, stored, signerVars>>

PaidAnswers(a, status) ==
  /\ pc[a] = "awaiting"
  /\ a \notin gone
  /\ EvaluateOutcome(a, [report[a] EXCEPT !.tier = "verified", !.paidStatus = status],
       <<IF Is2xx(status) THEN Passed("paid_delivery") ELSE Failed("paid_delivery")>>, status)
  /\ UNCHANGED <<askVars, moneyVars, stored, signerVars>>

-----------------------------------------------------------------------------
(* The evaluator, and the end *)

EvaluatorAnswers(a, judgement) ==
  /\ pc[a] = "evaluating"
  /\ a \notin gone
  /\ UsableJudgement(judgement)
  /\ Conclude(a, [report[a] EXCEPT !.semantic = judgement], <<SemanticOutcomeCheck(judgement)>>)
  /\ UNCHANGED <<askVars, moneyVars, stored, signerVars>>

\* Unavailable, or an answer that is not a usable judgement.
EvaluatorFails(a) ==
  /\ pc[a] = "evaluating"
  /\ Conclude(a, report[a], <<Warned("task_outcome")>>)
  /\ UNCHANGED <<askVars, moneyVars, stored, signerVars>>

FinalChecks(a) ==
  IF inspection[a] = None THEN << >>
  ELSE SpecChecks(inspection[a], terms[a], Method(request[a]))

FinalReport(a) == FinalizeReport([report[a] EXCEPT !.checks = @ \o FinalChecks(a)])

\* complete: what is answered is what the store has taken.
Complete(a) ==
  /\ pc[a] = "completing"
  /\ report' = [report EXCEPT ![a] = FinalReport(a)]
  /\ stored' = [stored EXCEPT ![a] = FinalReport(a)]
  /\ Goto(a, "done")
  /\ UNCHANGED <<askVars, moneyVars, signerVars>>

\* The store refuses the report; the caller gets an error and no report.
SaveFails(a) ==
  /\ pc[a] = "completing"
  /\ report' = [report EXCEPT ![a] = FinalReport(a)]
  /\ Goto(a, "failed")
  /\ UNCHANGED <<askVars, moneyVars, stored, signerVars>>

-----------------------------------------------------------------------------
(* The environment: the caller, the wallet's operator, the target *)

Disconnect(a) ==
  /\ pc[a] \in Running
  /\ Signer!Cancel(a)
  /\ UNCHANGED <<auditVars, typed, drawn>>

Rotate == Signer!Rotate /\ UNCHANGED <<auditVars, typed, drawn>>

\* The target submits a copy it received, now or much later.  The token contract
\* executes a transfer that its `from` has signed and whose nonce it has not seen.
Settle(a, copy) ==
  /\ copy \in 1 .. copies[a]
  /\ Signer!Signature(auth[a].transfer.from, auth[a].transfer) \in signed
  /\ \A s \in settled : <<s.transfer.from, s.transfer.nonce>>
                         # <<auth[a].transfer.from, auth[a].transfer.nonce>>
  /\ settled' = settled \cup {[audit |-> a, copy |-> copy, transfer |-> auth[a].transfer]}
  /\ UNCHANGED <<pc, askVars, selected, typed, auth, drawn, copies, report, stored, signerVars>>

Terminated == (\A a \in Audits : pc[a] \in Final) /\ UNCHANGED vars

\* The steps of the audit and of the calls it waits for.
ProbeStep(a) ==
  \/ ProbeFails(a)
  \/ \E reply \in Replies :
       \/ ProbeNotChallenged(a, reply) \/ ProbeBadChallenge(a, reply) \/ ProbeUnpaid(a, reply)
       \/ ProbeUnaffordable(a, reply) \/ ProbeSelects(a, reply)

AuthorizeStep(a) ==
  \/ Authorize(a) \/ FetchEnds(a) \/ Sign(a) \/ SignEnds(a)
  \/ AuthorizationFails(a) \/ Authorized(a)

PayStep(a) ==
  \/ SendPaid(a) \/ PaidFails(a)
  \/ \E status \in PaidStatuses : PaidAnswers(a, status)

FinishStep(a) ==
  \/ \E judgement \in Judgements : EvaluatorAnswers(a, judgement)
  \/ EvaluatorFails(a) \/ Complete(a) \/ SaveFails(a)

AuditStep(a) == Inspect(a) \/ ProbeStep(a) \/ AuthorizeStep(a) \/ PayStep(a) \/ FinishStep(a)

Next ==
  \/ \E a \in Audits :
       \/ \E r \in Requests : Accept(a, r) \/ Refuse(a, r)
       \/ AuditStep(a) \/ Address(a)
       \/ Redeliver(a) \/ Disconnect(a)
       \/ \E copy \in 1 .. MaxCopies : Settle(a, copy)
  \/ Rotate
  \/ Terminated

Spec == Init /\ [][Next]_vars

\* Every outgoing call has a timeout (SafeHTTPClient, RemoteSigner, Evaluate),
\* so the audit never waits for ever (WF); the mutex is fair (SF).  Nothing is
\* assumed of callers, of the wallet's operator and of settlement.
FairSpec ==
  Spec /\ \A a \in Audits : WF_vars(AuditStep(a)) /\ SF_vars(Address(a))

=============================================================================
