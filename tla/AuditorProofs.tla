---------------------------- MODULE AuditorProofs ----------------------------
(* Auditor for any number of audits, any policy, any requests and replies.    *)
EXTENDS AuditorProperties, TLAPS

-----------------------------------------------------------------------------
(* What is proved of SelectPayment, as Auditor knows it.                       *)

\* The facts of the instance are about the operators alone: they hold with nothing
\* offered, so Selection's own offers and variables are given no part in them.
PP == INSTANCE PaymentProofs WITH
        Offers <- {}, Names <- {}, Assets <- {}, MaxOptions <- 0,
        document <- None, request <- None

\* Names are normalised alike.
LEMMA SameNames ==
  ASSUME NEW name
  PROVE  PP!NormalizeNetwork(name) = NormalizeNetwork(name)
BY DEF PP!NormalizeNetwork, NormalizeNetwork, PP!Mainnet, Mainnet, PP!Sepolia, Sepolia

\* The two networks are the same.
LEMMA SameNetworks == PP!Networks = Networks
BY DEF PP!Networks, Networks, PP!Mainnet, Mainnet, PP!Sepolia, Sepolia

\* Requirements have the same type.
LEMMA SameRequirements == PP!Requirements = Requirements
BY DEF PP!Requirements, Requirements, PP!LongestTimeout, LongestTimeout

\* The same requirement is selected.
LEMMA SameSelection ==
  ASSUME NEW requirements, NEW req
  PROVE  PP!SelectPayment(requirements, req) = SelectPayment(requirements, req)
BY DEF PP!SelectPayment, SelectPayment, PP!Selectable, Selectable, PP!Matching, Matching,
       PP!Acceptable, Acceptable, PP!Supported, Supported, PP!CapsUsable, CapsUsable,
       PP!NetworkUnderstood, NetworkUnderstood, PP!NormalizeNetwork, NormalizeNetwork,
       PP!Mainnet, Mainnet, PP!Sepolia, Sepolia

\* The same requirements can be authorized.
LEMMA SameAuthorizable ==
  ASSUME NEW requirement
  PROVE  PP!Authorizable(requirement) <=> Authorizable(requirement)
BY DEF PP!Authorizable, Authorizable, PP!Supported, Supported,
       PP!NormalizeNetwork, NormalizeNetwork, PP!Mainnet, Mainnet, PP!Sepolia, Sepolia

\* The same documents parse, and to the same terms.
LEMMA SameTerms ==
  ASSUME NEW doc
  PROVE  /\ PP!ChallengeParses(doc) <=> ChallengeParses(doc)
         /\ PP!ParsePaymentChallenge(doc) = ParsePaymentChallenge(doc)
         /\ PP!Documents = Documents /\ PP!Terms = Terms
<1>. USE DEF PP!OptionAmount, OptionAmount, PP!LongestTimeout, LongestTimeout,
             PP!DefaultTimeout, DefaultTimeout, PP!BazaarKinds, BazaarKinds
<1>1. PP!ChallengeParses(doc) <=> ChallengeParses(doc)
  BY DEF PP!ChallengeParses, ChallengeParses, PP!OptionParses, OptionParses
<1>2. PP!ParsePaymentChallenge(doc) = ParsePaymentChallenge(doc)
  BY DEF PP!ParsePaymentChallenge, ParsePaymentChallenge, PP!Requirement, Requirement
<1>3. PP!Documents = Documents
  BY DEF PP!Documents, Documents, PP!Options, Options
<1>4. PP!Terms = Terms
  BY DEF PP!Terms, Terms, PP!Requirements, Requirements
<1>. QED  BY <1>1, <1>2, <1>3, <1>4

\* What the instance assumes holds of an audit's policy and documents.
LEMMA SelectionAssumed ==
  PP!PolicyAssumption /\ PP!DocumentsAssumption /\ PP!OffersAssumption
<1>1. PP!PolicyAssumption
  BY PolicyAssumption, SameNetworks DEF PP!PolicyAssumption
<1>2. PP!DocumentsAssumption
  BY DocumentsAssumption, SameTerms DEF PP!DocumentsAssumption
<1>3. PP!OffersAssumption
  BY DEF PP!OffersAssumption
<1>. QED  BY <1>1, <1>2, <1>3

\* normalizeNetwork leaves its own results alone.
LEMMA NormalizeFacts ==
  ASSUME NEW name
  PROVE  /\ NormalizeNetwork(name) \in Networks \cup {None}
         /\ name \in Networks => NormalizeNetwork(name) = name
BY PP!NormalizeFacts, SameNames, SameNetworks, SelectionAssumed
   DEF PP!PolicyAssumption, PP!DocumentsAssumption, PP!OffersAssumption

\* Reading a challenge that parses gives requirements.
LEMMA ParsedTerms ==
  ASSUME NEW doc \in Documents, ChallengeParses(doc)
  PROVE  ParsePaymentChallenge(doc) \in Terms
BY PP!ParsedTerms, SameTerms, SelectionAssumed
   DEF PP!PolicyAssumption, PP!DocumentsAssumption, PP!OffersAssumption

\* What is selected is one of the options quoted, with its network normalised.
LEMMA SelectionIsQuoted ==
  ASSUME NEW requirements, NEW req,
         SelectPayment(requirements, req) # None
  PROVE  \E i \in DOMAIN requirements :
           SelectPayment(requirements, req) =
             [requirements[i] EXCEPT !.network = NormalizeNetwork(@)]
<1>1. PP!SelectPayment(requirements, req) # None
  BY SameSelection
<1>2. PICK i \in DOMAIN requirements :
        PP!SelectPayment(requirements, req) =
          [requirements[i] EXCEPT !.network = PP!NormalizeNetwork(@)]
  BY <1>1, PP!SelectionIsQuoted, SelectionAssumed
     DEF PP!PolicyAssumption, PP!DocumentsAssumption, PP!OffersAssumption
<1>3. PP!NormalizeNetwork(requirements[i].network) = NormalizeNetwork(requirements[i].network)
  BY SameNames
<1>. QED  BY <1>2, <1>3, SameSelection

\* What is selected can be authorized, and is within the request's authority.
LEMMA SelectedIsAuthorizable ==
  ASSUME NEW requirements \in Seq(Requirements), NEW req,
         SelectPayment(requirements, req) # None
  PROVE  LET chosen == SelectPayment(requirements, req) IN
         /\ chosen \in Requirements
         /\ Authorizable(chosen)
         /\ chosen.amount <= req.cap
         /\ chosen.network \in AllowedNetworks
         /\ req.network # None => chosen.network = NormalizeNetwork(req.network)
         /\ req.asset # None => chosen.asset = req.asset
<1>1. requirements \in Seq(PP!Requirements)
  BY SameRequirements
<1>2. PP!SelectPayment(requirements, req) # None
  BY SameSelection
<1>3. LET chosen == PP!SelectPayment(requirements, req) IN
      /\ chosen \in PP!Requirements
      /\ PP!Authorizable(chosen)
      /\ chosen.amount <= req.cap
      /\ chosen.network \in AllowedNetworks
      /\ req.network # None => chosen.network = PP!NormalizeNetwork(req.network)
      /\ req.asset # None => chosen.asset = req.asset
  BY <1>1, <1>2, PP!SelectedIsAuthorizable, SelectionAssumed
     DEF PP!PolicyAssumption, PP!DocumentsAssumption, PP!OffersAssumption
<1>. QED  BY <1>3, SameSelection, SameRequirements, SameAuthorizable, SameNames

-----------------------------------------------------------------------------
(* The data of an audit stays within its types: checks, reports and the        *)
(* requirement SelectPayment chooses.                                          *)

\* The constructors of checks.
LEMMA CheckTypes ==
  ASSUME NEW name \in CheckNames
  PROVE  /\ Passed(name) \in CheckType /\ Failed(name) \in CheckType
         /\ Skipped(name) \in CheckType /\ Warned(name) \in CheckType
<1>1. Weight(name) \in {10, 15, 25, 30}
  BY DEF Weight
<1>2. Weight(name) \in Nat /\ Weight(name) \div 2 \in Nat
  BY <1>1
<1>. QED  BY <1>2 DEF CheckType, CheckStatuses, Check, Passed, Failed, Skipped, Warned

\* A usable judgement gives a check worth at most its weight.
LEMMA SemanticCheckType ==
  ASSUME NEW judgement \in Judgements, UsableJudgement(judgement)
  PROVE  SemanticOutcomeCheck(judgement) \in CheckType
<1>1. (judgement.score * 25) \div 100 \in Nat
  BY DEF UsableJudgement
<1>. DEFINE status == CASE ~judgement.passed -> "fail"
               [] judgement.passed /\ judgement.score < SemanticPassScoreFloor -> "warn"
               [] OTHER -> "pass"
<1>2. status \in CheckStatuses
  <2>1. judgement.passed \in BOOLEAN
    BY AuditAssumption DEF JudgementType
  <2>. QED  BY <2>1 DEF CheckStatuses
<1>. HIDE DEF status
<1>3. SemanticOutcomeCheck(judgement) = Check("task_outcome", status, 25, (judgement.score * 25) \div 100)
  BY DEF SemanticOutcomeCheck, status
<1>. QED  BY <1>1, <1>2, <1>3 DEF Check, CheckType, CheckNames

\* The outcome that needs no evaluator.
LEMMA OutcomeTypes ==
  ASSUME NEW r, NEW status
  PROVE  ImmediateOutcome(r, status) \in Seq(CheckType)
BY CheckTypes DEF ImmediateOutcome, CheckNames

\* The two checks of a specification review.
LEMMA SpecCheckTypes ==
  ASSUME NEW inspected, NEW parsed, NEW method
  PROVE  SpecChecks(inspected, parsed, method) \in Seq(CheckType)
BY CheckTypes DEF SpecChecks, CheckNames

\* A report stays a report when checks are appended.
LEMMA AppendTypes ==
  ASSUME NEW rep \in ReportType, NEW checks \in Seq(CheckType)
  PROVE  [rep EXCEPT !.checks = @ \o checks] \in ReportType
<1>1. rep.checks \o checks \in Seq(CheckType)
  BY DEF ReportType
<1>. QED  BY <1>1 DEF ReportType

\* The fields Audit sets when it has chosen a requirement, and when it is authorized.
LEMMA FieldTypes ==
  ASSUME NEW rep \in ReportType
  PROVE  /\ \A n \in Nat, q \in Requirements \cup {None} :
              [rep EXCEPT !.probeStatus = n, !.selected = q] \in ReportType
         /\ \A p \in Wallets \cup {None}, h \in {"PAYMENT-SIGNATURE", "X-PAYMENT", None} :
              [rep EXCEPT !.attempted = TRUE, !.payer = p, !.header = h] \in ReportType
<1>1. ASSUME NEW n \in Nat, NEW q \in Requirements \cup {None}
      PROVE  [rep EXCEPT !.probeStatus = n, !.selected = q] \in ReportType
  <2>. DEFINE first == [rep EXCEPT !.probeStatus = n]
  <2>1. first \in ReportType
    BY DEF ReportType
  <2>. HIDE DEF first
  <2>2. [first EXCEPT !.selected = q] \in ReportType
    BY <2>1 DEF ReportType
  <2>. QED  BY <2>2 DEF first
<1>2. ASSUME NEW p \in Wallets \cup {None}, NEW h \in {"PAYMENT-SIGNATURE", "X-PAYMENT", None}
      PROVE  [rep EXCEPT !.attempted = TRUE, !.payer = p, !.header = h] \in ReportType
  <2>. DEFINE first == [rep EXCEPT !.attempted = TRUE]
             second == [first EXCEPT !.payer = p]
  <2>1. first \in ReportType
    BY DEF ReportType
  <2>. HIDE DEF first
  <2>2. second \in ReportType
    BY <2>1 DEF ReportType
  <2>. HIDE DEF second
  <2>3. [second EXCEPT !.header = h] \in ReportType
    BY <2>2 DEF ReportType
  <2>. QED  BY <2>3 DEF first, second
<1>. QED  BY <1>1, <1>2

-----------------------------------------------------------------------------
(* finalizeReport *)

\* A sum of natural numbers is one.
LEMMA SumInt ==
  ASSUME NEW values, \A i \in DOMAIN values : values[i] \in Nat
  PROVE  SumOver(values) \in Nat
<1>. DEFINE Term(i) == IF i \in DOMAIN values THEN values[i] ELSE 0
<1>1. \A i : Term(i) \in Nat
  OBVIOUS
<1>2. SumOver(values) = Term(1) + Term(2) + Term(3) + Term(4) + Term(5) + Term(6) + Term(7)
  BY DEF SumOver
<1>. HIDE DEF Term
<1>. QED  BY <1>1, <1>2

\* The three sums over the checks of a report.
LEMMA WeightSums ==
  ASSUME NEW checks \in Seq(CheckType)
  PROVE  TotalWeight(checks) \in Nat /\ AssessedWeight(checks) \in Nat /\ PointsOf(checks) \in Nat
<1>1. \A i \in DOMAIN checks : checks[i].weight \in Nat /\ checks[i].points \in Nat
  <2>1. \A i \in DOMAIN checks : checks[i] \in CheckType
    OBVIOUS
  <2>. QED  BY <2>1 DEF CheckType
<1>2. TotalWeight(checks) \in Nat
  BY <1>1, SumInt DEF TotalWeight
<1>3. AssessedWeight(checks) \in Nat
  BY <1>1, SumInt DEF AssessedWeight
<1>4. PointsOf(checks) \in Nat
  BY <1>1, SumInt DEF PointsOf
<1>. QED  BY <1>2, <1>3, <1>4

\* The quotient is an integer, also of a report that assessed nothing.
LEMMA PercentInt ==
  ASSUME NEW part \in Nat, NEW whole \in Nat
  PROVE  Percent(part, whole) \in Int
BY DEF Percent

\* A finalized report is a report.
LEMMA FinalizeTypes ==
  ASSUME NEW rep \in ReportType
  PROVE  FinalizeReport(rep) \in ReportType
<1>1. rep.checks \in Seq(CheckType)
  BY DEF ReportType
<1>. DEFINE score == Percent(PointsOf(rep.checks), AssessedWeight(rep.checks))
            coverage == Percent(AssessedWeight(rep.checks), TotalWeight(rep.checks))
            verdict == Verdict(rep.tier, rep.checks)
<1>2. score \in Int /\ coverage \in Int
  BY <1>1, WeightSums, PercentInt
<1>3. verdict \in {"FAIL", "PROBE_PASS_WITH_WARNINGS", "PROBE_PASS", "PASS_WITH_WARNINGS", "PASS"}
  BY DEF Verdict
<1>4. FinalizeReport(rep) = [rep EXCEPT !.score = score, !.coverage = coverage, !.verdict = verdict]
  BY DEF FinalizeReport
<1>. HIDE DEF score, coverage, verdict
<1>. QED  BY <1>2, <1>3, <1>4 DEF ReportType


-----------------------------------------------------------------------------
(* The invariant *)

SP == INSTANCE RemoteSignerProofs WITH Callers <- Audits, TypedData <- Transfers

\* What the requirement an audit has chosen owes to its request, its challenge
\* and the policy.
WithinAuthority(r, accepts, chosen) ==
  /\ r.pay
  /\ Authorizable(chosen)
  /\ chosen.amount <= r.cap
  /\ chosen.network \in AllowedNetworks
  /\ r.network # None => chosen.network = NormalizeNetwork(r.network)
  /\ r.asset # None => chosen.asset = r.asset
  /\ \E i \in DOMAIN accepts :
       chosen = [accepts[i] EXCEPT !.network = NormalizeNetwork(@)]

\* The money trail: request and challenge, requirement, typed data, signature,
\* envelope and settled transfer, each taken from the one before it.
SelectionOK ==
  \A a \in Audits : selected[a] # None =>
    /\ request[a] # None /\ terms[a] # None
    /\ WithinAuthority(request[a], terms[a].accepts, selected[a])

SigningOK ==
  \A a \in Audits :
    /\ typed[a] # None =>
         /\ selected[a] # None
         /\ typed[a] = Transfer(selected[a], typed[a].from, typed[a].nonce)
    /\ call[a].stage \in {"signing", "signed"} => typed[a].from = call[a].payer
    /\ call[a].stage = "signed" => SP!Signature(typed[a].from, typed[a]) \in signed

EnvelopeOK ==
  /\ \A a \in Audits : auth[a] # None => auth[a].transfer = typed[a] /\ typed[a] # None
  /\ \A s \in settled : auth[s.audit] # None /\ s.transfer = auth[s.audit].transfer

MoneyTrail == SelectionOK /\ SigningOK /\ EnvelopeOK

\* A payer that a report names is the pinned wallet.
PayersPinned ==
  \A a \in Audits : report[a].payer # None => report[a].payer = address

IInv == DataOK /\ ScopeOK /\ SP!IInv /\ MoneyTrail /\ PayersPinned

-----------------------------------------------------------------------------
(* The signer inside Auditor *)

\* The audits and their transfers are callers and typed data as RemoteSigner takes them.
LEMMA SignerAssumed == SP!SignerAssumption
BY AuditAssumption DEF SP!SignerAssumption

\* A signing call under way has its typed data.
LEMMA TypedIsTransfer ==
  ASSUME DataOK, ScopeOK, NEW a \in Audits, call[a].stage = "signing"
  PROVE  typed[a] \in Transfers
BY DEF DataOK, ScopeOK

\* What an audit does to the signer is a step of RemoteSigner.
LEMMA SignerStep ==
  ASSUME DataOK, ScopeOK, Next
  PROVE  [SP!Next]_SP!vars
<1>. USE DEF SP!vars, SP!Next
<1>1. ASSUME NEW a \in Audits, NEW r \in Requests, Accept(a, r) \/ Refuse(a, r)
      PROVE  UNCHANGED SP!vars
  BY <1>1 DEF Accept, Refuse, signerVars
<1>2. ASSUME NEW a \in Audits, Inspect(a) \/ ProbeStep(a)
      PROVE  UNCHANGED SP!vars
  BY <1>2 DEF Inspect, ProbeStep, ProbeFails, ProbeNotChallenged, ProbeBadChallenge, ProbeUnpaid,
              ProbeUnaffordable, ProbeSelects, signerVars
<1>3. ASSUME NEW a \in Audits, Authorize(a)
      PROVE  SP!Next
  BY <1>3 DEF Authorize, Signer!Call, SP!Call, Signer!Enter, SP!Enter
<1>4. ASSUME NEW a \in Audits, Address(a)
      PROVE  SP!Next
  BY <1>4 DEF Address, Signer!Address, SP!Address, Signer!UsePinned, SP!UsePinned,
              Signer!Fetch, SP!Fetch, Signer!Enter, SP!Enter
<1>5. ASSUME NEW a \in Audits, FetchEnds(a)
      PROVE  SP!Next
  BY <1>5 DEF FetchEnds, Signer!FetchEnds, SP!FetchEnds, Signer!FetchAnswered, SP!FetchAnswered,
              Signer!FetchFailed, SP!FetchFailed, Signer!Enter, SP!Enter
<1>6. ASSUME NEW a \in Audits, Sign(a)
      PROVE  SP!Next
  BY <1>6 DEF Sign, Signer!Sign, SP!Sign, Signer!Enter, SP!Enter
<1>7. ASSUME NEW a \in Audits, SignEnds(a)
      PROVE  SP!Next
  <2>1. CASE Signer!SignAnswered(a, typed[a])
    <3>1. typed[a] \in Transfers
      BY <2>1, TypedIsTransfer DEF Signer!SignAnswered
    <3>2. SP!SignAnswered(a, typed[a])
      BY <2>1 DEF Signer!SignAnswered, SP!SignAnswered, Signer!Enter, SP!Enter,
                  Signer!Held, SP!Held, Signer!Signature, SP!Signature
    <3>. QED  BY <3>1, <3>2 DEF SP!SignEnds
  <2>2. CASE Signer!SignLost(a, typed[a])
    <3>1. typed[a] \in Transfers
      BY <2>2, TypedIsTransfer DEF Signer!SignLost
    <3>2. SP!SignLost(a, typed[a])
      BY <2>2 DEF Signer!SignLost, SP!SignLost, Signer!Enter, SP!Enter,
                  Signer!Held, SP!Held, Signer!Signature, SP!Signature
    <3>. QED  BY <3>1, <3>2 DEF SP!SignEnds
  <2>3. CASE Signer!SignFailed(a)
    BY <2>3 DEF Signer!SignFailed, SP!SignFailed, Signer!Enter, SP!Enter, SP!SignEnds
  <2>. QED  BY <1>7, <2>1, <2>2, <2>3 DEF SignEnds
<1>8. ASSUME NEW a \in Audits, AuthorizationFails(a) \/ Authorized(a) \/ PayStep(a) \/ FinishStep(a)
                               \/ Redeliver(a)
      PROVE  UNCHANGED SP!vars
  BY <1>8 DEF AuthorizationFails, Authorized, PayStep, SendPaid, PaidFails, PaidAnswers, FinishStep,
              EvaluatorAnswers, EvaluatorFails, Complete, SaveFails, Redeliver, signerVars
<1>9. ASSUME NEW a \in Audits, Disconnect(a)
      PROVE  SP!Next
  BY <1>9 DEF Disconnect, Signer!Cancel, SP!Cancel
<1>10. ASSUME NEW a \in Audits, NEW copy, Settle(a, copy)
       PROVE  UNCHANGED SP!vars
  BY <1>10 DEF Settle, signerVars
<1>11. ASSUME Rotate
       PROVE  SP!Next
  BY <1>11 DEF Rotate, Signer!Rotate, SP!Rotate
<1>12. ASSUME Terminated
       PROVE  UNCHANGED SP!vars
  BY <1>12 DEF Terminated, vars, signerVars
<1>. HIDE DEF SP!vars, SP!Next
<1>. QED  BY <1>1, <1>2, <1>3, <1>4, <1>5, <1>6, <1>7, <1>8, <1>9, <1>10, <1>11, <1>12
          DEF Next, AuditStep, AuthorizeStep
\* So the signer's own invariant holds inside Auditor.
LEMMA SignerPreserved ==
  ASSUME DataOK, ScopeOK, SP!IInv, [Next]_vars
  PROVE  SP!IInv'
<1>1. [SP!Next]_SP!vars
  <2>1. CASE UNCHANGED vars
    BY <2>1 DEF vars, signerVars, SP!vars
  <2>. QED  BY <2>1, SignerStep
<1>. QED  BY <1>1, SignerAssumed, SP!NextPreserves DEF SP!NextPreserves

\* It holds when the process starts.
LEMMA SignerInit == Init => SP!IInv
<1>1. Init => SP!Init
  BY DEF Init, Signer!Init, SP!Init
<1>. QED  BY <1>1, SignerAssumed, SP!InitEstablishes DEF SP!InitEstablishes

-----------------------------------------------------------------------------
(* What the probe chooses *)

\* The document of a reply that parses.
LEMMA ReplyTerms ==
  ASSUME NEW reply \in Replies, ChallengeParses(ChallengeDocument(reply))
  PROVE  /\ ParsePaymentChallenge(ChallengeDocument(reply)) \in Terms
         /\ AuthorizationHeader(reply) \in {"PAYMENT-SIGNATURE", "X-PAYMENT"}
<1>1. reply \in Answers
  BY AuditAssumption
<1>2. ChallengeDocument(reply) \in Documents
  BY <1>1 DEF Answers, ChallengeDocument, ChallengeParses
<1>. QED  BY <1>2, ParsedTerms DEF AuthorizationHeader

\* The choice of the probe is a requirement, and within its request's authority.
LEMMA ChoiceFacts ==
  ASSUME NEW a \in Audits, NEW reply \in Replies,
         ChallengeParses(ChallengeDocument(reply)),
         request[a].pay, Choice(a, reply) # None
  PROVE  /\ Choice(a, reply) \in Requirements
         /\ Authorizable(Choice(a, reply))
         /\ WithinAuthority(request[a], ParsePaymentChallenge(ChallengeDocument(reply)).accepts,
                            Choice(a, reply))
<1>. DEFINE accepts == ParsePaymentChallenge(ChallengeDocument(reply)).accepts
<1>1. accepts \in Seq(Requirements)
  BY ReplyTerms DEF Terms
<1>2. Choice(a, reply) = SelectPayment(accepts, request[a])
  BY DEF Choice
<1>. HIDE DEF accepts
<1>3. \E i \in DOMAIN accepts :
         Choice(a, reply) = [accepts[i] EXCEPT !.network = NormalizeNetwork(@)]
  BY <1>2, SelectionIsQuoted
<1>4. /\ Choice(a, reply) \in Requirements
      /\ Authorizable(Choice(a, reply))
      /\ Choice(a, reply).amount <= request[a].cap
      /\ Choice(a, reply).network \in AllowedNetworks
      /\ request[a].network # None => Choice(a, reply).network = NormalizeNetwork(request[a].network)
      /\ request[a].asset # None => Choice(a, reply).asset = request[a].asset
  BY <1>1, <1>2, SelectedIsAuthorizable
<1>. QED  BY <1>3, <1>4 DEF WithinAuthority, accepts

-----------------------------------------------------------------------------
(* Initially *)

\* No audit has started: nothing is chosen, signed or settled.
LEMMA InitEstablishes == Init => IInv
<1>. SUFFICES ASSUME Init PROVE IInv
  OBVIOUS
<1>. USE DEF Init
<1>1. DataOK
  <2>1. EmptyReport \in ReportType
    BY DEF EmptyReport, ReportType
  <2>. QED  BY <2>1, AuditAssumption DEF DataOK
<1>2. \A a \in Audits : call[a].stage = "idle"
  BY DEF Signer!Init
<1>3. ScopeOK
  BY <1>2 DEF ScopeOK, Running, Committed
<1>4. SP!IInv
  BY SignerInit
<1>5. MoneyTrail
  BY <1>2 DEF MoneyTrail, SelectionOK, SigningOK, EnvelopeOK
<1>6. PayersPinned
  BY DEF PayersPinned, EmptyReport
<1>. QED  BY <1>1, <1>3, <1>4, <1>5, <1>6 DEF IInv
-----------------------------------------------------------------------------
(* DataOK is preserved *)

\* The stage an audit moves to is a stage.
LEMMA GotoTypes ==
  ASSUME DataOK, NEW a \in Audits, NEW stage \in Running \cup Final, Goto(a, stage)
  PROVE  pc' \in [Audits -> {"idle"} \cup Running \cup Final]
BY DEF DataOK, Goto

\* Recording checks leaves a report.
LEMMA RecordTypes ==
  ASSUME DataOK, NEW a \in Audits, NEW rep \in ReportType, NEW checks \in Seq(CheckType),
         Record(a, rep, checks)
  PROVE  report' \in [Audits -> ReportType]
<1>. DEFINE next == [rep EXCEPT !.checks = @ \o checks]
<1>1. next \in ReportType
  BY AppendTypes
<1>2. report' = [report EXCEPT ![a] = next]
  BY DEF Record
<1>. HIDE DEF next
<1>. QED  BY <1>1, <1>2 DEF DataOK

\* A step that moves one audit on and adds checks to its report, nothing else.
LEMMA RecordOnly ==
  ASSUME DataOK, NEW a \in Audits, NEW stage \in Running \cup Final,
         NEW rep \in ReportType, NEW checks \in Seq(CheckType),
         Goto(a, stage), Record(a, rep, checks), UNCHANGED <<askVars, moneyVars, stored>>
  PROVE  DataOK'
<1>1. report' \in [Audits -> ReportType]
  BY RecordTypes
<1>2. pc' \in [Audits -> {"idle"} \cup Running \cup Final]
  BY GotoTypes
<1>. QED  BY <1>1, <1>2 DEF DataOK, askVars, moneyVars

\* evaluateOutcome after a reply of any kind.
LEMMA EvaluateTypes ==
  ASSUME DataOK, NEW a \in Audits, NEW rep \in ReportType, NEW checks \in Seq(CheckType),
         NEW status, EvaluateOutcome(a, rep, checks, status),
         UNCHANGED <<askVars, moneyVars, stored>>
  PROVE  DataOK'
<1>. DEFINE outcome == ImmediateOutcome(request[a], status)
            stage == IF outcome = << >> THEN "evaluating" ELSE "completing"
<1>1. outcome \in Seq(CheckType)
  BY OutcomeTypes
<1>2. Record(a, rep, checks \o outcome) /\ Goto(a, stage)
  BY DEF EvaluateOutcome
<1>3. stage \in Running \cup Final
  BY DEF Running
<1>. HIDE DEF outcome, stage
<1>4. checks \o outcome \in Seq(CheckType)
  BY <1>1
<1>. QED  BY <1>2, <1>3, <1>4, RecordOnly

\* The answer to the unpaid request.
LEMMA ProbeData ==
  ASSUME DataOK, NEW a \in Audits, ProbeStep(a)
  PROVE  DataOK'
<1>0. report[a] \in ReportType /\ "completing" \in Running \cup Final
  BY DEF DataOK, Running
<1>1. CASE ProbeFails(a)
  <2>1. <<Failed("reachability"), Skipped("x402_challenge"), Skipped("payment_budget"),
          Skipped("paid_delivery"), Skipped("task_outcome")>> \in Seq(CheckType)
    BY CheckTypes DEF CheckNames
  <2>. QED  BY <1>0, <1>1, <2>1, RecordOnly DEF ProbeFails, Conclude
<1>2. ASSUME NEW reply \in Replies, ProbeNotChallenged(a, reply)
      PROVE  DataOK'
  <2>1. [report[a] EXCEPT !.probeStatus = reply.status] \in ReportType
    BY <1>0, AuditAssumption DEF ReportType, Answers
  <2>2. <<Passed("reachability"), Failed("x402_challenge"), Skipped("payment_budget"),
          Skipped("paid_delivery")>> \in Seq(CheckType)
    BY CheckTypes DEF CheckNames
  <2>. QED  BY <1>2, <2>1, <2>2, EvaluateTypes DEF ProbeNotChallenged
<1>. DEFINE rep == [report[a] EXCEPT !.probeStatus = 402]
<1>3. rep \in ReportType
  BY <1>0 DEF ReportType
<1>4. ASSUME NEW reply \in Replies, ProbeBadChallenge(a, reply)
      PROVE  DataOK'
  <2>1. <<Passed("reachability"), Failed("x402_challenge"), Skipped("payment_budget"),
          Skipped("paid_delivery"), Skipped("task_outcome")>> \in Seq(CheckType)
    BY CheckTypes DEF CheckNames
  <2>. QED  BY <1>0, <1>3, <1>4, <2>1, RecordOnly DEF ProbeBadChallenge, Conclude
<1>5. ASSUME NEW reply \in Replies, Challenged(a, reply)
      PROVE  /\ terms' \in [Audits -> Terms \cup {None}]
             /\ header' \in [Audits -> {"PAYMENT-SIGNATURE", "X-PAYMENT", None}]
  BY <1>5, ReplyTerms DEF Challenged, DataOK
<1>6. ASSUME NEW reply \in Replies, ProbeUnpaid(a, reply)
      PROVE  DataOK'
  <2>1. <<Passed("reachability"), Passed("x402_challenge"), Skipped("payment_budget"),
          Skipped("paid_delivery"), Skipped("task_outcome")>> \in Seq(CheckType)
    BY CheckTypes DEF CheckNames
  <2>2. report' \in [Audits -> ReportType] /\ pc' \in [Audits -> {"idle"} \cup Running \cup Final]
    BY <1>0, <1>3, <1>6, <2>1, RecordTypes, GotoTypes DEF ProbeUnpaid, Conclude
  <2>. QED  BY <1>5, <1>6, <2>2 DEF ProbeUnpaid, DataOK, moneyVars
<1>7. ASSUME NEW reply \in Replies, ProbeUnaffordable(a, reply)
      PROVE  DataOK'
  <2>1. <<Passed("reachability"), Passed("x402_challenge"), Failed("payment_budget"),
          Skipped("paid_delivery"), Skipped("task_outcome")>> \in Seq(CheckType)
    BY CheckTypes DEF CheckNames
  <2>2. report' \in [Audits -> ReportType] /\ pc' \in [Audits -> {"idle"} \cup Running \cup Final]
    BY <1>0, <1>3, <1>7, <2>1, RecordTypes, GotoTypes DEF ProbeUnaffordable, Conclude
  <2>. QED  BY <1>5, <1>7, <2>2 DEF ProbeUnaffordable, DataOK, moneyVars
<1>8. ASSUME NEW reply \in Replies, ProbeSelects(a, reply)
      PROVE  DataOK'
  <2>1. Choice(a, reply) \in Requirements
    <3>1. ChallengeParses(ChallengeDocument(reply)) /\ request[a].pay /\ Choice(a, reply) # None
      BY <1>8 DEF ProbeSelects, Challenged
    <3>. QED  BY <3>1, ChoiceFacts
  <2>2. [report[a] EXCEPT !.probeStatus = 402, !.selected = Choice(a, reply)] \in ReportType
    <3>1. 402 \in Nat /\ Choice(a, reply) \in Requirements \cup {None}
      BY <2>1
    <3>2. \A n \in Nat, q \in Requirements \cup {None} :
             [report[a] EXCEPT !.probeStatus = n, !.selected = q] \in ReportType
      BY <1>0, FieldTypes
    <3>. QED  BY <3>1, <3>2
  <2>3. <<Passed("reachability"), Passed("x402_challenge"), Passed("payment_budget")>> \in Seq(CheckType)
    BY CheckTypes DEF CheckNames
  <2>4. report' \in [Audits -> ReportType]
    BY <1>8, <2>2, <2>3, RecordTypes DEF ProbeSelects
  <2>5. pc' \in [Audits -> {"idle"} \cup Running \cup Final]
    BY <1>8, GotoTypes DEF ProbeSelects, Running
  <2>. QED  BY <1>5, <1>8, <2>1, <2>4, <2>5 DEF ProbeSelects, DataOK
<1>. QED  BY <1>1, <1>2, <1>4, <1>6, <1>7, <1>8 DEF ProbeStep
\* The typed data of a new signing call.
LEMMA SignedTransfer ==
  ASSUME DataOK, ScopeOK, SP!TypeOK, NEW a \in Audits, Sign(a)
  PROVE  /\ selected[a] \in Requirements /\ Authorizable(selected[a])
         /\ drawn + 1 \in Nat
         /\ Transfer(selected[a], call[a].payer, drawn + 1) \in Transfers
<1>1. call[a].stage = "addressed" /\ pc[a] = "authorizing"
  BY DEF Sign, Signer!Sign, ScopeOK
<1>2. selected[a] \in Requirements /\ Authorizable(selected[a])
  BY <1>1 DEF ScopeOK, DataOK, Committed
<1>3. call[a].payer \in Wallets
  BY <1>1 DEF SP!TypeOK
<1>4. drawn + 1 \in Nat
  BY DEF DataOK
<1>. QED  BY <1>2, <1>3, <1>4, PolicyAssumption DEF Transfer, Transfers, Authorizable, Requirements

\* Inside Authorize, and its return.
LEMMA AuthorizeData ==
  ASSUME DataOK, ScopeOK, SP!TypeOK, NEW a \in Audits,
         AuthorizeStep(a) \/ Address(a)
  PROVE  DataOK'
<1>1. CASE Authorize(a) \/ Address(a) \/ FetchEnds(a) \/ SignEnds(a)
  BY <1>1 DEF Authorize, Address, FetchEnds, SignEnds, auditVars, DataOK, askVars
<1>2. CASE Sign(a)
  BY <1>2, SignedTransfer DEF Sign, auditVars, DataOK, askVars
<1>3. CASE AuthorizationFails(a)
  <2>1. <<Failed("paid_delivery"), Skipped("task_outcome")>> \in Seq(CheckType)
    BY CheckTypes DEF CheckNames
  <2>2. report[a] \in ReportType /\ "completing" \in Running \cup Final
    BY DEF DataOK, Running
  <2>. QED  BY <1>3, <2>1, <2>2, RecordOnly DEF AuthorizationFails, Conclude
<1>4. CASE Authorized(a)
  <2>1. call[a].stage = "signed" /\ pc[a] = "authorizing"
    BY <1>4 DEF Authorized
  <2>2. selected[a] \in Requirements /\ typed[a] \in Transfers
    BY <2>1 DEF ScopeOK, DataOK, Committed
  <2>3. auth' \in [Audits -> Envelopes \cup {None}]
    BY <1>4, <2>2 DEF Authorized, Envelope, Envelopes, DataOK
  <2>4. call[a].payer \in Wallets \cup {None} /\ header[a] \in {"PAYMENT-SIGNATURE", "X-PAYMENT", None}
    BY DEF SP!TypeOK, DataOK
  <2>5. [report[a] EXCEPT !.attempted = TRUE, !.payer = call[a].payer, !.header = header[a]] \in ReportType
    BY <2>4, FieldTypes DEF DataOK
  <2>6. report' \in [Audits -> ReportType]
    BY <1>4, <2>5 DEF Authorized, DataOK
  <2>7. pc' \in [Audits -> {"idle"} \cup Running \cup Final]
    BY <1>4, GotoTypes DEF Authorized, Running
  <2>. QED  BY <1>4, <2>3, <2>6, <2>7 DEF Authorized, DataOK, askVars
<1>. QED  BY <1>1, <1>2, <1>3, <1>4 DEF AuthorizeStep

\* The paid request.
LEMMA PayData ==
  ASSUME DataOK, NEW a \in Audits, PayStep(a) \/ Redeliver(a)
  PROVE  DataOK'
<1>0. report[a] \in ReportType /\ "completing" \in Running \cup Final
  BY DEF DataOK, Running
<1>1. CASE SendPaid(a)
  <2>1. pc' \in [Audits -> {"idle"} \cup Running \cup Final]
    BY <1>1, GotoTypes DEF SendPaid, Running
  <2>2. copies' \in [Audits -> 0 .. MaxCopies]
    BY <1>1, AuditAssumption DEF SendPaid, DataOK
  <2>. QED  BY <1>1, <2>1, <2>2 DEF SendPaid, DataOK, askVars
<1>2. CASE PaidFails(a)
  <2>1. <<Failed("paid_delivery"), Skipped("task_outcome")>> \in Seq(CheckType)
    BY CheckTypes DEF CheckNames
  <2>. QED  BY <1>0, <1>2, <2>1, RecordOnly DEF PaidFails, Conclude
<1>3. ASSUME NEW status \in PaidStatuses, PaidAnswers(a, status)
      PROVE  DataOK'
  <2>1. [report[a] EXCEPT !.tier = "verified", !.paidStatus = status] \in ReportType
    BY <1>0, AuditAssumption DEF ReportType
  <2>2. <<IF Is2xx(status) THEN Passed("paid_delivery") ELSE Failed("paid_delivery")>> \in Seq(CheckType)
    BY CheckTypes DEF CheckNames
  <2>. QED  BY <1>3, <2>1, <2>2, EvaluateTypes DEF PaidAnswers
<1>4. CASE Redeliver(a)
  <2>1. copies' \in [Audits -> 0 .. MaxCopies]
    BY <1>4, AuditAssumption DEF Redeliver, DataOK
  <2>. QED  BY <1>4, <2>1 DEF Redeliver, DataOK, askVars
<1>. QED  BY <1>1, <1>2, <1>3, <1>4 DEF PayStep

\* The evaluator's answer, and complete.
LEMMA FinishData ==
  ASSUME DataOK, NEW a \in Audits, FinishStep(a)
  PROVE  DataOK'
<1>0. report[a] \in ReportType /\ "completing" \in Running \cup Final
  BY DEF DataOK, Running
<1>1. ASSUME NEW judgement \in Judgements, EvaluatorAnswers(a, judgement)
      PROVE  DataOK'
  <2>1. [report[a] EXCEPT !.semantic = judgement] \in ReportType
    BY <1>0 DEF ReportType
  <2>2. <<SemanticOutcomeCheck(judgement)>> \in Seq(CheckType)
    BY <1>1, SemanticCheckType DEF EvaluatorAnswers
  <2>. QED  BY <1>0, <1>1, <2>1, <2>2, RecordOnly DEF EvaluatorAnswers, Conclude
<1>2. CASE EvaluatorFails(a)
  <2>1. <<Warned("task_outcome")>> \in Seq(CheckType)
    BY CheckTypes DEF CheckNames
  <2>. QED  BY <1>0, <1>2, <2>1, RecordOnly DEF EvaluatorFails, Conclude
<1>3. FinalReport(a) \in ReportType
  <2>1. FinalChecks(a) \in Seq(CheckType)
    BY SpecCheckTypes DEF FinalChecks
  <2>2. [report[a] EXCEPT !.checks = @ \o FinalChecks(a)] \in ReportType
    BY <1>0, <2>1, AppendTypes
  <2>. QED  BY <2>2, FinalizeTypes DEF FinalReport
<1>4. CASE Complete(a)
  <2>1. pc' \in [Audits -> {"idle"} \cup Running \cup Final]
    BY <1>4, GotoTypes DEF Complete, Final
  <2>. QED  BY <1>3, <1>4, <2>1 DEF Complete, DataOK, askVars, moneyVars
<1>5. CASE SaveFails(a)
  <2>1. pc' \in [Audits -> {"idle"} \cup Running \cup Final]
    BY <1>5, GotoTypes DEF SaveFails, Final
  <2>. QED  BY <1>3, <1>5, <2>1 DEF SaveFails, DataOK, askVars, moneyVars
<1>. QED  BY <1>1, <1>2, <1>4, <1>5 DEF FinishStep

\* Every step.
LEMMA DataPreserved ==
  ASSUME DataOK, ScopeOK, SP!TypeOK, [Next]_vars
  PROVE  DataOK'
<1>1. ASSUME NEW a \in Audits, NEW r \in Requests, Accept(a, r) \/ Refuse(a, r)
      PROVE  DataOK'
  <2>1. pc' \in [Audits -> {"idle"} \cup Running \cup Final]
    BY <1>1 DEF Accept, Refuse, Goto, DataOK, Running, Final
  <2>. QED  BY <1>1, <2>1 DEF Accept, Refuse, DataOK, moneyVars
<1>2. ASSUME NEW a \in Audits, Inspect(a)
      PROVE  DataOK'
  <2>1. pc' \in [Audits -> {"idle"} \cup Running \cup Final]
    BY <1>2, GotoTypes DEF Inspect, Running
  <2>. QED  BY <1>2, <2>1 DEF Inspect, DataOK, moneyVars
<1>3. ASSUME NEW a \in Audits, Disconnect(a)
      PROVE  DataOK'
  BY <1>3 DEF Disconnect, auditVars, askVars, DataOK
<1>4. CASE Rotate
  BY <1>4 DEF Rotate, auditVars, askVars, DataOK
<1>5. ASSUME NEW a \in Audits, NEW copy \in 1 .. MaxCopies, Settle(a, copy)
      PROVE  DataOK'
  <2>1. auth[a] # None
    BY <1>5, AuditAssumption DEF Settle, ScopeOK, DataOK
  <2>2. auth[a].transfer \in Transfers
    BY <2>1 DEF DataOK, Envelopes
  <2>3. settled' \subseteq [audit : Audits, copy : 1 .. MaxCopies, transfer : Transfers]
    BY <1>5, <2>2 DEF Settle, DataOK
  <2>. QED  BY <1>5, <2>3 DEF Settle, DataOK, askVars
<1>6. CASE UNCHANGED vars
  BY <1>6 DEF vars, askVars, moneyVars, DataOK
<1>. QED  BY <1>1, <1>2, <1>3, <1>4, <1>5, <1>6, ProbeData, AuthorizeData, PayData, FinishData
          DEF Next, AuditStep, Terminated
-----------------------------------------------------------------------------
(* ScopeOK is preserved *)

\* What exists at which stage, step by step.
LEMMA ScopePreserved ==
  ASSUME DataOK, ScopeOK, SP!TypeOK, [Next]_vars
  PROVE  ScopeOK'
<1>. USE DEF ScopeOK, Running, Committed, Goto, askVars, moneyVars, signerVars
<1>. call \in [Audits -> [stage : SP!Stages, payer : Wallets \cup {None}]]
  BY DEF SP!TypeOK
<1>1. ASSUME NEW a \in Audits, NEW r \in Requests, Accept(a, r) \/ Refuse(a, r)
      PROVE  ScopeOK'
  <2>1. r # None
    BY NoneAssumption
  <2>. QED  BY <1>1, <2>1 DEF Accept, Refuse, DataOK
<1>2. ASSUME NEW a \in Audits, Inspect(a)
      PROVE  ScopeOK'
  BY <1>2 DEF Inspect, DataOK
<1>3. ASSUME NEW a \in Audits, ProbeStep(a)
      PROVE  ScopeOK'
  <2>1. CASE ProbeFails(a)
    BY <2>1 DEF ProbeFails, Conclude, DataOK
  <2>2. ASSUME NEW reply \in Replies, ProbeNotChallenged(a, reply)
        PROVE  ScopeOK'
    BY <2>2 DEF ProbeNotChallenged, ProbeAnswered, EvaluateOutcome, DataOK
  <2>3. ASSUME NEW reply \in Replies, ProbeBadChallenge(a, reply)
        PROVE  ScopeOK'
    BY <2>3 DEF ProbeBadChallenge, ProbeAnswered, Conclude, DataOK
  <2>4. ASSUME NEW reply \in Replies, ProbeUnpaid(a, reply) \/ ProbeUnaffordable(a, reply)
        PROVE  ScopeOK'
    BY <2>4 DEF ProbeUnpaid, ProbeUnaffordable, Challenged, ProbeAnswered, Conclude, DataOK
  <2>5. ASSUME NEW reply \in Replies, ProbeSelects(a, reply)
        PROVE  ScopeOK'
    <3>1. ChallengeParses(ChallengeDocument(reply)) /\ request[a].pay /\ Choice(a, reply) # None
      BY <2>5 DEF ProbeSelects, Challenged
    <3>2. Authorizable(Choice(a, reply))
      BY <3>1, ChoiceFacts
    <3>. DEFINE chosen == Choice(a, reply)
    <3>3. /\ pc[a] = "probing" /\ pc' = [pc EXCEPT ![a] = "authorizing"]
          /\ selected' = [selected EXCEPT ![a] = chosen]
          /\ UNCHANGED <<request, typed, auth, copies, call>>
      BY <2>5 DEF ProbeSelects, Challenged, ProbeAnswered
    <3>. HIDE DEF chosen
    <3>4. chosen # None /\ Authorizable(chosen)
      BY <3>1, <3>2 DEF chosen
    <3>. QED  BY <3>3, <3>4 DEF DataOK
  <2>. QED  BY <1>3, <2>1, <2>2, <2>3, <2>4, <2>5 DEF ProbeStep
<1>4. ASSUME NEW a \in Audits, Authorize(a) \/ Address(a) \/ FetchEnds(a)
      PROVE  ScopeOK'
  BY <1>4 DEF Authorize, Address, FetchEnds, Signer!Call, Signer!Address, Signer!UsePinned,
              Signer!Fetch, Signer!FetchEnds, Signer!FetchAnswered, Signer!FetchFailed,
              Signer!Enter, auditVars
<1>5. ASSUME NEW a \in Audits, Sign(a)
      PROVE  ScopeOK'
  <2>1. Transfer(selected[a], call[a].payer, drawn + 1) # None
    BY <1>5, SignedTransfer, NoneAssumption
  <2>. QED  BY <1>5, <2>1 DEF Sign, Signer!Sign, Signer!Enter, auditVars, DataOK
<1>6. ASSUME NEW a \in Audits, SignEnds(a)
      PROVE  ScopeOK'
  BY <1>6 DEF SignEnds, Signer!SignAnswered, Signer!SignLost, Signer!SignFailed, Signer!Enter, auditVars
<1>7. ASSUME NEW a \in Audits, AuthorizationFails(a)
      PROVE  ScopeOK'
  BY <1>7 DEF AuthorizationFails, Conclude, DataOK
<1>8. ASSUME NEW a \in Audits, Authorized(a)
      PROVE  ScopeOK'
  <2>1. Envelope(selected[a], typed[a]) # None
    <3>1. selected[a] \in Requirements /\ typed[a] \in Transfers
      BY <1>8 DEF Authorized, DataOK
    <3>. QED  BY <3>1, NoneAssumption DEF Envelope, Envelopes
  <2>. QED  BY <1>8, <2>1 DEF Authorized, DataOK
<1>9. ASSUME NEW a \in Audits, PayStep(a) \/ Redeliver(a)
      PROVE  ScopeOK'
  <2>1. CASE SendPaid(a)
    BY <2>1 DEF SendPaid, DataOK
  <2>2. CASE PaidFails(a)
    BY <2>2 DEF PaidFails, Conclude, DataOK
  <2>3. ASSUME NEW status \in PaidStatuses, PaidAnswers(a, status)
        PROVE  ScopeOK'
    BY <2>3 DEF PaidAnswers, EvaluateOutcome, DataOK
  <2>4. CASE Redeliver(a)
    BY <2>4 DEF Redeliver, DataOK
  <2>. QED  BY <1>9, <2>1, <2>2, <2>3, <2>4 DEF PayStep
<1>10. ASSUME NEW a \in Audits, FinishStep(a)
       PROVE  ScopeOK'
  BY <1>10 DEF FinishStep, EvaluatorAnswers, EvaluatorFails, Complete, SaveFails, Conclude, DataOK
<1>11. ASSUME NEW a \in Audits, Disconnect(a)
       PROVE  ScopeOK'
  BY <1>11 DEF Disconnect, Signer!Cancel, auditVars
<1>12. ASSUME NEW a \in Audits, NEW copy \in 1 .. MaxCopies, Settle(a, copy)
       PROVE  ScopeOK'
  BY <1>12 DEF Settle
<1>13. CASE Rotate
  BY <1>13 DEF Rotate, Signer!Rotate, auditVars
<1>14. CASE UNCHANGED vars
  BY <1>14 DEF vars
<1>. QED  BY <1>1, <1>2, <1>3, <1>4, <1>5, <1>6, <1>7, <1>8, <1>9, <1>10, <1>11, <1>12,
             <1>13, <1>14
          DEF Next, AuditStep, AuthorizeStep, Terminated
-----------------------------------------------------------------------------
(* The money trail is preserved *)

trail == <<request, terms, selected, typed, auth, settled, call, signed>>

\* A step that touches none of it.
LEMMA SameTrail ==
  ASSUME MoneyTrail, UNCHANGED trail
  PROVE  MoneyTrail'
BY DEF MoneyTrail, SelectionOK, SigningOK, EnvelopeOK, WithinAuthority, SP!Signature, trail

\* Before it has chosen, an audit has no trail at all.
LEMMA NothingChosen ==
  ASSUME ScopeOK, MoneyTrail, NEW a \in Audits, pc[a] \in {"idle", "inspecting", "probing"}
  PROVE  /\ selected[a] = None /\ typed[a] = None /\ auth[a] = None
         /\ \A s \in settled : s.audit # a
BY DEF ScopeOK, MoneyTrail, SigningOK, EnvelopeOK

\* While it is idle or probing, its request and its challenge may be set.
LEMMA TrailBefore ==
  ASSUME DataOK, ScopeOK, MoneyTrail, NEW a \in Audits,
         pc[a] \in {"idle", "inspecting", "probing"},
         \A b \in Audits \ {a} : request'[b] = request[b] /\ terms'[b] = terms[b],
         UNCHANGED <<selected, typed, auth, settled, call, signed>>
  PROVE  MoneyTrail'
<1>1. SelectionOK'
  BY NothingChosen DEF MoneyTrail, SelectionOK, WithinAuthority
<1>2. SigningOK'
  BY DEF MoneyTrail, SigningOK, SP!Signature
<1>3. EnvelopeOK'
  BY DEF MoneyTrail, EnvelopeOK
<1>. QED  BY <1>1, <1>2, <1>3 DEF MoneyTrail

\* The requirement chosen by the probe is within the authority of the request.
LEMMA TrailProbe ==
  ASSUME DataOK, ScopeOK, MoneyTrail, NEW a \in Audits, ProbeStep(a)
  PROVE  MoneyTrail'
<1>1. CASE ProbeFails(a)
  BY <1>1, SameTrail DEF ProbeFails, askVars, moneyVars, signerVars, trail
<1>2. ASSUME NEW reply \in Replies, ProbeNotChallenged(a, reply) \/ ProbeBadChallenge(a, reply)
      PROVE  MoneyTrail'
  BY <1>2, SameTrail DEF ProbeNotChallenged, ProbeBadChallenge, askVars, moneyVars, signerVars, trail
<1>3. ASSUME NEW reply \in Replies, ProbeUnpaid(a, reply) \/ ProbeUnaffordable(a, reply)
      PROVE  MoneyTrail'
  BY <1>3, TrailBefore DEF ProbeUnpaid, ProbeUnaffordable, Challenged, ProbeAnswered, moneyVars,
                           signerVars, DataOK
<1>4. ASSUME NEW reply \in Replies, ProbeSelects(a, reply)
      PROVE  MoneyTrail'
  <2>. DEFINE chosen == Choice(a, reply)
              parsed == ParsePaymentChallenge(ChallengeDocument(reply))
  <2>1. /\ pc[a] = "probing" /\ request[a].pay /\ chosen # None
        /\ ChallengeParses(ChallengeDocument(reply))
        /\ selected' = [selected EXCEPT ![a] = chosen]
        /\ terms' = [terms EXCEPT ![a] = parsed]
        /\ UNCHANGED <<request, typed, auth, settled, call, signed>>
    BY <1>4 DEF ProbeSelects, Challenged, ProbeAnswered, signerVars
  <2>2. WithinAuthority(request[a], parsed.accepts, chosen)
    BY <2>1, ChoiceFacts
  <2>3. parsed # None
    BY <2>1, ReplyTerms, NoneAssumption
  <2>. HIDE DEF chosen, parsed
  <2>4. request[a] # None
    BY <2>1 DEF ScopeOK, Running
  <2>5. SelectionOK'
    <3>. SUFFICES ASSUME NEW b \in Audits, selected'[b] # None
                  PROVE  /\ request[b] # None /\ terms'[b] # None
                         /\ WithinAuthority(request[b], terms'[b].accepts, selected'[b])
      BY <2>1 DEF SelectionOK, WithinAuthority
    <3>1. CASE b = a
      BY <2>1, <2>2, <2>3, <2>4, <3>1 DEF DataOK
    <3>2. CASE b # a
      BY <2>1, <3>2 DEF DataOK, MoneyTrail, SelectionOK
    <3>. QED  BY <3>1, <3>2
  <2>6. SigningOK'
    BY <2>1, NothingChosen DEF DataOK, MoneyTrail, SigningOK, SP!Signature
  <2>7. EnvelopeOK'
    BY <2>1 DEF MoneyTrail, EnvelopeOK
  <2>. QED  BY <2>5, <2>6, <2>7 DEF MoneyTrail
<1>. QED  BY <1>1, <1>2, <1>3, <1>4 DEF ProbeStep

\* Typed data, signature and envelope are made from that requirement.
LEMMA TrailAuthorize ==
  ASSUME DataOK, ScopeOK, SP!TypeOK, MoneyTrail, NEW a \in Audits,
         AuthorizeStep(a) \/ Address(a)
  PROVE  MoneyTrail'
<1>. call \in [Audits -> [stage : SP!Stages, payer : Wallets \cup {None}]]
  BY DEF SP!TypeOK
<1>1. CASE Authorize(a) \/ Address(a) \/ FetchEnds(a)
  <2>1. /\ \A b \in Audits : call'[b].stage \in {"signing", "signed"} => call'[b] = call[b]
        /\ UNCHANGED <<request, terms, selected, typed, auth, settled, signed>>
    BY <1>1 DEF Authorize, Address, FetchEnds, Signer!Call, Signer!Address, Signer!UsePinned,
                Signer!Fetch, Signer!FetchEnds, Signer!FetchAnswered, Signer!FetchFailed,
                Signer!Enter, auditVars, askVars
  <2>. QED  BY <2>1 DEF MoneyTrail, SelectionOK, WithinAuthority, SigningOK, EnvelopeOK, SP!Signature
<1>2. CASE Sign(a)
  <2>. DEFINE data == Transfer(selected[a], call[a].payer, drawn + 1)
  <2>1. /\ call[a].stage = "addressed"
        /\ call' = [call EXCEPT ![a].stage = "signing"]
        /\ typed' = [typed EXCEPT ![a] = data]
        /\ UNCHANGED <<request, terms, selected, auth, settled, signed>>
    BY <1>2 DEF Sign, Signer!Sign, Signer!Enter, auditVars, askVars
  <2>2. /\ data.from = call[a].payer
        /\ data = Transfer(selected[a], data.from, data.nonce)
    BY DEF Transfer
  <2>3. pc[a] = "authorizing" /\ auth[a] = None /\ selected[a] # None
    BY <2>1 DEF ScopeOK, Committed
  <2>. HIDE DEF data
  <2>4. SelectionOK'
    BY <2>1 DEF MoneyTrail, SelectionOK, WithinAuthority
  <2>5. SigningOK'
    BY <2>1, <2>2, <2>3 DEF MoneyTrail, SigningOK, SP!Signature, DataOK
  <2>6. EnvelopeOK'
    BY <2>1, <2>3 DEF MoneyTrail, EnvelopeOK, DataOK
  <2>. QED  BY <2>4, <2>5, <2>6 DEF MoneyTrail
<1>3. CASE SignEnds(a)
  <2>1. /\ call[a].stage \in {"addressed", "signing"}
        /\ \/ /\ call[a].stage = "signing"
              /\ call' = [call EXCEPT ![a].stage = "signed"]
              /\ SP!Signature(call[a].payer, typed[a]) \in signed'
           \/ call' = [call EXCEPT ![a].stage = "failed"]
        /\ signed \subseteq signed'
        /\ UNCHANGED <<request, terms, selected, typed, auth, settled>>
    BY <1>3 DEF SignEnds, Signer!SignAnswered, Signer!SignLost, Signer!SignFailed, Signer!Enter,
                Signer!Signature, SP!Signature, auditVars, askVars
  <2>2. SelectionOK'
    BY <2>1 DEF MoneyTrail, SelectionOK, WithinAuthority
  <2>3. SigningOK'
    BY <2>1 DEF MoneyTrail, SigningOK, SP!Signature
  <2>4. EnvelopeOK'
    BY <2>1 DEF MoneyTrail, EnvelopeOK
  <2>. QED  BY <2>2, <2>3, <2>4 DEF MoneyTrail
<1>4. CASE AuthorizationFails(a)
  BY <1>4, SameTrail DEF AuthorizationFails, askVars, moneyVars, signerVars, trail
<1>5. CASE Authorized(a)
  <2>1. /\ pc[a] = "authorizing" /\ call[a].stage = "signed"
        /\ auth' = [auth EXCEPT ![a] = Envelope(selected[a], typed[a])]
        /\ UNCHANGED <<request, terms, selected, typed, settled, call, signed>>
    BY <1>5 DEF Authorized, askVars, signerVars
  <2>2. auth[a] = None /\ typed[a] # None
    BY <2>1 DEF ScopeOK
  <2>3. /\ Envelope(selected[a], typed[a]).transfer = typed[a]
    BY DEF Envelope
  <2>4. SelectionOK'
    BY <2>1 DEF MoneyTrail, SelectionOK, WithinAuthority
  <2>5. SigningOK'
    BY <2>1 DEF MoneyTrail, SigningOK, SP!Signature
  <2>6. EnvelopeOK'
    BY <2>1, <2>2, <2>3 DEF MoneyTrail, EnvelopeOK, DataOK
  <2>. QED  BY <2>4, <2>5, <2>6 DEF MoneyTrail
<1>. QED  BY <1>1, <1>2, <1>3, <1>4, <1>5 DEF AuthorizeStep
\* Every step; a settled transfer is the one in the envelope.
LEMMA TrailPreserved ==
  ASSUME DataOK, ScopeOK, SP!TypeOK, MoneyTrail, [Next]_vars
  PROVE  MoneyTrail'
<1>1. ASSUME NEW a \in Audits, NEW r \in Requests, Accept(a, r) \/ Refuse(a, r)
      PROVE  MoneyTrail'
  BY <1>1, TrailBefore DEF Accept, Refuse, moneyVars, signerVars, DataOK
<1>2. ASSUME NEW a \in Audits, Inspect(a) \/ PayStep(a) \/ Redeliver(a) \/ FinishStep(a)
      PROVE  UNCHANGED trail
  BY <1>2 DEF Inspect, PayStep, SendPaid, PaidFails, PaidAnswers, Redeliver, FinishStep,
              EvaluatorAnswers, EvaluatorFails, Complete, SaveFails, trail, askVars, moneyVars, signerVars
<1>3. ASSUME NEW a \in Audits, Disconnect(a)
      PROVE  UNCHANGED trail
  BY <1>3 DEF Disconnect, Signer!Cancel, auditVars, askVars, trail
<1>4. ASSUME Rotate
      PROVE  UNCHANGED trail
  BY <1>4 DEF Rotate, Signer!Rotate, auditVars, askVars, trail
<1>5. ASSUME NEW a \in Audits, NEW copy \in 1 .. MaxCopies, Settle(a, copy)
      PROVE  MoneyTrail'
  <2>1. auth[a] # None
    BY <1>5, AuditAssumption DEF Settle, ScopeOK, DataOK
  <2>2. /\ settled' = settled \cup {[audit |-> a, copy |-> copy, transfer |-> auth[a].transfer]}
        /\ UNCHANGED <<request, terms, selected, typed, auth, call, signed>>
    BY <1>5 DEF Settle, askVars, signerVars
  <2>3. EnvelopeOK'
    BY <2>1, <2>2 DEF MoneyTrail, EnvelopeOK
  <2>. QED  BY <2>2, <2>3 DEF MoneyTrail, SelectionOK, WithinAuthority, SigningOK, SP!Signature
<1>6. ASSUME UNCHANGED vars
      PROVE  UNCHANGED trail
  BY <1>6 DEF vars, askVars, moneyVars, signerVars, trail
<1>. QED  BY <1>1, <1>2, <1>3, <1>4, <1>5, <1>6, SameTrail, TrailProbe, TrailAuthorize
          DEF Next, AuditStep, Terminated

-----------------------------------------------------------------------------
(* Reports name the pinned wallet *)

\* The pinned address does not change in an audit: only FetchAnswered assigns it,
\* under the mutex, which a caller holds only while none is pinned.
LEMMA AddressPinned ==
  ASSUME DataOK, ScopeOK, SP!IInv, [Next]_vars, address # None
  PROVE  address' = address
<1>1. ASSUME NEW a \in Audits, FetchEnds(a)
      PROVE  address' = address
  BY <1>1 DEF FetchEnds, Signer!FetchEnds, Signer!FetchAnswered, Signer!FetchFailed,
              SP!IInv, SP!MutexGuardsFetch
<1>2. ASSUME NEW a \in Audits, Authorize(a) \/ Address(a) \/ Sign(a) \/ SignEnds(a) \/ Disconnect(a)
      PROVE  address' = address
  BY <1>2 DEF Authorize, Address, Sign, SignEnds, Disconnect, Signer!Call, Signer!Address,
              Signer!UsePinned, Signer!Fetch, Signer!Sign, Signer!SignAnswered, Signer!SignLost,
              Signer!SignFailed, Signer!Cancel
<1>3. ASSUME Rotate
      PROVE  address' = address
  BY <1>3 DEF Rotate, Signer!Rotate
<1>4. ASSUME NEW a \in Audits, AuthorizationFails(a) \/ Authorized(a) \/ ProbeStep(a) \/ PayStep(a)
                               \/ FinishStep(a) \/ Inspect(a) \/ Redeliver(a)
      PROVE  address' = address
  BY <1>4 DEF AuthorizationFails, Authorized, ProbeStep, ProbeFails, ProbeNotChallenged,
              ProbeBadChallenge, ProbeUnpaid, ProbeUnaffordable, ProbeSelects, PayStep, SendPaid,
              PaidFails, PaidAnswers, FinishStep, EvaluatorAnswers, EvaluatorFails, Complete, SaveFails,
              Inspect, Redeliver, signerVars
<1>5. ASSUME NEW a \in Audits, NEW r \in Requests, Accept(a, r) \/ Refuse(a, r)
      PROVE  address' = address
  BY <1>5 DEF Accept, Refuse, signerVars
<1>6. ASSUME NEW a \in Audits, NEW copy \in 1 .. MaxCopies, Settle(a, copy)
      PROVE  address' = address
  BY <1>6 DEF Settle, signerVars
<1>7. CASE UNCHANGED vars
  BY <1>7 DEF vars, signerVars
<1>. QED  BY <1>1, <1>2, <1>3, <1>4, <1>5, <1>6, <1>7 DEF Next, AuditStep, AuthorizeStep, Terminated

\* Adding checks to a report that names the payer of the one before leaves it.
LEMMA RecordKeepsPayer ==
  ASSUME DataOK, NEW a \in Audits, NEW rep, NEW checks, Record(a, rep, checks),
         "payer" \in DOMAIN rep, rep.payer = report[a].payer
  PROVE  \A b \in Audits : report'[b].payer = report[b].payer
<1>1. [rep EXCEPT !.checks = @ \o checks].payer = rep.payer
  OBVIOUS
<1>. QED  BY <1>1 DEF Record, DataOK

\* Only Authorized writes the payer of a report, and it writes the pinned wallet.
LEMMA PayerWritten ==
  ASSUME DataOK, ScopeOK, SP!IInv, [Next]_vars, NEW b \in Audits
  PROVE  report'[b].payer \in {report[b].payer, address, None}
<1>0. \A a \in Audits : "payer" \in DOMAIN report[a]
  <2>1. \A rep \in ReportType : "payer" \in DOMAIN rep
    BY DEF ReportType
  <2>. QED  BY <2>1 DEF DataOK
<1>1. ASSUME NEW a \in Audits, ProbeStep(a)
      PROVE  report'[b].payer = report[b].payer
  <2>1. CASE ProbeFails(a)
    BY <1>0, <2>1, RecordKeepsPayer DEF ProbeFails, Conclude
  <2>2. ASSUME NEW reply \in Replies, ProbeNotChallenged(a, reply)
        PROVE  report'[b].payer = report[b].payer
    BY <1>0, <2>2, RecordKeepsPayer DEF ProbeNotChallenged, EvaluateOutcome
  <2>3. ASSUME NEW reply \in Replies,
               ProbeBadChallenge(a, reply) \/ ProbeUnpaid(a, reply) \/ ProbeUnaffordable(a, reply)
        PROVE  report'[b].payer = report[b].payer
    BY <1>0, <2>3, RecordKeepsPayer DEF ProbeBadChallenge, ProbeUnpaid, ProbeUnaffordable, Conclude
  <2>4. ASSUME NEW reply \in Replies, ProbeSelects(a, reply)
        PROVE  report'[b].payer = report[b].payer
    <3>. DEFINE rep == [report[a] EXCEPT !.probeStatus = 402, !.selected = Choice(a, reply)]
    <3>1. "payer" \in DOMAIN rep /\ rep.payer = report[a].payer
      BY <1>0
    <3>. QED  BY <2>4, <3>1, RecordKeepsPayer DEF ProbeSelects
  <2>. QED  BY <1>1, <2>1, <2>2, <2>3, <2>4 DEF ProbeStep
<1>2. ASSUME NEW a \in Audits, Authorized(a)
      PROVE  report'[b].payer \in {report[b].payer, address, None}
  <2>1. call[a].payer \in {None, address}
    BY DEF SP!IInv, SP!OneWalletPerLifetime
  <2>2. [report[a] EXCEPT !.attempted = TRUE, !.payer = call[a].payer, !.header = header[a]].payer
          = call[a].payer
    BY <1>0
  <2>. QED  BY <1>2, <2>1, <2>2 DEF Authorized, DataOK
<1>3. ASSUME NEW a \in Audits, AuthorizationFails(a) \/ PaidFails(a) \/ EvaluatorFails(a)
      PROVE  report'[b].payer = report[b].payer
  BY <1>0, <1>3, RecordKeepsPayer DEF AuthorizationFails, PaidFails, EvaluatorFails, Conclude
<1>4. ASSUME NEW a \in Audits, NEW status, PaidAnswers(a, status)
      PROVE  report'[b].payer = report[b].payer
  <2>. DEFINE rep == [report[a] EXCEPT !.tier = "verified", !.paidStatus = status]
  <2>1. "payer" \in DOMAIN rep /\ rep.payer = report[a].payer
    BY <1>0
  <2>. QED  BY <1>4, <2>1, RecordKeepsPayer DEF PaidAnswers, EvaluateOutcome
<1>5. ASSUME NEW a \in Audits, NEW judgement, EvaluatorAnswers(a, judgement)
      PROVE  report'[b].payer = report[b].payer
  BY <1>0, <1>5, RecordKeepsPayer DEF EvaluatorAnswers, Conclude
<1>6. ASSUME NEW a \in Audits, Complete(a) \/ SaveFails(a)
      PROVE  report'[b].payer = report[b].payer
  <2>. DEFINE rep == [report[a] EXCEPT !.checks = @ \o FinalChecks(a)]
  <2>1. "payer" \in DOMAIN rep /\ rep.payer = report[a].payer
    BY <1>0
  <2>. HIDE DEF rep
  <2>2. FinalizeReport(rep).payer = rep.payer
    BY <2>1 DEF FinalizeReport
  <2>. QED  BY <1>6, <2>1, <2>2 DEF Complete, SaveFails, FinalReport, rep, DataOK
<1>7. ASSUME NEW a \in Audits, Authorize(a) \/ Address(a) \/ FetchEnds(a) \/ Sign(a) \/ SignEnds(a)
                               \/ Disconnect(a) \/ Inspect(a) \/ SendPaid(a) \/ Redeliver(a)
      PROVE  UNCHANGED report
  BY <1>7 DEF Authorize, Address, FetchEnds, Sign, SignEnds, Disconnect, Inspect, SendPaid, Redeliver,
              auditVars
<1>8. ASSUME NEW a \in Audits, NEW r \in Requests, Accept(a, r) \/ Refuse(a, r)
      PROVE  UNCHANGED report
  BY <1>8 DEF Accept, Refuse
<1>9. ASSUME NEW a \in Audits, NEW copy \in 1 .. MaxCopies, Settle(a, copy)
      PROVE  UNCHANGED report
  BY <1>9 DEF Settle
<1>10. CASE Rotate \/ UNCHANGED vars
  BY <1>10 DEF Rotate, auditVars, vars
<1>. QED  BY <1>1, <1>2, <1>3, <1>4, <1>5, <1>6, <1>7, <1>8, <1>9, <1>10
          DEF Next, AuditStep, AuthorizeStep, PayStep, FinishStep, Terminated

\* So a payer once reported stays the pinned wallet.
LEMMA PayersPreserved ==
  ASSUME DataOK, ScopeOK, SP!IInv, PayersPinned, [Next]_vars
  PROVE  PayersPinned'
BY PayerWritten, AddressPinned DEF PayersPinned

-----------------------------------------------------------------------------
(* The theorems *)

\* The invariant is inductive.
LEMMA NextPreserves == IInv /\ [Next]_vars => IInv'
<1>. SUFFICES ASSUME IInv, [Next]_vars PROVE IInv'
  OBVIOUS
<1>1. DataOK /\ ScopeOK /\ SP!IInv /\ SP!TypeOK /\ MoneyTrail /\ PayersPinned
  BY DEF IInv, SP!IInv
<1>. QED  BY <1>1, DataPreserved, ScopePreserved, SignerPreserved, TrailPreserved, PayersPreserved
          DEF IInv

\* TypeOK for any number of audits and for every policy, request and reply.
THEOREM AuditTypeCorrect == Spec => []TypeOK
<1>1. IInv => TypeOK
  BY DEF IInv, TypeOK, SP!IInv, SP!TypeOK, Signer!TypeOK, SP!Stages, Signer!Stages
<1>. QED  BY <1>1, InitEstablishes, NextPreserves, PTL DEF Spec

\* Money that moves was asked for, within both caps, to a payee the target quoted
\* and with a signature of the payer: each link of the trail carries the request's
\* limits to the next.
LEMMA TrailIsAuthority == IInv => SettledWithinAuthority
<1>. SUFFICES ASSUME IInv, NEW s \in settled
              PROVE  LET a == s.audit  r == request[s.audit]  t == s.transfer IN
                     /\ r.pay
                     /\ t.value \in 1 .. r.cap
                     /\ t.value <= OperatorCap
                     /\ t.network \in AllowedNetworks
                     /\ t.asset = AllowedAssets[t.network]
                     /\ r.network # None => t.network = NormalizeNetwork(r.network)
                     /\ r.asset # None => t.asset = r.asset
                     /\ \E i \in DOMAIN terms[a].accepts :
                          LET quoted == terms[a].accepts[i] IN
                          /\ <<t.to, t.value, t.asset>> = <<quoted.payTo, quoted.amount, quoted.asset>>
                          /\ t.network = NormalizeNetwork(quoted.network)
                     /\ Signer!Signature(t.from, t) \in signed
  BY DEF SettledWithinAuthority
<1>. DEFINE a == s.audit
            chosen == selected[s.audit]
            r == request[s.audit]
            t == s.transfer
<1>1. a \in Audits /\ t = typed[a] /\ typed[a] # None /\ auth[a] # None
  BY DEF IInv, DataOK, MoneyTrail, EnvelopeOK
<1>2. selected[a] # None /\ t = Transfer(chosen, t.from, t.nonce)
  BY <1>1 DEF IInv, MoneyTrail, SigningOK
<1>3. WithinAuthority(r, terms[a].accepts, chosen) /\ r # None
  BY <1>1, <1>2 DEF IInv, MoneyTrail, SelectionOK
<1>4. chosen \in Requirements /\ r \in Requests
  BY <1>1, <1>2, <1>3 DEF IInv, DataOK
<1>5. Signer!Signature(t.from, t) \in signed
  <2>1. call[a].stage = "signed"
    BY <1>1 DEF IInv, ScopeOK
  <2>. QED  BY <1>1, <2>1 DEF IInv, MoneyTrail, SigningOK, Signer!Signature, SP!Signature
<1>6. NormalizeNetwork(chosen.network) = chosen.network
  BY <1>3, NormalizeFacts, PolicyAssumption DEF WithinAuthority
<1>7. /\ t.to = chosen.payTo /\ t.value = chosen.amount /\ t.asset = chosen.asset
      /\ t.network = chosen.network
  BY <1>2, <1>6 DEF Transfer
<1>8. PICK i \in DOMAIN terms[a].accepts :
        chosen = [terms[a].accepts[i] EXCEPT !.network = NormalizeNetwork(@)]
  BY <1>3 DEF WithinAuthority
<1>9. LET quoted == terms[a].accepts[i] IN
      /\ <<t.to, t.value, t.asset>> = <<quoted.payTo, quoted.amount, quoted.asset>>
      /\ t.network = NormalizeNetwork(quoted.network)
  <2>1. terms[a] \in Terms
    BY <1>1, <1>2 DEF IInv, MoneyTrail, SelectionOK, DataOK
  <2>2. terms[a].accepts[i] \in Requirements
    BY <2>1 DEF Terms
  <2>. QED  BY <1>7, <1>8, <2>2 DEF Requirements
<1>10. t.value \in 1 .. r.cap /\ t.value <= OperatorCap
  BY <1>3, <1>4, <1>7, PolicyAssumption, AuditAssumption DEF WithinAuthority, Authorizable, RequestType
<1>11. t.asset = AllowedAssets[t.network]
  BY <1>3, <1>6, <1>7 DEF WithinAuthority, Authorizable
<1>. HIDE DEF a, chosen, r, t
<1>. QED  BY <1>3, <1>5, <1>7, <1>9, <1>10, <1>11 DEF WithinAuthority, a, r, t

\* Every transfer the chain executes for an audit is one its caller, the operator
\* and the target agreed to (auditor.go:119-156, payment.go:152-439).
THEOREM MoneyWithinAuthority == Spec => []SettledWithinAuthority
BY TrailIsAuthority, InitEstablishes, NextPreserves, PTL DEF Spec

\* Every report of one process lifetime that names a payer names the pinned wallet.
THEOREM OnePayer == Spec => []ReportsNameOneWallet
<1>1. IInv => ReportsNameOneWallet
  BY DEF IInv, PayersPinned, ReportsNameOneWallet
<1>. QED  BY <1>1, InitEstablishes, NextPreserves, PTL DEF Spec

-----------------------------------------------------------------------------
(* One payment per audit *)

\* No two signing calls carry the same nonce.
NoncesOK ==
  /\ \A a \in Audits : typed[a] # None => typed[a].nonce \in 1 .. drawn
  /\ \A a, b \in Audits : a # b /\ typed[a] # None /\ typed[b] # None
                             => typed[a].nonce # typed[b].nonce

\* A paid request is sent when its audit leaves "paying", and what is settled is a
\* copy of it.
DeliveriesOK ==
  /\ \A a \in Audits : /\ pc[a] = "paying" => copies[a] = 0
                       /\ pc[a] = "awaiting" => copies[a] > 0
  /\ \A s \in settled : s.copy \in 1 .. copies[s.audit]

SpendingInv == IInv /\ NoncesOK /\ DeliveriesOK

\* Nothing is drawn, sent or settled at first.
LEMMA InitSpending == Init => SpendingInv
<1>1. Init => NoncesOK /\ DeliveriesOK
  BY DEF Init, NoncesOK, DeliveriesOK
<1>. QED  BY <1>1, InitEstablishes DEF SpendingInv

\* Only Sign draws a nonce, one that has not been drawn before.
LEMMA NoncesPreserved ==
  ASSUME DataOK, NoncesOK, [Next]_vars
  PROVE  NoncesOK'
<1>1. ASSUME NEW a \in Audits, Sign(a)
      PROVE  NoncesOK'
  <2>. DEFINE data == Transfer(selected[a], call[a].payer, drawn + 1)
  <2>1. /\ drawn' = drawn + 1 /\ drawn \in Nat
        /\ typed' = [typed EXCEPT ![a] = data]
        /\ typed = [b \in Audits |-> typed[b]]
    BY <1>1 DEF Sign, DataOK
  <2>2. data.nonce = drawn + 1
    BY DEF Transfer
  <2>. HIDE DEF data
  <2>3. \A b \in Audits : typed[b] # None => typed[b].nonce \in 1 .. drawn
    BY DEF NoncesOK
  <2>4. \A b \in Audits : typed'[b] # None => typed'[b].nonce \in 1 .. drawn'
    BY <2>1, <2>2, <2>3
  <2>5. ASSUME NEW b \in Audits, NEW c \in Audits, b # c, typed'[b] # None, typed'[c] # None
        PROVE  typed'[b].nonce # typed'[c].nonce
    BY <2>1, <2>2, <2>3, <2>5 DEF NoncesOK
  <2>. QED  BY <2>4, <2>5 DEF NoncesOK
<1>2. ASSUME NEW a \in Audits, \/ ProbeStep(a) \/ PayStep(a) \/ FinishStep(a) \/ Inspect(a)
                               \/ Redeliver(a) \/ Authorize(a) \/ Address(a) \/ FetchEnds(a)
                               \/ SignEnds(a) \/ AuthorizationFails(a) \/ Authorized(a) \/ Disconnect(a)
      PROVE  UNCHANGED <<typed, drawn>>
  BY <1>2 DEF ProbeStep, ProbeFails, ProbeNotChallenged, ProbeBadChallenge, ProbeUnpaid,
              ProbeUnaffordable, ProbeSelects, PayStep, SendPaid, PaidFails, PaidAnswers, FinishStep,
              EvaluatorAnswers, EvaluatorFails, Complete, SaveFails, Inspect, Redeliver, Authorize,
              Address, FetchEnds, SignEnds, AuthorizationFails, Authorized, Disconnect, moneyVars
<1>3. ASSUME NEW a \in Audits, NEW r \in Requests, Accept(a, r) \/ Refuse(a, r)
      PROVE  UNCHANGED <<typed, drawn>>
  BY <1>3 DEF Accept, Refuse, moneyVars
<1>4. ASSUME NEW a \in Audits, NEW copy \in 1 .. MaxCopies, Settle(a, copy)
      PROVE  UNCHANGED <<typed, drawn>>
  BY <1>4 DEF Settle
<1>5. ASSUME Rotate \/ UNCHANGED vars
      PROVE  UNCHANGED <<typed, drawn>>
  BY <1>5 DEF Rotate, vars, moneyVars
<1>6. CASE UNCHANGED <<typed, drawn>>
  BY <1>6 DEF NoncesOK
<1>. QED  BY <1>1, <1>2, <1>3, <1>4, <1>5, <1>6 DEF Next, AuditStep, AuthorizeStep, Terminated

\* What an audit has sent and the chain has executed, step by step: the request is
\* first sent by SendPaid, again by Redeliver, and settled by Settle.
LEMMA SpendingSteps ==
  ASSUME IInv, [Next]_vars
  PROVE  \/ \E a \in Audits : SendPaid(a) \/ Redeliver(a) \/ Authorized(a)
         \/ \E a \in Audits, copy \in 1 .. MaxCopies : Settle(a, copy)
         \/ /\ UNCHANGED <<auth, copies, settled>>
            /\ \A a \in Audits : pc'[a] \in {"paying", "awaiting"} => pc'[a] = pc[a]
<1>. DEFINE Quiet == /\ UNCHANGED <<auth, copies, settled>>
                     /\ \A a \in Audits : pc'[a] \in {"paying", "awaiting"} => pc'[a] = pc[a]
<1>0. pc = [a \in Audits |-> pc[a]]
  BY DEF IInv, DataOK
<1>1. ASSUME NEW a \in Audits, NEW r \in Requests, Accept(a, r) \/ Refuse(a, r)
      PROVE  Quiet
  BY <1>0, <1>1 DEF Accept, Refuse, Goto, moneyVars
<1>2. ASSUME NEW a \in Audits, ProbeStep(a) \/ Inspect(a)
      PROVE  Quiet
  <2>1. UNCHANGED <<auth, copies, settled>>
    BY <1>2 DEF ProbeStep, ProbeFails, ProbeNotChallenged, ProbeBadChallenge, ProbeUnpaid,
                ProbeUnaffordable, ProbeSelects, Inspect, moneyVars
  <2>2. \E stage \in {"probing", "completing", "evaluating", "authorizing"} : Goto(a, stage)
    BY <1>2 DEF ProbeStep, ProbeFails, ProbeNotChallenged, ProbeBadChallenge, ProbeUnpaid,
                ProbeUnaffordable, ProbeSelects, Inspect, Conclude, EvaluateOutcome
  <2>. QED  BY <1>0, <2>1, <2>2 DEF Goto
<1>3. ASSUME NEW a \in Audits, \/ Authorize(a) \/ Address(a) \/ FetchEnds(a) \/ Sign(a) \/ SignEnds(a)
                               \/ Disconnect(a)
      PROVE  Quiet
  BY <1>3 DEF Authorize, Address, FetchEnds, Sign, SignEnds, Disconnect, auditVars
<1>4. ASSUME NEW a \in Audits, NEW status, AuthorizationFails(a) \/ PaidFails(a) \/ PaidAnswers(a, status)
      PROVE  Quiet
  <2>1. UNCHANGED <<auth, copies, settled>>
    BY <1>4 DEF AuthorizationFails, PaidFails, PaidAnswers, moneyVars
  <2>2. \E stage \in {"completing", "evaluating"} : Goto(a, stage)
    BY <1>4 DEF AuthorizationFails, PaidFails, PaidAnswers, Conclude, EvaluateOutcome
  <2>. QED  BY <1>0, <2>1, <2>2 DEF Goto
<1>5. ASSUME NEW a \in Audits, FinishStep(a)
      PROVE  Quiet
  <2>1. UNCHANGED <<auth, copies, settled>>
    BY <1>5 DEF FinishStep, EvaluatorAnswers, EvaluatorFails, Complete, SaveFails, moneyVars
  <2>2. \E stage \in {"completing", "done", "failed"} : Goto(a, stage)
    BY <1>5 DEF FinishStep, EvaluatorAnswers, EvaluatorFails, Complete, SaveFails, Conclude
  <2>. QED  BY <1>0, <2>1, <2>2 DEF Goto
<1>6. CASE Rotate \/ UNCHANGED vars
  BY <1>6 DEF Rotate, auditVars, vars, moneyVars
<1>. QED  BY <1>1, <1>2, <1>3, <1>4, <1>5, <1>6
          DEF Next, AuditStep, AuthorizeStep, PayStep, Terminated

\* What nobody has sent is not settled, and a settled copy was sent.
LEMMA DeliveriesPreserved ==
  ASSUME IInv, DeliveriesOK, [Next]_vars
  PROVE  DeliveriesOK'
<1>0. /\ pc = [a \in Audits |-> pc[a]] /\ copies \in [Audits -> 0 .. MaxCopies]
      /\ \A s \in settled : s.audit \in Audits
  BY DEF IInv, DataOK
<1>1. MaxCopies \in Nat
  BY AuditAssumption
<1>2. ASSUME NEW a \in Audits, SendPaid(a)
      PROVE  DeliveriesOK'
  <2>1. copies[a] = 0
    BY <1>0, <1>1, <1>2 DEF SendPaid, DeliveriesOK
  <2>2. \A s \in settled : s.audit # a
    BY <2>1 DEF DeliveriesOK
  <2>3. /\ copies' = [copies EXCEPT ![a] = 1] /\ pc' = [pc EXCEPT ![a] = "awaiting"]
        /\ settled' = settled
    BY <1>2 DEF SendPaid, Goto
  <2>. QED  BY <1>0, <2>2, <2>3 DEF DeliveriesOK
<1>3. ASSUME NEW a \in Audits, Redeliver(a)
      PROVE  DeliveriesOK'
  BY <1>0, <1>1, <1>3 DEF Redeliver, DeliveriesOK
<1>4. ASSUME NEW a \in Audits, Authorized(a)
      PROVE  DeliveriesOK'
  <2>1. copies[a] = 0
    BY <1>0, <1>1, <1>4 DEF Authorized, IInv, ScopeOK
  <2>. QED  BY <1>0, <1>4, <2>1 DEF Authorized, Goto, DeliveriesOK
<1>5. ASSUME NEW a \in Audits, NEW copy \in 1 .. MaxCopies, Settle(a, copy)
      PROVE  DeliveriesOK'
  BY <1>0, <1>5 DEF Settle, DeliveriesOK
<1>6. CASE /\ UNCHANGED <<auth, copies, settled>>
           /\ \A a \in Audits : pc'[a] \in {"paying", "awaiting"} => pc'[a] = pc[a]
  BY <1>6 DEF DeliveriesOK
<1>. QED  BY <1>2, <1>3, <1>4, <1>5, <1>6, SpendingSteps

\* The invariant is inductive.
LEMMA NextSpends == SpendingInv /\ [Next]_vars => SpendingInv'
BY NextPreserves, NoncesPreserved, DeliveriesPreserved DEF SpendingInv, IInv

\* The envelope of an audit holds a transfer the operator's policy allows.
LEMMA EnvelopePayable ==
  ASSUME IInv, NEW a \in Audits, auth[a] # None
  PROVE  auth[a].transfer \in Payable /\ auth[a].transfer # None
<1>1. auth[a].transfer = typed[a] /\ typed[a] # None
  BY DEF IInv, MoneyTrail, EnvelopeOK
<1>2. selected[a] # None /\ typed[a] = Transfer(selected[a], typed[a].from, typed[a].nonce)
  BY <1>1 DEF IInv, MoneyTrail, SigningOK
<1>3. Authorizable(selected[a])
  BY <1>2 DEF IInv, MoneyTrail, SelectionOK, WithinAuthority
<1>4. typed[a] \in Transfers
  BY <1>1 DEF IInv, DataOK
<1>. DEFINE network == NormalizeNetwork(selected[a].network)
<1>5. /\ typed[a].value = selected[a].amount
      /\ typed[a].network = network
      /\ typed[a].asset = selected[a].asset
  BY <1>2 DEF Transfer
<1>. QED  BY <1>1, <1>3, <1>4, <1>5 DEF Authorizable, Payable

-----------------------------------------------------------------------------
(* Auditor implements Spending *)

\* The abstract state of the refinement.
Mandates == [a \in Audits |-> IF copies[a] = 0 THEN None ELSE auth[a].transfer]

Payments == [a \in Audits |->
              IF \E s \in settled : s.audit = a
              THEN (CHOOSE s \in settled : s.audit = a).transfer ELSE None]

\* An audit for which something is settled has sent its paid request.
LEMMA SettledWasSent ==
  ASSUME SpendingInv, NEW s \in settled
  PROVE  s.audit \in Audits /\ copies[s.audit] # 0 /\ auth[s.audit] # None
         /\ s.transfer = auth[s.audit].transfer
<1>1. s.audit \in Audits /\ copies[s.audit] \in 0 .. MaxCopies /\ MaxCopies \in Nat
  BY AuditAssumption DEF SpendingInv, IInv, DataOK
<1>. QED  BY <1>1 DEF SpendingInv, DeliveriesOK, IInv, MoneyTrail, EnvelopeOK

\* The transfer of any settlement of an audit, if all have the same one.
LEMMA AnySettlement ==
  ASSUME NEW all, NEW a, NEW transfer, \A s \in all : s.audit = a => s.transfer = transfer
  PROVE  (IF \E s \in all : s.audit = a THEN (CHOOSE s \in all : s.audit = a).transfer ELSE None)
           = IF \E s \in all : s.audit = a THEN transfer ELSE None
<1>1. CASE \E s \in all : s.audit = a
  <2>. DEFINE t == CHOOSE s \in all : s.audit = a
  <2>1. t \in all /\ t.audit = a
    BY <1>1
  <2>. QED  BY <1>1, <2>1
<1>2. CASE ~ \E s \in all : s.audit = a
  BY <1>2
<1>. QED  BY <1>1, <1>2

\* SendPaid is the commitment, Settle the execution, everything else a stutter.
LEMMA SpendingStep ==
  ASSUME SpendingInv, SpendingInv', [Next]_vars
  PROVE  [Ledger!Next]_Ledger!vars
<1>0. /\ copies \in [Audits -> 0 .. MaxCopies] /\ MaxCopies \in Nat /\ None \notin Transfers
      /\ auth = [a \in Audits |-> auth[a]]
  BY AuditAssumption, NoneAssumption DEF SpendingInv, IInv, DataOK
<1>. DEFINE Settled(a) == \E s \in settled : s.audit = a
<1>1. Payments = [a \in Audits |-> IF Settled(a) THEN Mandates[a] ELSE None]
  <2>1. \A a \in Audits : \A s \in settled : s.audit = a => s.transfer = Mandates[a]
    BY SettledWasSent DEF Mandates
  <2>. QED  BY <2>1, AnySettlement DEF Payments
<1>2. Payments' = [a \in Audits |-> IF Settled(a)' THEN Mandates'[a] ELSE None]
  <2>1. \A s \in settled' : /\ s.audit \in Audits /\ s.copy \in 1 .. copies'[s.audit]
                             /\ s.transfer = auth'[s.audit].transfer
    BY DEF SpendingInv, IInv, DataOK, MoneyTrail, EnvelopeOK, DeliveriesOK
  <2>2. \A a \in Audits : \A s \in settled' : s.audit = a => s.transfer = Mandates'[a]
    BY <2>1 DEF Mandates
  <2>. QED  BY <2>2, AnySettlement DEF Payments
<1>3. ASSUME UNCHANGED <<Mandates, Payments>>
      PROVE  UNCHANGED Ledger!vars
  BY <1>3 DEF Mandates, Payments, Ledger!vars
<1>4. ASSUME NEW a \in Audits, SendPaid(a)
      PROVE  Ledger!Next
  <2>1. /\ pc[a] = "paying" /\ copies' = [copies EXCEPT ![a] = 1]
        /\ UNCHANGED <<auth, settled>>
    BY <1>4 DEF SendPaid
  <2>2. copies[a] = 0
    BY <1>0, <2>1 DEF SpendingInv, DeliveriesOK
  <2>3. auth[a].transfer \in Payable
    BY <2>1, EnvelopePayable DEF SpendingInv, IInv, ScopeOK
  <2>4. Mandates[a] = None /\ Mandates' = [Mandates EXCEPT ![a] = auth[a].transfer]
    <3>1. copies'[a] # 0 /\ \A b \in Audits \ {a} : copies'[b] = copies[b]
      BY <1>0, <2>1
    <3>. QED  BY <2>1, <2>2, <3>1 DEF Mandates
  <2>5. ~Settled(a)
    BY <2>2, SettledWasSent
  <2>6. Payments' = Payments
    BY <1>1, <1>2, <2>1, <2>4, <2>5
  <2>7. Mandates'[a] \in Payable /\ Mandates' = [Mandates EXCEPT ![a] = Mandates'[a]]
    BY <2>3, <2>4 DEF Mandates
  <2>8. Ledger!Commit(a)
    BY <2>4, <2>6, <2>7 DEF Ledger!Commit, Mandates, Payments
  <2>. QED  BY <2>8 DEF Ledger!Next
<1>5. ASSUME NEW a \in Audits, NEW copy \in 1 .. MaxCopies, Settle(a, copy)
      PROVE  Ledger!Next
  <2>1. /\ copy \in 1 .. copies[a]
        /\ \A s \in settled : <<s.transfer.from, s.transfer.nonce>>
                               # <<auth[a].transfer.from, auth[a].transfer.nonce>>
        /\ settled' = settled \cup {[audit |-> a, copy |-> copy, transfer |-> auth[a].transfer]}
        /\ UNCHANGED <<auth, copies>>
    BY <1>5 DEF Settle
  <2>2. copies[a] # 0 /\ auth[a] # None
    BY <1>0, <2>1 DEF SpendingInv, IInv, ScopeOK
  <2>3. ~Settled(a)
    BY <2>1, SettledWasSent
  <2>4. Settled(a)' /\ \A b \in Audits \ {a} : Settled(b)' <=> Settled(b)
    <3>. DEFINE new == [audit |-> a, copy |-> copy, transfer |-> auth[a].transfer]
    <3>1. new.audit = a /\ settled' = settled \cup {new}
      BY <2>1
    <3>. HIDE DEF new
    <3>. QED  BY <3>1
  <2>5. Mandates' = Mandates /\ Mandates[a] = auth[a].transfer
    BY <2>1, <2>2 DEF Mandates
  <2>6. Mandates[a] # None
    BY <2>2, <2>5, EnvelopePayable DEF SpendingInv
  <2>7. Payments[a] = None /\ Payments' = [Payments EXCEPT ![a] = Mandates[a]]
    BY <1>1, <1>2, <2>3, <2>4, <2>5
  <2>8. Ledger!Execute(a)
    BY <2>5, <2>6, <2>7 DEF Ledger!Execute, Mandates, Payments
  <2>. QED  BY <2>8 DEF Ledger!Next
<1>6. ASSUME NEW a \in Audits, Redeliver(a)
      PROVE  UNCHANGED <<Mandates, Payments>>
  <2>1. /\ pc[a] = "awaiting" /\ copies' = [copies EXCEPT ![a] = @ + 1]
        /\ UNCHANGED <<auth, settled>>
    BY <1>6 DEF Redeliver
  <2>2. copies[a] # 0 /\ copies'[a] # 0 /\ \A b \in Audits \ {a} : copies'[b] = copies[b]
    BY <1>0, <2>1 DEF SpendingInv, DeliveriesOK
  <2>3. Mandates' = Mandates
    BY <2>1, <2>2 DEF Mandates
  <2>. QED  BY <1>1, <1>2, <2>1, <2>3
<1>7. ASSUME NEW a \in Audits, Authorized(a)
      PROVE  UNCHANGED <<Mandates, Payments>>
  <2>1. /\ pc[a] = "authorizing" /\ UNCHANGED <<copies, settled>>
        /\ \A b \in Audits \ {a} : auth'[b] = auth[b]
    BY <1>0, <1>7 DEF Authorized
  <2>2. copies[a] = 0
    BY <1>0, <2>1 DEF SpendingInv, IInv, ScopeOK
  <2>3. Mandates' = Mandates
    BY <2>1, <2>2 DEF Mandates
  <2>. QED  BY <1>1, <1>2, <2>1, <2>3
<1>8. ASSUME UNCHANGED <<auth, copies, settled>>
      PROVE  UNCHANGED <<Mandates, Payments>>
  BY <1>8 DEF Mandates, Payments
<1>. QED  BY <1>3, <1>4, <1>5, <1>6, <1>7, <1>8, SpendingSteps DEF SpendingInv

\* Each audit is paid for once at most, with the transfer it committed itself to when
\* its paid request was sent, however often that is delivered (auditor.go:144-164).
THEOREM PaysAtMostOnce == Spec => SpendsOnce
<1>1. Init => Ledger!Init
  BY DEF Init, Ledger!Init
<1>2. Spec => []SpendingInv
  BY InitSpending, NextSpends, PTL DEF Spec
<1>. QED  BY <1>1, <1>2, SpendingStep, PTL DEF Spec, SpendsOnce, Ledger!Spec

\* No payment of one audit uses up the nonce of another (payment.go:378-410).
THEOREM NoncesNeverMeet == Spec => []PaymentsIndependent
<1>1. SpendingInv => PaymentsIndependent
  <2>. SUFFICES ASSUME SpendingInv, NEW s \in settled, NEW b \in Audits, b # s.audit, auth[b] # None
                PROVE  s.transfer.nonce # auth[b].transfer.nonce
    BY DEF PaymentsIndependent
  <2>1. s.audit \in Audits /\ auth[s.audit] # None /\ s.transfer = auth[s.audit].transfer
    BY SettledWasSent
  <2>2. \A a \in Audits : auth[a] # None => auth[a].transfer = typed[a] /\ typed[a] # None
    BY DEF SpendingInv, IInv, MoneyTrail, EnvelopeOK
  <2>. QED  BY <2>1, <2>2 DEF SpendingInv, NoncesOK
<1>2. Spec => []SpendingInv
  BY InitSpending, NextSpends, PTL DEF Spec
<1>. QED  BY <1>1, <1>2, PTL

=============================================================================
