-------------------------- MODULE AuditorProperties --------------------------
(* What Auditor promises about money, evidence and verdicts.               *)
EXTENDS Auditor

-----------------------------------------------------------------------------
(* The type invariant *)

CheckType == [name : CheckNames, status : CheckStatuses, weight : Nat, points : Nat]

ReportType ==
  [tier : {"probe", "verified"}, checks : Seq(CheckType), probeStatus : Nat,
   selected : Requirements \cup {None}, attempted : BOOLEAN, payer : Wallets \cup {None},
   header : {"PAYMENT-SIGNATURE", "X-PAYMENT", None}, paidStatus : Nat,
   semantic : Judgements \cup {None}, score : Int, coverage : Int,
   verdict : {"none", "FAIL", "PROBE_PASS_WITH_WARNINGS", "PROBE_PASS",
              "PASS_WITH_WARNINGS", "PASS"}]

\* The stages in which an audit has chosen a requirement and has not given up on it.
Committed == {"authorizing", "paying", "awaiting"}

DataOK ==
  /\ pc \in [Audits -> {"idle"} \cup Running \cup Final]
  /\ request \in [Audits -> Requests \cup {None}]
  /\ inspection \in [Audits -> Inspections \cup {None}]
  /\ terms \in [Audits -> Terms \cup {None}]
  /\ header \in [Audits -> {"PAYMENT-SIGNATURE", "X-PAYMENT", None}]
  /\ selected \in [Audits -> Requirements \cup {None}]
  /\ typed \in [Audits -> Transfers \cup {None}]
  /\ auth \in [Audits -> Envelopes \cup {None}]
  /\ report \in [Audits -> ReportType]
  /\ stored \in [Audits -> ReportType \cup {None}]
  /\ drawn \in Nat
  /\ copies \in [Audits -> 0 .. MaxCopies]
  /\ settled \subseteq [audit : Audits, copy : 1 .. MaxCopies, transfer : Transfers]

\* Which parts of an audit exist at which stage: the Go variables of Audit
\* (auditor.go:42-188) are in scope only where the stage says so, and a caller
\* is inside the signer only while its audit is authorizing.
ScopeOK ==
  \A a \in Audits :
    /\ pc[a] \in Running => request[a] # None
    /\ selected[a] # None => pc[a] \notin {"idle", "inspecting", "probing", "rejected"}
    /\ pc[a] \in Committed => selected[a] # None /\ Authorizable(selected[a])
    /\ pc[a] \in {"paying", "awaiting"} => auth[a] # None
    /\ auth[a] # None => /\ selected[a] # None /\ pc[a] # "authorizing"
                         /\ call[a].stage = "signed"
    /\ copies[a] > 0 => auth[a] # None
    /\ call[a].stage \in {"signing", "signed"} => typed[a] # None
    /\ pc[a] # "authorizing" => call[a].stage \in {"idle", "signed", "failed"}

TypeOK == DataOK /\ ScopeOK /\ Signer!TypeOK

-----------------------------------------------------------------------------
(* Money *)

\* Every transfer the chain executes was asked for by its caller, lies within
\* both caps, goes to an allowed network, asset and payee the target itself
\* quoted to this audit, and is signed by the wallet the report names: across
\* ParsePaymentChallenge, SelectPayment, Authorize and the paid send
\* (payment.go:54-439, auditor.go:119-156).
SettledWithinAuthority ==
  \A s \in settled :
    LET a == s.audit  r == request[s.audit]  t == s.transfer IN
    /\ r.pay
    /\ t.value \in 1 .. r.cap
    /\ t.value <= OperatorCap
    /\ t.network \in AllowedNetworks
    /\ t.asset = AllowedAssets[t.network]
    /\ r.network # None => t.network = NormalizeNetwork(r.network)
    /\ r.asset # None => t.asset = r.asset
    /\ \E i \in DOMAIN terms[a].accepts :
         LET quoted == terms[a].accepts[i] IN
         /\ <<t.to, t.value, t.asset>> = <<quoted.payTo, quoted.amount, quoted.asset>>
         /\ t.network = NormalizeNetwork(quoted.network)
    /\ Signer!Signature(t.from, t) \in signed

\* The audits implement Spending: each commits itself, when its paid request is
\* first delivered, to the one transfer in its payment header, a transfer the
\* operator's policy allows; the chain executes that one or none, however often
\* the request is delivered and its copies are submitted (auditor.go:144-164,
\* payment.go:348-412).
Payable == {t \in Transfers : /\ t.value \in 1 .. OperatorCap
                              /\ t.network \in AllowedNetworks
                              /\ t.asset = AllowedAssets[t.network]}

Ledger == INSTANCE Spending WITH
  mandate <- [a \in Audits |-> IF copies[a] = 0 THEN None ELSE auth[a].transfer],
  paid    <- [a \in Audits |->
               IF \E s \in settled : s.audit = a
               THEN (CHOOSE s \in settled : s.audit = a).transfer ELSE None]

SpendsOnce == Ledger!Spec

\* A payment is never hidden: a stored report of an audit whose money has moved
\* says so, with the payer, price and payee of the transfer, also when the paid
\* request failed on this side (auditor.go:137-164).
NoHiddenPayment ==
  \A s \in settled :
    LET rep == stored[s.audit] IN
    /\ pc[s.audit] \notin {"idle", "rejected", "inspecting", "probing", "authorizing", "paying"}
    /\ rep # None => /\ rep.attempted
                     /\ rep.payer = s.transfer.from
                     /\ rep.selected.amount = s.transfer.value
                     /\ rep.selected.payTo = s.transfer.to

\* The payment of one audit never makes the chain refuse the authorization that
\* another one holds: they spend different nonces of their wallet, although they
\* are drawn side by side (payment.go:378-410).
PaymentsIndependent ==
  \A s \in settled, b \in Audits :
    b # s.audit /\ auth[b] # None
      => <<s.transfer.from, s.transfer.nonce>> # <<auth[b].transfer.from, auth[b].transfer.nonce>>

\* The reports of one process lifetime name one payer, although the wallet may
\* be rotated between and during their audits (payment.go:245-275, auditor.go:154).
ReportsNameOneWallet ==
  \A a, b \in Audits :
    report[a].payer # None /\ report[b].payer # None => report[a].payer = report[b].payer

-----------------------------------------------------------------------------
(* Evidence and verdicts *)

\* A probe verdict means that nothing was signed for this audit, let alone sent;
\* a pass means that a paid answer came, was 2xx and what the caller expected,
\* and that the evaluator was satisfied where it was asked (README.md:125-131,
\* auditor.go:174-187, 305-325, 366-382).
VerdictHonest ==
  \A a \in Audits : stored[a] # None =>
    LET rep == stored[a]  r == request[a] IN
    /\ rep.verdict \in {"PROBE_PASS", "PROBE_PASS_WITH_WARNINGS"} =>
         /\ rep.probeStatus = 402 /\ terms[a] # None
         /\ ~r.pay /\ copies[a] = 0
         /\ \A s \in signed : s.data # typed[a]
    /\ rep.verdict \in {"PASS", "PASS_WITH_WARNINGS"} =>
         /\ r.pay /\ copies[a] > 0
         /\ Is2xx(rep.paidStatus) /\ StatusMatches(r.expectedStatus, rep.paidStatus)
    /\ rep.verdict = "PASS" =>
         r.expectation = "none" \/ (rep.semantic.passed /\ rep.semantic.score >= 50)

\* Every report holds each check exactly once, on every path through Audit, and
\* a check is skipped only when an earlier one failed or no payment was asked for
\* (auditor.go:64-186, specsmith.go:463).
ChecksComplete ==
  \A a \in Audits : stored[a] # None =>
    LET checks == stored[a].checks
        Name(i) == checks[i].name
    IN
    /\ Len(checks) = IF request[a].specReview THEN MaxChecks ELSE 5
    /\ \A i, j \in DOMAIN checks : Name(i) = Name(j) => i = j
    /\ \A i \in DOMAIN checks : checks[i].status = "skip" =>
         ~request[a].pay \/ \E j \in 1 .. i - 1 : checks[j].status = "fail"

\* The numbers mean what README.md:133 says: a score is a percentage, full
\* coverage is reached exactly by an audit that got a paid answer, and a PASS
\* is worth at least 87 (auditor.go:344-365).
ScoreSound ==
  \A a \in Audits : stored[a] # None =>
    LET rep == stored[a] IN
    /\ rep.score \in 0 .. 100
    /\ rep.coverage \in 0 .. 100
    /\ rep.coverage = 100 <=> rep.tier = "verified"
    /\ rep.verdict = "PASS" => rep.score >= 87
    /\ rep.verdict = "PROBE_PASS" => rep.score = 100

-----------------------------------------------------------------------------
(* Progress *)

\* Every accepted audit is answered, whatever the target, the signer, the
\* evaluator and the store do, and also when its caller has gone.
EveryAuditEnds ==
  \A a \in Audits : pc[a] \in Running ~> pc[a] \in Final

=============================================================================
