------------------------------ MODULE MCAuditor ------------------------------
(***************************************************************************)
(* Auditor for TLC.  The `single` inputs follow one audit through every    *)
(* kind of request and reply; the `pair` inputs let two paid audits share  *)
(* the signer, with a wallet rotation, disconnections and late or repeated *)
(* deliveries between any two steps.                                       *)
(***************************************************************************)
EXTENDS AuditorProperties, TLC

CONSTANTS a1, a2, w1, w2, Usdc, SepoliaUsdc, Shop, OtherShop

OneAudit == {a1}
TwoAudits == {a1, a2}
AuditSymmetry == Permutations(TwoAudits)

MCTexts == {"base", "84532", "base-sepolia", Mainnet, Sepolia, "exact", "", "GET", "POST", "PUT",
            "application/json", "text/plain"}
MCAddresses == {Usdc, SepoliaUsdc, Shop, OtherShop}
MCAllowedNetworks == {Mainnet, Sepolia}
MCAllowedAssets == (Mainnet :> Usdc) @@ (Sepolia :> SepoliaUsdc)

MCWallets == {w1, w2}
OneKeyRing == {<<w1>>}
TwoKeyRings == {<<w1>>, <<w2>>}

-----------------------------------------------------------------------------
(* Options, challenges and replies *)

Cheap == [scheme |-> "exact", network |-> "base", amount |-> 1, legacyAmount |-> -1,
          asset |-> Usdc, payTo |-> Shop, transfer |-> "", timeout |-> None]
Dear == [Cheap EXCEPT !.amount = 2]
Testnet == [Cheap EXCEPT !.network = "84532", !.amount = -1, !.legacyAmount = 2,
                         !.asset = SepoliaUsdc, !.payTo = OtherShop]

Offer(options) == [version |-> 2, accepts |-> options, matches |-> TRUE, bazaar |-> "declared"]

InHeader(document) == [status |-> 402, header |-> document, body |-> Malformed]
InBody(document) == [status |-> 402, header |-> None, body |-> document]
Plain(status) == [status |-> status, header |-> None, body |-> Malformed]

SingleReplies ==
  {InHeader(Offer(<<Cheap>>)),
   InBody([Offer(<<Cheap>>) EXCEPT !.matches = FALSE]),
   InBody([Offer(<<Cheap>>) EXCEPT !.bazaar = "input"]),
   InBody(Offer(<<Cheap, Cheap>>)),
   InBody(Offer(<<Dear>>)),
   InBody([Offer(<<Cheap>>) EXCEPT !.version = 1]),
   [InHeader(Malformed) EXCEPT !.body = Offer(<<Cheap>>)],
   InBody(Malformed), Plain(200), Plain(500)}

PairReplies == {InHeader(Offer(<<Cheap, Testnet>>)), InBody(Offer(<<Testnet, Dear>>))}

-----------------------------------------------------------------------------
(* Requests *)

Ask == [method |-> "", body |-> "none", contentType |-> "", expectation |-> "none",
        expectedStatus |-> 0, specReview |-> FALSE, generateRepairs |-> FALSE,
        pay |-> TRUE, cap |-> 1, network |-> "base", asset |-> None]

ValidRequests ==
  {[Ask EXCEPT !.method = m, !.expectation = e, !.expectedStatus = s,
               !.specReview = v, !.pay = p] :
     m \in {"GET", "POST"}, e \in {"none", "stated"}, s \in {0, 500}, v \in BOOLEAN, p \in BOOLEAN}

InvalidRequests ==
  {[Ask EXCEPT !.method = "PUT"],
   [Ask EXCEPT !.body = "json"],
   [Ask EXCEPT !.method = "POST", !.body = "oversized"],
   [Ask EXCEPT !.method = "POST", !.body = "json", !.contentType = "text/plain"],
   [Ask EXCEPT !.expectation = "oversized"],
   [Ask EXCEPT !.expectedStatus = 600],
   [Ask EXCEPT !.generateRepairs = TRUE]}

SingleRequests == ValidRequests \cup InvalidRequests

PairRequests == {Ask, [Ask EXCEPT !.method = "POST", !.network = "base-sepolia", !.cap = 2]}

LiveRequests == {[Ask EXCEPT !.expectation = "stated"]}

LooseRequests == {[Ask EXCEPT !.network = None]}

MCJudgements ==
  [passed : BOOLEAN, score : {0, 49, 50, 100, 101}, reasoned : {TRUE}]
    \cup {[passed |-> TRUE, score |-> 100, reasoned |-> FALSE]}

LiveReplies == {InHeader(Offer(<<Cheap>>))}
LiveJudgements == {[passed |-> TRUE, score |-> 100, reasoned |-> TRUE]}

-----------------------------------------------------------------------------
(* What the documentation says and the code does not hold to *)

\* README.md:106-108: for a real payment the user must supply payment_network.
PaymentNamesNetwork ==
  \A a \in Audits : copies[a] > 0 => request[a].network # None

=============================================================================
