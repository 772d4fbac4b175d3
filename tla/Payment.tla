------------------------------- MODULE Payment -------------------------------
(***************************************************************************)
(* internal/canary/payment.go without the remote signer: reading the x402  *)
(* challenge of a 402 reply, choosing the one payment option that the      *)
(* caller and the operator both allow, and the checks PaymentAuthorizer    *)
(* repeats before it asks for a signature.                                 *)
(*                                                                         *)
(* Values.  An amount is an integer; a negative one stands for every value *)
(* atomicString refuses (a fraction, a sign, an object, an absent field).  *)
(* A cap that is not a positive decimal is an integer =< 0.  Addresses are *)
(* taken up to letter case, network names up to case and surrounding       *)
(* blanks, as the code compares them.                                      *)
(*                                                                         *)
(* A document is what json.Decoder makes of a challenge: Malformed, or     *)
(*   [version, accepts, matches, bazaar]                                   *)
(* where accepts is the sequence of raw options and the last two fields    *)
(* are the discovery metadata specsmith.go looks at.  A reply is           *)
(*   [status, header, body]                                                *)
(* with header = None when PAYMENT-REQUIRED is absent or blank.            *)
(***************************************************************************)
EXTENDS Integers, Sequences

CONSTANTS
  None,             \* an absent value
  Malformed,        \* a document that does not decode
  Texts,            \* strings a request or a challenge may hold
  AddressTexts,     \* what a challenge may give as an address
  Addresses,        \* those of them addressPattern accepts
  OperatorCap,      \* PaymentPolicy.MaxAtomicAmount
  AllowedNetworks,  \* the keys of PaymentPolicy.AllowedNetworks
  AllowedAssets     \* PaymentPolicy.AllowedAssets

\* The identifiers normalizeNetwork returns, and the names it understands.
Mainnet == "eip155:8453"
Sepolia == "eip155:84532"
Networks == {Mainnet, Sepolia}

\* NewPaymentAuthorizer refuses a cap that is not positive, and ConfigFromEnv
\* fills AllowedNetworks with normalised names and AllowedAssets for both.
ASSUME PolicyAssumption ==
  /\ OperatorCap \in Nat \ {0}
  /\ AllowedNetworks \subseteq Networks
  /\ AllowedAssets \in [Networks -> Addresses]
  /\ Addresses \subseteq AddressTexts
  /\ None \notin AddressTexts
  /\ Networks \subseteq Texts /\ None \notin Texts

NormalizeNetwork(name) ==
  CASE name \in {"base", Mainnet, "8453"} -> Mainnet
    [] name \in {"base-sepolia", Sepolia, "84532"} -> Sepolia
    [] OTHER -> None

-----------------------------------------------------------------------------
(* Reading the challenge *)

Options == [scheme : Texts, network : Texts, amount : Int, legacyAmount : Int,
            asset : AddressTexts, payTo : AddressTexts, transfer : Texts,
            timeout : Int \cup {None}]

BazaarKinds == {"none", "declared", "input"}

Documents == [version : Int, accepts : Seq(Options), matches : BOOLEAN, bazaar : BazaarKinds]

\* What does not decode is no document.
ASSUME DocumentsAssumption == Malformed \notin Documents

Answers == [status : Nat,
            header : Documents \cup {Malformed, None},
            body   : Documents \cup {Malformed}]

\* `amount`, or the older `maxAmountRequired` when amount does not parse.
OptionAmount(option) ==
  IF option.amount >= 0 THEN option.amount ELSE option.legacyAmount

DefaultTimeout == 60
LongestTimeout == 86400

OptionParses(option) ==
  /\ OptionAmount(option) >= 0
  /\ option.timeout # None => option.timeout \in 1 .. LongestTimeout

Requirements == [scheme : Texts, network : Texts, amount : Nat,
                 asset : AddressTexts, payTo : AddressTexts, transfer : Texts,
                 timeout : 1 .. LongestTimeout]

Terms == [accepts : Seq(Requirements), matches : BOOLEAN, bazaar : BazaarKinds]

Requirement(option) ==
  [scheme   |-> option.scheme,
   network  |-> option.network,
   amount   |-> OptionAmount(option),
   asset    |-> option.asset,
   payTo    |-> option.payTo,
   transfer |-> option.transfer,
   timeout  |-> IF option.timeout = None THEN DefaultTimeout ELSE option.timeout]

\* One bad option spoils the whole challenge.
ChallengeParses(document) ==
  /\ document # Malformed
  /\ document.version = 2
  /\ document.accepts # << >>
  /\ \A i \in DOMAIN document.accepts : OptionParses(document.accepts[i])

\* A PAYMENT-REQUIRED header is read instead of the body, never besides it.
ChallengeDocument(reply) ==
  IF reply.header # None THEN reply.header ELSE reply.body

AuthorizationHeader(reply) ==
  IF reply.header # None THEN "PAYMENT-SIGNATURE" ELSE "X-PAYMENT"

ParsePaymentChallenge(document) ==
  [accepts |-> [i \in DOMAIN document.accepts |-> Requirement(document.accepts[i])],
   matches |-> document.matches,
   bazaar  |-> document.bazaar]

-----------------------------------------------------------------------------
(* Choosing an option *)

CapsUsable(request) == request.cap \in 1 .. OperatorCap

NetworkUnderstood(request) ==
  request.network # None => NormalizeNetwork(request.network) # None

\* A requirement that asks for something the authorizer can sign.
Supported(requirement) ==
  /\ requirement.scheme = "exact"
  /\ requirement.transfer \in {"", "eip3009"}
  /\ requirement.asset \in Addresses
  /\ requirement.payTo \in Addresses

\* Mutation: the price is compared with the operator's cap only.
AcceptableOverCap(requirement, request) ==
  LET network == NormalizeNetwork(requirement.network) IN
  /\ network \in AllowedNetworks
  /\ request.network # None => network = NormalizeNetwork(request.network)
  /\ Supported(requirement)
  /\ request.asset # None => requirement.asset = request.asset
  /\ requirement.asset = AllowedAssets[network]
  /\ requirement.amount \in 1 .. OperatorCap

Acceptable(requirement, request) ==
  LET network == NormalizeNetwork(requirement.network) IN
  /\ network \in AllowedNetworks
  /\ request.network # None => network = NormalizeNetwork(request.network)
  /\ Supported(requirement)
  /\ request.asset # None => requirement.asset = request.asset
  /\ requirement.asset = AllowedAssets[network]
  /\ requirement.amount > 0
  /\ requirement.amount <= request.cap
  /\ requirement.amount <= OperatorCap

Matching(requirements, request) ==
  {i \in DOMAIN requirements : Acceptable(requirements[i], request)}

\* The loop's `matches` must end up with exactly one element.
Selectable(requirements, request) ==
  /\ CapsUsable(request)
  /\ NetworkUnderstood(request)
  /\ \E i \in DOMAIN requirements : Matching(requirements, request) = {i}

\* Mutation: of several matches the first advertised one is taken.
SelectFirst(requirements, request) ==
  LET matches == Matching(requirements, request) IN
  IF CapsUsable(request) /\ NetworkUnderstood(request) /\ matches # {}
  THEN LET i == CHOOSE j \in matches : \A k \in matches : j <= k
       IN  [requirements[i] EXCEPT !.network = NormalizeNetwork(@)]
  ELSE None

\* Mutation: of several matches the cheapest one is taken.
SelectCheapest(requirements, request) ==
  LET matches == Matching(requirements, request) IN
  IF CapsUsable(request) /\ NetworkUnderstood(request) /\ matches # {}
  THEN LET i == CHOOSE j \in matches : \A k \in matches :
                  requirements[j].amount <= requirements[k].amount
       IN  [requirements[i] EXCEPT !.network = NormalizeNetwork(@)]
  ELSE None

\* The chosen requirement carries the normalised network; None is the error.
SelectPayment(requirements, request) ==
  IF Selectable(requirements, request)
  THEN LET i == CHOOSE j \in DOMAIN requirements :
                  Matching(requirements, request) = {j}
       IN  [requirements[i] EXCEPT !.network = NormalizeNetwork(@)]
  ELSE None

-----------------------------------------------------------------------------
(* Authorize, up to its first use of the signer *)

Authorizable(requirement) ==
  LET network == NormalizeNetwork(requirement.network) IN
  /\ network \in AllowedNetworks
  /\ requirement.amount \in 1 .. OperatorCap
  /\ Supported(requirement)
  /\ requirement.asset = AllowedAssets[network]

\* The TransferWithAuthorization message and the domain it is signed for.
\* validAfter, validBefore and the domain's name and version are left out.
Transfer(requirement, payer, nonce) ==
  [from    |-> payer,
   to      |-> requirement.payTo,
   value   |-> requirement.amount,
   network |-> NormalizeNetwork(requirement.network),
   asset   |-> requirement.asset,
   nonce   |-> nonce]

\* The envelope of the payment header: the terms it accepts and the transfer.
Envelope(requirement, transfer) ==
  [accepted |-> requirement, transfer |-> transfer]

=============================================================================
