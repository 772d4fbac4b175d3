------------------------------ MODULE Selection ------------------------------
(***************************************************************************)
(* SelectPayment over a changing offer: a seller who adds options and      *)
(* rearranges them, and a caller who raises the cap or names a network and *)
(* an asset.  The questions are about pairs of calls, which a test of one  *)
(* call does not ask: does the order of the options, a larger cap or one   *)
(* more option ever move the payment from one option to another?           *)
(***************************************************************************)
EXTENDS Payment

CONSTANTS
  Offers,       \* the options a seller may add
  Names,        \* the networks a caller may name
  Assets,       \* the assets a caller may name
  MaxOptions    \* bound on the length of a challenge

ASSUME OffersAssumption == Offers \subseteq Options

VARIABLES
  document,     \* the challenge as it decodes
  request       \* the caller's cap, and the network and asset named or None

vars == <<document, request>>

Init ==
  /\ \E version \in {1, 2} :
       document = [version |-> version, accepts |-> << >>, matches |-> TRUE, bazaar |-> "none"]
  /\ request \in [cap : {0, 1}, network : {None}, asset : {None}]

\* What the caller is quoted; nothing while the challenge does not parse.
Quoted ==
  IF ChallengeParses(document) THEN ParsePaymentChallenge(document).accepts ELSE << >>

Chosen == SelectPayment(Quoted, request)

AddOption ==
  /\ Len(document.accepts) < MaxOptions
  /\ \E option \in Offers : document' = [document EXCEPT !.accepts = Append(@, option)]
  /\ UNCHANGED request

\* Two options change places; every order comes about by such steps.
Reorder ==
  /\ \E i, j \in DOMAIN document.accepts :
       /\ i < j
       /\ document' = [document EXCEPT !.accepts[i] = document.accepts[j],
                                       !.accepts[j] = document.accepts[i]]
  /\ UNCHANGED request

\* One more than the operator allows is as far as the cap is raised.
RaiseCap ==
  /\ request.cap <= OperatorCap
  /\ request' = [request EXCEPT !.cap = @ + 1]
  /\ UNCHANGED document

NameNetwork ==
  /\ request.network = None
  /\ \E name \in Names : request' = [request EXCEPT !.network = name]
  /\ UNCHANGED document

NameAsset ==
  /\ request.asset = None
  /\ \E asset \in Assets : request' = [request EXCEPT !.asset = asset]
  /\ UNCHANGED document

Next == AddOption \/ Reorder \/ RaiseCap \/ NameNetwork \/ NameAsset

Spec == Init /\ [][Next]_vars

-----------------------------------------------------------------------------
\* Whatever SelectPayment picks, Authorize accepts: its own repeated checks
\* (payment.go:348-372) never refuse what the report already calls authorized,
\* and the amount is within the caller's cap, which Authorize does not see.
ChoiceIsAuthorizable ==
  Chosen # None => /\ Authorizable(Chosen)
                   /\ Chosen.amount <= request.cap
                   /\ Chosen.network \in AllowedNetworks

\* The seller's order of options decides nothing (payment.go:177-232).
OrderDecidesNothing == [][Reorder => Chosen' = Chosen]_vars

\* A larger cap or one more option may allow or confuse a payment; it never
\* moves an allowed payment to another option (payment.go:217, 229-231).
WideningNeverRedirects ==
  [][RaiseCap \/ AddOption =>
       (Chosen # None /\ Chosen' # None => Chosen' = Chosen)]_vars

=============================================================================
