---------------------------- MODULE PaymentProofs ----------------------------
(* What SelectPayment and Authorize agree on, for every policy, challenge    *)
(* and request, and Selection for every palette of offers and every length.  *)
EXTENDS Selection, TLAPS

\* normalizeNetwork returns one of the two identifiers, and leaves those alone.
LEMMA NormalizeFacts ==
  ASSUME NEW name
  PROVE  /\ NormalizeNetwork(name) \in Networks \cup {None}
         /\ name \in Networks => NormalizeNetwork(name) = name
<1>1. NormalizeNetwork(name) \in Networks \cup {None}
  BY DEF NormalizeNetwork, Networks, Mainnet, Sepolia
<1>2. ASSUME name \in Networks
      PROVE  NormalizeNetwork(name) = name
  <2>1. CASE name = Mainnet
    BY <2>1 DEF NormalizeNetwork, Mainnet, Sepolia
  <2>2. CASE name = Sepolia
    BY <2>2 DEF NormalizeNetwork, Mainnet, Sepolia
  <2>. QED  BY <1>2, <2>1, <2>2 DEF Networks
<1>. QED  BY <1>1, <1>2

\* A selection that is not an error is one of the options quoted, acceptable,
\* with its network normalised, under usable caps.
LEMMA SelectionIsQuoted ==
  ASSUME NEW requirements, NEW req,
         SelectPayment(requirements, req) # None
  PROVE  /\ CapsUsable(req)
         /\ \E i \in DOMAIN requirements :
              /\ Acceptable(requirements[i], req)
              /\ SelectPayment(requirements, req) =
                   [requirements[i] EXCEPT !.network = NormalizeNetwork(@)]
<1>1. Selectable(requirements, req)
  BY DEF SelectPayment
<1>. DEFINE chosen == CHOOSE j \in DOMAIN requirements : Matching(requirements, req) = {j}
<1>2. chosen \in DOMAIN requirements /\ Matching(requirements, req) = {chosen}
  BY <1>1 DEF Selectable
<1>3. Acceptable(requirements[chosen], req)
  BY <1>2 DEF Matching
<1>4. SelectPayment(requirements, req) =
        [requirements[chosen] EXCEPT !.network = NormalizeNetwork(@)]
  BY <1>1 DEF SelectPayment
<1>. QED  BY <1>1, <1>2, <1>3, <1>4 DEF Selectable

\* Reading a challenge that parses gives requirements of the declared type.
LEMMA ParsedTerms ==
  ASSUME NEW doc \in Documents, ChallengeParses(doc)
  PROVE  ParsePaymentChallenge(doc) \in Terms
<1>1. doc.accepts \in Seq(Options)
  BY DEF Documents
<1>2. ASSUME NEW i \in DOMAIN doc.accepts
      PROVE  Requirement(doc.accepts[i]) \in Requirements
  <2>1. doc.accepts[i] \in Options
    BY <1>1, <1>2
  <2>2. OptionParses(doc.accepts[i])
    BY <1>2 DEF ChallengeParses
  <2>. DEFINE option == doc.accepts[i]
  <2>3. OptionAmount(option) \in Nat
    <3>1. OptionAmount(option) \in Int
      BY <2>1 DEF Options, OptionAmount
    <3>. QED  BY <2>2, <3>1 DEF OptionParses
  <2>4. (IF option.timeout = None THEN DefaultTimeout ELSE option.timeout) \in 1 .. LongestTimeout
    <3>1. CASE option.timeout = None
      BY <3>1 DEF DefaultTimeout, LongestTimeout
    <3>2. CASE option.timeout # None
      BY <2>2, <3>2 DEF OptionParses
    <3>. QED  BY <3>1, <3>2
  <2>5. /\ option.scheme \in Texts /\ option.network \in Texts /\ option.transfer \in Texts
        /\ option.asset \in AddressTexts /\ option.payTo \in AddressTexts
    BY <2>1 DEF Options
  <2>. QED  BY <2>3, <2>4, <2>5 DEF Requirement, Requirements
<1>3. [i \in DOMAIN doc.accepts |-> Requirement(doc.accepts[i])] \in Seq(Requirements)
  BY <1>1, <1>2
<1>. QED  BY <1>3 DEF ParsePaymentChallenge, Terms, Documents

\* The requirement SelectPayment returns is a requirement, is accepted by every
\* check Authorize repeats (payment.go:348-372), and lies within both caps and the
\* caller's choice of network and asset.
THEOREM SelectedIsAuthorizable ==
  ASSUME NEW requirements \in Seq(Requirements), NEW req,
         SelectPayment(requirements, req) # None
  PROVE  LET chosen == SelectPayment(requirements, req) IN
         /\ chosen \in Requirements
         /\ Authorizable(chosen)
         /\ chosen.amount <= req.cap
         /\ chosen.network \in AllowedNetworks
         /\ req.network # None => chosen.network = NormalizeNetwork(req.network)
         /\ req.asset # None => chosen.asset = req.asset
<1>. DEFINE chosen == SelectPayment(requirements, req)
<1>1. PICK i \in DOMAIN requirements :
        /\ Acceptable(requirements[i], req)
        /\ chosen = [requirements[i] EXCEPT !.network = NormalizeNetwork(@)]
  BY SelectionIsQuoted
<1>2. requirements[i] \in Requirements
  OBVIOUS
<1>. DEFINE network == NormalizeNetwork(requirements[i].network)
<1>3. network \in AllowedNetworks /\ network \in Networks
  BY <1>1, PolicyAssumption DEF Acceptable
<1>4. chosen \in Requirements /\ chosen.network = network
  <2>1. network \in Texts
    BY <1>3, PolicyAssumption
  <2>. QED  BY <1>1, <1>2, <2>1 DEF Requirements
<1>5. /\ chosen.amount = requirements[i].amount
      /\ chosen.asset = requirements[i].asset
      /\ chosen.payTo = requirements[i].payTo
      /\ chosen.scheme = requirements[i].scheme
      /\ chosen.transfer = requirements[i].transfer
  BY <1>1, <1>2 DEF Requirements
<1>6. NormalizeNetwork(chosen.network) = network
  BY <1>3, <1>4, NormalizeFacts
<1>7. Authorizable(chosen)
  <2>1. chosen.amount \in 1 .. OperatorCap
    BY <1>1, <1>2, <1>5, PolicyAssumption DEF Acceptable, Requirements
  <2>. QED  BY <1>1, <1>3, <1>5, <1>6, <2>1 DEF Acceptable, Authorizable, Supported
<1>. QED  BY <1>1, <1>3, <1>4, <1>5, <1>7 DEF Acceptable

\* Which option is chosen is decided by the options that match and by nothing else:
\* if the one matching option of an offer is the one of another, the choice is the same.
LEMMA SameMatchSameChoice ==
  ASSUME NEW offer, NEW req, NEW other, NEW otherReq,
         NEW i \in DOMAIN offer, NEW j \in DOMAIN other,
         Matching(offer, req) = {i}, Matching(other, otherReq) = {j},
         offer[i] = other[j],
         SelectPayment(offer, req) # None, SelectPayment(other, otherReq) # None
  PROVE  SelectPayment(offer, req) = SelectPayment(other, otherReq)
<1>1. Selectable(offer, req) /\ Selectable(other, otherReq)
  BY DEF SelectPayment
<1>. DEFINE m == CHOOSE k \in DOMAIN offer : Matching(offer, req) = {k}
            n == CHOOSE k \in DOMAIN other : Matching(other, otherReq) = {k}
<1>2. m \in DOMAIN offer /\ Matching(offer, req) = {m}
  OBVIOUS
<1>3. n \in DOMAIN other /\ Matching(other, otherReq) = {n}
  OBVIOUS
<1>4. m = i /\ n = j
  BY <1>2, <1>3
<1>5. /\ SelectPayment(offer, req) = [offer[m] EXCEPT !.network = NormalizeNetwork(@)]
      /\ SelectPayment(other, otherReq) = [other[n] EXCEPT !.network = NormalizeNetwork(@)]
  BY <1>1 DEF SelectPayment
<1>. QED  BY <1>4, <1>5

\* The order in which a seller lists the options decides nothing: any rearrangement
\* of them, not only the exchange of two that the run tries, leads to the same payment or to
\* none (payment.go:177-232).
THEOREM AnyOrderSameChoice ==
  ASSUME NEW offer, NEW rearranged, NEW req,
         NEW place \in [DOMAIN rearranged -> DOMAIN offer],
         \A i, j \in DOMAIN rearranged : place[i] = place[j] => i = j,
         \A i \in DOMAIN offer : \E j \in DOMAIN rearranged : place[j] = i,
         \A j \in DOMAIN rearranged : rearranged[j] = offer[place[j]]
  PROVE  SelectPayment(rearranged, req) = SelectPayment(offer, req)
<1>1. \A j \in DOMAIN rearranged :
        j \in Matching(rearranged, req) <=> place[j] \in Matching(offer, req)
  BY DEF Matching
<1>2. ASSUME NEW j \in DOMAIN rearranged
      PROVE  Matching(rearranged, req) = {j} <=> Matching(offer, req) = {place[j]}
  <2>1. Matching(rearranged, req) \subseteq DOMAIN rearranged
    BY DEF Matching
  <2>2. Matching(offer, req) \subseteq DOMAIN offer
    BY DEF Matching
  <2>3. ASSUME Matching(rearranged, req) = {j}
        PROVE  Matching(offer, req) = {place[j]}
    <3>1. place[j] \in Matching(offer, req)
      BY <1>1, <2>3
    <3>2. ASSUME NEW i \in Matching(offer, req) PROVE i = place[j]
      <4>1. PICK k \in DOMAIN rearranged : place[k] = i
        BY <2>2, <3>2
      <4>2. k \in Matching(rearranged, req)
        BY <1>1, <3>2, <4>1
      <4>. QED  BY <2>3, <4>1, <4>2
    <3>. QED  BY <3>1, <3>2
  <2>4. ASSUME Matching(offer, req) = {place[j]}
        PROVE  Matching(rearranged, req) = {j}
    <3>1. j \in Matching(rearranged, req)
      BY <1>1, <2>4
    <3>2. ASSUME NEW k \in Matching(rearranged, req) PROVE k = j
      BY <1>1, <2>1, <2>4, <3>2
    <3>. QED  BY <3>1, <3>2
  <2>. QED  BY <2>3, <2>4
<1>3. Selectable(rearranged, req) <=> Selectable(offer, req)
  BY <1>2 DEF Selectable
<1>4. CASE ~Selectable(offer, req)
  BY <1>3, <1>4 DEF SelectPayment
<1>5. CASE Selectable(offer, req)
  <2>. DEFINE m == CHOOSE k \in DOMAIN rearranged : Matching(rearranged, req) = {k}
              n == CHOOSE k \in DOMAIN offer : Matching(offer, req) = {k}
  <2>1. m \in DOMAIN rearranged /\ Matching(rearranged, req) = {m}
    BY <1>3, <1>5 DEF Selectable
  <2>2. n \in DOMAIN offer /\ Matching(offer, req) = {n}
    BY <1>5 DEF Selectable
  <2>3. n = place[m]
    BY <1>2, <2>1, <2>2
  <2>4. /\ SelectPayment(rearranged, req) =
             [rearranged[m] EXCEPT !.network = NormalizeNetwork(@)]
        /\ SelectPayment(offer, req) = [offer[n] EXCEPT !.network = NormalizeNetwork(@)]
    BY <1>3, <1>5 DEF SelectPayment
  <2>. HIDE DEF m, n
  <2>5. rearranged[m] = offer[n]
    BY <2>1, <2>3
  <2>. QED  BY <2>4, <2>5
<1>. QED  BY <1>4, <1>5

\* A larger cap and further options, however many, may allow or confuse a payment;
\* they never move it to another option (payment.go:217, 229-231).
THEOREM WideningKeepsChoice ==
  ASSUME NEW offer \in Seq(Requirements), NEW wider \in Seq(Requirements),
         \A i \in DOMAIN offer : i \in DOMAIN wider /\ wider[i] = offer[i],
         NEW req, NEW widerReq,
         req.cap \in Int, widerReq.cap \in Int, req.cap <= widerReq.cap,
         widerReq.network = req.network, widerReq.asset = req.asset,
         SelectPayment(offer, req) # None,
         SelectPayment(wider, widerReq) # None
  PROVE  SelectPayment(wider, widerReq) = SelectPayment(offer, req)
<1>1. Matching(offer, req) \subseteq Matching(wider, widerReq)
  <2>. SUFFICES ASSUME NEW i \in DOMAIN offer, Acceptable(offer[i], req)
                PROVE  Acceptable(wider[i], widerReq)
    BY DEF Matching
  <2>1. offer[i].amount \in Nat
    <3>1. offer[i] \in Requirements
      OBVIOUS
    <3>. QED  BY <3>1 DEF Requirements
  <2>2. offer[i].amount <= req.cap
    BY DEF Acceptable
  <2>3. offer[i].amount <= widerReq.cap
    BY <2>1, <2>2
  <2>. QED  BY <2>3 DEF Acceptable
<1>2. PICK i \in DOMAIN offer : Matching(offer, req) = {i}
  BY DEF SelectPayment, Selectable
<1>3. PICK j \in DOMAIN wider : Matching(wider, widerReq) = {j}
  BY DEF SelectPayment, Selectable
<1>4. i = j
  BY <1>1, <1>2, <1>3
<1>5. offer[i] = wider[j]
  BY <1>4
<1>. QED  BY <1>2, <1>3, <1>5, SameMatchSameChoice

-----------------------------------------------------------------------------
(* Selection *)

\* What the seller offers is a document, and the caller asks with a cap.
OfferOK ==
  /\ document \in Documents
  /\ request \in [cap : Nat, network : Names \cup {None}, asset : Assets \cup {None}]

\* An empty challenge and a small cap are well formed.
LEMMA InitOffer == Init => OfferOK
<1>. SUFFICES ASSUME Init PROVE OfferOK
  OBVIOUS
<1>1. document \in Documents
  <2>1. << >> \in Seq(Options)
    OBVIOUS
  <2>2. "none" \in BazaarKinds
    BY DEF BazaarKinds
  <2>. QED  BY <2>1, <2>2 DEF Init, Documents
<1>. QED  BY <1>1 DEF Init, OfferOK

\* Neither the seller nor the caller leaves the types.
LEMMA NextOffer == OfferOK /\ [Next]_vars => OfferOK'
<1>. SUFFICES ASSUME OfferOK, [Next]_vars PROVE OfferOK'
  OBVIOUS
<1>. USE DEF OfferOK
<1>1. CASE AddOption
  <2>1. PICK option \in Offers : document' = [document EXCEPT !.accepts = Append(@, option)]
    BY <1>1 DEF AddOption
  <2>2. option \in Options
    BY OffersAssumption
  <2>3. Append(document.accepts, option) \in Seq(Options)
    BY <2>2 DEF Documents
  <2>. QED  BY <1>1, <2>1, <2>3 DEF AddOption, Documents
<1>2. CASE Reorder
  <2>1. PICK i \in DOMAIN document.accepts, j \in DOMAIN document.accepts :
          document' = [document EXCEPT !.accepts[i] = document.accepts[j],
                                       !.accepts[j] = document.accepts[i]]
    BY <1>2 DEF Reorder
  <2>2. document.accepts \in Seq(Options)
    BY DEF Documents
  <2>3. [document.accepts EXCEPT ![i] = document.accepts[j], ![j] = document.accepts[i]] \in Seq(Options)
    BY <2>2
  <2>4. document' = [document EXCEPT !.accepts =
           [document.accepts EXCEPT ![i] = document.accepts[j], ![j] = document.accepts[i]]]
    BY <2>1 DEF Documents
  <2>5. document' \in Documents
    BY <2>3, <2>4 DEF Documents
  <2>. QED  BY <1>2, <2>5 DEF Reorder
<1>3. CASE RaiseCap
  BY <1>3 DEF RaiseCap
<1>4. CASE NameNetwork
  BY <1>4 DEF NameNetwork
<1>5. CASE NameAsset
  BY <1>5 DEF NameAsset
<1>6. CASE UNCHANGED vars
  BY <1>6 DEF vars
<1>. QED  BY <1>1, <1>2, <1>3, <1>4, <1>5, <1>6 DEF Next

\* What is quoted are requirements.
LEMMA QuotedTyped ==
  ASSUME OfferOK
  PROVE  Quoted \in Seq(Requirements)
<1>1. CASE ChallengeParses(document)
  <2>1. ParsePaymentChallenge(document) \in Terms
    BY <1>1, ParsedTerms DEF OfferOK
  <2>. QED  BY <1>1, <2>1 DEF Quoted, Terms
<1>2. CASE ~ChallengeParses(document)
  BY <1>2 DEF Quoted
<1>. QED  BY <1>1, <1>2

\* Nothing is chosen from a challenge without options.
LEMMA NothingQuoted ==
  ASSUME NEW req PROVE SelectPayment(<< >>, req) = None
BY DEF SelectPayment, Selectable

\* For every palette and any length of the challenge: what is picked, Authorize
\* accepts (payment.go:348-372), and it is within the caller's cap.
THEOREM ChoiceAlwaysAuthorizable == Spec => []ChoiceIsAuthorizable
<1>1. OfferOK => ChoiceIsAuthorizable
  <2>. SUFFICES ASSUME OfferOK, Chosen # None
                PROVE  /\ Authorizable(Chosen)
                       /\ Chosen.amount <= request.cap
                       /\ Chosen.network \in AllowedNetworks
    BY DEF ChoiceIsAuthorizable
  <2>. QED  BY QuotedTyped, SelectedIsAuthorizable DEF Chosen
<1>. QED  BY <1>1, InitOffer, NextOffer, PTL DEF Spec

\* Two options that change places leave the choice as it is.
LEMMA SwapSameChoice ==
  ASSUME OfferOK, Reorder
  PROVE  Chosen' = Chosen
<1>1. PICK i \in DOMAIN document.accepts, j \in DOMAIN document.accepts :
        document' = [document EXCEPT !.accepts[i] = document.accepts[j],
                                     !.accepts[j] = document.accepts[i]]
  BY DEF Reorder
<1>2. document \in Documents /\ document.accepts \in Seq(Options)
  BY DEF OfferOK, Documents
<1>. DEFINE accepts == document.accepts
            place == [k \in DOMAIN accepts |-> IF k = i THEN j ELSE IF k = j THEN i ELSE k]
<1>3. document' = [document EXCEPT !.accepts = [accepts EXCEPT ![i] = accepts[j], ![j] = accepts[i]]]
  BY <1>1, <1>2 DEF Documents
<1>4. /\ document'.accepts = [k \in DOMAIN accepts |-> accepts[place[k]]]
      /\ document'.version = document.version
  BY <1>2, <1>3 DEF Documents
<1>5. /\ document # Malformed /\ document' # Malformed
      /\ request' = request
  BY <1>2, NextOffer, DocumentsAssumption DEF OfferOK, Next, Reorder
<1>6. /\ place \in [DOMAIN accepts -> DOMAIN accepts]
      /\ \A k \in DOMAIN accepts : place[place[k]] = k
  OBVIOUS
<1>. HIDE DEF accepts, place
<1>7. DOMAIN document'.accepts = DOMAIN accepts
  BY <1>4
<1>8. ChallengeParses(document') <=> ChallengeParses(document)
  <2>1. (\A k \in DOMAIN accepts : OptionParses(accepts[place[k]]))
          <=> \A k \in DOMAIN accepts : OptionParses(accepts[k])
    BY <1>6
  <2>2. (document'.accepts # << >>) <=> (accepts # << >>)
    <3>1. accepts \in Seq(Options) /\ accepts[1] = accepts[1]
      BY <1>2 DEF accepts
    <3>2. document'.accepts \in Seq(Options)
      BY <1>3, NextOffer DEF OfferOK, Next, Documents
    <3>. QED  BY <1>7, <3>1, <3>2
  <2>3. \A k \in DOMAIN accepts : document'.accepts[k] = accepts[place[k]]
    BY <1>4
  <2>. QED  BY <1>4, <1>5, <1>7, <2>1, <2>2, <2>3 DEF ChallengeParses, accepts
<1>9. CASE ~ChallengeParses(document)
  BY <1>5, <1>8, <1>9 DEF Chosen, Quoted
<1>10. CASE ChallengeParses(document)
  <2>. DEFINE offer == ParsePaymentChallenge(document).accepts
              other == ParsePaymentChallenge(document').accepts
  <2>1. /\ offer = [k \in DOMAIN accepts |-> Requirement(accepts[k])]
        /\ other = [k \in DOMAIN accepts |-> Requirement(accepts[place[k]])]
    BY <1>4, <1>7 DEF ParsePaymentChallenge, accepts
  <2>2. Chosen = SelectPayment(offer, request) /\ Chosen' = SelectPayment(other, request)
    BY <1>5, <1>8, <1>10 DEF Chosen, Quoted
  <2>. HIDE DEF offer, other
  <2>3. /\ DOMAIN offer = DOMAIN accepts /\ DOMAIN other = DOMAIN accepts
        /\ place \in [DOMAIN other -> DOMAIN offer]
    BY <1>6, <2>1
  <2>4. /\ \A k, l \in DOMAIN other : place[k] = place[l] => k = l
        /\ \A k \in DOMAIN offer : \E l \in DOMAIN other : place[l] = k
    BY <1>6, <2>3
  <2>5. \A k \in DOMAIN other : other[k] = offer[place[k]]
    BY <1>6, <2>1, <2>3
  <2>. QED  BY <2>2, <2>3, <2>4, <2>5, AnyOrderSameChoice
<1>. QED  BY <1>9, <1>10

\* For every palette and any length of the challenge: in whatever order the seller
\* lists the options, the choice is the same (payment.go:177-232).
THEOREM OrderNeverDecides == Spec => OrderDecidesNothing
<1>1. OfferOK /\ [Next]_vars => [Reorder => Chosen' = Chosen]_vars
  BY SwapSameChoice
<1>. QED  BY <1>1, InitOffer, NextOffer, PTL DEF Spec, OrderDecidesNothing

\* One more option keeps the choice where there is one before and after.
LEMMA AddKeepsChoice ==
  ASSUME OfferOK, AddOption, Chosen # None, Chosen' # None
  PROVE  Chosen' = Chosen
<1>1. PICK option \in Offers : document' = [document EXCEPT !.accepts = Append(@, option)]
  BY DEF AddOption
<1>2. document \in Documents /\ document.accepts \in Seq(Options) /\ option \in Options
  BY OffersAssumption DEF OfferOK, Documents
<1>3. document'.accepts = Append(document.accepts, option) /\ request' = request
  BY <1>1, <1>2 DEF AddOption, Documents
<1>4. ChallengeParses(document) /\ ChallengeParses(document')
  <2>1. Quoted # << >> /\ Quoted' # << >>
    BY NothingQuoted DEF Chosen
  <2>. QED  BY <2>1 DEF Quoted
<1>5. Quoted \in Seq(Requirements) /\ Quoted' \in Seq(Requirements)
  <2>1. OfferOK'
    BY NextOffer DEF Next
  <2>2. ParsePaymentChallenge(document') \in Terms
    BY <1>4, <2>1, ParsedTerms DEF OfferOK
  <2>3. Quoted' = ParsePaymentChallenge(document').accepts
    BY <1>4 DEF Quoted
  <2>. QED  BY <2>2, <2>3, QuotedTyped DEF Terms
<1>6. \A i \in DOMAIN Quoted : i \in DOMAIN Quoted' /\ Quoted'[i] = Quoted[i]
  <2>1. /\ Quoted = [i \in DOMAIN document.accepts |-> Requirement(document.accepts[i])]
        /\ Quoted' = [i \in DOMAIN document'.accepts |-> Requirement(document'.accepts[i])]
    BY <1>4 DEF Quoted, ParsePaymentChallenge
  <2>2. \A i \in DOMAIN document.accepts :
          i \in DOMAIN document'.accepts /\ document'.accepts[i] = document.accepts[i]
    BY <1>2, <1>3
  <2>. QED  BY <2>1, <2>2
<1>7. request.cap \in Int
  BY DEF OfferOK
<1>8. SelectPayment(Quoted, request) # None /\ SelectPayment(Quoted', request) # None
  BY <1>3 DEF Chosen
<1>9. SelectPayment(Quoted', request) = SelectPayment(Quoted, request)
  BY <1>5, <1>6, <1>7, <1>8, WideningKeepsChoice
<1>. QED  BY <1>3, <1>9 DEF Chosen

\* A larger cap keeps the choice where there is one before and after.
LEMMA RaiseKeepsChoice ==
  ASSUME OfferOK, RaiseCap, Chosen # None, Chosen' # None
  PROVE  Chosen' = Chosen
<1>1. Quoted' = Quoted
  BY DEF RaiseCap, Quoted
<1>2. /\ request.cap \in Int /\ request'.cap \in Int /\ request.cap <= request'.cap
      /\ request'.network = request.network /\ request'.asset = request.asset
  BY DEF RaiseCap, OfferOK
<1>3. Quoted \in Seq(Requirements)
  BY QuotedTyped
<1>4. SelectPayment(Quoted, request) # None /\ SelectPayment(Quoted, request') # None
  BY <1>1 DEF Chosen
<1>5. SelectPayment(Quoted, request') = SelectPayment(Quoted, request)
  BY <1>2, <1>3, <1>4, WideningKeepsChoice
<1>. QED  BY <1>1, <1>5 DEF Chosen

\* For every palette and any length of the challenge: a larger cap or one more
\* option never moves an allowed payment to another option (payment.go:217, 229-231).
THEOREM NeverRedirects == Spec => WideningNeverRedirects
<1>1. OfferOK /\ [Next]_vars =>
        [RaiseCap \/ AddOption =>
           (Chosen # None /\ Chosen' # None => Chosen' = Chosen)]_vars
  BY AddKeepsChoice, RaiseKeepsChoice
<1>. QED  BY <1>1, InitOffer, NextOffer, PTL DEF Spec, WideningNeverRedirects

=============================================================================
