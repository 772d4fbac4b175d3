--------------------------- MODULE SpecReviewProofs ---------------------------
(***************************************************************************)
(* What the findings, the checks and the status of a specification review  *)
(* say of each other, for any documents and challenges; and what holds of  *)
(* the parts of the analysis, each with its own constants and variables:   *)
(* any paths, responses and parameters (OperationLookup), any circular     *)
(* schemas (Schemas), any bodies (SchemaInference).                        *)
(***************************************************************************)
EXTENDS SpecReviewParts, FiniteSetTheorems, WellFoundedInduction, TLAPS

-----------------------------------------------------------------------------
(* Findings *)

ErrorCodes ==
  {"request_schema_missing", "openapi_too_large", "openapi_invalid", "openapi_version",
   "openapi_paths_missing", "operation_missing", "method_missing",
   "challenge_resource_invalid", "challenge_resource_insecure", "challenge_resource_mismatch"}

WarningCodes ==
  {"summary_missing", "request_schema_generic", "response_schema_missing",
   "response_schema_generic", "openapi_missing", "agent_registration_invalid",
   "agent_registration_inactive", "service_not_registered", "skill_document_invalid",
   "challenge_resource_missing", "bazaar_extension_missing", "bazaar_input_missing"}

InfoCodes ==
  {"request_example_missing", "response_example_missing", "agent_registration_missing",
   "agent_id_missing", "skill_document_missing", "bazaar_output_missing",
   "challenge_metadata_unavailable"}

SeverityOf(code) ==
  IF code \in ErrorCodes THEN "error" ELSE IF code \in WarningCodes THEN "warning" ELSE "info"

\* Every finding a review may come to: a code never has two severities.
Known == {Finding(code, SeverityOf(code)) : code \in ErrorCodes \cup WarningCodes \cup InfoCodes}

Members(list) == {list[i] : i \in DOMAIN list}

\* A list of known findings, of at most n of them.
ListOf(list, n) == list \in Seq(Known) /\ Len(list) <= n

\* Two findings of one code are one finding, so dropping the second loses nothing.
LEMMA CodesAreKeys ==
  ASSUME NEW f \in Known, NEW g \in Known, f.code = g.code
  PROVE  f = g
  BY DEF Known, Finding

\* The constructors give known findings.
LEMMA KnownFindings ==
  /\ \A code \in ErrorCodes : Error(code) \in Known
  /\ \A code \in WarningCodes : Warning(code) \in Known
  /\ \A code \in InfoCodes : Info(code) \in Known
<1>1. \A code \in WarningCodes : code \notin ErrorCodes
  BY DEF ErrorCodes, WarningCodes
<1>2. \A code \in InfoCodes : code \notin ErrorCodes /\ code \notin WarningCodes
  BY DEF ErrorCodes, WarningCodes, InfoCodes
<1>. QED  BY <1>1, <1>2 DEF Known, SeverityOf, Error, Warning, Info

\* A condition raises its finding, or nothing.
LEMMA WhenFacts ==
  ASSUME NEW condition, NEW finding \in Known
  PROVE  /\ ListOf(When(condition, finding), 1)
         /\ Members(When(condition, finding)) = IF condition THEN {finding} ELSE {}
<1>1. CASE condition
  <2>1. When(condition, finding) = <<finding>>
    BY <1>1 DEF When
  <2>2. ListOf(<<finding>>, 1) /\ Members(<<finding>>) = {finding}
    BY DEF ListOf, Members
  <2>. QED  BY <1>1, <2>1, <2>2
<1>2. CASE ~condition
  <2>1. When(condition, finding) = << >>
    BY <1>2 DEF When
  <2>2. ListOf(<< >>, 1) /\ Members(<< >>) = {}
    BY DEF ListOf, Members
  <2>. QED  BY <1>2, <2>1, <2>2
<1>. QED  BY <1>1, <1>2

\* One list of findings after another.
LEMMA ConcatFacts ==
  ASSUME NEW m \in Nat, NEW n \in Nat, NEW s, NEW t, ListOf(s, m), ListOf(t, n)
  PROVE  ListOf(s \o t, m + n) /\ Members(s \o t) = Members(s) \cup Members(t)
<1>1. s \o t \in Seq(Known) /\ Len(s \o t) = Len(s) + Len(t)
  BY DEF ListOf
<1>2. ListOf(s \o t, m + n)
  BY <1>1 DEF ListOf
<1>3. \A i \in DOMAIN s : i \in DOMAIN (s \o t) /\ (s \o t)[i] = s[i]
  BY DEF ListOf
<1>4. \A i \in DOMAIN t : Len(s) + i \in DOMAIN (s \o t) /\ (s \o t)[Len(s) + i] = t[i]
  BY DEF ListOf
<1>5. ASSUME NEW i \in DOMAIN (s \o t)
      PROVE  (s \o t)[i] \in Members(s) \cup Members(t)
  <2>1. CASE i <= Len(s)
    BY <1>5, <2>1 DEF Members, ListOf
  <2>2. CASE i > Len(s)
    <3>1. i - Len(s) \in DOMAIN t /\ (s \o t)[i] = t[i - Len(s)]
      BY <1>1, <1>5, <2>2 DEF ListOf
    <3>. QED  BY <3>1 DEF Members
  <2>. QED  BY <1>1, <1>5, <2>1, <2>2 DEF ListOf
<1>. QED  BY <1>2, <1>3, <1>4, <1>5 DEF Members

\* addFinding keeps what is there, and adds what is new while there is room.
LEMMA AddAtFacts ==
  ASSUME NEW m \in Nat, m < 64, NEW list, ListOf(list, m),
         NEW new \in Seq(Known), NEW i \in Nat
  PROVE  /\ ListOf(AddAt(list, new, i), m + 1)
         /\ Members(AddAt(list, new, i)) =
              Members(list) \cup (IF i \in DOMAIN new THEN {new[i]} ELSE {})
<1>0. list \in Seq(Known) /\ Len(list) <= m /\ Len(list) \in Nat
  BY DEF ListOf
<1>1. CASE i \notin DOMAIN new
  <2>1. AddAt(list, new, i) = list
    BY <1>1 DEF AddAt
  <2>. QED  BY <1>0, <1>1, <2>1 DEF ListOf
<1>2. CASE i \in DOMAIN new /\ \E j \in DOMAIN list : list[j].code = new[i].code
  <2>1. AddAt(list, new, i) = list
    BY <1>2 DEF AddAt, AddFinding
  <2>2. PICK j \in DOMAIN list : list[j].code = new[i].code
    BY <1>2
  <2>3. list[j] \in Known /\ new[i] \in Known
    BY <1>0, <1>2
  <2>4. list[j] = new[i]
    BY <2>2, <2>3, CodesAreKeys
  <2>5. new[i] \in Members(list)
    BY <2>4 DEF Members
  <2>. QED  BY <1>0, <1>2, <2>1, <2>5 DEF ListOf
<1>3. CASE i \in DOMAIN new /\ ~\E j \in DOMAIN list : list[j].code = new[i].code
  <2>1. AddAt(list, new, i) = Append(list, new[i])
    BY <1>0, <1>3 DEF AddAt, AddFinding, MaxSpecFindings
  <2>2. new[i] \in Known
    BY <1>3
  <2>3. /\ Append(list, new[i]) \in Seq(Known)
        /\ Len(Append(list, new[i])) = Len(list) + 1
    BY <1>0, <2>2
  <2>4. /\ \A j \in 1 .. Len(list) : Append(list, new[i])[j] = list[j]
        /\ Append(list, new[i])[Len(list) + 1] = new[i]
    BY <1>0, <2>2
  <2>. DEFINE longer == Append(list, new[i])
  <2>5. Members(longer) = Members(list) \cup {new[i]}
    <3>. HIDE DEF longer
    <3>1. DOMAIN longer = 1 .. Len(list) + 1 /\ DOMAIN list = 1 .. Len(list)
      BY <1>0, <2>3 DEF longer
    <3>2. \A j \in DOMAIN list : j \in DOMAIN longer /\ longer[j] = list[j]
      BY <1>0, <2>4, <3>1 DEF longer
    <3>3. Len(list) + 1 \in DOMAIN longer /\ longer[Len(list) + 1] = new[i]
      BY <1>0, <2>4, <3>1 DEF longer
    <3>4. \A j \in DOMAIN longer : j \in DOMAIN list \/ j = Len(list) + 1
      BY <1>0, <3>1
    <3>. QED  BY <3>2, <3>3, <3>4 DEF Members
  <2>. QED  BY <1>0, <1>3, <2>1, <2>3, <2>5 DEF ListOf
<1>. QED  BY <1>1, <1>2, <1>3

Three(new, i) == {new[j] : j \in DOMAIN new \cap i .. i + 2}

\* Three calls of addFinding.
LEMMA AddThreeFacts ==
  ASSUME NEW m \in Nat, m < 62, NEW list, ListOf(list, m),
         NEW new \in Seq(Known), NEW i \in Nat
  PROVE  /\ ListOf(AddThree(list, new, i), m + 3)
         /\ Members(AddThree(list, new, i)) =
              Members(list) \cup Three(new, i)
<1>. DEFINE one == AddAt(list, new, i)
            two == AddAt(one, new, i + 1)
            three == AddAt(two, new, i + 2)
<1>1. /\ ListOf(one, m + 1)
      /\ Members(one) = Members(list) \cup (IF i \in DOMAIN new THEN {new[i]} ELSE {})
  BY AddAtFacts
<1>. HIDE DEF one
<1>2. /\ ListOf(two, m + 1 + 1)
      /\ Members(two) = Members(one) \cup (IF i + 1 \in DOMAIN new THEN {new[i + 1]} ELSE {})
  BY <1>1, AddAtFacts
<1>. HIDE DEF two
<1>3. /\ ListOf(three, m + 1 + 1 + 1)
      /\ Members(three) = Members(two) \cup (IF i + 2 \in DOMAIN new THEN {new[i + 2]} ELSE {})
  BY <1>2, AddAtFacts
<1>. HIDE DEF three
<1>4. i .. i + 2 = {i, i + 1, i + 2}
  OBVIOUS
<1>5. AddThree(list, new, i) = three
  BY DEF AddThree, one, two, three
<1>6. Three(new, i) =
        (IF i \in DOMAIN new THEN {new[i]} ELSE {})
        \cup (IF i + 1 \in DOMAIN new THEN {new[i + 1]} ELSE {})
        \cup (IF i + 2 \in DOMAIN new THEN {new[i + 2]} ELSE {})
  BY <1>4 DEF Three
<1>7. ListOf(three, m + 3)
  BY <1>3
<1>. QED  BY <1>1, <1>2, <1>3, <1>5, <1>6, <1>7

\* All the calls of a step lose nothing (specsmith.go:546-556).
LEMMA AddFindingsFacts ==
  ASSUME NEW m \in Nat, m <= 52, NEW list, ListOf(list, m),
         NEW new, ListOf(new, 12)
  PROVE  /\ ListOf(AddFindings(list, new), m + 12)
         /\ Members(AddFindings(list, new)) = Members(list) \cup Members(new)
<1>. DEFINE a == AddThree(list, new, 1)
            b == AddThree(a, new, 4)
            c == AddThree(b, new, 7)
            d == AddThree(c, new, 10)
<1>0. new \in Seq(Known) /\ Len(new) <= 12
  BY DEF ListOf
<1>8. \A l : \A n, i \in Nat : n < 62 /\ ListOf(l, n) =>
        ListOf(AddThree(l, new, i), n + 3) /\ Members(AddThree(l, new, i)) = Members(l) \cup Three(new, i)
  BY <1>0, AddThreeFacts
<1>1. ListOf(a, m + 3) /\ Members(a) = Members(list) \cup Three(new, 1)
  BY <1>8
<1>. HIDE DEF a
<1>2. ListOf(b, m + 6) /\ Members(b) = Members(a) \cup Three(new, 4)
  <2>1. m + 3 \in Nat /\ m + 3 < 62 /\ (m + 3) + 3 = m + 6
    OBVIOUS
  <2>. QED  BY <1>1, <1>8, <2>1
<1>. HIDE DEF b
<1>3. ListOf(c, m + 9) /\ Members(c) = Members(b) \cup Three(new, 7)
  <2>1. m + 6 \in Nat /\ m + 6 < 62 /\ (m + 6) + 3 = m + 9
    OBVIOUS
  <2>. QED  BY <1>2, <1>8, <2>1
<1>. HIDE DEF c
<1>4. ListOf(d, m + 12) /\ Members(d) = Members(c) \cup Three(new, 10)
  <2>1. m + 9 \in Nat /\ m + 9 < 62 /\ (m + 9) + 3 = m + 12
    OBVIOUS
  <2>. QED  BY <1>3, <1>8, <2>1
<1>. HIDE DEF d
<1>5. AddFindings(list, new) = d
  BY DEF AddFindings, a, b, c, d
<1>6. Members(new) = Three(new, 1) \cup Three(new, 4) \cup Three(new, 7) \cup Three(new, 10)
  <2>1. \A j \in DOMAIN new : j \in 1 .. 3 \/ j \in 4 .. 6 \/ j \in 7 .. 9 \/ j \in 10 .. 12
    BY <1>0
  <2>. QED  BY <2>1 DEF Members, Three
<1>. QED  BY <1>1, <1>2, <1>3, <1>4, <1>5, <1>6

\* Seven conditions, each with its finding or none.
LEMMA SevenFacts ==
  ASSUME NEW a, NEW b, NEW c, NEW d, NEW e, NEW f, NEW g,
         \A part \in {a, b, c, d, e, f, g} : ListOf(part, 1)
  PROVE  /\ ListOf(a \o b \o c \o d \o e \o f \o g, 7)
         /\ Members(a \o b \o c \o d \o e \o f \o g) =
              UNION {Members(part) : part \in {a, b, c, d, e, f, g}}
<1>1. \A s, t : \A m, n \in Nat : ListOf(s, m) /\ ListOf(t, n) =>
        ListOf(s \o t, m + n) /\ Members(s \o t) = Members(s) \cup Members(t)
  BY ConcatFacts
<1>. DEFINE two == a \o b
            three == two \o c
            four == three \o d
            five == four \o e
            six == five \o f
            seven == six \o g
<1>2. ListOf(two, 2) /\ Members(two) = Members(a) \cup Members(b)
  BY <1>1, 1 + 1 = 2
<1>. HIDE DEF two
<1>3. ListOf(three, 3) /\ Members(three) = Members(two) \cup Members(c)
  BY <1>1, <1>2, 2 + 1 = 3
<1>. HIDE DEF three
<1>4. ListOf(four, 4) /\ Members(four) = Members(three) \cup Members(d)
  BY <1>1, <1>3, 3 + 1 = 4
<1>. HIDE DEF four
<1>5. ListOf(five, 5) /\ Members(five) = Members(four) \cup Members(e)
  BY <1>1, <1>4, 4 + 1 = 5
<1>. HIDE DEF five
<1>6. ListOf(six, 6) /\ Members(six) = Members(five) \cup Members(f)
  BY <1>1, <1>5, 5 + 1 = 6
<1>. HIDE DEF six
<1>7. ListOf(seven, 7) /\ Members(seven) = Members(six) \cup Members(g)
  BY <1>1, <1>6, 6 + 1 = 7
<1>. HIDE DEF seven
<1>8. UNION {Members(part) : part \in {a, b, c, d, e, f, g}} =
        Members(a) \cup Members(b) \cup Members(c) \cup Members(d)
        \cup Members(e) \cup Members(f) \cup Members(g)
  OBVIOUS
<1>9. Members(seven) = Members(a) \cup Members(b) \cup Members(c) \cup Members(d)
                       \cup Members(e) \cup Members(f) \cup Members(g)
  BY <1>2, <1>3, <1>4, <1>5, <1>6, <1>7
<1>. QED  BY <1>7, <1>8, <1>9 DEF two, three, four, five, six, seven

\* No error and no warning among them.
Harmless(set) == \A f \in set : f.severity \notin {"error", "warning"}

\* A condition that raises an error or a warning is not met in a harmless list.
LEMMA HarmlessWhen ==
  ASSUME NEW code
  PROVE  /\ ~Harmless({Error(code)}) /\ ~Harmless({Warning(code)})
  BY DEF Harmless, Error, Warning, Finding

\* An OpenAPI document without an error or a warning has the operation, with the
\* schemas that the contract needs (specsmith.go:126-184).
LEMMA OpenAPIFindingsFacts ==
  ASSUME NEW doc \in OpenAPIDocs
  PROVE  /\ ListOf(OpenAPIFindings(doc), 7)
         /\ Harmless(Members(OpenAPIFindings(doc))) =>
              /\ doc.outline = "operation"
              /\ Facts(doc.operation).concreteRequest
              /\ Facts(doc.operation).concreteResponse
<1>1. CASE doc.outline = "operation"
  <2>. DEFINE facts == Facts(doc.operation)
              a == When(~facts.summary, Warning("summary_missing"))
              b == When(~facts.requestSchema, Error("request_schema_missing"))
              c == When(facts.requestSchema /\ ~facts.concreteRequest,
                        Warning("request_schema_generic"))
              d == When(RequiresInput /\ ~facts.requestExample, Info("request_example_missing"))
              e == When(~facts.responseSchema, Warning("response_schema_missing"))
              f == When(facts.responseSchema /\ ~facts.concreteResponse,
                        Warning("response_schema_generic"))
              g == When(~facts.responseExample, Info("response_example_missing"))
              all == OpenAPIFindings(doc)
  <2>. HIDE DEF facts
  <2>1. all = a \o b \o c \o d \o e \o f \o g
    BY <1>1 DEF OpenAPIFindings, OperationFindings, OpenAPIFacts, facts
  <2>2. /\ Warning("summary_missing") \in Known /\ Error("request_schema_missing") \in Known
        /\ Warning("request_schema_generic") \in Known
        /\ Info("request_example_missing") \in Known
        /\ Warning("response_schema_missing") \in Known
        /\ Warning("response_schema_generic") \in Known
        /\ Info("response_example_missing") \in Known
    BY KnownFindings DEF ErrorCodes, WarningCodes, InfoCodes
  <2>3. /\ ListOf(a, 1) /\ ListOf(b, 1) /\ ListOf(c, 1) /\ ListOf(d, 1)
        /\ ListOf(e, 1) /\ ListOf(f, 1) /\ ListOf(g, 1)
    BY <2>2, WhenFacts
  <2>4. /\ Members(b) = IF ~facts.requestSchema THEN {Error("request_schema_missing")} ELSE {}
        /\ Members(c) = IF facts.requestSchema /\ ~facts.concreteRequest
                        THEN {Warning("request_schema_generic")} ELSE {}
        /\ Members(e) = IF ~facts.responseSchema THEN {Warning("response_schema_missing")} ELSE {}
        /\ Members(f) = IF facts.responseSchema /\ ~facts.concreteResponse
                        THEN {Warning("response_schema_generic")} ELSE {}
    BY <2>2, WhenFacts
  <2>. HIDE DEF a, b, c, d, e, f, g, all
  <2>5. /\ ListOf(all, 7)
        /\ Members(all) = UNION {Members(part) : part \in {a, b, c, d, e, f, g}}
    BY <2>1, <2>3, SevenFacts
  <2>6. ASSUME Harmless(Members(all)) PROVE facts.concreteRequest /\ facts.concreteResponse
    <3>1. Harmless(Members(b)) /\ Harmless(Members(c)) /\ Harmless(Members(e)) /\ Harmless(Members(f))
      BY <2>5, <2>6 DEF Harmless
    <3>. QED  BY <2>4, <3>1, HarmlessWhen
  <2>. QED  BY <1>1, <2>5, <2>6 DEF facts, all
<1>2. CASE doc.outline # "operation"
  <2>. DEFINE a == When(doc.outline = "unavailable", Warning("openapi_missing"))
              b == When(doc.outline = "truncated", Error("openapi_too_large"))
              c == When(doc.outline = "garbage", Error("openapi_invalid"))
              d == When(doc.outline = "otherVersion", Error("openapi_version"))
              e == When(doc.outline = "noPaths", Error("openapi_paths_missing"))
              f == When(doc.outline = "noPath", Error("operation_missing"))
              g == When(doc.outline = "noMethod", Error("method_missing"))
              all == OpenAPIFindings(doc)
  <2>1. all = a \o b \o c \o d \o e \o f \o g
    BY <1>2 DEF OpenAPIFindings, OutlineFindings
  <2>2. /\ Warning("openapi_missing") \in Known /\ Error("openapi_too_large") \in Known
        /\ Error("openapi_invalid") \in Known /\ Error("openapi_version") \in Known
        /\ Error("openapi_paths_missing") \in Known /\ Error("operation_missing") \in Known
        /\ Error("method_missing") \in Known
    BY KnownFindings DEF ErrorCodes, WarningCodes
  <2>3. /\ ListOf(a, 1) /\ ListOf(b, 1) /\ ListOf(c, 1) /\ ListOf(d, 1)
        /\ ListOf(e, 1) /\ ListOf(f, 1) /\ ListOf(g, 1)
    BY <2>2, WhenFacts
  <2>4. /\ Members(a) = IF doc.outline = "unavailable" THEN {Warning("openapi_missing")} ELSE {}
        /\ Members(b) = IF doc.outline = "truncated" THEN {Error("openapi_too_large")} ELSE {}
        /\ Members(c) = IF doc.outline = "garbage" THEN {Error("openapi_invalid")} ELSE {}
        /\ Members(d) = IF doc.outline = "otherVersion" THEN {Error("openapi_version")} ELSE {}
        /\ Members(e) = IF doc.outline = "noPaths" THEN {Error("openapi_paths_missing")} ELSE {}
        /\ Members(f) = IF doc.outline = "noPath" THEN {Error("operation_missing")} ELSE {}
        /\ Members(g) = IF doc.outline = "noMethod" THEN {Error("method_missing")} ELSE {}
    BY <2>2, WhenFacts
  <2>. HIDE DEF a, b, c, d, e, f, g, all
  <2>5. /\ ListOf(all, 7)
        /\ Members(all) = UNION {Members(part) : part \in {a, b, c, d, e, f, g}}
    BY <2>1, <2>3, SevenFacts
  <2>6. ~Harmless(Members(all))
    <3>1. doc.outline \in Outlines \ {"operation"}
      BY <1>2, ReviewAssumption
    <3>2. \E part \in {a, b, c, d, e, f, g} : ~Harmless(Members(part))
      BY <2>4, <3>1, HarmlessWhen DEF Outlines
    <3>. QED  BY <2>5, <3>2 DEF Harmless
  <2>. QED  BY <2>5, <2>6 DEF all
<1>. QED  BY <1>1, <1>2

\* The other two documents raise known findings, and few (specsmith.go:383-435).
LEMMA OtherFindings ==
  /\ \A doc : ListOf(RegistrationFindings(doc), 3)
  /\ \A doc : ListOf(SkillFindings(doc), 2)
<1>1. /\ Info("agent_registration_missing") \in Known
      /\ Warning("agent_registration_invalid") \in Known
      /\ Warning("agent_registration_inactive") \in Known
      /\ Warning("service_not_registered") \in Known
      /\ Info("agent_id_missing") \in Known
      /\ Info("skill_document_missing") \in Known
      /\ Warning("skill_document_invalid") \in Known
  BY KnownFindings DEF WarningCodes, InfoCodes
<1>2. \A finding \in Known : ListOf(<<finding>>, 3)
  BY DEF ListOf
<1>3. ASSUME NEW doc PROVE ListOf(RegistrationFindings(doc), 3)
  <2>. DEFINE a == When(~doc.active, Warning("agent_registration_inactive"))
              b == When(~doc.covers, Warning("service_not_registered"))
              c == When(~doc.identified, Info("agent_id_missing"))
  <2>1. ListOf(a, 1) /\ ListOf(b, 1) /\ ListOf(c, 1)
    BY <1>1, WhenFacts
  <2>2. \/ RegistrationFindings(doc) = <<Info("agent_registration_missing")>>
        \/ RegistrationFindings(doc) = <<Warning("agent_registration_invalid")>>
        \/ RegistrationFindings(doc) = a \o b \o c
    BY DEF RegistrationFindings
  <2>. HIDE DEF a, b, c
  <2>3. ListOf(a \o b, 2)
    BY <2>1, ConcatFacts, 1 + 1 = 2
  <2>4. ListOf((a \o b) \o c, 3)
    BY <2>1, <2>3, ConcatFacts, 2 + 1 = 3
  <2>. QED  BY <1>1, <1>2, <2>2, <2>4
<1>4. ASSUME NEW doc PROVE ListOf(SkillFindings(doc), 2)
  <2>. DEFINE a == When(doc = "missing", Info("skill_document_missing"))
              b == When(doc = "unusable", Warning("skill_document_invalid"))
  <2>1. ListOf(a, 1) /\ ListOf(b, 1)
    BY <1>1, WhenFacts
  <2>2. SkillFindings(doc) = a \o b
    BY DEF SkillFindings
  <2>. HIDE DEF a, b
  <2>. QED  BY <2>1, <2>2, ConcatFacts, 1 + 1 = 2
<1>. QED  BY <1>3, <1>4

\* A challenge without an error or a warning names the target and describes its input
\* (specsmith.go:466-499).
LEMMA ChallengeFacts ==
  ASSUME NEW challenge \in ChallengeType
  PROVE  /\ ListOf(ChallengeFindings(challenge), 7)
         /\ Harmless(Members(ChallengeFindings(challenge))) =>
              /\ challenge.resource = "match" /\ challenge.bazaar
              /\ target.method = "POST" => challenge.input
<1>. DEFINE a == When(challenge.resource = "missing", Warning("challenge_resource_missing"))
            b == When(challenge.resource = "malformed", Error("challenge_resource_invalid"))
            c == When(challenge.resource = "insecure", Error("challenge_resource_insecure"))
            d == When(challenge.resource = "mismatch", Error("challenge_resource_mismatch"))
            e == When(~challenge.bazaar, Warning("bazaar_extension_missing"))
            f == When(challenge.bazaar /\ target.method = "POST" /\ ~challenge.input,
                      Warning("bazaar_input_missing"))
            g == When(challenge.bazaar /\ ~challenge.output, Info("bazaar_output_missing"))
            all == ChallengeFindings(challenge)
<1>1. all = a \o b \o c \o d \o e \o f \o g
  BY DEF ChallengeFindings
<1>2. /\ Warning("challenge_resource_missing") \in Known
      /\ Error("challenge_resource_invalid") \in Known
      /\ Error("challenge_resource_insecure") \in Known
      /\ Error("challenge_resource_mismatch") \in Known
      /\ Warning("bazaar_extension_missing") \in Known
      /\ Warning("bazaar_input_missing") \in Known
      /\ Info("bazaar_output_missing") \in Known
  BY KnownFindings DEF ErrorCodes, WarningCodes, InfoCodes
<1>3. /\ ListOf(a, 1) /\ ListOf(b, 1) /\ ListOf(c, 1) /\ ListOf(d, 1)
      /\ ListOf(e, 1) /\ ListOf(f, 1) /\ ListOf(g, 1)
  BY <1>2, WhenFacts
<1>4. /\ Members(a) = IF challenge.resource = "missing"
                      THEN {Warning("challenge_resource_missing")} ELSE {}
      /\ Members(b) = IF challenge.resource = "malformed"
                      THEN {Error("challenge_resource_invalid")} ELSE {}
      /\ Members(c) = IF challenge.resource = "insecure"
                      THEN {Error("challenge_resource_insecure")} ELSE {}
      /\ Members(d) = IF challenge.resource = "mismatch"
                      THEN {Error("challenge_resource_mismatch")} ELSE {}
      /\ Members(e) = IF ~challenge.bazaar
                      THEN {Warning("bazaar_extension_missing")} ELSE {}
      /\ Members(f) = IF challenge.bazaar /\ target.method = "POST" /\ ~challenge.input
                      THEN {Warning("bazaar_input_missing")} ELSE {}
  BY <1>2, WhenFacts
<1>. HIDE DEF a, b, c, d, e, f, g, all
<1>5. /\ ListOf(all, 7)
      /\ Members(all) = UNION {Members(part) : part \in {a, b, c, d, e, f, g}}
  BY <1>1, <1>3, SevenFacts
<1>6. ASSUME Harmless(Members(all))
      PROVE  /\ challenge.resource = "match" /\ challenge.bazaar
             /\ target.method = "POST" => challenge.input
  <2>1. /\ Harmless(Members(a)) /\ Harmless(Members(b)) /\ Harmless(Members(c))
        /\ Harmless(Members(d)) /\ Harmless(Members(e)) /\ Harmless(Members(f))
    BY <1>5, <1>6 DEF Harmless
  <2>2. challenge.resource \in Resources
    BY DEF ChallengeType
  <2>3. challenge.resource = "match"
    BY <1>4, <2>1, <2>2, HarmlessWhen DEF Resources
  <2>. QED  BY <1>4, <2>1, <2>3, HarmlessWhen
<1>. QED  BY <1>5, <1>6 DEF all

-----------------------------------------------------------------------------
(* The review *)

AnyDoc == OpenAPIDocs \cup RegistrationDocs \cup SkillDocs

\* As many documents as were fetched, the OpenAPI document first.
DocsOK ==
  /\ stage \in 0 .. 5
  /\ docs \in Seq(AnyDoc)
  /\ Len(docs) = IF stage < 3 THEN stage ELSE 3
  /\ stage >= 1 => docs[1] \in OpenAPIDocs

\* There is room for what is still to come, and nothing is missing.
FindingsOK ==
  /\ findings \in Seq(Known)
  /\ stage < 4 => findings = << >>
  /\ stage < 5 => Len(findings) <= 12
  /\ Len(findings) <= MaxSpecFindings
  /\ NothingDropped

\* Documents that raise neither an error nor a warning are worth a contract.
ReadyOK ==
  /\ stage = 4 /\ Harmless(raised) =>
       /\ "openapi" \in valid /\ operation.found
       /\ operation.concreteRequest /\ operation.concreteResponse
  /\ stage < 5 => status = None
  /\ ReadyMeansChecked

FactsOK ==
  /\ target \in Targets
  /\ valid \subseteq {"openapi", "agent_registration", "skill"}
  /\ DOMAIN operation = DOMAIN NoFacts
  /\ operation.found => "openapi" \in valid
  /\ operation.concreteRequest => operation.requestSchema /\ operation.found
  /\ operation.concreteResponse => operation.responseSchema /\ operation.found
  /\ live \in Challenges \cup {None}
  /\ status \in {"READY", "NEEDS_REPAIR", None}

ReviewInv == DocsOK /\ FindingsOK /\ ReadyOK /\ FactsOK /\ AgreesWithScoring

\* It holds before anything is fetched.
LEMMA InitReviewInv == Init => ReviewInv
<1>. SUFFICES ASSUME Init PROVE ReviewInv
  OBVIOUS
<1>1. DocsOK
  BY DEF Init, DocsOK
<1>2. FindingsOK
  BY DEF Init, FindingsOK, NothingDropped, MaxSpecFindings
<1>3. ReadyOK
  BY ReviewAssumption DEF Init, ReadyOK, ReadyMeansChecked
<1>4. FactsOK
  BY DEF Init, FactsOK, NoFacts
<1>5. AgreesWithScoring
  BY DEF Init, AgreesWithScoring
<1>. QED  BY <1>1, <1>2, <1>3, <1>4, <1>5 DEF ReviewInv

\* A document is one more (specsmith.go:37-39, 68-111).
LEMMA FetchReviewInv ==
  ASSUME ReviewInv, FetchOpenAPI \/ FetchRegistration \/ FetchSkill
  PROVE  ReviewInv'
<1>. USE DEF ReviewInv
<1>1. PICK doc \in AnyDoc : /\ stage \in 0 .. 2 /\ Fetch(doc)
                            /\ stage = 0 => doc \in OpenAPIDocs
  BY DEF FetchOpenAPI, FetchRegistration, FetchSkill, AnyDoc
<1>2. /\ stage' = stage + 1 /\ docs' = Append(docs, doc)
      /\ UNCHANGED <<target, valid, operation, live, findings, raised, checks, status>>
  BY <1>1 DEF Fetch
<1>3. DocsOK'
  <2>1. docs \in Seq(AnyDoc) /\ Len(docs) = stage
    BY <1>1 DEF DocsOK
  <2>2. /\ docs' \in Seq(AnyDoc) /\ Len(docs') = stage'
        /\ docs'[stage + 1] = doc
        /\ \A i \in 1 .. stage : docs'[i] = docs[i]
    BY <1>2, <2>1
  <2>3. docs'[1] \in OpenAPIDocs
    BY <1>1, <2>2 DEF DocsOK
  <2>. QED  BY <1>1, <1>2, <2>2, <2>3 DEF DocsOK
<1>4. FindingsOK'
  BY <1>1, <1>2 DEF FindingsOK, NothingDropped
<1>5. ReadyOK' /\ AgreesWithScoring'
  BY <1>1, <1>2, ReviewAssumption DEF ReadyOK, ReadyMeansChecked, AgreesWithScoring
<1>6. FactsOK'
  BY <1>2 DEF FactsOK
<1>. QED  BY <1>3, <1>4, <1>5, <1>6

\* The analysis of the three documents (specsmith.go:41-61).
LEMMA AnalyzeReviewInv ==
  ASSUME ReviewInv, Analyze
  PROVE  ReviewInv'
<1>. USE DEF ReviewInv
<1>. DEFINE first == OpenAPIFindings(docs[1])
            second == RegistrationFindings(docs[2])
            third == SkillFindings(docs[3])
            new == first \o second \o third
<1>1. /\ stage = 3 /\ stage' = 4
      /\ operation' = OpenAPIFacts(docs[1])
      /\ Raise(new)
      /\ UNCHANGED <<target, docs, live, checks, status>>
  BY DEF Analyze
<1>2. /\ "openapi" \in valid' <=> OpenAPIValid(docs[1])
      /\ valid' \subseteq {"openapi", "agent_registration", "skill"}
  <2>1. PICK read \in SUBSET (1 .. 3) :
          /\ valid' = {Kinds[i] : i \in read}
          /\ 1 \in read <=> OpenAPIValid(docs[1])
    <3>. DEFINE read == {j \in 1 .. 3 : CASE j = 1 -> OpenAPIValid(docs[1])
                                         [] j = 2 -> docs[2].available /\ docs[2].parses
                                         [] j = 3 -> docs[3] = "usable"}
    <3>1. valid' = {Kinds[i] : i \in read}
      BY DEF Analyze
    <3>2. 1 \in read <=> OpenAPIValid(docs[1])
      OBVIOUS
    <3>. HIDE DEF read
    <3>3. read \in SUBSET (1 .. 3)
      BY DEF read
    <3>. QED  BY <3>1, <3>2, <3>3
  <2>2. /\ Kinds[1] = "openapi" /\ Kinds[2] = "agent_registration" /\ Kinds[3] = "skill"
    BY DEF Kinds
  <2>3. \A i \in 1 .. 3 : i = 1 \/ i = 2 \/ i = 3
    OBVIOUS
  <2>. QED  BY <2>1, <2>2, <2>3
<1>3. docs[1] \in OpenAPIDocs
  BY <1>1 DEF DocsOK
<1>4. ListOf(first, 7) /\ ListOf(second, 3) /\ ListOf(third, 2)
  BY <1>3, OpenAPIFindingsFacts, OtherFindings
<1>. HIDE DEF first, second, third
<1>5. ListOf(new, 12) /\ Members(first) \subseteq Members(new)
  <2>1. ListOf(first \o second, 10)
        /\ Members(first \o second) = Members(first) \cup Members(second)
    BY <1>4, ConcatFacts, 7 + 3 = 10
  <2>2. ListOf((first \o second) \o third, 12)
        /\ Members((first \o second) \o third) = Members(first \o second) \cup Members(third)
    BY <1>4, <2>1, ConcatFacts, 10 + 2 = 12
  <2>. QED  BY <2>1, <2>2
<1>. HIDE DEF new
<1>6. /\ findings' = AddFindings(findings, new)
      /\ raised' = raised \cup Members(new)
  BY <1>1 DEF Raise, Members
<1>7. /\ ListOf(findings', 12)
      /\ Members(findings') = Members(findings) \cup Members(new)
  <2>1. ListOf(findings, 0)
    BY <1>1 DEF FindingsOK, ListOf
  <2>. QED  BY <1>5, <1>6, <2>1, AddFindingsFacts, 0 + 12 = 12
<1>8. FindingsOK'
  <2>1. raised' = Members(findings')
    BY <1>6, <1>7 DEF FindingsOK, NothingDropped, Members
  <2>. QED  BY <1>1, <1>7, <2>1 DEF FindingsOK, NothingDropped, Members, ListOf, MaxSpecFindings
<1>9. DocsOK'
  BY <1>1 DEF DocsOK
<1>10. FactsOK'
  <2>1. \A op : LET facts == Facts(op) IN
          /\ DOMAIN facts = DOMAIN NoFacts /\ facts.found
          /\ facts.concreteRequest => facts.requestSchema
          /\ facts.concreteResponse => facts.responseSchema
    BY DEF Facts, NoFacts
  <2>2. CASE docs[1].outline = "operation"
    <3>1. operation' = Facts(docs[1].operation) /\ "openapi" \in valid'
      BY <1>1, <1>2, <2>2 DEF OpenAPIFacts, OpenAPIValid
    <3>. QED  BY <1>1, <1>2, <2>1, <3>1 DEF FactsOK
  <2>3. CASE docs[1].outline # "operation"
    <3>1. operation' = NoFacts
      BY <1>1, <2>3 DEF OpenAPIFacts
    <3>. QED  BY <1>1, <1>2, <3>1 DEF FactsOK, NoFacts
  <2>. QED  BY <2>2, <2>3
<1>11. ReadyOK'
  <2>1. ASSUME Harmless(raised')
        PROVE  /\ "openapi" \in valid' /\ operation'.found
               /\ operation'.concreteRequest /\ operation'.concreteResponse
    <3>1. Harmless(Members(first))
      BY <1>5, <1>6, <2>1 DEF Harmless
    <3>2. /\ docs[1].outline = "operation"
          /\ Facts(docs[1].operation).concreteRequest
          /\ Facts(docs[1].operation).concreteResponse
      BY <1>3, <3>1, OpenAPIFindingsFacts DEF first
    <3>3. operation' = Facts(docs[1].operation) /\ Facts(docs[1].operation).found
      BY <1>1, <3>2 DEF OpenAPIFacts, Facts
    <3>. QED  BY <1>2, <3>2, <3>3 DEF OpenAPIValid
  <2>. QED  BY <1>1, <2>1, ReviewAssumption DEF ReadyOK, ReadyMeansChecked
<1>12. AgreesWithScoring'
  BY <1>1 DEF AgreesWithScoring
<1>. QED  BY <1>8, <1>9, <1>10, <1>11, <1>12

\* The comparison with the live challenge, and the end of the review
\* (specsmith.go:437-464).
LEMMA FinalizeReviewInv ==
  ASSUME ReviewInv, Finalize
  PROVE  ReviewInv'
<1>. USE DEF ReviewInv
<1>. DEFINE new == IF live' = None THEN <<Info("challenge_metadata_unavailable")>>
                   ELSE ChallengeFindings(live')
<1>1. /\ stage = 4 /\ stage' = 5 /\ live' \in Challenges
      /\ Raise(new)
      /\ UNCHANGED <<target, docs, valid, operation>>
  BY DEF Finalize
<1>2. status' = IF Severe(findings') THEN "NEEDS_REPAIR" ELSE "READY"
  BY DEF Finalize
<1>3. checks' =
       <<IF "openapi" \in valid /\ operation.found
           THEN Passed("service_discovery") ELSE Warned("service_discovery"),
         IF ContractKept(live')
           THEN Passed("request_contract") ELSE Warned("request_contract")>>
  BY DEF Finalize
<1>4. live' # None => live' \in ChallengeType
  BY <1>1, ReviewAssumption
<1>5. ListOf(new, 12)
  <2>1. CASE live' = None
    <3>1. Info("challenge_metadata_unavailable") \in Known
      BY KnownFindings DEF InfoCodes
    <3>. QED  BY <2>1, <3>1 DEF ListOf
  <2>2. CASE live' # None
    <3>1. ListOf(ChallengeFindings(live'), 7)
      BY <1>4, <2>2, ChallengeFacts
    <3>. QED  BY <2>2, <3>1 DEF ListOf
  <2>. QED  BY <2>1, <2>2
<1>. HIDE DEF new
<1>6. /\ findings' = AddFindings(findings, new)
      /\ raised' = raised \cup Members(new)
  BY <1>1 DEF Raise, Members
<1>7. /\ ListOf(findings', 24)
      /\ Members(findings') = Members(findings) \cup Members(new)
  <2>1. ListOf(findings, 12)
    BY <1>1 DEF FindingsOK, ListOf
  <2>. QED  BY <1>5, <1>6, <2>1, AddFindingsFacts, 12 + 12 = 24
<1>8. raised' = Members(findings')
  BY <1>6, <1>7 DEF FindingsOK, NothingDropped, Members
<1>9. FindingsOK'
  BY <1>1, <1>7, <1>8 DEF FindingsOK, NothingDropped, Members, ListOf, MaxSpecFindings
<1>10. DocsOK'
  BY <1>1 DEF DocsOK
<1>11. FactsOK'
  BY <1>1, <1>2 DEF FactsOK
<1>12. ReadyOK'
  <2>. SUFFICES ASSUME status' = "READY", live' # None
                PROVE  \A i \in 1 .. 2 : checks'[i].status = "pass"
    BY <1>1 DEF ReadyOK, ReadyMeansChecked
  <2>1. Harmless(raised')
    BY <1>2, <1>8 DEF Harmless, Severe, Members
  <2>2. Harmless(raised) /\ Harmless(Members(ChallengeFindings(live')))
    BY <1>6, <2>1 DEF Harmless, new
  <2>3. /\ "openapi" \in valid /\ operation.found
        /\ operation.concreteRequest /\ operation.concreteResponse
    BY <1>1, <2>2 DEF ReadyOK
  <2>4. ContractKept(live')
    BY <1>4, <2>2, <2>3, ChallengeFacts DEF ContractKept
  <2>5. checks' = <<Passed("service_discovery"), Passed("request_contract")>>
    BY <1>3, <2>3, <2>4
  <2>. QED  BY <2>5 DEF Passed, Check
<1>13. AgreesWithScoring'
  <2>. DEFINE inspection == [discovery |-> "openapi" \in valid /\ operation.found,
                             schemas |-> operation.concreteRequest /\ operation.concreteResponse]
              terms == IF live' = None THEN None
                       ELSE [matches |-> live'.resource = "match",
                             bazaar |-> IF ~live'.bazaar THEN "none"
                                        ELSE IF live'.input THEN "input" ELSE "declared"]
  <2>1. inspection.schemas => inspection.discovery
    BY DEF FactsOK
  <2>2. live' # None => terms # None
    <3>1. live' # None => terms \in [matches : BOOLEAN, bazaar : BazaarKinds]
      BY DEF BazaarKinds
    <3>. QED  BY <3>1, ReviewAssumption
  <2>3. ContractReady(inspection, terms, target.method) <=> ContractKept(live')
    BY <2>2 DEF ContractReady, ContractKept
  <2>4. checks' = SpecChecks(inspection, terms, target.method)
    BY <1>3, <2>3 DEF SpecChecks
  <2>. QED  BY <1>1, <2>1, <2>4 DEF AgreesWithScoring
<1>. QED  BY <1>9, <1>10, <1>11, <1>12, <1>13

\* Every step of a review keeps the invariant.
LEMMA NextReviewInv == ReviewInv /\ [Next]_vars => ReviewInv'
<1>. SUFFICES ASSUME ReviewInv, [Next]_vars PROVE ReviewInv'
  OBVIOUS
<1>1. CASE UNCHANGED vars
  BY <1>1 DEF vars, ReviewInv, DocsOK, FindingsOK, ReadyOK, FactsOK, AgreesWithScoring,
              ReadyMeansChecked, NothingDropped
<1>. QED  BY <1>1, FetchReviewInv, AnalyzeReviewInv, FinalizeReviewInv DEF Next

\* It holds all through a review.
LEMMA AlwaysReviewInv == Spec => []ReviewInv
<1>. QED  BY InitReviewInv, NextReviewInv, PTL DEF Spec

\* Every variable keeps its type, and facts come only of an operation that was found
\* in a valid document (specsmith.go:126-184).
THEOREM ReviewTypeCorrect == Spec => []TypeOK
<1>1. ReviewInv => TypeOK
  BY DEF ReviewInv, DocsOK, FindingsOK, FactsOK, TypeOK
<1>. QED  BY <1>1, AlwaysReviewInv, PTL

\* No finding is lost, whatever the documents and the challenge show
\* (specsmith.go:546-556).
THEOREM NothingIsDropped == Spec => []NothingDropped
<1>1. ReviewInv => NothingDropped
  BY DEF ReviewInv, FindingsOK
<1>. QED  BY <1>1, AlwaysReviewInv, PTL

\* READY means that both checks pass, when there is a challenge to compare
\* (specsmith.go:443-463).
THEOREM ReadyIsChecked == Spec => []ReadyMeansChecked
<1>1. ReviewInv => ReadyMeansChecked
  BY DEF ReviewInv, ReadyOK
<1>. QED  BY <1>1, AlwaysReviewInv, PTL

\* The audit makes the same checks of what it is told (specsmith.go:450-463).
THEOREM ScoringAgrees == Spec => []AgreesWithScoring
<1>1. ReviewInv => AgreesWithScoring
  BY DEF ReviewInv
<1>. QED  BY <1>1, AlwaysReviewInv, PTL

-----------------------------------------------------------------------------
(* Levels *)

\* A set of natural numbers has a least element: what every induction below comes down to.
LEMMA Least ==
  ASSUME NEW T \in SUBSET Nat, T # {}
  PROVE  \E n \in T : \A m \in T : n <= m
<1>1. \E n \in T : \A m \in T : ~(<<m, n>> \in OpToRel(<, Nat))
  BY NatLessThanWellFounded, WFMin, Zenon
<1>2. PICK n \in T : \A m \in T : ~(<<m, n>> \in OpToRel(<, Nat))
  BY <1>1
<1>3. \A m \in T : <<m, n>> \notin {ss \in Nat \X Nat : ss[1] < ss[2]}
  BY <1>2 DEF OpToRel
<1>4. ASSUME NEW m \in T PROVE n <= m
  <2>1. m \in Nat /\ n \in Nat
    OBVIOUS
  <2>2. ~(m < n)
    BY <1>3, <2>1
  <2>. QED  BY <2>1, <2>2
<1>. QED  BY <1>2, <1>4

\* A set of natural numbers that has 0 and all successors is Nat; the form in which an
\* induction on the levels is used.
LEMMA EveryLevel ==
  ASSUME NEW L \in SUBSET Nat, 0 \in L, \A n \in L : n + 1 \in L
  PROVE  L = Nat
<1>. DEFINE T == Nat \ L
<1>. SUFFICES ASSUME T # {} PROVE FALSE
  OBVIOUS
<1>1. PICK m \in T : \A k \in T : m <= k
  BY Least
<1>2. m \in Nat /\ m # 0
  OBVIOUS
<1>3. m - 1 \in Nat /\ m - 1 \notin T
  BY <1>1, <1>2
<1>4. m - 1 \in L /\ (m - 1) + 1 \in L
  BY <1>3
<1>. QED  BY <1>4

\* A start and numbered steps, with the set that the results of each are in.
Steps(S, start, F) == start \in S[0] /\ \A n \in Nat : F[n + 1] \in [S[n] -> S[n + 1]]

\* The sequence of their results.
Results(h, S, start, F) ==
  /\ h = [n \in Nat |-> IF n = 0 THEN start ELSE F[n][h[n - 1]]]
  /\ \A n \in Nat : h[n] \in S[n]

\* Steps have results: what justifies a recursive function on the natural numbers.
LEMMA Iterates ==
  ASSUME NEW S, NEW start, NEW F, Steps(S, start, F)
  PROVE  \E h : Results(h, S, start, F)
<1>. USE DEF Steps
<1>. DEFINE UpTo(n, g) ==
       /\ g = [i \in 0 .. n |-> g[i]] /\ g[0] = start
       /\ \A i \in 0 .. n : g[i] \in S[i]
       /\ \A i \in 0 .. n - 1 : g[i + 1] = F[i + 1][g[i]]
<1>1. ASSUME NEW n \in Nat, NEW g, UpTo(n, g) PROVE \E k : UpTo(n + 1, k)
  <2>. DEFINE k == [i \in 0 .. n + 1 |-> IF i = n + 1 THEN F[n + 1][g[n]] ELSE g[i]]
  <2>1. F[n + 1][g[n]] \in S[n + 1]
    <3>1. g[n] \in S[n]
      BY <1>1
    <3>. QED  BY <3>1
  <2>2. \A i \in 0 .. n : k[i] = g[i]
    OBVIOUS
  <2>3. k[n + 1] = F[n + 1][g[n]]
    OBVIOUS
  <2>4. k = [i \in 0 .. n + 1 |-> k[i]]
    OBVIOUS
  <2>. HIDE DEF k
  <2>5. k[0] = start
    BY <1>1, <2>2
  <2>6. \A i \in 0 .. n + 1 : i \in 0 .. n \/ i = n + 1
    OBVIOUS
  <2>7. \A i \in 0 .. n + 1 : k[i] \in S[i]
    BY <1>1, <2>1, <2>2, <2>3, <2>6
  <2>8. ASSUME NEW i \in 0 .. (n + 1) - 1 PROVE k[i + 1] = F[i + 1][k[i]]
    <3>1. i \in 0 .. n /\ (i = n \/ (i \in 0 .. n - 1 /\ i + 1 \in 0 .. n))
      OBVIOUS
    <3>2. CASE i = n
      BY <2>2, <2>3, <3>1, <3>2
    <3>3. CASE i \in 0 .. n - 1 /\ i + 1 \in 0 .. n
      BY <1>1, <2>2, <3>1, <3>3
    <3>. QED  BY <3>1, <3>2, <3>3
  <2>. QED  BY <2>4, <2>5, <2>7, <2>8
<1>2. \A n \in Nat : \E g : UpTo(n, g)
  <2>. DEFINE L == {n \in Nat : \E g : UpTo(n, g)}
  <2>1. 0 \in L
    <3>1. UpTo(0, [i \in 0 .. 0 |-> start])
      OBVIOUS
    <3>. QED  BY <3>1
  <2>2. \A n \in L : n + 1 \in L
    <3>. HIDE DEF UpTo
    <3>. QED  BY <1>1
  <2>3. L \in SUBSET Nat
    OBVIOUS
  <2>. HIDE DEF L
  <2>4. L = Nat
    BY <2>1, <2>2, <2>3, EveryLevel
  <2>. QED  BY <2>4 DEF L
<1>3. ASSUME NEW n \in Nat, NEW m \in Nat, NEW g, NEW k, UpTo(n, g), UpTo(m, k), n <= m
      PROVE  \A i \in 0 .. n : g[i] = k[i]
  <2>. DEFINE L == {i \in Nat : i <= n => g[i] = k[i]}
  <2>1. 0 \in L
    BY <1>3
  <2>2. ASSUME NEW i \in L PROVE i + 1 \in L
    <3>1. CASE i + 1 <= n
      <4>1. i \in 0 .. n - 1 /\ i \in 0 .. m - 1 /\ i <= n
        <5>1. i \in Nat /\ n <= m
          BY <1>3
        <5>. QED  BY <3>1, <5>1
      <4>2. g[i] = k[i] /\ g[i + 1] = F[i + 1][g[i]] /\ k[i + 1] = F[i + 1][k[i]]
        BY <1>3, <4>1
      <4>. QED  BY <4>2
    <3>2. CASE ~(i + 1 <= n)
      BY <3>2
    <3>. QED  BY <3>1, <3>2
  <2>3. L \in SUBSET Nat
    OBVIOUS
  <2>. HIDE DEF L
  <2>4. L = Nat
    BY <2>1, <2>2, <2>3, EveryLevel
  <2>. QED  BY <2>4 DEF L
<1>. DEFINE best(n) == CHOOSE g : UpTo(n, g)
            h == [n \in Nat |-> best(n)[n]]
<1>4. \A n \in Nat : UpTo(n, best(n))
  BY <1>2
<1>. HIDE DEF best
<1>5. \A n \in Nat : h[n] \in S[n]
  BY <1>4
<1>6. ASSUME NEW n \in Nat, n # 0 PROVE h[n] = F[n][h[n - 1]]
  <2>1. n - 1 \in Nat /\ (n - 1) + 1 = n /\ n - 1 <= n /\ n - 1 \in 0 .. n - 1
    BY <1>6
  <2>2. best(n)[n - 1] = best(n - 1)[n - 1]
    <3>. HIDE DEF UpTo
    <3>. QED  BY <1>3, <1>4, <2>1
  <2>3. best(n)[n] = F[n][best(n)[n - 1]]
    BY <1>4, <2>1
  <2>. QED  BY <2>1, <2>2, <2>3
<1>7. h[0] = start
  BY <1>4
<1>8. h = [n \in Nat |-> IF n = 0 THEN start ELSE F[n][h[n - 1]]]
  <2>1. h = [n \in Nat |-> h[n]]
    OBVIOUS
  <2>. HIDE DEF h
  <2>. QED  BY <1>6, <1>7, <2>1
<1>. HIDE DEF h
<1>. QED  BY <1>5, <1>8 DEF Results

-----------------------------------------------------------------------------
(* OperationLookup *)

\* The order of paths

Positions == Nat \ {0}

\* A rank names its segment.
LEMMA RankFacts ==
  ASSUME Lookup!LookupOK, NEW s \in Lookup!Names
  PROVE  Lookup!Rank(s) \in Positions /\ Segments[Lookup!Rank(s)] = s
<1>1. DOMAIN Segments \subseteq Positions
  <2>1. Segments \in Seq(STRING)
    BY DEF Lookup!LookupOK
  <2>2. DOMAIN Segments = 1 .. Len(Segments) /\ Len(Segments) \in Nat
    BY <2>1
  <2>. QED  BY <2>2 DEF Positions
<1>2. \E i \in DOMAIN Segments : Segments[i] = s
  BY DEF Lookup!Names
<1>3. Lookup!Rank(s) \in DOMAIN Segments /\ Segments[Lookup!Rank(s)] = s
  BY <1>2, Zenon DEF Lookup!Rank
<1>. QED  BY <1>1, <1>3

\* Places are numbers: more than 1 in the segments, at most 1 behind them.
LEMMA PlaceFacts ==
  ASSUME Lookup!LookupOK, NEW p \in Lookup!Paths, NEW i \in Positions
  PROVE  /\ Lookup!Place(p, i) \in Nat
         /\ i <= Len(p.parts) => Lookup!Place(p, i) > 1
         /\ i = Len(p.parts) + 1 => Lookup!Place(p, i) = IF p.slash THEN 1 ELSE 0
         /\ i > Len(p.parts) + 1 => Lookup!Place(p, i) = 0
<1>1. Len(p.parts) \in Nat
  BY DEF Lookup!Paths
<1>2. CASE i <= Len(p.parts)
  <2>1. p.parts[i] \in Lookup!Names
    BY <1>2 DEF Positions, Lookup!Paths
  <2>2. Lookup!Rank(p.parts[i]) \in Positions
    BY <2>1, RankFacts
  <2>. QED  BY <1>1, <1>2, <2>2 DEF Positions, Lookup!Place
<1>3. CASE ~(i <= Len(p.parts))
  BY <1>1, <1>3 DEF Positions, Lookup!Place
<1>. QED  BY <1>2, <1>3

\* Paths that agree in every place are one path.
LEMMA PlacesTell ==
  ASSUME Lookup!LookupOK, NEW p \in Lookup!Paths, NEW q \in Lookup!Paths,
         \A i \in Positions : Lookup!Place(p, i) = Lookup!Place(q, i)
  PROVE  p = q
<1>1. Len(p.parts) \in Nat /\ Len(q.parts) \in Nat
  BY DEF Lookup!Paths
<1>2. ~(Len(p.parts) < Len(q.parts)) /\ ~(Len(q.parts) < Len(p.parts))
  <2>1. Len(p.parts) + 1 \in Positions /\ Len(q.parts) + 1 \in Positions
    BY <1>1 DEF Positions
  <2>2. CASE Len(p.parts) < Len(q.parts)
    <3>1. Lookup!Place(p, Len(p.parts) + 1) <= 1
      BY <2>1, PlaceFacts
    <3>2. Lookup!Place(q, Len(p.parts) + 1) > 1
      BY <1>1, <2>1, <2>2, PlaceFacts
    <3>. QED  BY <2>1, <3>1, <3>2, PlaceFacts
  <2>3. CASE Len(q.parts) < Len(p.parts)
    <3>1. Lookup!Place(q, Len(q.parts) + 1) <= 1
      BY <2>1, PlaceFacts
    <3>2. Lookup!Place(p, Len(q.parts) + 1) > 1
      BY <1>1, <2>1, <2>3, PlaceFacts
    <3>. QED  BY <2>1, <3>1, <3>2, PlaceFacts
  <2>. QED  BY <1>1, <2>2, <2>3
<1>3. Len(p.parts) = Len(q.parts)
  BY <1>1, <1>2
<1>4. ASSUME NEW i \in 1 .. Len(p.parts) PROVE p.parts[i] = q.parts[i]
  <2>1. i \in Positions /\ p.parts[i] \in Lookup!Names /\ q.parts[i] \in Lookup!Names
    BY <1>1, <1>3 DEF Positions, Lookup!Paths
  <2>2. 1 + Lookup!Rank(p.parts[i]) = 1 + Lookup!Rank(q.parts[i])
    BY <1>1, <1>3, <2>1 DEF Lookup!Place
  <2>3. Lookup!Rank(p.parts[i]) = Lookup!Rank(q.parts[i])
    BY <2>1, <2>2, RankFacts DEF Positions
  <2>. QED  BY <2>1, <2>3, RankFacts
<1>5. p.parts = q.parts
  BY <1>3, <1>4 DEF Lookup!Paths
<1>6. p.slash = q.slash
  <2>1. Len(p.parts) + 1 \in Positions
    BY <1>1 DEF Positions
  <2>. QED  BY <1>3, <2>1, PlaceFacts DEF Lookup!Paths
<1>. QED  BY <1>5, <1>6 DEF Lookup!Paths

\* Where p and q first differ.
Differs(p, q, i) ==
  /\ \A j \in 1 .. i - 1 : Lookup!Place(p, j) = Lookup!Place(q, j)
  /\ Lookup!Place(p, i) # Lookup!Place(q, i)

\* One path goes before another if its place is smaller where they first differ.
LEMMA PrecedesMeans ==
  ASSUME Lookup!LookupOK, NEW p \in Lookup!Paths, NEW q \in Lookup!Paths
  PROVE  Lookup!Precedes(p, q) <=>
           \E i \in Positions : Differs(p, q, i) /\ Lookup!Place(p, i) < Lookup!Place(q, i)
<1>1. Len(q.parts) \in Nat
  BY DEF Lookup!Paths
<1>2. ASSUME NEW i \in Positions, Lookup!Place(p, i) < Lookup!Place(q, i)
      PROVE  i \in 1 .. Len(q.parts) + 1
  <2>1. Lookup!Place(p, i) \in Nat /\ Lookup!Place(q, i) \in Nat
    BY PlaceFacts
  <2>2. Lookup!Place(q, i) # 0
    BY <1>2, <2>1
  <2>3. ~(i > Len(q.parts) + 1)
    BY <2>2, PlaceFacts
  <2>. QED  BY <1>1, <2>3 DEF Positions
<1>3. \A i \in 1 .. Len(q.parts) + 1 : i \in Positions
  BY <1>1 DEF Positions
<1>4. \A i \in Positions : Lookup!Place(p, i) < Lookup!Place(q, i) => Lookup!Place(p, i) # Lookup!Place(q, i)
  BY PlaceFacts
<1>. QED  BY <1>2, <1>3, <1>4 DEF Lookup!Precedes, Differs

\* sort.Strings puts any two paths in one order.
LEMMA PrecedesTotal ==
  ASSUME Lookup!LookupOK, NEW p \in Lookup!Paths, NEW q \in Lookup!Paths, p # q
  PROVE  Lookup!Precedes(p, q) \/ Lookup!Precedes(q, p)
<1>. DEFINE T == {i \in Positions : Lookup!Place(p, i) # Lookup!Place(q, i)}
<1>1. T # {} /\ T \in SUBSET Nat
  BY PlacesTell DEF Positions
<1>2. PICK i \in T : \A j \in T : i <= j
  <2>. HIDE DEF T
  <2>. QED  BY <1>1, Least
<1>3. Differs(p, q, i) /\ Differs(q, p, i) /\ i \in Positions
  BY <1>2 DEF Differs, Positions
<1>4. Lookup!Place(p, i) < Lookup!Place(q, i) \/ Lookup!Place(q, i) < Lookup!Place(p, i)
  BY <1>3, PlaceFacts DEF Differs
<1>. QED  BY <1>3, <1>4, PrecedesMeans

\* No path goes before itself.
LEMMA PrecedesStrict ==
  ASSUME Lookup!LookupOK, NEW p \in Lookup!Paths
  PROVE  ~Lookup!Precedes(p, p)
BY PrecedesMeans DEF Differs

\* What goes before goes before all that comes after.
LEMMA PrecedesTransitive ==
  ASSUME Lookup!LookupOK, NEW p \in Lookup!Paths, NEW q \in Lookup!Paths, NEW r \in Lookup!Paths,
         Lookup!Precedes(p, q), Lookup!Precedes(q, r)
  PROVE  Lookup!Precedes(p, r)
<1>1. PICK i \in Positions : Differs(p, q, i) /\ Lookup!Place(p, i) < Lookup!Place(q, i)
  BY PrecedesMeans
<1>2. PICK j \in Positions : Differs(q, r, j) /\ Lookup!Place(q, j) < Lookup!Place(r, j)
  BY PrecedesMeans
<1>. DEFINE k == IF i < j THEN i ELSE j
<1>3. k \in Positions /\ \A m \in 1 .. k - 1 : m \in 1 .. i - 1 /\ m \in 1 .. j - 1 /\ m \in Positions
  BY DEF Positions
<1>4. \A m \in 1 .. k - 1 : Lookup!Place(p, m) = Lookup!Place(r, m)
  BY <1>1, <1>2, <1>3 DEF Differs
<1>5. Lookup!Place(p, k) < Lookup!Place(r, k)
  <2>1. /\ Lookup!Place(p, k) \in Nat /\ Lookup!Place(q, k) \in Nat /\ Lookup!Place(r, k) \in Nat
    BY <1>3, PlaceFacts
  <2>2. CASE i < j
    <3>1. i \in 1 .. j - 1
      BY <2>2 DEF Positions
    <3>. QED  BY <1>1, <1>2, <2>1, <2>2, <3>1 DEF Differs
  <2>3. CASE j < i
    <3>1. j \in 1 .. i - 1 /\ k = j
      BY <2>3 DEF Positions
    <3>. QED  BY <1>1, <1>2, <2>1, <2>3, <3>1 DEF Differs
  <2>4. CASE i = j
    BY <1>1, <1>2, <2>1, <2>4
  <2>. QED  BY <2>2, <2>3, <2>4 DEF Positions
<1>6. Lookup!Place(p, k) # Lookup!Place(r, k)
  BY <1>3, <1>5, PlaceFacts
<1>. QED  BY <1>3, <1>4, <1>5, <1>6, PrecedesMeans DEF Differs

\* A finite set of paths has one that goes before all others, and only one.
LEMMA FirstPath ==
  ASSUME Lookup!LookupOK, NEW K \in SUBSET Lookup!Paths, IsFiniteSet(K), K # {}
  PROVE  \E k \in K : Lookup!First(K) = {k} /\ \A l \in K \ {k} : Lookup!Precedes(k, l)
<1>. DEFINE Before(k) == {l \in K : Lookup!Precedes(l, k)}
            T == {Cardinality(Before(k)) : k \in K}
<1>1. \A k \in K : IsFiniteSet(Before(k)) /\ Cardinality(Before(k)) \in Nat
  <2>1. \A k \in K : Before(k) \in SUBSET K
    OBVIOUS
  <2>. QED  BY <2>1, FS_Subset, FS_CardinalityType
<1>2. PICK k \in K : \A l \in K : Cardinality(Before(k)) <= Cardinality(Before(l))
  <2>1. T \in SUBSET Nat /\ T # {}
    BY <1>1
  <2>2. PICK n \in T : \A m \in T : n <= m
    <3>. HIDE DEF T
    <3>. QED  BY <2>1, Least
  <2>. HIDE DEF Before
  <2>. QED  BY <2>2
<1>3. ASSUME NEW l \in K \ {k} PROVE Lookup!Precedes(k, l)
  <2>. SUFFICES ASSUME Lookup!Precedes(l, k) PROVE FALSE
    BY PrecedesTotal
  <2>1. Before(l) \subseteq Before(k)
    BY PrecedesTransitive
  <2>2. l \in Before(k) /\ l \notin Before(l)
    BY PrecedesStrict
  <2>. HIDE DEF Before
  <2>3. Cardinality(Before(l)) <= Cardinality(Before(k))
        /\ (Cardinality(Before(k)) = Cardinality(Before(l)) => Before(k) = Before(l))
    BY <1>1, <2>1, FS_Subset
  <2>4. Cardinality(Before(k)) = Cardinality(Before(l))
    BY <1>1, <1>2, <2>3
  <2>. QED  BY <2>2, <2>3, <2>4
<1>4. PICK c \in K : Lookup!First(K) = {c} /\ \A l \in K \ {c} : Lookup!Precedes(c, l)
  BY <1>3 DEF Lookup!First
<1>. QED  BY <1>4

\* Only one path can go before all others.
LEMMA FirstIsOnly ==
  ASSUME Lookup!LookupOK, NEW K \in SUBSET Lookup!Paths, IsFiniteSet(K),
         NEW k \in K, \A l \in K \ {k} : Lookup!Precedes(k, l)
  PROVE  Lookup!First(K) = {k}
<1>1. PICK c \in K : Lookup!First(K) = {c} /\ \A l \in K \ {c} : Lookup!Precedes(c, l)
  BY FirstPath
<1>2. CASE c # k
  <2>1. Lookup!Precedes(c, k) /\ Lookup!Precedes(k, c)
    BY <1>1, <1>2
  <2>2. Lookup!Precedes(k, k)
    BY <2>1, PrecedesTransitive
  <2>. QED  BY <2>2, PrecedesStrict
<1>. QED  BY <1>1, <1>2

\* A path fits exactly if it stands for the target (specsmith.go:209-231).
LEMMA FitsMeans ==
  ASSUME Lookup!LookupOK, NEW k \in Lookup!Paths, NEW t \in Lookup!Paths
  PROVE  Lookup!PathTemplateMatches(k, t) <=> t.parts \in Lookup!Instances(k)
<1>1. /\ Len(k.parts) \in Nat /\ DOMAIN k.parts = 1 .. Len(k.parts)
      /\ Len(t.parts) \in Nat /\ DOMAIN t.parts = 1 .. Len(t.parts)
      /\ t.parts \in [1 .. Len(t.parts) -> Lookup!Names]
  BY DEF Lookup!Paths
<1>2. "" \notin Templated
  BY DEF Lookup!LookupOK
<1>3. ASSUME Lookup!PathTemplateMatches(k, t) PROVE t.parts \in Lookup!Instances(k)
  <2>1. Len(k.parts) = Len(t.parts)
    BY <1>3 DEF Lookup!PathTemplateMatches
  <2>2. \A i \in DOMAIN k.parts :
          IF k.parts[i] \in Templated THEN t.parts[i] # "" ELSE t.parts[i] = k.parts[i]
    BY <1>2, <1>3 DEF Lookup!PathTemplateMatches
  <2>. QED  BY <1>1, <2>1, <2>2 DEF Lookup!Instances
<1>4. ASSUME t.parts \in Lookup!Instances(k) PROVE Lookup!PathTemplateMatches(k, t)
  <2>1. DOMAIN t.parts = DOMAIN k.parts
    BY <1>4 DEF Lookup!Instances
  <2>2. Len(k.parts) = Len(t.parts)
    BY <1>1, <2>1
  <2>. QED  BY <1>4, <2>1, <2>2 DEF Lookup!Instances, Lookup!PathTemplateMatches
<1>. QED  BY <1>3, <1>4

\* Paths are added one by one, so there are finitely many.
LookupInv == Lookup!TypeOK /\ IsFiniteSet(paths)

\* A document stays one while it is extended.
LEMMA LookupTyped ==
  ASSUME Lookup!LookupOK
  PROVE  Lookup!Spec => []LookupInv
<1>. USE DEF LookupInv, Lookup!TypeOK
<1>1. Lookup!Init => LookupInv
  <2>1. IsFiniteSet({})
    BY FS_EmptySet
  <2>. QED  BY <2>1 DEF Lookup!Init
<1>2. LookupInv /\ [Lookup!Next]_Lookup!vars => LookupInv'
  <2>. SUFFICES ASSUME LookupInv, [Lookup!Next]_Lookup!vars PROVE LookupInv'
    OBVIOUS
  <2>1. ASSUME NEW key \in PathKeys, NEW object \in BOOLEAN, Lookup!AddPath(key, object)
        PROVE  LookupInv'
    <3>1. IsFiniteSet(paths \cup {[key |-> key, object |-> object]})
      BY FS_AddElement
    <3>2. paths' = paths \cup {[key |-> key, object |-> object]}
      BY <2>1 DEF Lookup!AddPath
    <3>3. IsFiniteSet(paths')
      BY <3>1, <3>2
    <3>. QED  BY <2>1, <3>2, <3>3 DEF Lookup!AddPath
  <2>2. ASSUME NEW i \in DOMAIN Codes, NEW content \in Contents, Lookup!AddResponse(Codes[i], content)
        PROVE  LookupInv'
    BY <2>2 DEF Lookup!AddResponse
  <2>3. ASSUME NEW parameter \in Parameters, Lookup!AddParameter(parameter)
        PROVE  LookupInv'
    BY <2>3 DEF Lookup!AddParameter
  <2>4. CASE UNCHANGED Lookup!vars
    BY <2>4 DEF Lookup!vars
  <2>. QED  BY <2>1, <2>2, <2>3, <2>4 DEF Lookup!Next
<1>. QED  BY <1>1, <1>2, PTL DEF Lookup!Spec

\* What the paths of a document are.
LEMMA KeysTyped ==
  ASSUME Lookup!LookupOK, LookupInv
  PROVE  /\ Lookup!Keys \in SUBSET Lookup!Paths /\ Lookup!Items \in SUBSET Lookup!Keys
         /\ IsFiniteSet(Lookup!Keys) /\ path \in Lookup!Paths
<1>1. Lookup!Keys \in SUBSET Lookup!Paths /\ Lookup!Items \in SUBSET Lookup!Keys /\ path \in Lookup!Paths
  BY DEF Lookup!LookupOK, LookupInv, Lookup!TypeOK, Lookup!Keys, Lookup!Items
<1>2. IsFiniteSet(Lookup!Keys)
  <2>. DEFINE f == [p \in paths |-> p.key]
  <2>1. f \in Surjection(paths, Lookup!Keys)
    BY DEF Surjection, Lookup!Keys
  <2>. QED  BY <2>1, FS_Surjection DEF LookupInv
<1>. QED  BY <1>1, <1>2

\* The operation is found whenever a path stands for the target, and only then, in every
\* document (specsmith.go:187-231).
THEOREM OperationIsFound == Lookup!Spec => []FindsItsPath
<1>. Lookup!LookupOK
  BY PartsAssumption
<1>1. LookupInv => FindsItsPath
  <2>. SUFFICES ASSUME LookupInv PROVE Lookup!FindsItsPath
    BY DEF FindsItsPath
  <2>. DEFINE K == {k \in Lookup!Items : Lookup!PathTemplateMatches(k, path)}
  <2>1. K \in SUBSET Lookup!Paths /\ IsFiniteSet(K)
    BY KeysTyped, FS_Subset
  <2>2. \A k \in Lookup!Items : k \in K <=> path.parts \in Lookup!Instances(k)
    BY KeysTyped, FitsMeans
  <2>3. CASE path \in Lookup!Items
    <3>1. Lookup!PathTemplateMatches(path, path)
      BY DEF Lookup!PathTemplateMatches
    <3>. QED  BY <2>2, <2>3, <3>1 DEF Lookup!FindOpenAPIPath, Lookup!FindsItsPath
  <2>4. CASE path \notin Lookup!Items /\ K = {}
    BY <2>2, <2>4 DEF Lookup!FindOpenAPIPath, Lookup!FindsItsPath, Lookup!First
  <2>5. CASE path \notin Lookup!Items /\ K # {}
    <3>1. PICK k \in K : Lookup!First(K) = {k}
      <4>. HIDE DEF K
      <4>. QED  BY <2>1, <2>5, FirstPath
    <3>2. Lookup!FindOpenAPIPath = {k}
      BY <2>5, <3>1 DEF Lookup!FindOpenAPIPath
    <3>. QED  BY <2>2, <2>5, <3>2 DEF Lookup!FindsItsPath
  <2>. QED  BY <2>3, <2>4, <2>5
<1>. QED  BY <1>1, LookupTyped, PTL

\* Which operation is found depends on no other entry, in every document and whatever is
\* added to it (specsmith.go:194-204).
THEOREM OthersNeverDecide == Lookup!Spec => OthersDecideNothing
<1>. Lookup!LookupOK
  BY PartsAssumption
<1>1. LookupInv /\ LookupInv' /\ [Lookup!Next]_Lookup!vars =>
        (Lookup!FindOpenAPIPath' # Lookup!FindOpenAPIPath =>
           \E k \in Lookup!FindOpenAPIPath' : k \notin Lookup!Keys)
  <2>. SUFFICES ASSUME LookupInv, LookupInv', [Lookup!Next]_Lookup!vars,
                       Lookup!FindOpenAPIPath' # Lookup!FindOpenAPIPath
                PROVE  \E k \in Lookup!FindOpenAPIPath' : k \notin Lookup!Keys
    OBVIOUS
  <2>1. ASSUME UNCHANGED <<path, paths>> PROVE FALSE
    BY <2>1 DEF Lookup!FindOpenAPIPath, Lookup!Items
  <2>2. PICK key \in PathKeys, object \in BOOLEAN : Lookup!AddPath(key, object)
    BY <2>1 DEF Lookup!Next, Lookup!AddResponse, Lookup!AddParameter, Lookup!vars
  <2>. DEFINE Fit(items) == {k \in items : Lookup!PathTemplateMatches(k, path)}
              new == Lookup!Items \cup {key}
  <2>3. key \notin Lookup!Keys /\ path' = path /\ Lookup!Items' = IF object THEN new ELSE Lookup!Items
    <3>1. key \notin Lookup!Keys /\ path' = path
      BY <2>2 DEF Lookup!AddPath
    <3>. DEFINE p == [key |-> key, object |-> object]
    <3>2. paths' = paths \cup {p} /\ p.key = key /\ p.object = object
      BY <2>2 DEF Lookup!AddPath
    <3>. HIDE DEF p
    <3>3. CASE object
      <4>1. {q \in paths' : q.object} = {q \in paths : q.object} \cup {p}
        BY <3>2, <3>3
      <4>. QED  BY <3>1, <3>2, <3>3, <4>1 DEF Lookup!Items
    <3>4. CASE ~object
      <4>1. {q \in paths' : q.object} = {q \in paths : q.object}
        BY <3>2, <3>4
      <4>. QED  BY <3>1, <3>4, <4>1 DEF Lookup!Items
    <3>. QED  BY <3>3, <3>4
  <2>4. Lookup!FindOpenAPIPath = IF path \in Lookup!Items THEN {path} ELSE Lookup!First(Fit(Lookup!Items))
    BY DEF Lookup!FindOpenAPIPath
  <2>5. object /\ Lookup!FindOpenAPIPath' = IF path \in new THEN {path} ELSE Lookup!First(Fit(new))
    BY <2>3, <2>4 DEF Lookup!FindOpenAPIPath
  <2>6. path \notin Lookup!Items
    BY <2>4, <2>5
  <2>7. CASE path = key
    BY <2>3, <2>5, <2>7
  <2>8. CASE path # key
    <3>1. Lookup!FindOpenAPIPath' = Lookup!First(Fit(new)) /\ Lookup!FindOpenAPIPath = Lookup!First(Fit(Lookup!Items))
      BY <2>4, <2>5, <2>6, <2>8
    <3>2. /\ Lookup!Items \in SUBSET Lookup!Paths /\ IsFiniteSet(Lookup!Items)
          /\ new \in SUBSET Lookup!Paths /\ IsFiniteSet(new)
      <4>1. key \in Lookup!Paths
        BY DEF Lookup!LookupOK
      <4>2. IsFiniteSet(Lookup!Items)
        BY KeysTyped, FS_Subset
      <4>. QED  BY <4>1, <4>2, KeysTyped, FS_AddElement
    <3>3. /\ Fit(Lookup!Items) \in SUBSET Lookup!Paths /\ IsFiniteSet(Fit(Lookup!Items))
          /\ Fit(new) \in SUBSET Lookup!Paths /\ IsFiniteSet(Fit(new))
      <4>1. \A items : Fit(items) \in SUBSET items
        OBVIOUS
      <4>. HIDE DEF Fit, new
      <4>. QED  BY <3>2, <4>1, FS_Subset
    <3>4. Fit(new) # {}
      <4>1. Fit(Lookup!Items) \subseteq Fit(new)
        OBVIOUS
      <4>. HIDE DEF Fit, new
      <4>. QED  BY <3>1, <4>1
    <3>5. PICK k \in Fit(new) : Lookup!First(Fit(new)) = {k} /\ \A l \in Fit(new) \ {k} : Lookup!Precedes(k, l)
      <4>. HIDE DEF Fit, new
      <4>. QED  BY <3>3, <3>4, FirstPath
    <3>6. CASE k = key
      BY <2>3, <3>1, <3>5, <3>6
    <3>7. CASE k # key
      <4>1. k \in Fit(Lookup!Items) /\ Fit(Lookup!Items) \subseteq Fit(new)
        BY <3>7
      <4>. HIDE DEF Fit, new
      <4>2. Lookup!First(Fit(Lookup!Items)) = {k}
        BY <3>3, <3>5, <4>1, FirstIsOnly
      <4>. QED  BY <3>1, <3>5, <4>2
    <3>. QED  BY <3>6, <3>7
  <2>. QED  BY <2>7, <2>8
<1>. QED  BY <1>1, LookupTyped, PTL DEF Lookup!Spec, Lookup!OthersDecideNothing, OthersDecideNothing

\* The earliest of some places of a list.
LEMMA EarliestFacts ==
  ASSUME NEW T \in SUBSET Nat, T # {}
  PROVE  /\ Lookup!Earliest(T) \in T /\ \A j \in T : Lookup!Earliest(T) <= j
         /\ \A i \in T : (\A j \in T : i <= j) => Lookup!Earliest(T) = i
<1>1. \E i \in T : \A j \in T : i <= j
  BY Least
<1>2. Lookup!Earliest(T) \in T /\ \A j \in T : Lookup!Earliest(T) <= j
  BY <1>1, Zenon DEF Lookup!Earliest
<1>3. ASSUME NEW i \in T, \A j \in T : i <= j PROVE Lookup!Earliest(T) = i
  <2>1. i \in Nat /\ Lookup!Earliest(T) \in Nat
    BY <1>2
  <2>2. i <= Lookup!Earliest(T) /\ Lookup!Earliest(T) <= i
    BY <1>2, <1>3
  <2>. QED  BY <2>1, <2>2
<1>. QED  BY <1>2, <1>3

\* A further response decides only if it is an earlier success (specsmith.go:249-264).
LEMMA FirstDecides ==
  ASSUME Lookup!LookupOK, LookupInv,
         NEW i \in DOMAIN Codes, NEW content, Lookup!AddResponse(Codes[i], content)
  PROVE  Lookup!FirstSuccessDecides
<1>. SUFFICES ASSUME Lookup!Read # {},
                     Lookup!SuccessfulResponseSchema' # Lookup!SuccessfulResponseSchema
              PROVE  Codes[i] # "404" /\ i < Lookup!Earliest(Lookup!Read)
  <2>1. \A j \in DOMAIN Codes : Codes[j] \in DOMAIN responses' \ DOMAIN responses => j = i
    BY DEF Lookup!LookupOK, Lookup!AddResponse
  <2>. QED  BY <2>1 DEF Lookup!FirstSuccessDecides
<1>1. DOMAIN Codes \subseteq Nat
  <2>1. Codes \in Seq(STRING)
    BY DEF Lookup!LookupOK
  <2>2. DOMAIN Codes = 1 .. Len(Codes) /\ Len(Codes) \in Nat
    BY <2>1
  <2>. QED  BY <2>2
<1>2. Lookup!Read \in SUBSET Nat /\ i \notin Lookup!Read
  BY <1>1 DEF Lookup!Read, Lookup!AddResponse
<1>3. /\ Lookup!Read' \in {Lookup!Read, Lookup!Read \cup {i}}
      /\ Codes[i] = "404" => Lookup!Read' = Lookup!Read
  BY DEF Lookup!Read, Lookup!AddResponse, Lookup!LookupOK
<1>. DEFINE e == Lookup!Earliest(Lookup!Read)
<1>4. e \in Lookup!Read /\ e \in Nat /\ \A j \in Lookup!Read : e <= j
  BY <1>2, EarliestFacts
<1>5. ASSUME e \in Lookup!Read', Lookup!Earliest(Lookup!Read') = e PROVE FALSE
  <2>1. responses'[Codes[e]] = responses[Codes[e]]
    BY <1>4 DEF Lookup!Read, Lookup!AddResponse
  <2>. QED  BY <1>4, <1>5, <2>1 DEF Lookup!SuccessfulResponseSchema
<1>6. Lookup!Read' # Lookup!Read
  BY <1>4, <1>5
<1>7. Lookup!Read' = Lookup!Read \cup {i} /\ Codes[i] # "404"
  BY <1>3, <1>6
<1>8. CASE e < i
  <2>. HIDE DEF e
  <2>1. Lookup!Read \cup {i} \in SUBSET Nat /\ e \in Lookup!Read \cup {i}
        /\ \A j \in Lookup!Read \cup {i} : e <= j
    <3>1. i \in Nat /\ e <= i
      BY <1>1, <1>4, <1>8
    <3>2. \A j \in Lookup!Read \cup {i} : j \in Lookup!Read \/ j = i
      OBVIOUS
    <3>3. \A j \in Lookup!Read \cup {i} : e <= j
      BY <1>4, <3>1, <3>2, Zenon
    <3>. QED  BY <1>2, <1>4, <3>1, <3>3
  <2>2. Lookup!Earliest(Lookup!Read \cup {i}) = e
    BY <2>1, EarliestFacts
  <2>. QED  BY <1>5, <1>7, <2>1, <2>2 DEF e
<1>9. e # i /\ i \in Nat
  BY <1>1, <1>2, <1>4
<1>. QED  BY <1>4, <1>7, <1>8, <1>9

\* A further parameter counts only if it is a query parameter (specsmith.go:351-368).
LEMMA OnlySpoils ==
  ASSUME LookupInv, NEW parameter \in Parameters, Lookup!AddParameter(parameter)
  PROVE  Lookup!ParametersOnlySpoil
<1>. DEFINE n == Len(parameters)
<1>1. /\ n \in Nat /\ DOMAIN parameters = 1 .. n /\ DOMAIN parameters' = 1 .. n + 1
      /\ Len(parameters') = n + 1
      /\ parameters'[n + 1] = parameter /\ \A i \in 1 .. n : parameters'[i] = parameters[i]
  BY DEF LookupInv, Lookup!TypeOK, Lookup!AddParameter
<1>2. Lookup!Query' = IF parameter.at = "query" THEN Lookup!Query \cup {n + 1} ELSE Lookup!Query
  BY <1>1 DEF Lookup!Query
<1>3. \A i \in Lookup!Query : i # n + 1 /\ parameters'[i] = parameters[i]
  BY <1>1 DEF Lookup!Query
<1>4. CASE parameter.at # "query"
  <2>1. Lookup!QueryParameterContract' = Lookup!QueryParameterContract
    BY <1>2, <1>3, <1>4 DEF Lookup!QueryParameterContract
  <2>. QED  BY <2>1 DEF Lookup!ParametersOnlySpoil
<1>5. CASE parameter.at = "query"
  <2>1. ASSUME Lookup!QueryParameterContract.found, ~Lookup!QueryParameterContract.concrete
        PROVE  Lookup!QueryParameterContract' = Lookup!QueryParameterContract
    BY <1>2, <1>3, <1>5, <2>1 DEF Lookup!QueryParameterContract
  <2>. QED  BY <1>1, <1>5, <2>1 DEF Lookup!ParametersOnlySpoil
<1>. QED  BY <1>4, <1>5

\* What a document says besides changes nothing of the contract that was read
\* (specsmith.go:249-264, 351-368).
THEOREM ContractStaysStable == Lookup!Spec => ContractIsStable
<1>. Lookup!LookupOK
  BY PartsAssumption
<1>1. LookupInv /\ [Lookup!Next]_Lookup!vars => Lookup!FirstSuccessDecides /\ Lookup!ParametersOnlySpoil
  <2>. SUFFICES ASSUME LookupInv, [Lookup!Next]_Lookup!vars
                PROVE  Lookup!FirstSuccessDecides /\ Lookup!ParametersOnlySpoil
    OBVIOUS
  <2>1. ASSUME UNCHANGED responses PROVE Lookup!FirstSuccessDecides
    BY <2>1 DEF Lookup!FirstSuccessDecides, Lookup!SuccessfulResponseSchema, Lookup!Read
  <2>2. ASSUME UNCHANGED parameters PROVE Lookup!ParametersOnlySpoil
    BY <2>2 DEF Lookup!ParametersOnlySpoil, Lookup!QueryParameterContract, Lookup!Query
  <2>3. ASSUME NEW key, NEW object, Lookup!AddPath(key, object)
        PROVE  UNCHANGED <<responses, parameters>>
    BY <2>3 DEF Lookup!AddPath
  <2>4. ASSUME NEW i \in DOMAIN Codes, NEW content, Lookup!AddResponse(Codes[i], content)
        PROVE  Lookup!FirstSuccessDecides /\ UNCHANGED parameters
    BY <2>4, FirstDecides DEF Lookup!AddResponse
  <2>5. ASSUME NEW parameter \in Parameters, Lookup!AddParameter(parameter)
        PROVE  Lookup!ParametersOnlySpoil /\ UNCHANGED responses
    BY <2>5, OnlySpoils DEF Lookup!AddParameter
  <2>6. CASE UNCHANGED Lookup!vars
    BY <2>1, <2>2, <2>6 DEF Lookup!vars
  <2>7. CASE Lookup!Next
    <3>1. CASE \E key \in PathKeys, object \in BOOLEAN : Lookup!AddPath(key, object)
      BY <2>1, <2>2, <2>3, <3>1
    <3>2. CASE \E i \in DOMAIN Codes, content \in Contents : Lookup!AddResponse(Codes[i], content)
      BY <2>2, <2>4, <3>2
    <3>3. CASE \E parameter \in Parameters : Lookup!AddParameter(parameter)
      BY <2>1, <2>5, <3>3
    <3>. QED  BY <2>7, <3>1, <3>2, <3>3 DEF Lookup!Next
  <2>. QED  BY <2>6, <2>7
<1>. QED  BY <1>1, LookupTyped, PTL DEF Lookup!Spec, Lookup!ContractIsStable, ContractIsStable

-----------------------------------------------------------------------------
(* Schemas *)

\* A reference is followed level by level.
LEMMA ResolveLevels ==
  /\ \A l \in Nat : Content!Resolve[l] \in [Content!Nodes \cup {None} -> Content!Nodes \cup {None}]
  /\ Content!Resolve[0] = [n \in Content!Nodes \cup {None} |-> None]
  /\ \A l \in Nat : Content!Resolve[l + 1] = Content!Follow(Content!Resolve[l])
<1>. DEFINE S == [Content!Nodes \cup {None} -> Content!Nodes \cup {None}]
            start == [n \in Content!Nodes \cup {None} |-> None]
            F == [l \in Nat |-> [r \in S |-> Content!Follow(r)]]
            family == [l \in Nat |-> S]
            r == Content!Resolve
<1>1. start \in S /\ \A t \in S : Content!Follow(t) \in S
  BY DEF Content!Follow
<1>2. start \in family[0] /\ \A l \in Nat : F[l + 1] \in [family[l] -> family[l + 1]]
  <2>. HIDE DEF S, start
  <2>. QED  BY <1>1
<1>3. PICK h : /\ h = [l \in Nat |-> IF l = 0 THEN start ELSE F[l][h[l - 1]]]
               /\ \A l \in Nat : h[l] \in family[l]
  <2>. HIDE DEF family, F, S, start
  <2>1. Steps(family, start, F)
    BY <1>2 DEF Steps
  <2>2. \E h : Results(h, family, start, F)
    BY <2>1, Iterates
  <2>. QED  BY <2>2 DEF Results
<1>4. h = [l \in Nat |-> IF l = 0 THEN start ELSE Content!Follow(h[l - 1])]
  <2>. HIDE DEF S, start, F
  <2>1. \A l \in Nat : l # 0 => l - 1 \in Nat
    OBVIOUS
  <2>2. \A l \in Nat : l # 0 => h[l - 1] \in S
    BY <1>3, <2>1
  <2>. USE DEF F
  <2>. QED  BY <1>3, <2>2
<1>5. r = [l \in Nat |-> IF l = 0 THEN start ELSE Content!Follow(r[l - 1])]
  BY <1>4, Zenon DEF Content!Resolve
<1>. HIDE DEF S, start, r
<1>6. r[0] = start /\ \A l \in Nat : r[l + 1] = Content!Follow(r[l])
  BY <1>5
<1>7. \A l \in Nat : r[l] \in S
  <2>. DEFINE L == {l \in Nat : r[l] \in S}
  <2>1. 0 \in L /\ \A l \in L : l + 1 \in L
    BY <1>1, <1>6
  <2>. HIDE DEF L
  <2>2. L \in SUBSET Nat
    BY DEF L
  <2>3. L = Nat
    BY <2>1, <2>2, EveryLevel
  <2>. QED  BY <2>3 DEF L
<1>. QED  BY <1>6, <1>7 DEF S, start, r

\* What following one reference more comes to.
LEMMA ResolveDef ==
  ASSUME Content!SchemasOK, document \in [Content!Nodes -> Content!Schemas]
  PROVE  /\ \A l \in Nat : Content!Resolve[l] \in [Content!Nodes \cup {None} -> Content!Nodes \cup {None}]
         /\ \A n \in Content!Nodes : Content!Resolve[0][n] = None
         /\ \A l \in Nat : Content!Resolve[l][None] = None
         /\ \A l \in Nat, n \in Content!Nodes : Content!Resolve[l + 1][n] =
              IF document[n].ref \notin Content!Nodes THEN n ELSE Content!Resolve[l][document[n].ref]
<1>. DEFINE r == Content!Resolve
<1>. HIDE DEF r
<1>1. r[0] = [n \in Content!Nodes \cup {None} |-> None] /\ \A l \in Nat : r[l + 1] = Content!Follow(r[l])
  BY ResolveLevels DEF r
<1>2. ASSUME NEW l \in Nat, NEW n \in Content!Nodes
      PROVE  r[l + 1][n] = IF document[n].ref \notin Content!Nodes THEN n ELSE r[l][document[n].ref]
  <2>1. r[l + 1] = Content!Follow(r[l]) /\ n # None
    BY <1>1 DEF Content!SchemasOK
  <2>. QED  BY <2>1 DEF Content!Follow
<1>3. ASSUME NEW l \in Nat PROVE r[l][None] = None
  <2>1. CASE l = 0
    BY <1>1, <2>1
  <2>2. CASE l # 0
    <3>1. l - 1 \in Nat /\ (l - 1) + 1 = l
      BY <2>2
    <3>2. r[l] = Content!Follow(r[l - 1])
      BY <1>1, <3>1
    <3>. QED  BY <3>2 DEF Content!Follow
  <2>. QED  BY <2>1, <2>2
<1>4. \A n \in Content!Nodes : r[0][n] = None
  BY <1>1
<1>. QED  BY <1>2, <1>3, <1>4, ResolveLevels DEF r

\* Schemas are accepted level by level.
LEMMA ConcreteDef ==
  /\ \A l \in Nat : Content!ConcreteWith[l] \in SUBSET Content!Nodes
  /\ Content!ConcreteWith[0] = {}
  /\ \A l \in Nat : Content!ConcreteWith[l + 1] = Content!Accept(l + 1, Content!ConcreteWith[l])
<1>. DEFINE S == SUBSET Content!Nodes
            start == {}
            F == [l \in Nat |-> [c \in S |-> Content!Accept(l, c)]]
            family == [l \in Nat |-> S]
            r == Content!ConcreteWith
<1>1. start \in S /\ \A l \in Nat, c \in S : Content!Accept(l, c) \in S
  BY DEF Content!Accept
<1>2. start \in family[0] /\ \A l \in Nat : F[l + 1] \in [family[l] -> family[l + 1]]
  BY <1>1
<1>3. PICK h : /\ h = [l \in Nat |-> IF l = 0 THEN start ELSE F[l][h[l - 1]]]
               /\ \A l \in Nat : h[l] \in family[l]
  <2>. HIDE DEF family, F, S, start
  <2>1. Steps(family, start, F)
    BY <1>2 DEF Steps
  <2>2. \E h : Results(h, family, start, F)
    BY <2>1, Iterates
  <2>. QED  BY <2>2 DEF Results
<1>4. h = [l \in Nat |-> IF l = 0 THEN start ELSE Content!Accept(l, h[l - 1])]
  <2>. HIDE DEF S, start, F
  <2>1. \A l \in Nat : l # 0 => l - 1 \in Nat
    OBVIOUS
  <2>2. \A l \in Nat : l # 0 => h[l - 1] \in S
    BY <1>3, <2>1
  <2>. USE DEF F
  <2>. QED  BY <1>3, <2>2
<1>5. r = [l \in Nat |-> IF l = 0 THEN start ELSE Content!Accept(l, r[l - 1])]
  BY <1>4, Zenon DEF Content!ConcreteWith, Content!ConcreteTooDeep
<1>. HIDE DEF S, start, r
<1>6. r[0] = start /\ \A l \in Nat : r[l + 1] = Content!Accept(l + 1, r[l])
  BY <1>5
<1>7. \A l \in Nat : r[l] \in S
  <2>. DEFINE L == {l \in Nat : r[l] \in S}
  <2>1. 0 \in L /\ \A l \in L : l + 1 \in L
    BY <1>1, <1>6
  <2>. HIDE DEF L
  <2>2. L \in SUBSET Nat
    BY DEF L
  <2>3. L = Nat
    BY <2>1, <2>2, EveryLevel
  <2>. QED  BY <2>3 DEF L
<1>. QED  BY <1>6, <1>7 DEF S, start, r

\* What says something is found level by level.
LEMMA WithinDef ==
  /\ Content!Within[0] = Content!Say({})
  /\ \A l \in Nat : Content!Within[l + 1] = Content!Say(Content!Within[l])
<1>. DEFINE S == SUBSET Content!Nodes
            start == Content!Say({})
            F == [l \in Nat |-> [c \in S |-> Content!Say(c)]]
            family == [l \in Nat |-> S]
            r == Content!Within
<1>1. start \in S /\ \A c \in S : Content!Say(c) \in S
  BY DEF Content!Say
<1>2. start \in family[0] /\ \A l \in Nat : F[l + 1] \in [family[l] -> family[l + 1]]
  BY <1>1
<1>3. PICK h : /\ h = [l \in Nat |-> IF l = 0 THEN start ELSE F[l][h[l - 1]]]
               /\ \A l \in Nat : h[l] \in family[l]
  <2>. HIDE DEF family, F, S, start
  <2>1. Steps(family, start, F)
    BY <1>2 DEF Steps
  <2>2. \E h : Results(h, family, start, F)
    BY <2>1, Iterates
  <2>. QED  BY <2>2 DEF Results
<1>4. h = [l \in Nat |-> IF l = 0 THEN start ELSE Content!Say(h[l - 1])]
  <2>. HIDE DEF S, start, F
  <2>1. \A l \in Nat : l # 0 => l - 1 \in Nat
    OBVIOUS
  <2>2. \A l \in Nat : l # 0 => h[l - 1] \in S
    BY <1>3, <2>1
  <2>. USE DEF F
  <2>. QED  BY <1>3, <2>2
<1>5. r = [l \in Nat |-> IF l = 0 THEN start ELSE Content!Say(r[l - 1])]
  BY <1>4, Zenon DEF Content!Within
<1>. HIDE DEF S, start, r
<1>6. r[0] = start /\ \A l \in Nat : r[l + 1] = Content!Say(r[l])
  BY <1>5
<1>. QED  BY <1>6 DEF start, r

\* A resolved schema is no $ref, and what it was reached from says what it says.
LEMMA ResolvedFacts ==
  ASSUME Content!SchemasOK, document \in [Content!Nodes -> Content!Schemas]
  PROVE  \A l \in Nat, n \in Content!Nodes :
           LET s == Content!Resolve[l][n] IN
           s # None => /\ s \in Content!Nodes
                       /\ document[s].ref \notin Content!Nodes
                       /\ Content!Resolve[l + 1][n] = s
                       /\ \A said : Content!Closed(said) /\ s \in said => n \in said
<1>. DEFINE Good(l, n) ==
       LET s == Content!Resolve[l][n] IN
           s # None => /\ s \in Content!Nodes
                       /\ document[s].ref \notin Content!Nodes
                       /\ Content!Resolve[l + 1][n] = s
                       /\ \A said : Content!Closed(said) /\ s \in said => n \in said
            L == {l \in Nat : \A n \in Content!Nodes : Good(l, n)}
<1>1. 0 \in L
  BY ResolveDef
<1>2. ASSUME NEW l \in L PROVE l + 1 \in L
  <2>. SUFFICES ASSUME NEW n \in Content!Nodes, Content!Resolve[l + 1][n] # None
                PROVE  Good(l + 1, n)
    OBVIOUS
  <2>. DEFINE s == Content!Resolve[l + 1][n]
              next == document[n].ref
  <2>1. l \in Nat /\ l + 1 \in Nat /\ n # None
    BY DEF Content!SchemasOK
  <2>2. s = IF next \notin Content!Nodes THEN n ELSE Content!Resolve[l][next]
    BY <2>1, ResolveDef
  <2>3. Content!Resolve[(l + 1) + 1][n] = IF next \notin Content!Nodes THEN n ELSE Content!Resolve[l + 1][next]
    BY <2>1, ResolveDef
  <2>4. CASE next \notin Content!Nodes
    BY <2>2, <2>3, <2>4
  <2>5. CASE next \in Content!Nodes
    <3>1. Good(l, next)
      BY <2>5
    <3>2. ASSUME NEW said, Content!Closed(said), next \in said PROVE n \in said
      BY <2>5, <3>2 DEF Content!Closed, Content!Say, Content!SaysSomething
    <3>. QED  BY <2>2, <2>3, <2>5, <3>1, <3>2
  <2>. QED  BY <2>4, <2>5
<1>3. L \in SUBSET Nat
  OBVIOUS
<1>4. L = Nat
  <2>. HIDE DEF L
  <2>. QED  BY <1>1, <1>2, <1>3, EveryLevel
<1>. QED  BY <1>4, Zenon

\* What is accepted on some level says something in every closed set.
LEMMA AcceptedIsReal ==
  ASSUME Content!SchemasOK, document \in [Content!Nodes -> Content!Schemas],
         NEW said, Content!Closed(said)
  PROVE  \A l \in Nat : Content!ConcreteWith[l] \subseteq said
<1>. DEFINE L == {l \in Nat : Content!ConcreteWith[l] \subseteq said}
<1>1. 0 \in L
  BY ConcreteDef
<1>2. ASSUME NEW l \in L PROVE l + 1 \in L
  <2>1. l \in Nat /\ (l + 1) - 1 = l /\ l + 1 \in Nat
    OBVIOUS
  <2>2. ASSUME NEW n \in Content!ConcreteWith[l + 1] PROVE n \in said
    <3>. DEFINE s == Content!Resolve[l + 1][n]
                Below(m) == Content!Resolve[l][m] \in Content!ConcreteWith[l]
    <3>1. /\ n \in Content!Nodes /\ s # None
          /\ \/ \E v \in document[s].variants : Below(v)
             \/ document[s].type = "object" /\ document[s].properties
             \/ document[s].type = "array" /\ Below(document[s].items)
             \/ document[s].type = "scalar"
             \/ document[s].type = "none" /\ document[s].enum
      <4>1. n \in Content!Accept(l + 1, Content!ConcreteWith[l])
        BY <2>1, ConcreteDef
      <4>. QED  BY <2>1, <4>1 DEF Content!Accept
    <3>2. s \in Content!Nodes /\ document[s].ref \notin Content!Nodes /\ (s \in said => n \in said)
      BY <2>1, <3>1, ResolvedFacts
    <3>3. ASSUME NEW m \in Content!Nodes \cup {None}, Below(m) PROVE m \in said
      <4>1. Content!Resolve[l][m] \in Content!Nodes /\ Content!Resolve[l][m] \in said
        BY <2>1, <3>3, ConcreteDef
      <4>2. m # None
        BY <2>1, <4>1, ResolveDef DEF Content!SchemasOK
      <4>. QED  BY <2>1, <4>1, <4>2, ResolvedFacts DEF Content!SchemasOK
    <3>4. document[s].variants \subseteq Content!Nodes /\ document[s].items \in Content!Nodes \cup {None}
      BY <3>2 DEF Content!Schemas
    <3>5. Content!SaysSomething(s, said)
      BY <3>1, <3>2, <3>3, <3>4 DEF Content!SaysSomething
    <3>. QED  BY <3>2, <3>5 DEF Content!Closed, Content!Say
  <2>. QED  BY <2>1, <2>2
<1>3. L \in SUBSET Nat
  OBVIOUS
<1>4. L = Nat
  <2>. HIDE DEF L
  <2>. QED  BY <1>1, <1>2, <1>3, EveryLevel
<1>. QED  BY <1>4

\* One more level loses nothing.
LEMMA MoreLevels ==
  ASSUME Content!SchemasOK, document \in [Content!Nodes -> Content!Schemas]
  PROVE  \A l \in Nat : Content!ConcreteWith[l] \subseteq Content!ConcreteWith[l + 1]
<1>. DEFINE L == {l \in Nat : Content!ConcreteWith[l] \subseteq Content!ConcreteWith[l + 1]}
<1>1. 0 \in L
  BY ConcreteDef
<1>2. ASSUME NEW l \in L PROVE l + 1 \in L
  <2>1. l \in Nat /\ (l + 1) - 1 = l /\ l + 1 \in Nat /\ ((l + 1) + 1) - 1 = l + 1
    OBVIOUS
  <2>2. ASSUME NEW n \in Content!Accept(l + 1, Content!ConcreteWith[l])
        PROVE  n \in Content!Accept((l + 1) + 1, Content!ConcreteWith[l + 1])
    <3>. DEFINE s == Content!Resolve[l + 1][n]
                Below(m) == Content!Resolve[l][m] \in Content!ConcreteWith[l]
                Deeper(m) == Content!Resolve[l + 1][m] \in Content!ConcreteWith[l + 1]
    <3>1. /\ n \in Content!Nodes /\ s # None
          /\ \/ \E v \in document[s].variants : Below(v)
             \/ document[s].type = "object" /\ document[s].properties
             \/ document[s].type = "array" /\ Below(document[s].items)
             \/ document[s].type = "scalar"
             \/ document[s].type = "none" /\ document[s].enum
      BY <2>1 DEF Content!Accept
    <3>2. s \in Content!Nodes /\ Content!Resolve[(l + 1) + 1][n] = s
      BY <2>1, <3>1, ResolvedFacts
    <3>3. ASSUME NEW m \in Content!Nodes \cup {None}, Below(m) PROVE Deeper(m)
      <4>1. Content!Resolve[l][m] \in Content!Nodes
        BY <2>1, <3>3, ConcreteDef
      <4>2. m \in Content!Nodes /\ Content!Resolve[l][m] # None
        BY <2>1, <4>1, ResolveDef DEF Content!SchemasOK
      <4>3. Content!Resolve[l + 1][m] = Content!Resolve[l][m]
        BY <2>1, <4>2, ResolvedFacts
      <4>. QED  BY <3>3, <4>3
    <3>4. document[s].variants \subseteq Content!Nodes /\ document[s].items \in Content!Nodes \cup {None}
      BY <3>2 DEF Content!Schemas
    <3>. QED  BY <2>1, <3>1, <3>2, <3>3, <3>4 DEF Content!Accept
  <2>3. Content!Accept(l + 1, Content!ConcreteWith[l]) \subseteq
        Content!Accept((l + 1) + 1, Content!ConcreteWith[l + 1])
    BY <2>2
  <2>. QED  BY <2>1, <2>3, ConcreteDef
<1>3. L \in SUBSET Nat
  OBVIOUS
<1>4. L = Nat
  <2>. HIDE DEF L
  <2>. QED  BY <1>1, <1>2, <1>3, EveryLevel
<1>. QED  BY <1>4

\* What says something within some levels is accepted with one more.
LEMMA ShallowIsAccepted ==
  ASSUME Content!SchemasOK, document \in [Content!Nodes -> Content!Schemas]
  PROVE  \A l \in Nat : \A n \in Content!Within[l] :
           Content!Resolve[l + 1][n] \in Content!ConcreteWith[l + 1]
<1>. DEFINE Found(l) == \A n \in Content!Within[l] :
                          Content!Resolve[l + 1][n] \in Content!ConcreteWith[l + 1]
            L == {l \in Nat : Found(l)}
<1>1. ASSUME NEW l \in Nat, NEW said \in SUBSET Content!Nodes, NEW n \in Content!Say(said),
             \A m \in said : Content!Resolve[l][m] \in Content!ConcreteWith[l]
      PROVE  Content!Resolve[l + 1][n] \in Content!ConcreteWith[l + 1]
  <2>1. n \in Content!Nodes /\ Content!SaysSomething(n, said) /\ n # None
    BY DEF Content!Say, Content!SchemasOK
  <2>2. CASE document[n].ref \in Content!Nodes
    <3>1. document[n].ref \in said
      BY <2>1, <2>2 DEF Content!SaysSomething
    <3>2. Content!Resolve[l + 1][n] = Content!Resolve[l][document[n].ref]
      BY <2>1, <2>2, ResolveDef
    <3>. QED  BY <1>1, <3>1, <3>2, MoreLevels
  <2>3. CASE document[n].ref \notin Content!Nodes
    <3>1. Content!Resolve[l + 1][n] = n
      BY <2>1, <2>3, ResolveDef
    <3>2. /\ \/ \E v \in document[n].variants : v \in said
             \/ document[n].type = "object" /\ document[n].properties
             \/ document[n].type = "array" /\ document[n].items \in said
             \/ document[n].type = "scalar"
             \/ document[n].type = "none" /\ document[n].enum
      BY <2>1, <2>3 DEF Content!SaysSomething
    <3>3. l + 1 \in Nat /\ (l + 1) - 1 = l
      OBVIOUS
    <3>4. n \in Content!Accept(l + 1, Content!ConcreteWith[l])
      BY <1>1, <2>1, <3>1, <3>2, <3>3 DEF Content!Accept
    <3>. QED  BY <3>1, <3>4, ConcreteDef
  <2>. QED  BY <2>2, <2>3
<1>2. \A l \in Nat : Content!Within[l] \in SUBSET Content!Nodes
  <2>1. ASSUME NEW l \in Nat, l # 0 PROVE Content!Within[l] = Content!Say(Content!Within[l - 1])
    <3>1. l - 1 \in Nat /\ (l - 1) + 1 = l
      BY <2>1
    <3>. QED  BY <3>1, WithinDef
  <2>2. \A said : Content!Say(said) \in SUBSET Content!Nodes
    BY DEF Content!Say
  <2>. QED  BY <2>1, <2>2, WithinDef
<1>3. 0 \in L
  <2>1. Content!Within[0] = Content!Say({})
    BY WithinDef
  <2>. QED  BY <1>1, <2>1
<1>4. ASSUME NEW l \in L PROVE l + 1 \in L
  <2>1. l \in Nat /\ l + 1 \in Nat /\ Content!Within[l + 1] = Content!Say(Content!Within[l])
    BY WithinDef
  <2>2. Content!Within[l] \in SUBSET Content!Nodes
    BY <1>2, <2>1
  <2>. QED  BY <1>1, <2>1, <2>2
<1>5. L \in SUBSET Nat
  OBVIOUS
<1>6. L = Nat
  <2>. HIDE DEF L
  <2>. QED  BY <1>3, <1>4, <1>5, EveryLevel
<1>. QED  BY <1>6

\* A document stays a document while it is written.
LEMMA DocumentTyped ==
  ASSUME Content!SchemasOK
  PROVE  Content!Spec => []Content!TypeOK
<1>. USE DEF Content!TypeOK
<1>1. Content!Init => Content!TypeOK
  BY DEF Content!Init, Content!SchemasOK, Content!Generic, Content!Schemas
<1>2. Content!TypeOK /\ [Content!Next]_Content!vars => Content!TypeOK'
  <2>. SUFFICES ASSUME Content!TypeOK, [Content!Next]_Content!vars PROVE Content!TypeOK'
    OBVIOUS
  <2>1. CASE Content!Next
    <3>1. PICK s \in Shapes(Size - written) : document' = [document EXCEPT ![Size - written] = s]
      BY <2>1 DEF Content!Next, Content!Write
    <3>2. Size - written \in Content!Nodes /\ written' \in 0 .. Size
      BY <2>1 DEF Content!Next, Content!Write, Content!Nodes, Content!SchemasOK
    <3>3. s \in Content!Schemas
      BY <3>2 DEF Content!SchemasOK
    <3>. QED  BY <3>1, <3>2, <3>3
  <2>2. CASE UNCHANGED Content!vars
    BY <2>2 DEF Content!vars
  <2>. QED  BY <2>1, <2>2
<1>. QED  BY <1>1, <1>2, PTL DEF Content!Spec

\* No limit, loop or dangling reference passes for content, whatever is written
\* (specsmith.go:290-349).
THEOREM NothingPassesForContent == Content!Spec => []ConcreteIsReal
<1>. Content!SchemasOK
  BY PartsAssumption
<1>1. Content!TypeOK => ConcreteIsReal
  <2>. SUFFICES ASSUME Content!TypeOK, Content!Concrete,
                       NEW said \in SUBSET Content!Nodes, Content!Closed(said)
                PROVE  1 \in said
    BY DEF ConcreteIsReal, Content!ConcreteIsReal, Content!Meaningful, Content!SchemasOK, Content!Nodes
  <2>1. Content!Levels \in Nat /\ 1 \in Content!Nodes
    BY DEF Content!Levels, Content!SchemasOK, Content!Nodes
  <2>2. Content!Resolve[Content!Levels][1] \in said
    BY <2>1, AcceptedIsReal DEF Content!TypeOK, Content!Concrete
  <2>3. Content!Resolve[Content!Levels][1] # None
    BY <2>2 DEF Content!SchemasOK
  <2>. QED  BY <2>1, <2>2, <2>3, ResolvedFacts DEF Content!TypeOK
<1>. QED  BY <1>1, DocumentTyped, PTL

\* Nothing within the limit is missed, whatever is written besides (specsmith.go:290-349).
THEOREM NothingShallowIsMissed == Content!Spec => []ShallowIsFound
<1>. Content!SchemasOK
  BY PartsAssumption
<1>1. Content!TypeOK => ShallowIsFound
  <2>1. MaxDepth \in Nat /\ Content!Levels = MaxDepth + 1
    BY DEF Content!SchemasOK, Content!Levels
  <2>. QED
    BY <2>1, ShallowIsAccepted DEF Content!TypeOK, ShallowIsFound, Content!ShallowIsFound, Content!Concrete
<1>. QED  BY <1>1, DocumentTyped, PTL

-----------------------------------------------------------------------------
(* SchemaInference *)

\* The schemas of each level are there, made of those of the level below.
LEMMA DescribedLevels ==
  /\ Inference!SchemaForValue[0] = [v \in Values |-> Inference!TooDeep]
  /\ \A l \in Nat : Inference!SchemaForValue[l + 1] = Inference!Describe(Inference!SchemaForValue[l])
<1>. DEFINE start == [v \in Values |-> Inference!TooDeep]
            F(X) == Inference!Describe(X)
            UpTo(n, g) == /\ g = [i \in 0 .. n |-> g[i]] /\ g[0] = start
                          /\ \A i \in 0 .. n - 1 : g[i + 1] = F(g[i])
<1>. HIDE DEF start, F
<1>1. ASSUME NEW n \in Nat, NEW g, UpTo(n, g) PROVE \E k : UpTo(n + 1, k)
  <2>. DEFINE k == [i \in 0 .. n + 1 |-> IF i = n + 1 THEN F(g[n]) ELSE g[i]]
  <2>1. \A i \in 0 .. n : k[i] = g[i]
    OBVIOUS
  <2>2. k[n + 1] = F(g[n])
    OBVIOUS
  <2>3. k = [i \in 0 .. n + 1 |-> k[i]]
    OBVIOUS
  <2>. HIDE DEF k
  <2>4. k[0] = start
    BY <1>1, <2>1
  <2>5. ASSUME NEW i \in 0 .. (n + 1) - 1 PROVE k[i + 1] = F(k[i])
    <3>1. i \in 0 .. n /\ (i = n \/ (i \in 0 .. n - 1 /\ i + 1 \in 0 .. n))
      OBVIOUS
    <3>2. CASE i = n
      BY <2>1, <2>2, <3>1, <3>2
    <3>3. CASE i \in 0 .. n - 1 /\ i + 1 \in 0 .. n
      BY <1>1, <2>1, <3>1, <3>3
    <3>. QED  BY <3>1, <3>2, <3>3
  <2>. QED  BY <2>3, <2>4, <2>5
<1>2. \A n \in Nat : \E g : UpTo(n, g)
  <2>. DEFINE L == {n \in Nat : \E g : UpTo(n, g)}
  <2>1. 0 \in L
    <3>1. UpTo(0, [i \in 0 .. 0 |-> start])
      OBVIOUS
    <3>. QED  BY <3>1
  <2>2. \A n \in L : n + 1 \in L
    <3>. HIDE DEF UpTo
    <3>. QED  BY <1>1
  <2>3. L \in SUBSET Nat
    OBVIOUS
  <2>. HIDE DEF L
  <2>4. L = Nat
    BY <2>1, <2>2, <2>3, EveryLevel
  <2>. QED  BY <2>4 DEF L
<1>3. ASSUME NEW n \in Nat, NEW m \in Nat, NEW g, NEW k, UpTo(n, g), UpTo(m, k), n <= m
      PROVE  \A i \in 0 .. n : g[i] = k[i]
  <2>. DEFINE L == {i \in Nat : i <= n => g[i] = k[i]}
  <2>1. 0 \in L
    BY <1>3
  <2>2. ASSUME NEW i \in L PROVE i + 1 \in L
    <3>1. CASE i + 1 <= n
      <4>1. i \in 0 .. n - 1 /\ i \in 0 .. m - 1 /\ i <= n
        <5>1. i \in Nat /\ n <= m
          BY <1>3
        <5>. QED  BY <3>1, <5>1
      <4>2. g[i] = k[i] /\ g[i + 1] = F(g[i]) /\ k[i + 1] = F(k[i])
        BY <1>3, <4>1
      <4>. QED  BY <4>2
    <3>2. CASE ~(i + 1 <= n)
      BY <3>2
    <3>. QED  BY <3>1, <3>2
  <2>3. L \in SUBSET Nat
    OBVIOUS
  <2>. HIDE DEF L
  <2>4. L = Nat
    BY <2>1, <2>2, <2>3, EveryLevel
  <2>. QED  BY <2>4 DEF L
<1>. DEFINE best(n) == CHOOSE g : UpTo(n, g)
            h == [n \in Nat |-> best(n)[n]]
            r == Inference!SchemaForValue
<1>4. \A n \in Nat : UpTo(n, best(n))
  BY <1>2
<1>. HIDE DEF best
<1>5. ASSUME NEW n \in Nat, n # 0 PROVE h[n] = F(h[n - 1])
  <2>1. n - 1 \in Nat /\ (n - 1) + 1 = n /\ n - 1 <= n /\ n - 1 \in 0 .. n - 1
    BY <1>5
  <2>2. best(n)[n - 1] = best(n - 1)[n - 1]
    <3>. HIDE DEF UpTo
    <3>. QED  BY <1>3, <1>4, <2>1
  <2>3. best(n)[n] = F(best(n)[n - 1])
    BY <1>4, <2>1
  <2>. QED  BY <2>1, <2>2, <2>3
<1>6. h[0] = start
  BY <1>4
<1>7. h = [n \in Nat |-> IF n = 0 THEN start ELSE F(h[n - 1])]
  <2>1. h = [n \in Nat |-> h[n]]
    OBVIOUS
  <2>. HIDE DEF h
  <2>. QED  BY <1>5, <1>6, <2>1
<1>8. r = [n \in Nat |-> IF n = 0 THEN start ELSE F(r[n - 1])]
  <2>. HIDE DEF h
  <2>. USE DEF F, start
  <2>. QED  BY <1>7, Zenon DEF Inference!SchemaForValue
<1>. HIDE DEF r
<1>9. r[0] = start /\ \A n \in Nat : r[n + 1] = F(r[n])
  BY <1>8
<1>. QED  BY <1>9 DEF r, F, start

\* The parts of a value are values.
LEMMA PartsOfValues ==
  ASSUME Inference!InferenceOK, NEW v \in Values
  PROVE  /\ v.t = "object" => /\ DOMAIN v.members \subseteq Inference!Names
                              /\ \A k \in DOMAIN v.members : v.members[k] \in Values
         /\ v.t = "array" => \A i \in DOMAIN v.items : v.items[i] \in Values
         /\ v.t \in Inference!LeafTypes \cup {"object", "array"}
<1>1. v.t = "object" => /\ DOMAIN v.members \subseteq Inference!Names
                        /\ \A k \in DOMAIN v.members : v.members[k] \in Values
  BY DEF Inference!InferenceOK
<1>2. ASSUME v.t = "array" PROVE \A i \in DOMAIN v.items : v.items[i] \in Values
  <2>1. v.items \in Seq(Values)
    BY <1>2 DEF Inference!InferenceOK
  <2>. QED  BY <2>1
<1>3. v.t \in Inference!LeafTypes \cup {"object", "array"}
  BY DEF Inference!InferenceOK
<1>. QED  BY <1>1, <1>2, <1>3

\* A value has a schema of every level, and so have its parts of the level below.
LEMMA SchemaLevels ==
  /\ \A l \in Nat : /\ Inference!SchemasOf[l] =
                        {Inference!Anything} \cup {Inference!SchemaForValue[l][v] : v \in Values}
                   /\ Inference!SchemaForValue[l + 1] =
                        Inference!Describe(Inference!SchemaForValue[l])
  /\ \A v \in Values : Inference!SchemaForValue[0][v] = Inference!Anything
  BY DescribedLevels DEF Inference!SchemasOf, Inference!TooDeep

\* Values are alike on each level if their parts are on the one below.
LEMMA AlikeLevels ==
  /\ Inference!Alike[0] = [v \in Values |-> [w \in Values |-> TRUE]]
  /\ \A l \in Nat : Inference!Alike[l + 1] = Inference!Compare(Inference!Alike[l])
<1>. DEFINE B == [Values -> [Values -> BOOLEAN]]
            S == [l \in Nat |-> B]
            start == [v \in Values |-> [w \in Values |-> TRUE]]
            F == [l \in Nat |-> [b \in B |-> Inference!Compare(b)]]
            r == Inference!Alike
<1>1. start \in B /\ \A b \in B : Inference!Compare(b) \in B
  BY DEF Inference!Compare
<1>2. PICK h : /\ h = [l \in Nat |-> IF l = 0 THEN start ELSE F[l][h[l - 1]]]
               /\ \A l \in Nat : h[l] \in S[l]
  <2>1. start \in S[0] /\ \A l \in Nat : F[l + 1] \in [S[l] -> S[l + 1]]
    BY <1>1
  <2>. HIDE DEF S, start, F
  <2>2. Steps(S, start, F)
    BY <2>1 DEF Steps
  <2>3. \E h : Results(h, S, start, F)
    BY <2>2, Iterates
  <2>. QED  BY <2>3 DEF Results
<1>3. h = [l \in Nat |-> IF l = 0 THEN start ELSE Inference!Compare(h[l - 1])]
  <2>. HIDE DEF B, start
  <2>1. \A l \in Nat : l # 0 => l - 1 \in Nat
    OBVIOUS
  <2>2. \A l \in Nat : l # 0 => F[l][h[l - 1]] = Inference!Compare(h[l - 1])
    BY <1>2, <2>1
  <2>. HIDE DEF F
  <2>. QED  BY <1>2, <2>2
<1>4. r = [l \in Nat |-> IF l = 0 THEN start ELSE Inference!Compare(r[l - 1])]
  BY <1>3, Zenon DEF Inference!Alike
<1>. HIDE DEF r, start
<1>5. r[0] = start /\ \A l \in Nat : r[l + 1] = Inference!Compare(r[l])
  BY <1>4
<1>. QED  BY <1>5 DEF r, start

\* Values that differ only in their leaves have one schema, on every level.
LEMMA AlikeDescribed ==
  ASSUME Inference!InferenceOK
  PROVE  \A l \in Nat, v, w \in Values :
           Inference!Alike[l][v][w] => Inference!SchemaForValue[l][v] = Inference!SchemaForValue[l][w]
<1>. DEFINE below(l) == Inference!SchemaForValue[l]
            alike(l) == Inference!Alike[l]
            L == {l \in Nat : \A v, w \in Values : alike(l)[v][w] => below(l)[v] = below(l)[w]}
<1>1. 0 \in L
  BY SchemaLevels
<1>2. ASSUME NEW l \in L PROVE l + 1 \in L
  <2>1. l \in Nat /\ l + 1 \in Nat
    OBVIOUS
  <2>. SUFFICES ASSUME NEW v \in Values, NEW w \in Values, alike(l + 1)[v][w]
                PROVE  below(l + 1)[v] = below(l + 1)[w]
    BY <2>1
  <2>2. Inference!Compare(alike(l))[v][w]
    BY <2>1, AlikeLevels
  <2>3. /\ v.t = w.t
        /\ v.t = "object" => /\ DOMAIN v.members = DOMAIN w.members
                             /\ \A k \in DOMAIN v.members : alike(l)[v.members[k]][w.members[k]]
        /\ v.t = "array" => /\ DOMAIN v.items = DOMAIN w.items
                            /\ \A i \in DOMAIN v.items : alike(l)[v.items[i]][w.items[i]]
    BY <2>2 DEF Inference!Compare
  <2>4. below(l + 1) = Inference!Describe(below(l))
    BY <2>1, SchemaLevels
  <2>. HIDE DEF below, alike
  <2>5. CASE v.t = "object"
    <3>. DEFINE keys == Inference!FirstKeys(DOMAIN v.members) \ LongKeys
    <3>1. w.t = "object" /\ DOMAIN v.members = DOMAIN w.members
      BY <2>3, <2>5
    <3>2. below(l + 1)[v] = [type |-> "object",
                             properties |-> [k \in keys |-> below(l)[v.members[k]]]]
      BY <2>4, <2>5 DEF Inference!Describe
    <3>3. below(l + 1)[w] = [type |-> "object",
                             properties |-> [k \in keys |-> below(l)[w.members[k]]]]
      BY <2>4, <3>1 DEF Inference!Describe
    <3>4. keys \subseteq DOMAIN v.members
      BY DEF Inference!FirstKeys
    <3>5. \A k \in keys : below(l)[v.members[k]] = below(l)[w.members[k]]
      <4>1. \A k \in keys : v.members[k] \in Values /\ w.members[k] \in Values
        BY <2>5, <3>1, <3>4, PartsOfValues
      <4>2. \A k \in keys : alike(l)[v.members[k]][w.members[k]]
        BY <2>3, <2>5, <3>4
      <4>. HIDE DEF keys
      <4>. QED  BY <4>1, <4>2
    <3>. HIDE DEF keys
    <3>. QED  BY <3>2, <3>3, <3>5
  <2>6. CASE v.t = "array"
    <3>1. w.t = "array" /\ DOMAIN v.items = DOMAIN w.items
      BY <2>3, <2>6
    <3>. DEFINE sampled == Inference!Sampled(v)
    <3>2. sampled = Inference!Sampled(w) /\ sampled \subseteq DOMAIN v.items
      BY <3>1 DEF Inference!Sampled
    <3>3. below(l + 1)[v] = [type |-> "array",
                             items |-> Inference!ItemSchema({below(l)[v.items[i]] : i \in sampled})]
      BY <2>4, <2>6 DEF Inference!Describe
    <3>4. below(l + 1)[w] = [type |-> "array",
                             items |-> Inference!ItemSchema({below(l)[w.items[i]] : i \in sampled})]
      BY <2>4, <3>1, <3>2 DEF Inference!Describe
    <3>5. \A i \in sampled : below(l)[v.items[i]] = below(l)[w.items[i]]
      <4>1. \A i \in sampled : v.items[i] \in Values /\ w.items[i] \in Values
        BY <2>6, <3>1, <3>2, PartsOfValues
      <4>2. \A i \in sampled : alike(l)[v.items[i]][w.items[i]]
        BY <2>3, <2>6, <3>2
      <4>. HIDE DEF sampled
      <4>. QED  BY <4>1, <4>2
    <3>6. {below(l)[v.items[i]] : i \in sampled} = {below(l)[w.items[i]] : i \in sampled}
      <4>. HIDE DEF sampled
      <4>. QED  BY <3>5
    <3>. QED  BY <3>3, <3>4, <3>6
  <2>7. CASE v.t \in Inference!LeafTypes
    <3>1. w.t = v.t /\ v.t # "object" /\ v.t # "array"
      BY <2>3, <2>7 DEF Inference!LeafTypes
    <3>2. below(l + 1)[v] = Inference!LeafSchema(v) /\ below(l + 1)[w] = Inference!LeafSchema(w)
      BY <2>4, <3>1 DEF Inference!Describe
    <3>. QED  BY <3>1, <3>2 DEF Inference!LeafSchema
  <2>. QED  BY <2>5, <2>6, <2>7, PartsOfValues
<1>3. L \in SUBSET Nat
  OBVIOUS
<1>4. L = Nat
  <2>. HIDE DEF L
  <2>. QED  BY <1>1, <1>2, <1>3, EveryLevel
<1>. QED  BY <1>4

\* A body is a value, if there is one.
LEMMA BodyTyped ==
  ASSUME Inference!InferenceOK
  PROVE  Inference!Spec => [](body \in Values \cup {None})
<1>1. Inference!Init => body \in Values \cup {None}
  BY DEF Inference!Init, Inference!InferenceOK
<1>2. body \in Values \cup {None} /\ [Inference!Next]_Inference!vars => (body \in Values \cup {None})'
  BY DEF Inference!Next, Inference!Send, Inference!vars, Inference!InferenceOK
<1>. QED  BY <1>1, <1>2, PTL DEF Inference!Spec

\* No value of a body can be read off the schema proposed for it (specsmith.go:611-686).
THEOREM NoValueShowsThrough == Inference!Spec => ValueFree
<1>. Inference!InferenceOK
  BY PartsAssumption
<1>. DEFINE Typed == body \in Values \cup {None}
<1>1. Typed /\ Typed' /\ [Inference!Next]_Inference!vars
        => [None \notin {body, body'} /\ Inference!Alike[MaxSchemaDepth][body][body']
              => Inference!Inferred' = Inference!Inferred]_Inference!vars
  <2>. SUFFICES ASSUME body \in Values, body' \in Values, None \notin {body, body'},
                       Inference!Alike[MaxSchemaDepth][body][body']
                PROVE  Inference!Inferred' = Inference!Inferred
    OBVIOUS
  <2>1. MaxSchemaDepth \in Nat
    BY DEF Inference!InferenceOK
  <2>2. Inference!SchemaForValue[MaxSchemaDepth][body] = Inference!SchemaForValue[MaxSchemaDepth][body']
    BY <2>1, AlikeDescribed
  <2>. QED  BY <2>2 DEF Inference!Inferred
<1>. QED  BY <1>1, BodyTyped, PTL DEF Inference!Spec, Inference!ValueFree, ValueFree

\* The module of the schemas counts as this one does.
LEMMA SameCount == \A T : Inference!Cardinality(T) = Cardinality(T)
  BY DEF Inference!Cardinality, Cardinality

\* There are only so many names.
LEMMA NamesAreFinite ==
  ASSUME Inference!InferenceOK
  PROVE  IsFiniteSet(Inference!Names)
<1>. DEFINE f == [i \in 1 .. Len(BodyKeys) |-> BodyKeys[i]]
<1>1. BodyKeys \in Seq(STRING) /\ Len(BodyKeys) \in Nat /\ DOMAIN BodyKeys = 1 .. Len(BodyKeys)
  BY DEF Inference!InferenceOK
<1>2. f \in Surjection(1 .. Len(BodyKeys), Inference!Names)
  BY <1>1 DEF Surjection, Inference!Names
<1>3. IsFiniteSet(1 .. Len(BodyKeys))
  BY <1>1, FS_Interval
<1>. HIDE DEF f
<1>. QED  BY <1>2, <1>3, FS_Surjection

\* Nothing is left out of an object that is not too wide.
LEMMA NothingLeftOut ==
  ASSUME Inference!InferenceOK, NEW keys \in SUBSET Inference!Names,
         Cardinality(keys) <= MaxSchemaProperties
  PROVE  Inference!FirstKeys(keys) = keys
<1>1. IsFiniteSet(Inference!Names)
  BY NamesAreFinite
<1>2. IsFiniteSet(keys)
  BY <1>1, FS_Subset
<1>3. ASSUME NEW k \in keys PROVE k \in Inference!FirstKeys(keys)
  <2>. DEFINE earlier == {l \in keys : Inference!Before(l, k)}
  <2>1. ~Inference!Before(k, k)
    <3>. SUFFICES ASSUME NEW j \in DOMAIN BodyKeys, NEW i \in 1 .. j - 1, BodyKeys[j] = k, BodyKeys[i] = k
                  PROVE  FALSE
      BY DEF Inference!Before
    <3>1. BodyKeys \in Seq(STRING) /\ \A m, n \in DOMAIN BodyKeys : BodyKeys[m] = BodyKeys[n] => m = n
      BY DEF Inference!InferenceOK
    <3>2. i \in DOMAIN BodyKeys /\ i # j
      BY <3>1
    <3>. QED  BY <3>1, <3>2
  <2>2. earlier \subseteq keys \ {k}
    BY <2>1
  <2>. HIDE DEF earlier
  <2>3. IsFiniteSet(keys \ {k}) /\ Cardinality(keys \ {k}) = Cardinality(keys) - 1
    BY <1>2, FS_RemoveElement
  <2>4. IsFiniteSet(earlier) /\ Cardinality(earlier) <= Cardinality(keys) - 1
    BY <2>2, <2>3, FS_Subset
  <2>5. Cardinality(earlier) \in Nat /\ Cardinality(keys) \in Nat /\ MaxSchemaProperties \in Nat
    BY <1>2, <2>4, FS_CardinalityType DEF Inference!InferenceOK
  <2>6. Inference!Cardinality(earlier) < MaxSchemaProperties
    BY <2>4, <2>5, SameCount
  <2>. QED  BY <2>6 DEF earlier, Inference!FirstKeys
<1>4. Inference!FirstKeys(keys) \subseteq keys
  BY DEF Inference!FirstKeys
<1>. QED  BY <1>3, <1>4

\* Validation always decides.
LEMMA JudgeDecides ==
  ASSUME NEW below, NEW schemas, NEW v \in Values, NEW s \in schemas
  PROVE  Inference!Judge(below, schemas)[v][s] \in BOOLEAN
<1>. DEFINE verdict == Inference!Judge(below, schemas)[v][s]
<1>1. CASE s.type = "any"
  BY <1>1 DEF Inference!Judge
<1>2. CASE s.type = "object"
  BY <1>2 DEF Inference!Judge
<1>3. CASE s.type = "array"
  BY <1>3 DEF Inference!Judge
<1>4. CASE s.type = "number"
  BY <1>4 DEF Inference!Judge
<1>5. CASE s.type = "integer"
  BY <1>5 DEF Inference!Judge
<1>6. CASE s.type \notin {"any", "object", "array", "number", "integer"}
  BY <1>6 DEF Inference!Judge
<1>. QED  BY <1>1, <1>2, <1>3, <1>4, <1>5, <1>6

\* Validation goes by the levels of the schemas.
LEMMA ValidatesLevels ==
  /\ Inference!Validates[0] =
       [v \in Values |-> [s \in Inference!SchemasOf[0] |-> s = Inference!Anything]]
  /\ \A l \in Nat : Inference!Validates[l + 1] =
                      Inference!Judge(Inference!Validates[l], Inference!SchemasOf[l + 1])
<1>. DEFINE X(l) == Inference!SchemasOf[l]
            S == [l \in Nat |-> [Values -> [X(l) -> BOOLEAN]]]
            start == [v \in Values |-> [s \in X(0) |-> s = Inference!Anything]]
            F == [l \in Nat |-> [b \in S[l - 1] |-> Inference!Judge(b, X(l))]]
            r == Inference!Validates
<1>. HIDE DEF X
<1>1. start \in S[0]
  OBVIOUS
<1>2. ASSUME NEW l \in Nat, NEW b PROVE Inference!Judge(b, X(l)) \in S[l]
  <2>1. \A v \in Values, s \in X(l) : Inference!Judge(b, X(l))[v][s] \in BOOLEAN
    BY JudgeDecides
  <2>2. Inference!Judge(b, X(l)) =
          [v \in Values |-> [s \in X(l) |-> Inference!Judge(b, X(l))[v][s]]]
    BY DEF Inference!Judge
  <2>3. S[l] = [Values -> [X(l) -> BOOLEAN]]
    OBVIOUS
  <2>. HIDE DEF S
  <2>. QED  BY <2>1, <2>2, <2>3
<1>3. ASSUME NEW l \in Nat PROVE F[l + 1] \in [S[l] -> S[l + 1]]
  <2>1. l + 1 \in Nat /\ (l + 1) - 1 = l
    OBVIOUS
  <2>2. F[l + 1] = [b \in S[l] |-> Inference!Judge(b, X(l + 1))]
    BY <2>1
  <2>. HIDE DEF F, S
  <2>. QED  BY <1>2, <2>1, <2>2
<1>4. PICK h : /\ h = [l \in Nat |-> IF l = 0 THEN start ELSE F[l][h[l - 1]]]
               /\ \A l \in Nat : h[l] \in S[l]
  <2>. HIDE DEF S, start, F
  <2>1. Steps(S, start, F)
    BY <1>1, <1>3 DEF Steps
  <2>2. \E h : Results(h, S, start, F)
    BY <2>1, Iterates
  <2>. QED  BY <2>2 DEF Results
<1>5. h = [l \in Nat |-> IF l = 0 THEN start ELSE Inference!Judge(h[l - 1], X(l))]
  <2>. HIDE DEF S, start
  <2>1. \A l \in Nat : l # 0 => l - 1 \in Nat
    OBVIOUS
  <2>2. \A l \in Nat : l # 0 => F[l][h[l - 1]] = Inference!Judge(h[l - 1], X(l))
    BY <1>4, <2>1
  <2>. HIDE DEF F
  <2>. QED  BY <1>4, <2>2
<1>6. r = [l \in Nat |-> IF l = 0 THEN start ELSE Inference!Judge(r[l - 1], X(l))]
  BY <1>5, Zenon DEF Inference!Validates, X
<1>. HIDE DEF r, start
<1>7. r[0] = start /\ \A l \in Nat : r[l + 1] = Inference!Judge(r[l], X(l + 1))
  BY <1>6
<1>. QED  BY <1>7 DEF r, X, start

\* A start and steps that stay in one set have results.
LEMMA Repeated ==
  ASSUME NEW B, NEW start \in B, NEW F \in [Nat -> [B -> B]]
  PROVE  \E h : /\ h = [l \in Nat |-> IF l = 0 THEN start ELSE F[l - 1][h[l - 1]]]
                /\ \A l \in Nat : h[l] \in B
<1>. DEFINE S == [l \in Nat |-> B]
            G == [l \in Nat |-> F[l - 1]]
<1>1. ASSUME NEW l \in Nat PROVE G[l + 1] \in [S[l] -> S[l + 1]]
  <2>1. l + 1 \in Nat /\ (l + 1) - 1 = l
    OBVIOUS
  <2>. QED  BY <2>1
<1>2. PICK h : /\ h = [l \in Nat |-> IF l = 0 THEN start ELSE G[l][h[l - 1]]]
               /\ \A l \in Nat : h[l] \in S[l]
  <2>1. start \in S[0]
    OBVIOUS
  <2>. HIDE DEF S, G
  <2>2. Steps(S, start, G)
    BY <1>1, <2>1 DEF Steps
  <2>3. \E h : Results(h, S, start, G)
    BY <2>2, Iterates
  <2>. QED  BY <2>3 DEF Results
<1>3. h = [l \in Nat |-> IF l = 0 THEN start ELSE F[l - 1][h[l - 1]]]
  <2>1. \A l \in Nat : G[l] = F[l - 1]
    OBVIOUS
  <2>. HIDE DEF G
  <2>. QED  BY <1>2, <2>1
<1>4. \A l \in Nat : h[l] \in B
  BY <1>2
<1>. QED  BY <1>3, <1>4

\* Values are of one shape on each level as their parts are on the one below.
LEMMA SameLevels ==
  /\ Inference!Same[0] = [v \in Values |-> [w \in Values |-> TRUE]]
  /\ \A l \in Nat : Inference!Same[l + 1] = Inference!Resemble(Inference!Same[l], l = 0)
<1>. DEFINE B == [Values -> [Values -> BOOLEAN]]
            start == [v \in Values |-> [w \in Values |-> TRUE]]
            F == [l \in Nat |-> [b \in B |-> Inference!Resemble(b, l = 0)]]
            r == Inference!Same
<1>1. start \in B /\ \A b \in B, l \in Nat : Inference!Resemble(b, l = 0) \in B
  BY DEF Inference!Resemble
<1>2. F \in [Nat -> [B -> B]]
  BY <1>1
<1>3. PICK h : /\ h = [l \in Nat |-> IF l = 0 THEN start ELSE F[l - 1][h[l - 1]]]
               /\ \A l \in Nat : h[l] \in B
  <2>. HIDE DEF B, start, F
  <2>. QED  BY <1>1, <1>2, Repeated
<1>4. h = [l \in Nat |-> IF l = 0 THEN start ELSE Inference!Resemble(h[l - 1], l = 1)]
  <2>. HIDE DEF B, start
  <2>1. \A l \in Nat : l # 0 => l - 1 \in Nat /\ ((l - 1 = 0) = (l = 1))
    OBVIOUS
  <2>2. \A l \in Nat : l # 0 => F[l - 1][h[l - 1]] = Inference!Resemble(h[l - 1], l - 1 = 0)
    BY <1>3, <2>1
  <2>3. \A l \in Nat : l # 0 => F[l - 1][h[l - 1]] = Inference!Resemble(h[l - 1], l = 1)
    BY <2>1, <2>2
  <2>. HIDE DEF F
  <2>. QED  BY <1>3, <2>3
<1>5. r = [l \in Nat |-> IF l = 0 THEN start ELSE Inference!Resemble(r[l - 1], l = 1)]
  BY <1>4, Zenon DEF Inference!Same
<1>. HIDE DEF r, start
<1>6. r[0] = start
  BY <1>5
<1>7. ASSUME NEW l \in Nat PROVE r[l + 1] = Inference!Resemble(r[l], l = 0)
  <2>1. l + 1 \in Nat /\ l + 1 # 0 /\ (l + 1) - 1 = l /\ ((l + 1 = 1) = (l = 0))
    OBVIOUS
  <2>2. r[l + 1] = Inference!Resemble(r[(l + 1) - 1], l + 1 = 1)
    BY <1>5, <2>1
  <2>. QED  BY <2>1, <2>2
<1>. QED  BY <1>6, <1>7 DEF r, start

\* A value suits another on each level as its parts do on the one below.
LEMMA FitsLevels ==
  /\ Inference!Fits[0] = [v \in Values |-> [w \in Values |-> TRUE]]
  /\ \A l \in Nat : Inference!Fits[l + 1] = Inference!Suit(Inference!Fits[l], Inference!Same[l])
<1>. DEFINE B == [Values -> [Values -> BOOLEAN]]
            start == [v \in Values |-> [w \in Values |-> TRUE]]
            F == [l \in Nat |-> [b \in B |-> Inference!Suit(b, Inference!Same[l])]]
            r == Inference!Fits
<1>1. start \in B /\ \A b \in B, l \in Nat : Inference!Suit(b, Inference!Same[l]) \in B
  <2>1. ASSUME NEW b, NEW same, NEW v \in Values, NEW w \in Values
        PROVE  Inference!Suit(b, same)[v][w] \in BOOLEAN
    <3>1. CASE w.t = "object"
      BY <3>1 DEF Inference!Suit
    <3>2. CASE w.t = "array"
      BY <3>2 DEF Inference!Suit
    <3>3. CASE w.t = "number"
      <4>1. Inference!Suit(b, same)[v][w] = (v.t \in {"number", "integer"})
        BY <3>3 DEF Inference!Suit
      <4>. QED  BY <4>1
    <3>4. CASE w.t = "integer"
      BY <3>4 DEF Inference!Suit
    <3>5. CASE w.t \notin {"object", "array", "number", "integer"}
      BY <3>5 DEF Inference!Suit
    <3>. QED  BY <3>1, <3>2, <3>3, <3>4, <3>5
  <2>2. ASSUME NEW b, NEW same
        PROVE  Inference!Suit(b, same) =
                 [v \in Values |-> [w \in Values |-> Inference!Suit(b, same)[v][w]]]
    BY DEF Inference!Suit
  <2>3. ASSUME NEW b, NEW same PROVE Inference!Suit(b, same) \in B
    BY <2>1, <2>2
  <2>. QED  BY <2>3
<1>2. F \in [Nat -> [B -> B]]
  BY <1>1
<1>3. PICK h : /\ h = [l \in Nat |-> IF l = 0 THEN start ELSE F[l - 1][h[l - 1]]]
               /\ \A l \in Nat : h[l] \in B
  <2>. HIDE DEF B, start, F
  <2>. QED  BY <1>1, <1>2, Repeated
<1>4. h = [l \in Nat |-> IF l = 0 THEN start ELSE Inference!Suit(h[l - 1], Inference!Same[l - 1])]
  <2>. HIDE DEF B, start
  <2>1. \A l \in Nat : l # 0 => l - 1 \in Nat
    OBVIOUS
  <2>2. \A l \in Nat : l # 0 => F[l - 1][h[l - 1]] = Inference!Suit(h[l - 1], Inference!Same[l - 1])
    BY <1>3, <2>1
  <2>. HIDE DEF F
  <2>. QED  BY <1>3, <2>2
<1>5. r = [l \in Nat |-> IF l = 0 THEN start ELSE Inference!Suit(r[l - 1], Inference!Same[l - 1])]
  BY <1>4, Zenon DEF Inference!Fits
<1>. HIDE DEF r, start
<1>6. r[0] = start /\ \A l \in Nat : r[l + 1] = Inference!Suit(r[l], Inference!Same[l])
  BY <1>5
<1>. QED  BY <1>6 DEF r, start

\* A value is narrow on each level if its parts are on the one below.
LEMMA NarrowLevels ==
  /\ Inference!Narrow[0] = [v \in Values |-> TRUE]
  /\ \A l \in Nat : Inference!Narrow[l + 1] = Inference!Confine(Inference!Narrow[l])
<1>. DEFINE B == [Values -> BOOLEAN]
            start == [v \in Values |-> TRUE]
            F == [l \in Nat |-> [b \in B |-> Inference!Confine(b)]]
            r == Inference!Narrow
<1>1. start \in B /\ \A b \in B : Inference!Confine(b) \in B
  BY DEF Inference!Confine
<1>2. F \in [Nat -> [B -> B]]
  BY <1>1
<1>3. PICK h : /\ h = [l \in Nat |-> IF l = 0 THEN start ELSE F[l - 1][h[l - 1]]]
               /\ \A l \in Nat : h[l] \in B
  <2>. HIDE DEF B, start, F
  <2>. QED  BY <1>1, <1>2, Repeated
<1>4. h = [l \in Nat |-> IF l = 0 THEN start ELSE Inference!Confine(h[l - 1])]
  <2>. HIDE DEF B, start
  <2>1. \A l \in Nat : l # 0 => l - 1 \in Nat
    OBVIOUS
  <2>2. \A l \in Nat : l # 0 => F[l - 1][h[l - 1]] = Inference!Confine(h[l - 1])
    BY <1>3, <2>1
  <2>. HIDE DEF F
  <2>. QED  BY <1>3, <2>2
<1>5. r = [l \in Nat |-> IF l = 0 THEN start ELSE Inference!Confine(r[l - 1])]
  BY <1>4, Zenon DEF Inference!Narrow
<1>. HIDE DEF r, start
<1>6. r[0] = start /\ \A l \in Nat : r[l + 1] = Inference!Confine(r[l])
  BY <1>5
<1>. QED  BY <1>6 DEF r, start

\* A value is tidy on each level if its parts are on the one below.
LEMMA TidyLevels ==
  \A l \in Nat : Inference!Tidy[l + 1] = Inference!Sort(Inference!Tidy[l], Inference!Alike[l])
<1>. DEFINE B == [Values -> BOOLEAN]
            start == [v \in Values |-> TRUE]
            F == [l \in Nat |-> [b \in B |-> Inference!Sort(b, Inference!Alike[l])]]
            r == Inference!Tidy
<1>1. start \in B /\ \A b \in B, l \in Nat : Inference!Sort(b, Inference!Alike[l]) \in B
  BY DEF Inference!Sort
<1>2. F \in [Nat -> [B -> B]]
  BY <1>1
<1>3. PICK h : /\ h = [l \in Nat |-> IF l = 0 THEN start ELSE F[l - 1][h[l - 1]]]
               /\ \A l \in Nat : h[l] \in B
  <2>. HIDE DEF B, start, F
  <2>. QED  BY <1>1, <1>2, Repeated
<1>4. h = [l \in Nat |-> IF l = 0 THEN start ELSE Inference!Sort(h[l - 1], Inference!Alike[l - 1])]
  <2>. HIDE DEF B, start
  <2>1. \A l \in Nat : l # 0 => l - 1 \in Nat
    OBVIOUS
  <2>2. \A l \in Nat : l # 0 => F[l - 1][h[l - 1]] = Inference!Sort(h[l - 1], Inference!Alike[l - 1])
    BY <1>3, <2>1
  <2>. HIDE DEF F
  <2>. QED  BY <1>3, <2>2
<1>5. r = [l \in Nat |-> IF l = 0 THEN start ELSE Inference!Sort(r[l - 1], Inference!Alike[l - 1])]
  BY <1>4, Zenon DEF Inference!Tidy
<1>. HIDE DEF r, start
<1>6. \A l \in Nat : r[l + 1] = Inference!Sort(r[l], Inference!Alike[l])
  BY <1>5
<1>. QED  BY <1>6 DEF r

\* The items that are looked at are those the code samples, and are values.
LEMMA SeenItems ==
  ASSUME Inference!InferenceOK, NEW v \in Values, v.t = "array"
  PROVE  /\ Inference!Seen(v) \subseteq Values
         /\ \A f : {f[v.items[i]] : i \in Inference!Sampled(v)} = {f[x] : x \in Inference!Seen(v)}
<1>1. v.items \in Seq(Values) /\ MaxSchemaArrayItems \in Nat
  BY DEF Inference!InferenceOK
<1>2. Inference!Sampled(v) = DOMAIN v.items \cap 1 .. MaxSchemaArrayItems
  BY <1>1 DEF Inference!Sampled
<1>3. Inference!Seen(v) = {v.items[i] : i \in Inference!Sampled(v)}
  BY <1>2 DEF Inference!Seen
<1>4. \A i \in Inference!Sampled(v) : v.items[i] \in Values
  BY <1>1, <1>2
<1>. QED  BY <1>3, <1>4

\* What the schema of a value is made of.
LEMMA SchemaOfParts ==
  ASSUME Inference!InferenceOK, NEW l \in Nat, NEW v \in Values
  PROVE  /\ v.t = "object" => Inference!SchemaForValue[l + 1][v] =
              [type |-> "object",
               properties |-> [k \in Inference!Shown(v) |-> Inference!SchemaForValue[l][v.members[k]]]]
         /\ v.t = "array" => Inference!SchemaForValue[l + 1][v] =
              [type |-> "array",
               items |-> Inference!ItemSchema({Inference!SchemaForValue[l][x] : x \in Inference!Seen(v)})]
         /\ v.t \notin {"object", "array"} => Inference!SchemaForValue[l + 1][v] = [type |-> v.t]
<1>. DEFINE below == Inference!SchemaForValue[l]
<1>1. Inference!SchemaForValue[l + 1][v] = Inference!Describe(below)[v]
  BY SchemaLevels
<1>. HIDE DEF below
<1>2. CASE v.t = "object"
  <2>1. Inference!Shown(v) = Inference!FirstKeys(DOMAIN v.members) \ LongKeys
    BY DEF Inference!Shown, Inference!FirstKeys
  <2>2. Inference!Describe(below)[v] =
          [type |-> "object",
           properties |-> [k \in Inference!FirstKeys(DOMAIN v.members) \ LongKeys |-> below[v.members[k]]]]
    BY <1>2 DEF Inference!Describe
  <2>. QED  BY <1>1, <1>2, <2>1, <2>2 DEF below
<1>3. CASE v.t = "array"
  <2>1. Inference!Describe(below)[v] =
          [type |-> "array",
           items |-> Inference!ItemSchema({below[v.items[i]] : i \in Inference!Sampled(v)})]
    BY <1>3 DEF Inference!Describe
  <2>2. {below[v.items[i]] : i \in Inference!Sampled(v)} = {below[x] : x \in Inference!Seen(v)}
    BY <1>3, SeenItems
  <2>. QED  BY <1>1, <1>3, <2>1, <2>2 DEF below
<1>4. CASE v.t \notin {"object", "array"}
  <2>1. Inference!Describe(below)[v] = Inference!LeafSchema(v)
    BY <1>4 DEF Inference!Describe
  <2>. QED  BY <1>1, <1>4, <2>1 DEF Inference!LeafSchema
<1>. QED  BY <1>2, <1>3, <1>4

\* The schema of a value is of its type, unless it is cut off; it is never a choice.
LEMMA TypeOfSchema ==
  ASSUME Inference!InferenceOK, NEW v \in Values
  PROVE  /\ \A l \in Nat : Inference!SchemaForValue[l + 1][v].type = v.t
         /\ \A l \in Nat : Inference!SchemaForValue[l][v].type # "oneOf"
         /\ \A l \in Nat : l # 0 => Inference!SchemaForValue[l][v].type # "any"
<1>1. ASSUME NEW l \in Nat PROVE Inference!SchemaForValue[l + 1][v].type = v.t
  <2>. DEFINE s == Inference!SchemaForValue[l + 1][v]
              p == [k \in Inference!Shown(v) |-> Inference!SchemaForValue[l][v.members[k]]]
              i == Inference!ItemSchema({Inference!SchemaForValue[l][x] : x \in Inference!Seen(v)})
  <2>1. /\ v.t = "object" => s = [type |-> "object", properties |-> p]
        /\ v.t = "array" => s = [type |-> "array", items |-> i]
        /\ v.t \notin {"object", "array"} => s = [type |-> v.t]
    BY SchemaOfParts
  <2>. HIDE DEF s, p, i
  <2>2. s.type = v.t
    BY <2>1
  <2>. QED  BY <2>2 DEF s
<1>2. Inference!SchemaForValue[0][v].type = "any"
  BY SchemaLevels DEF Inference!Anything
<1>3. v.t \notin {"oneOf", "any"}
  BY PartsOfValues DEF Inference!LeafTypes
<1>4. ASSUME NEW l \in Nat, l # 0
      PROVE  Inference!SchemaForValue[l][v].type \notin {"oneOf", "any"}
  <2>1. l - 1 \in Nat /\ (l - 1) + 1 = l
    BY <1>4
  <2>2. Inference!SchemaForValue[l][v].type = v.t
    BY <1>1, <2>1
  <2>. QED  BY <1>3, <2>2
<1>. QED  BY <1>1, <1>2, <1>4

\* Schemas of items are told apart by what they are made of.
LEMMA ItemSchemasDiffer ==
  ASSUME NEW V, NEW W, \A s \in V \cup W : s.type \notin {"any", "oneOf"},
         Inference!ItemSchema(V) = Inference!ItemSchema(W)
  PROVE  V = W
<1>. DEFINE Is(X, s) == \/ X = {} /\ s = Inference!Anything
                        \/ X # {} /\ s \in X /\ X = {s}
                        \/ s = [type |-> "oneOf", variants |-> X]
<1>1. \A X : Is(X, Inference!ItemSchema(X))
  BY DEF Inference!ItemSchema
<1>2. ASSUME NEW s, Is(V, s), Is(W, s) PROVE V = W
  <2>1. Inference!Anything.type = "any"
    BY DEF Inference!Anything
  <2>2. \A X : [type |-> "oneOf", variants |-> X].type = "oneOf"
               /\ [type |-> "oneOf", variants |-> X].variants = X
    OBVIOUS
  <2>. QED  BY <1>2, <2>1, <2>2
<1>. QED  BY <1>1, <1>2

\* Values are of one shape exactly if they have one schema, on every level.
LEMMA SameDescribed ==
  ASSUME Inference!InferenceOK
  PROVE  \A l \in Nat, v, w \in Values :
           Inference!Same[l][v][w] <=> Inference!SchemaForValue[l][v] = Inference!SchemaForValue[l][w]
<1>. DEFINE S(l, v) == Inference!SchemaForValue[l][v]
            Same(l, v, w) == Inference!Same[l][v][w]
            L == {l \in Nat : \A v, w \in Values : Same(l, v, w) <=> S(l, v) = S(l, w)}
<1>1. 0 \in L
  BY SameLevels, SchemaLevels
<1>2. ASSUME NEW l \in L PROVE l + 1 \in L
  <2>1. l \in Nat /\ l + 1 \in Nat /\ \A v, w \in Values : Same(l, v, w) <=> S(l, v) = S(l, w)
    OBVIOUS
  <2>. SUFFICES ASSUME NEW v \in Values, NEW w \in Values
                PROVE  Same(l + 1, v, w) <=> S(l + 1, v) = S(l + 1, w)
    BY <2>1
  <2>2. Same(l + 1, v, w) <=>
          /\ v.t = w.t
          /\ v.t = "object" =>
               /\ Inference!Shown(v) = Inference!Shown(w)
               /\ \A k \in Inference!Shown(v) : Same(l, v.members[k], w.members[k])
          /\ v.t = "array" /\ l # 0 =>
               /\ \A x \in Inference!Seen(v) : \E y \in Inference!Seen(w) : Same(l, x, y)
               /\ \A y \in Inference!Seen(w) : \E x \in Inference!Seen(v) : Same(l, x, y)
    <3>1. Inference!Same[l + 1] = Inference!Resemble(Inference!Same[l], l = 0)
      BY <2>1, SameLevels
    <3>. QED  BY <3>1 DEF Inference!Resemble
  <2>3. \A x \in Values : S(l + 1, x).type = x.t
    BY <2>1, TypeOfSchema
  <2>. DEFINE p(x) == [k \in Inference!Shown(x) |-> S(l, x.members[k])]
              V(x) == {S(l, y) : y \in Inference!Seen(x)}
  <2>4. \A x \in Values :
          /\ x.t = "object" => S(l + 1, x) = [type |-> "object", properties |-> p(x)]
          /\ x.t = "array" => S(l + 1, x) = [type |-> "array", items |-> Inference!ItemSchema(V(x))]
          /\ x.t \notin {"object", "array"} => S(l + 1, x) = [type |-> x.t]
    BY <2>1, SchemaOfParts
  <2>5. CASE v.t # w.t
    BY <2>2, <2>3, <2>5
  <2>6. CASE v.t = "object" /\ w.t = "object"
    <3>1. S(l + 1, v) = S(l + 1, w) <=> p(v) = p(w)
      <4>1. /\ S(l + 1, v) = [type |-> "object", properties |-> p(v)]
            /\ S(l + 1, w) = [type |-> "object", properties |-> p(w)]
        BY <2>4, <2>6
      <4>. HIDE DEF S, p
      <4>. QED  BY <4>1
    <3>2. p(v) = p(w) <=> /\ Inference!Shown(v) = Inference!Shown(w)
                          /\ \A k \in Inference!Shown(v) : S(l, v.members[k]) = S(l, w.members[k])
      <4>. HIDE DEF S
      <4>. QED  OBVIOUS
    <3>3. Inference!Shown(v) = Inference!Shown(w) => \A k \in Inference!Shown(v) :
            v.members[k] \in Values /\ w.members[k] \in Values
      <4>1. \A x : Inference!Shown(x) \subseteq DOMAIN x.members
        BY DEF Inference!Shown
      <4>. QED  BY <2>6, <4>1, PartsOfValues
    <3>. HIDE DEF S, Same, p
    <3>. QED  BY <2>1, <2>2, <2>6, <3>1, <3>2, <3>3
  <2>7. CASE v.t = "array" /\ w.t = "array"
    <3>1. S(l + 1, v) = S(l + 1, w) <=> Inference!ItemSchema(V(v)) = Inference!ItemSchema(V(w))
      <4>1. /\ S(l + 1, v) = [type |-> "array", items |-> Inference!ItemSchema(V(v))]
            /\ S(l + 1, w) = [type |-> "array", items |-> Inference!ItemSchema(V(w))]
        BY <2>4, <2>7
      <4>. HIDE DEF S, V
      <4>. QED  BY <4>1
    <3>2. Inference!Seen(v) \subseteq Values /\ Inference!Seen(w) \subseteq Values
      BY <2>7, SeenItems
    <3>3. CASE l = 0
      <4>1. \A x \in Values : S(0, x) = Inference!Anything
        BY SchemaLevels
      <4>2. \A x \in {v, w} : Inference!ItemSchema(V(x)) = Inference!Anything
        <5>1. \A x \in {v, w} : V(x) = {} \/ V(x) = {Inference!Anything}
          <6>. HIDE DEF S
          <6>. QED  BY <3>2, <3>3, <4>1
        <5>. HIDE DEF V
        <5>. QED  BY <5>1 DEF Inference!ItemSchema
      <4>. HIDE DEF S, V, Same
      <4>. QED  BY <2>2, <2>7, <3>1, <3>3, <4>2
    <3>4. CASE l # 0
      <4>1. \A x \in Values : S(l, x).type \notin {"any", "oneOf"}
        BY <2>1, <3>4, TypeOfSchema
      <4>2. \A s \in V(v) \cup V(w) : s.type \notin {"any", "oneOf"}
        <5>. HIDE DEF S
        <5>. QED  BY <3>2, <4>1
      <4>3. Inference!ItemSchema(V(v)) = Inference!ItemSchema(V(w)) <=> V(v) = V(w)
        <5>. HIDE DEF V
        <5>. QED  BY <4>2, ItemSchemasDiffer
      <4>4. V(v) = V(w) <=>
              /\ \A x \in Inference!Seen(v) : \E y \in Inference!Seen(w) : S(l, x) = S(l, y)
              /\ \A y \in Inference!Seen(w) : \E x \in Inference!Seen(v) : S(l, x) = S(l, y)
        <5>. HIDE DEF S
        <5>. QED  OBVIOUS
      <4>5. \A x \in Inference!Seen(v), y \in Inference!Seen(w) : Same(l, x, y) <=> S(l, x) = S(l, y)
        BY <2>1, <3>2
      <4>. HIDE DEF S, V, Same
      <4>. QED  BY <2>2, <2>7, <3>1, <3>4, <4>3, <4>4, <4>5
    <3>. QED  BY <3>3, <3>4
  <2>8. CASE v.t = w.t /\ v.t \notin {"object", "array"}
    <3>1. S(l + 1, v) = S(l + 1, w)
      BY <2>4, <2>8
    <3>. HIDE DEF S, Same
    <3>. QED  BY <2>2, <2>8, <3>1
  <2>. QED  BY <2>5, <2>6, <2>7, <2>8
<1>3. L \in SUBSET Nat
  OBVIOUS
<1>4. L = Nat
  <2>. HIDE DEF L
  <2>. QED  BY <1>1, <1>2, <1>3, EveryLevel
<1>. QED  BY <1>4

\* What nothing is known of accepts everything.
LEMMA AnythingAccepts ==
  \A l \in Nat, v \in Values : Inference!Validates[l][v][Inference!Anything]
<1>1. \A v \in Values : Inference!Validates[0][v][Inference!Anything]
  <2>1. Inference!Anything \in Inference!SchemasOf[0]
    BY SchemaLevels
  <2>. QED  BY <2>1, ValidatesLevels
<1>2. ASSUME NEW l \in Nat, NEW v \in Values
      PROVE  Inference!Validates[l + 1][v][Inference!Anything]
  <2>. DEFINE schemas == Inference!SchemasOf[l + 1]
              below == Inference!Validates[l]
  <2>1. l + 1 \in Nat
    OBVIOUS
  <2>2. Inference!Anything \in schemas /\ Inference!Anything.type = "any"
    BY <2>1, SchemaLevels DEF Inference!Anything
  <2>3. Inference!Validates[l + 1][v][Inference!Anything] =
          Inference!Judge(below, schemas)[v][Inference!Anything]
    BY ValidatesLevels
  <2>. HIDE DEF schemas, below
  <2>. QED  BY <2>2, <2>3 DEF Inference!Judge
<1>3. ASSUME NEW l \in Nat PROVE l = 0 \/ \E m \in Nat : l = m + 1
  <2>1. l = 0 \/ (l - 1 \in Nat /\ (l - 1) + 1 = l)
    OBVIOUS
  <2>. QED  BY <2>1
<1>. QED  BY <1>1, <1>2, <1>3

\* An item validates against the items of a schema exactly if it suits one of the shapes
\* that were seen, or nothing was.
LEMMA ItemFits ==
  ASSUME Inference!InferenceOK, NEW l \in Nat, NEW x \in Values, NEW Y \in SUBSET Values,
         \A y \in Y : Inference!Fits[l][x][y]
                        <=> Inference!Validates[l][x][Inference!SchemaForValue[l][y]]
  PROVE  Inference!ValidItem(Inference!Validates[l], x,
                             Inference!ItemSchema({Inference!SchemaForValue[l][y] : y \in Y}))
           <=> (Y # {} => \E y \in Y : /\ Inference!Fits[l][x][y]
                                      /\ \A z \in Y : Inference!Fits[l][x][z] => Inference!Same[l][y][z])
<1>. DEFINE S == Inference!SchemaForValue[l]
            good == Inference!Fits[l]
            same == Inference!Same[l]
<1>0. /\ \A y \in Y : S[y].type # "oneOf"
      /\ \A y \in Y : good[x][y] <=> Inference!Validates[l][x][S[y]]
      /\ \A y, z \in Y : same[y][z] <=> S[y] = S[z]
  BY TypeOfSchema, SameDescribed
<1>. HIDE DEF S, good, same
<1>. DEFINE validates == Inference!Validates[l]
            variants == {S[y] : y \in Y}
<1>1. validates[x][Inference!Anything] /\ Inference!Anything.type = "any"
  BY AnythingAccepts DEF Inference!Anything
<1>2. \A s \in variants : s.type # "oneOf"
  BY <1>0
<1>3. (\E y \in Y : good[x][y] /\ \A z \in Y : good[x][z] => same[y][z]) <=>
        \E s \in variants : \A r \in variants : validates[x][r] <=> r = s
  <2>. HIDE DEF validates
  <2>1. \A y \in Y : good[x][y] <=> validates[x][S[y]]
    BY <1>0 DEF validates
  <2>2. ASSUME NEW y \in Y, good[x][y], \A z \in Y : good[x][z] => same[y][z]
        PROVE  \E s \in variants : \A r \in variants : validates[x][r] <=> r = s
    <3>1. \A r \in variants : validates[x][r] <=> r = S[y]
      BY <1>0, <2>1, <2>2
    <3>. QED  BY <3>1
  <2>3. ASSUME NEW s \in variants, \A r \in variants : validates[x][r] <=> r = s
        PROVE  \E y \in Y : good[x][y] /\ \A z \in Y : good[x][z] => same[y][z]
    <3>1. PICK y \in Y : s = S[y]
      OBVIOUS
    <3>2. good[x][y] /\ \A z \in Y : good[x][z] => same[y][z]
      BY <1>0, <2>1, <2>3, <3>1
    <3>. QED  BY <3>2
  <2>. QED  BY <2>2, <2>3
<1>4. Y = {} <=> variants = {}
  OBVIOUS
<1>. SUFFICES Inference!ValidItem(validates, x, Inference!ItemSchema(variants)) <=>
                (variants # {} => \E s \in variants : \A r \in variants : validates[x][r] <=> r = s)
  BY <1>3, <1>4 DEF S, good, same
<1>. HIDE DEF validates, variants
<1>5. CASE variants = {}
  <2>1. Inference!ItemSchema(variants) = Inference!Anything
    BY <1>5 DEF Inference!ItemSchema
  <2>. QED  BY <1>1, <1>5, <2>1 DEF Inference!ValidItem
<1>6. CASE \E s \in variants : variants = {s}
  <2>1. PICK s \in variants : variants = {s}
    BY <1>6
  <2>2. Inference!ItemSchema(variants) = s
    BY <2>1 DEF Inference!ItemSchema
  <2>3. Inference!ValidItem(validates, x, s) <=> validates[x][s]
    BY <1>2 DEF Inference!ValidItem
  <2>4. (\E t \in variants : \A r \in variants : validates[x][r] <=> r = t) <=> (validates[x][s] <=> TRUE)
    BY <2>1
  <2>. QED  BY <2>1, <2>2, <2>3, <2>4
<1>7. CASE variants # {} /\ ~\E s \in variants : variants = {s}
  <2>1. Inference!ItemSchema(variants) = [type |-> "oneOf", variants |-> variants]
    BY <1>7 DEF Inference!ItemSchema
  <2>. QED  BY <1>7, <2>1 DEF Inference!ValidItem
<1>. QED  BY <1>5, <1>6, <1>7


\* A value validates against the schema of another exactly if it suits it, on every level.
LEMMA FitsDescribed ==
  ASSUME Inference!InferenceOK
  PROVE  \A l \in Nat, v, w \in Values :
           Inference!Validates[l][v][Inference!SchemaForValue[l][w]] <=> Inference!Fits[l][v][w]
<1>. DEFINE S(l) == Inference!SchemaForValue[l]
            Valid(l) == Inference!Validates[l]
            Fit(l) == Inference!Fits[l]
            L == {l \in Nat : \A v, w \in Values : Valid(l)[v][S(l)[w]] <=> Fit(l)[v][w]}
<1>1. 0 \in L
  BY SchemaLevels, FitsLevels, AnythingAccepts
<1>2. ASSUME NEW l \in L PROVE l + 1 \in L
  <2>1. l \in Nat /\ l + 1 \in Nat /\ \A v, w \in Values : Valid(l)[v][S(l)[w]] <=> Fit(l)[v][w]
    OBVIOUS
  <2>. SUFFICES ASSUME NEW v \in Values, NEW w \in Values
                PROVE  Valid(l + 1)[v][S(l + 1)[w]] <=> Fit(l + 1)[v][w]
    BY <2>1
  <2>. DEFINE s == S(l + 1)[w]
              schemas == Inference!SchemasOf[l + 1]
              same == Inference!Same[l]
  <2>2. s \in schemas /\ s.type = w.t
    BY <2>1, SchemaLevels, TypeOfSchema
  <2>3. Valid(l + 1)[v][s] = Inference!Judge(Valid(l), schemas)[v][s]
    BY <2>1, ValidatesLevels
  <2>4. Fit(l + 1)[v][w] = Inference!Suit(Fit(l), same)[v][w]
    BY <2>1, FitsLevels
  <2>5. CASE w.t = "object"
    <3>. DEFINE p == [k \in Inference!Shown(w) |-> S(l)[w.members[k]]]
    <3>1. s = [type |-> "object", properties |-> p]
      BY <2>1, <2>5, SchemaOfParts
    <3>2. s.type = "object" /\ s.properties = p
      <4>. HIDE DEF s, p
      <4>. QED  BY <3>1
    <3>3. Inference!Shown(w) \subseteq DOMAIN w.members
      BY DEF Inference!Shown
    <3>4. ASSUME v.t = "object", DOMAIN v.members \subseteq Inference!Shown(w), NEW k \in DOMAIN v.members
          PROVE  Valid(l)[v.members[k]][p[k]] <=> Fit(l)[v.members[k]][w.members[k]]
      <4>1. v.members[k] \in Values /\ w.members[k] \in Values /\ k \in Inference!Shown(w)
        BY <2>5, <3>3, <3>4, PartsOfValues
      <4>2. p[k] = S(l)[w.members[k]]
        BY <4>1
      <4>. HIDE DEF p, S, Valid, Fit
      <4>. QED  BY <2>1, <4>1, <4>2
    <3>5. DOMAIN p = Inference!Shown(w)
      OBVIOUS
    <3>. HIDE DEF s, schemas, same, p, S, Valid, Fit
    <3>6. Inference!Judge(Valid(l), schemas)[v][s] =
            /\ v.t = "object"
            /\ DOMAIN v.members \subseteq DOMAIN s.properties
            /\ \A k \in DOMAIN v.members : Valid(l)[v.members[k]][s.properties[k]]
      BY <2>2, <3>2 DEF Inference!Judge
    <3>7. Inference!Suit(Fit(l), same)[v][w] =
            /\ v.t = "object"
            /\ DOMAIN v.members \subseteq Inference!Shown(w)
            /\ \A k \in DOMAIN v.members : Fit(l)[v.members[k]][w.members[k]]
      BY <2>5 DEF Inference!Suit
    <3>8. Valid(l + 1)[v][s] <=> Fit(l + 1)[v][w]
      BY <2>3, <2>4, <3>2, <3>4, <3>5, <3>6, <3>7
    <3>. QED  BY <3>8 DEF s
  <2>6. CASE w.t = "array"
    <3>. DEFINE Y == Inference!Seen(w)
                items == Inference!ItemSchema({S(l)[y] : y \in Y})
    <3>1. s = [type |-> "array", items |-> items]
      BY <2>1, <2>6, SchemaOfParts
    <3>2. s.type = "array" /\ s.items = items
      <4>. HIDE DEF s, items
      <4>. QED  BY <3>1
    <3>3. Y \in SUBSET Values
      BY <2>6, SeenItems
    <3>4. ASSUME NEW x \in Values
          PROVE  Inference!ValidItem(Valid(l), x, items)
                   <=> (Y # {} => \E y \in Y : /\ Fit(l)[x][y]
                                              /\ \A z \in Y : Fit(l)[x][z] => same[y][z])
      <4>1. \A y \in Y : Fit(l)[x][y] <=> Valid(l)[x][S(l)[y]]
        BY <2>1, <3>3
      <4>. HIDE DEF Y
      <4>. QED  BY <2>1, <3>3, <4>1, ItemFits
    <3>5. v.t = "array" => \A i \in DOMAIN v.items : v.items[i] \in Values
      BY PartsOfValues
    <3>. HIDE DEF s, schemas, same, items, S, Valid, Fit
    <3>6. Inference!Judge(Valid(l), schemas)[v][s] =
            /\ v.t = "array"
            /\ \A i \in DOMAIN v.items : Inference!ValidItem(Valid(l), v.items[i], s.items)
      BY <2>2, <3>2 DEF Inference!Judge
    <3>7. Inference!Suit(Fit(l), same)[v][w] =
            /\ v.t = "array"
            /\ \A i \in DOMAIN v.items : Y # {} =>
                 \E y \in Y : /\ Fit(l)[v.items[i]][y]
                             /\ \A z \in Y : Fit(l)[v.items[i]][z] => same[y][z]
      BY <2>6 DEF Inference!Suit
    <3>. HIDE DEF Y
    <3>8. Valid(l + 1)[v][s] <=> Fit(l + 1)[v][w]
      BY <2>3, <2>4, <3>2, <3>4, <3>5, <3>6, <3>7
    <3>. QED  BY <3>8 DEF s
  <2>7. CASE w.t \in Inference!LeafTypes
    <3>. HIDE DEF s, schemas, same, S, Valid, Fit
    <3>1. Inference!Judge(Valid(l), schemas)[v][s] <=> Inference!Suit(Fit(l), same)[v][w]
      <4>1. CASE w.t = "integer"
        <5>1. Inference!Judge(Valid(l), schemas)[v][s] = (v.t = "integer" \/ (v.t = "number" /\ v.v = "1.0"))
          BY <2>2, <4>1 DEF Inference!Judge
        <5>2. Inference!Suit(Fit(l), same)[v][w] = (v.t = "integer" \/ (v.t = "number" /\ v.v = "1.0"))
          BY <4>1 DEF Inference!Suit
        <5>. QED  BY <5>1, <5>2
      <4>2. CASE w.t = "number"
        <5>1. Inference!Judge(Valid(l), schemas)[v][s] = (v.t = "number" \/ v.t = "integer")
          BY <2>2, <4>2 DEF Inference!Judge
        <5>2. Inference!Suit(Fit(l), same)[v][w] = (v.t \in {"number", "integer"})
          BY <4>2 DEF Inference!Suit
        <5>. QED  BY <5>1, <5>2
      <4>3. CASE w.t \in {"string", "boolean", "null"}
        <5>1. Inference!Judge(Valid(l), schemas)[v][s] = (v.t = s.type)
          BY <2>2, <4>3 DEF Inference!Judge
        <5>2. Inference!Suit(Fit(l), same)[v][w] = (v.t = w.t)
          BY <4>3 DEF Inference!Suit
        <5>. QED  BY <2>2, <5>1, <5>2
      <4>. QED  BY <2>7, <4>1, <4>2, <4>3 DEF Inference!LeafTypes
    <3>2. Valid(l + 1)[v][s] <=> Fit(l + 1)[v][w]
      BY <2>3, <2>4, <3>1
    <3>. QED  BY <3>2 DEF s
  <2>. QED  BY <2>5, <2>6, <2>7, PartsOfValues
<1>3. L \in SUBSET Nat
  OBVIOUS
<1>4. L = Nat
  <2>. HIDE DEF L
  <2>. QED  BY <1>1, <1>2, <1>3, EveryLevel
<1>. QED  BY <1>4

\* If all names are kept there are not too many: before the last come all others.
LEMMA NothingCutOff ==
  ASSUME Inference!InferenceOK, NEW keys \in SUBSET Inference!Names,
         keys \subseteq Inference!FirstKeys(keys)
  PROVE  Cardinality(keys) <= MaxSchemaProperties
<1>1. IsFiniteSet(keys) /\ MaxSchemaProperties \in Nat
  BY NamesAreFinite, FS_Subset DEF Inference!InferenceOK
<1>2. CASE keys = {}
  <2>1. Cardinality(keys) = 0
    BY <1>2, FS_EmptySet
  <2>. QED  BY <1>1, <2>1
<1>3. CASE keys # {}
  <2>. DEFINE I == {i \in DOMAIN BodyKeys : BodyKeys[i] \in keys}
              T == {Len(BodyKeys) - i : i \in I}
  <2>1. BodyKeys \in Seq(STRING) /\ Len(BodyKeys) \in Nat /\ DOMAIN BodyKeys = 1 .. Len(BodyKeys)
    BY DEF Inference!InferenceOK
  <2>2. \A l \in keys : \E i \in I : BodyKeys[i] = l
    BY DEF Inference!Names
  <2>3. T \in SUBSET Nat /\ T # {}
    <3>1. \A i \in I : Len(BodyKeys) - i \in Nat
      BY <2>1
    <3>2. I # {}
      BY <1>3, <2>2
    <3>. HIDE DEF I
    <3>. QED  BY <3>1, <3>2
  <2>4. PICK n \in T : \A m \in T : n <= m
    <3>. HIDE DEF T
    <3>. QED  BY <2>3, Least
  <2>5. PICK j \in I : n = Len(BodyKeys) - j
    OBVIOUS
  <2>6. \A i \in I : i <= j
    <3>1. \A i \in I : n <= Len(BodyKeys) - i
      BY <2>4
    <3>2. \A i \in I : i \in Nat
      BY <2>1
    <3>. HIDE DEF I, T
    <3>. QED  BY <2>1, <2>5, <3>1, <3>2
  <2>. DEFINE k == BodyKeys[j]
              earlier == {l \in keys : Inference!Before(l, k)}
  <2>7. k \in keys
    OBVIOUS
  <2>8. ASSUME NEW l \in keys, l # k PROVE Inference!Before(l, k)
    <3>1. PICK i \in I : BodyKeys[i] = l
      BY <2>2
    <3>2. i <= j /\ i # j
      BY <2>6, <2>8, <3>1
    <3>3. i \in 1 .. j - 1 /\ j \in DOMAIN BodyKeys
      BY <2>1, <3>2
    <3>. QED  BY <3>1, <3>3 DEF Inference!Before
  <2>9. keys \ {k} \subseteq earlier /\ earlier \subseteq keys
    BY <2>8
  <2>10. Inference!Cardinality(earlier) < MaxSchemaProperties
    BY <2>7 DEF Inference!FirstKeys
  <2>. HIDE DEF k, earlier
  <2>11. IsFiniteSet(earlier) /\ Cardinality(keys \ {k}) <= Cardinality(earlier)
    BY <1>1, <2>9, FS_Subset
  <2>12. Cardinality(keys \ {k}) = Cardinality(keys) - 1
    BY <1>1, <2>7, FS_RemoveElement
  <2>13. Cardinality(earlier) \in Nat /\ Cardinality(keys) \in Nat
    BY <1>1, <2>11, FS_CardinalityType
  <2>14. Cardinality(earlier) < MaxSchemaProperties
    BY <2>10, SameCount
  <2>. QED  BY <1>1, <2>11, <2>12, <2>13, <2>14
<1>. QED  BY <1>2, <1>3

\* An object shows all its names exactly if it has neither too many nor a long one.
LEMMA WidthDecides ==
  ASSUME Inference!InferenceOK, NEW v \in Values, v.t = "object"
  PROVE  DOMAIN v.members \subseteq Inference!Shown(v)
           <=> /\ Inference!Cardinality(DOMAIN v.members) <= MaxSchemaProperties
               /\ DOMAIN v.members \cap LongKeys = {}
<1>. DEFINE keys == DOMAIN v.members
<1>1. Inference!Shown(v) = Inference!FirstKeys(keys) \ LongKeys
  BY DEF Inference!Shown, Inference!FirstKeys
<1>2. keys \in SUBSET Inference!Names
  BY PartsOfValues
<1>. HIDE DEF keys
<1>3. keys \subseteq Inference!FirstKeys(keys) <=> Cardinality(keys) <= MaxSchemaProperties
  BY <1>2, NothingCutOff, NothingLeftOut
<1>4. Inference!Cardinality(keys) = Cardinality(keys)
  BY SameCount
<1>5. keys \subseteq Inference!Shown(v)
        <=> keys \subseteq Inference!FirstKeys(keys) /\ keys \cap LongKeys = {}
  BY <1>1
<1>. QED  BY <1>3, <1>4, <1>5 DEF keys

\* Values that are apart do not suit each other, on any level that is looked at.
LEMMA ApartUnfit ==
  ASSUME Inference!InferenceOK, NEW l \in Nat, NEW v \in Values, NEW w \in Values,
         Inference!Apart(v, w)
  PROVE  ~Inference!Fits[l + 1][v][w]
<1>. DEFINE below == Inference!Fits[l]
            same == Inference!Same[l]
<1>1. Inference!Fits[l + 1][v][w] = Inference!Suit(below, same)[v][w]
  BY FitsLevels
<1>. HIDE DEF below, same
<1>. SUFFICES ~Inference!Suit(below, same)[v][w]
  BY <1>1
<1>2. CASE w.t = "object"
  <2>1. Inference!Shown(w) \subseteq DOMAIN w.members
    BY DEF Inference!Shown
  <2>2. v.t # "object" \/ ~(DOMAIN v.members \subseteq Inference!Shown(w))
    BY <1>2, <2>1 DEF Inference!Apart
  <2>. QED  BY <1>2, <2>2 DEF Inference!Suit
<1>3. CASE w.t # "object"
  <2>1. v.t # w.t /\ ~({v.t, w.t} \subseteq {"integer", "number"})
    BY <1>3 DEF Inference!Apart
  <2>2. CASE w.t = "array"
    BY <2>1, <2>2 DEF Inference!Suit
  <2>3. CASE w.t = "number"
    <3>1. Inference!Suit(below, same)[v][w] = (v.t \in {"number", "integer"})
      BY <2>3 DEF Inference!Suit
    <3>. QED  BY <2>1, <2>3, <3>1
  <2>4. CASE w.t = "integer"
    <3>1. Inference!Suit(below, same)[v][w] = (v.t = "integer" \/ (v.t = "number" /\ v.v = "1.0"))
      BY <2>4 DEF Inference!Suit
    <3>. QED  BY <2>1, <2>4, <3>1
  <2>5. CASE w.t \notin {"object", "array", "number", "integer"}
    <3>1. Inference!Suit(below, same)[v][w] = (v.t = w.t)
      BY <2>5 DEF Inference!Suit
    <3>. QED  BY <2>1, <3>1
  <2>. QED  BY <1>3, <2>2, <2>3, <2>4, <2>5
<1>. QED  BY <1>2, <1>3

\* Among items that are alike or apart, an item suits one shape exactly if it suits itself.
LEMMA ItemSuitsItself ==
  ASSUME Inference!InferenceOK, NEW l \in Nat, NEW x \in Values, NEW Y \in SUBSET Values,
         \A w \in Y : Inference!Alike[l][x][w] \/ Inference!Apart(x, w),
         \E w \in Y : Inference!Alike[l][x][w]
  PROVE  (Y # {} => \E y \in Y : /\ Inference!Fits[l][x][y]
                                /\ \A z \in Y : Inference!Fits[l][x][z] => Inference!Same[l][y][z])
           <=> Inference!Fits[l][x][x]
<1>. DEFINE fits == Inference!Fits[l]
            same == Inference!Same[l]
            alike == Inference!Alike[l]
            S == Inference!SchemaForValue[l]
            One == \E y \in Y : fits[x][y] /\ \A z \in Y : fits[x][z] => same[y][z]
<1>1. \A w \in Y : alike[x][w] => S[x] = S[w]
  BY AlikeDescribed
<1>2. \A w \in Y : alike[x][w] => (fits[x][w] <=> fits[x][x])
  <2>1. \A w \in Values : fits[x][w] <=> Inference!Validates[l][x][S[w]]
    BY FitsDescribed
  <2>. HIDE DEF fits, alike, S
  <2>. QED  BY <1>1, <2>1
<1>3. \A y, z \in Y : S[y] = S[z] => same[y][z]
  BY SameDescribed
<1>4. CASE l = 0
  <2>1. \A y, z \in Values : fits[y][z] /\ same[y][z]
    BY <1>4, FitsLevels, SameLevels
  <2>. HIDE DEF fits, same
  <2>2. One /\ fits[x][x]
    BY <2>1
  <2>. QED  BY <2>2 DEF fits, same
<1>5. CASE l # 0
  <2>1. \A w \in Y : Inference!Apart(x, w) => ~fits[x][w]
    <3>1. l - 1 \in Nat /\ (l - 1) + 1 = l
      BY <1>5
    <3>2. \A w \in Y : Inference!Apart(x, w) => ~Inference!Fits[(l - 1) + 1][x][w]
      BY <3>1, ApartUnfit
    <3>. QED  BY <3>1, <3>2
  <2>2. \A w \in Y : fits[x][w] => alike[x][w]
    BY <2>1
  <2>3. PICK w \in Y : alike[x][w]
    OBVIOUS
  <2>. HIDE DEF fits, same, alike, S
  <2>4. ASSUME fits[x][x] PROVE One
    <3>1. fits[x][w] /\ \A z \in Y : fits[x][z] => same[w][z]
      BY <1>1, <1>2, <1>3, <2>2, <2>3, <2>4
    <3>. QED  BY <3>1
  <2>5. ASSUME One PROVE fits[x][x]
    BY <1>2, <2>2, <2>5
  <2>. QED  BY <2>3, <2>4, <2>5 DEF fits, same
<1>. QED  BY <1>4, <1>5

\* A tidy value suits itself exactly if it is narrow, on every level.
LEMMA TidyDescribed ==
  ASSUME Inference!InferenceOK
  PROVE  \A l \in Nat, v \in Values :
           Inference!Tidy[l][v] => (Inference!Fits[l][v][v] <=> Inference!Narrow[l][v])
<1>. DEFINE Tid(l) == Inference!Tidy[l]
            Fit(l) == Inference!Fits[l]
            Nar(l) == Inference!Narrow[l]
            L == {l \in Nat : \A v \in Values : Tid(l)[v] => (Fit(l)[v][v] <=> Nar(l)[v])}
<1>1. 0 \in L
  BY FitsLevels, NarrowLevels
<1>2. ASSUME NEW l \in L PROVE l + 1 \in L
  <2>1. l \in Nat /\ l + 1 \in Nat /\ \A v \in Values : Tid(l)[v] => (Fit(l)[v][v] <=> Nar(l)[v])
    OBVIOUS
  <2>. SUFFICES ASSUME NEW v \in Values, Tid(l + 1)[v]
                PROVE  Fit(l + 1)[v][v] <=> Nar(l + 1)[v]
    BY <2>1
  <2>. DEFINE same == Inference!Same[l]
              alike == Inference!Alike[l]
  <2>2. /\ Fit(l + 1)[v][v] = Inference!Suit(Fit(l), same)[v][v]
        /\ Nar(l + 1)[v] = Inference!Confine(Nar(l))[v]
        /\ Inference!Sort(Tid(l), alike)[v]
    BY <2>1, FitsLevels, NarrowLevels, TidyLevels
  <2>3. CASE v.t = "object"
    <3>1. \A k \in DOMAIN v.members : Fit(l)[v.members[k]][v.members[k]] <=> Nar(l)[v.members[k]]
      <4>1. \A k \in DOMAIN v.members : v.members[k] \in Values
        BY <2>3, PartsOfValues
      <4>. HIDE DEF Tid, Fit, Nar, alike
      <4>2. \A k \in DOMAIN v.members : Tid(l)[v.members[k]]
        BY <2>2, <2>3 DEF Inference!Sort
      <4>. QED  BY <2>1, <4>1, <4>2
    <3>2. DOMAIN v.members \subseteq Inference!Shown(v)
            <=> /\ Inference!Cardinality(DOMAIN v.members) <= MaxSchemaProperties
                /\ DOMAIN v.members \cap LongKeys = {}
      BY <2>3, WidthDecides
    <3>. HIDE DEF Tid, Fit, Nar, same, alike
    <3>3. Inference!Suit(Fit(l), same)[v][v] =
            /\ v.t = "object"
            /\ DOMAIN v.members \subseteq Inference!Shown(v)
            /\ \A k \in DOMAIN v.members : Fit(l)[v.members[k]][v.members[k]]
      BY <2>3 DEF Inference!Suit
    <3>4. Inference!Confine(Nar(l))[v] <=>
            /\ Inference!Cardinality(DOMAIN v.members) <= MaxSchemaProperties
            /\ DOMAIN v.members \cap LongKeys = {}
            /\ \A k \in DOMAIN v.members : Nar(l)[v.members[k]]
      BY <2>3 DEF Inference!Confine
    <3>. QED  BY <2>2, <2>3, <3>1, <3>2, <3>3, <3>4
  <2>4. CASE v.t = "array"
    <3>. DEFINE Y == Inference!Seen(v)
                Suits(x) == Y # {} => \E y \in Y : /\ Fit(l)[x][y]
                                                  /\ \A z \in Y : Fit(l)[x][z] => same[y][z]
    <3>1. \A i \in DOMAIN v.items : v.items[i] \in Values
      BY <2>4, PartsOfValues
    <3>2. Y \in SUBSET Values
      BY <2>4, SeenItems
    <3>3. \A i \in DOMAIN v.items :
            /\ Tid(l)[v.items[i]]
            /\ \A w \in Y : alike[v.items[i]][w] \/ Inference!Apart(v.items[i], w)
            /\ \E w \in Y : alike[v.items[i]][w]
      <4>. HIDE DEF Tid, Fit, Nar, same, alike
      <4>. QED  BY <2>2, <2>4 DEF Inference!Sort
    <3>4. \A i \in DOMAIN v.items : Suits(v.items[i]) <=> Fit(l)[v.items[i]][v.items[i]]
      <4>. SUFFICES ASSUME NEW i \in DOMAIN v.items
                    PROVE  Suits(v.items[i]) <=> Fit(l)[v.items[i]][v.items[i]]
        OBVIOUS
      <4>. DEFINE x == v.items[i]
      <4>1. /\ x \in Values
            /\ \A w \in Y : alike[x][w] \/ Inference!Apart(x, w)
            /\ \E w \in Y : alike[x][w]
        BY <3>1, <3>3
      <4>. HIDE DEF x, Y
      <4>2. Suits(x) <=> Fit(l)[x][x]
        BY <2>1, <3>2, <4>1, ItemSuitsItself
      <4>. QED  BY <4>2 DEF x
    <3>5. Inference!Suit(Fit(l), same)[v][v] <=> \A i \in DOMAIN v.items : Suits(v.items[i])
      <4>. HIDE DEF Tid, Fit, Nar, same, alike
      <4>1. Inference!Suit(Fit(l), same)[v][v] =
              /\ v.t = "array"
              /\ \A i \in DOMAIN v.items : Suits(v.items[i])
        BY <2>4 DEF Inference!Suit
      <4>. QED  BY <2>4, <4>1
    <3>. HIDE DEF Tid, Fit, Nar, same, alike, Suits
    <3>6. Inference!Confine(Nar(l))[v] <=> \A i \in DOMAIN v.items : Nar(l)[v.items[i]]
      BY <2>4 DEF Inference!Confine
    <3>. QED  BY <2>1, <2>2, <3>1, <3>3, <3>4, <3>5, <3>6
  <2>5. CASE v.t \in Inference!LeafTypes
    <3>1. v.t # "object" /\ v.t # "array"
      BY <2>5 DEF Inference!LeafTypes
    <3>. HIDE DEF Tid, Fit, Nar, same, alike
    <3>2. Inference!Confine(Nar(l))[v]
      BY <3>1 DEF Inference!Confine
    <3>3. Inference!Suit(Fit(l), same)[v][v]
      <4>1. CASE v.t = "integer"
        BY <4>1 DEF Inference!Suit
      <4>2. CASE v.t = "number"
        <5>1. Inference!Suit(Fit(l), same)[v][v] = (v.t \in {"number", "integer"})
          BY <4>2 DEF Inference!Suit
        <5>. QED  BY <4>2, <5>1
      <4>3. CASE v.t \notin {"object", "array", "number", "integer"}
        BY <4>3 DEF Inference!Suit
      <4>. QED  BY <3>1, <4>1, <4>2, <4>3
    <3>. QED  BY <2>2, <3>2, <3>3
  <2>. QED  BY <2>3, <2>4, <2>5, PartsOfValues
<1>3. L \in SUBSET Nat
  OBVIOUS
<1>4. L = Nat
  <2>. HIDE DEF L
  <2>. QED  BY <1>1, <1>2, <1>3, EveryLevel
<1>. QED  BY <1>4

\* The schema proposed for a body accepts that body exactly if it suits itself: if every
\* name of its objects was shown, and every item of its arrays suits just one of the
\* shapes that were (specsmith.go:621-676).
THEOREM AcceptedExactlyAlways == Inference!Spec => []AcceptedExactly
<1>. Inference!InferenceOK
  BY PartsAssumption
<1>1. body \in Values \cup {None} => AcceptedExactly
  <2>. SUFFICES ASSUME body \in Values, body # None
                PROVE  Inference!Accepted <=> Inference!Fits[MaxSchemaDepth][body][body]
    BY DEF AcceptedExactly, Inference!AcceptedExactly
  <2>1. MaxSchemaDepth \in Nat
    BY DEF Inference!InferenceOK
  <2>2. Inference!Accepted
          <=> Inference!Validates[MaxSchemaDepth][body][Inference!SchemaForValue[MaxSchemaDepth][body]]
    BY DEF Inference!Accepted, Inference!Inferred
  <2>. QED  BY <2>1, <2>2, FitsDescribed
<1>. QED  BY <1>1, BodyTyped, PTL

\* Of a body whose arrays are in order, its schema accepts it exactly if no object in it
\* has more names than are kept or a long one: those cuts are closed, the one for depth is
\* open (specsmith.go:622, 633-642).
THEOREM OnlyWidthClosesAlways == Inference!Spec => []OnlyWidthCloses
<1>. Inference!InferenceOK
  BY PartsAssumption
<1>1. body \in Values \cup {None} /\ AcceptedExactly => OnlyWidthCloses
  <2>. SUFFICES ASSUME body \in Values, body # None, Inference!Tidy[MaxSchemaDepth][body],
                       Inference!Accepted <=> Inference!Fits[MaxSchemaDepth][body][body]
                PROVE  Inference!Accepted <=> Inference!Narrow[MaxSchemaDepth][body]
    BY DEF AcceptedExactly, Inference!AcceptedExactly, OnlyWidthCloses, Inference!OnlyWidthCloses
  <2>1. MaxSchemaDepth \in Nat
    BY DEF Inference!InferenceOK
  <2>. QED  BY <2>1, TidyDescribed
<1>. QED  BY <1>1, BodyTyped, AcceptedExactlyAlways, PTL

=============================================================================
