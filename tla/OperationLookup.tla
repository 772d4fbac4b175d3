---------------------------- MODULE OperationLookup ----------------------------
(***************************************************************************)
(* How the audited operation is found in an OpenAPI document and what is   *)
(* read of it (internal/canary/specsmith.go): the path, by its exact name  *)
(* or by the first template that fits, the successful response, and the    *)
(* query parameters.  A seller extends the document, an entry at a time.   *)
(*                                                                         *)
(* A path is its segments and whether a slash follows them; "/" is the     *)
(* path of the one segment "".                                             *)
(***************************************************************************)
EXTENDS Naturals, FiniteSets, Sequences

CONSTANTS
  Segments,      \* the segments of paths, none the beginning of another but "", in the order
                 \* of their bytes
  Templated,     \* those in braces
  Targets,       \* paths of audited URLs
  PathKeys,      \* paths the document may have
  MaxPaths,      \* bound on how many it has
  Codes,         \* the responses it may describe, in the order of their bytes
  Contents,      \* what a response may have under each media type: "none", "unreadable"
                 \* (no object), "bare" (an object without a schema) or "schema"
  Parameters,    \* [at, named, schema]: the parameters an operation may declare, in "query",
                 \* in "path" or as a "reference" to one in the query
  MaxParameters  \* bound on how many it declares

Names == {Segments[i] : i \in DOMAIN Segments}
Paths == [parts : Seq(Names), slash : BOOLEAN]

\* What the constants are.  Braces have something between them.
LookupOK ==
  /\ Segments \in Seq(STRING)
  /\ Templated \subseteq Names \ {""}
  /\ Targets \subseteq Paths /\ PathKeys \subseteq Paths
  /\ Codes \in Seq(STRING) /\ \A i, j \in DOMAIN Codes : Codes[i] = Codes[j] => i = j

VARIABLES
  target,      \* the path of the audited URL
  paths,       \* the document's paths, each with whether its item is an object
  responses,   \* the operation's responses: content by code
  parameters   \* the operation's parameters, in their order

vars == <<target, paths, responses, parameters>>

-----------------------------------------------------------------------------
(* Paths *)

\* Mutation: a template fits if every segment it has does.
FitsPrefix(key, actual) ==
  /\ Len(key.parts) <= Len(actual.parts)
  /\ \A i \in DOMAIN key.parts :
       IF key.parts[i] \in Templated THEN actual.parts[i] # "" ELSE key.parts[i] = actual.parts[i]

\* pathTemplateMatches.  Slashes at the ends are trimmed.
PathTemplateMatches(key, actual) ==
  \/ key = actual
  \/ /\ Len(key.parts) = Len(actual.parts)
     /\ \A i \in DOMAIN key.parts :
          IF key.parts[i] \in Templated THEN actual.parts[i] # "" ELSE key.parts[i] = actual.parts[i]

Rank(segment) == CHOOSE i \in DOMAIN Segments : Segments[i] = segment

\* What a path has in a place: a segment, the slash after the last one, or no more.
Place(p, i) ==
  IF i <= Len(p.parts) THEN 1 + Rank(p.parts[i])
  ELSE IF i = Len(p.parts) + 1 /\ p.slash THEN 1 ELSE 0

\* sort.Strings on paths: the first difference decides.
Precedes(p, q) ==
  \E i \in 1 .. Len(q.parts) + 1 :
    /\ \A j \in 1 .. i - 1 : Place(p, j) = Place(q, j)
    /\ Place(p, i) < Place(q, i)

Keys == {p.key : p \in paths}
Items == {p.key : p \in {q \in paths : q.object}}

\* The first, in the order of paths, of a set of them.
First(keys) ==
  IF keys = {} THEN {} ELSE {CHOOSE k \in keys : \A l \in keys \ {k} : Precedes(k, l)}

\* Mutation: the first path that fits is the last one looked at.
FindOpenAPIPathOnce ==
  IF target \in Items THEN {target}
  ELSE First({k \in Keys : PathTemplateMatches(k, target)}) \cap Items

\* findOpenAPIPath: the path found, if any.  An item that is no object is passed over.
FindOpenAPIPath ==
  IF target \in Items THEN {target}
  ELSE First({k \in Items : PathTemplateMatches(k, target)})

-----------------------------------------------------------------------------
(* The successful response *)

\* jsonMedia: application/json if it can be read, else the first +json whatever it is.
JsonMedia(content) ==
  LET json == content["application/json"]
      hal == content["application/hal+json"]
      other == IF hal # "none" THEN hal ELSE content["application/vnd.x+json"]
  IN  IF json \in {"bare", "schema"} THEN json
      ELSE IF other = "unreadable" THEN "none"
      ELSE other

\* The successful responses that have JSON, by their place among the codes.
Read == {i \in DOMAIN Codes : /\ Codes[i] \in DOMAIN responses \ {"404"}
                              /\ JsonMedia(responses[Codes[i]]) # "none"}

\* Mutation: the last response is taken, not the first.
Latest(indices) == CHOOSE i \in indices : \A j \in indices : j <= i

Earliest(indices) == CHOOSE i \in indices : \A j \in indices : i <= j

\* successfulResponseSchema: whether the first such response has a schema.
SuccessfulResponseSchema ==
  Read # {} /\ JsonMedia(responses[Codes[Earliest(Read)]]) = "schema"

-----------------------------------------------------------------------------
(* Query parameters *)

Query == {i \in DOMAIN parameters : parameters[i].at = "query"}

\* queryParameterContract.  A parameter that is a reference has no "in".
QueryParameterContract ==
  [found |-> Query # {},
   concrete |-> Query # {} /\ \A i \in Query : parameters[i].named /\ parameters[i].schema]

-----------------------------------------------------------------------------
Init ==
  /\ target \in Targets
  /\ paths = {}
  /\ responses = << >>
  /\ parameters = << >>

AddPath(key, object) ==
  /\ Cardinality(paths) < MaxPaths
  /\ key \notin Keys
  /\ paths' = paths \cup {[key |-> key, object |-> object]}
  /\ UNCHANGED <<target, responses, parameters>>

AddResponse(code, content) ==
  /\ code \notin DOMAIN responses
  /\ responses' = [c \in DOMAIN responses \cup {code} |->
                     IF c = code THEN content ELSE responses[c]]
  /\ UNCHANGED <<target, paths, parameters>>

AddParameter(parameter) ==
  /\ Len(parameters) < MaxParameters
  /\ parameters' = Append(parameters, parameter)
  /\ UNCHANGED <<target, paths, responses>>

Next ==
  \/ \E key \in PathKeys, object \in BOOLEAN : AddPath(key, object)
  \/ \E code \in {Codes[i] : i \in DOMAIN Codes}, content \in Contents : AddResponse(code, content)
  \/ \E parameter \in Parameters : AddParameter(parameter)

Spec == Init /\ [][Next]_vars

-----------------------------------------------------------------------------
(* Properties *)

TypeOK ==
  /\ target \in Targets
  /\ paths \subseteq [key : PathKeys, object : BOOLEAN]
  /\ DOMAIN responses \subseteq {Codes[i] : i \in DOMAIN Codes}
  /\ parameters \in Seq(Parameters)

\* The concrete paths a path of the document stands for.
Instances(key) ==
  {parts \in [DOMAIN key.parts -> Names] :
     \A i \in DOMAIN parts :
       IF key.parts[i] \in Templated THEN parts[i] # "" ELSE parts[i] = key.parts[i]}

\* The operation is found whenever a path of the document stands for the target,
\* and only then; a path that is the target itself goes before every template
\* (specsmith.go:187-231).
FindsItsPath ==
  /\ FindOpenAPIPath = {} <=> \A k \in Items : target.parts \notin Instances(k)
  /\ \A k \in FindOpenAPIPath : target.parts \in Instances(k)
  /\ target \in Items => FindOpenAPIPath = {target}

\* Adding a path moves the lookup to that path or leaves it: which operation is
\* audited never depends on entries that are not its own (specsmith.go:194-204).
OthersDecideNothing ==
  [][FindOpenAPIPath' # FindOpenAPIPath =>
       \E k \in FindOpenAPIPath' : k \notin Keys]_vars

\* The first successful response with JSON decides: describing an error, or a later
\* success, changes nothing of what was read (specsmith.go:249-264).
FirstSuccessDecides ==
  Read # {} /\ SuccessfulResponseSchema' # SuccessfulResponseSchema =>
    \A i \in DOMAIN Codes : Codes[i] \in DOMAIN responses' \ DOMAIN responses =>
      Codes[i] # "404" /\ i < Earliest(Read)

\* Only a query parameter changes what was read of the parameters, and once there is
\* one, it can only spoil it (specsmith.go:351-368).
ParametersOnlySpoil ==
  QueryParameterContract' # QueryParameterContract =>
    /\ parameters'[Len(parameters')].at = "query"
    /\ QueryParameterContract.found => QueryParameterContract.concrete

\* What a document says besides changes nothing of the contract that was read.
ContractIsStable == [][FirstSuccessDecides /\ ParametersOnlySpoil]_vars

=============================================================================
