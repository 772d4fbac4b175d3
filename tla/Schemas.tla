-------------------------------- MODULE Schemas --------------------------------
(***************************************************************************)
(* What makes a published schema concrete (internal/canary/specsmith.go):  *)
(* references are followed and schemas descended to a fixed depth, because *)
(* a document may refer to itself.  A document is written from its last    *)
(* schema to its first; the first is the one a media type names.           *)
(*                                                                         *)
(* A schema contains only later ones; a $ref may name any, so every loop   *)
(* goes through a $ref, as in a JSON document.                             *)
(***************************************************************************)
EXTENDS Naturals, FiniteSets

CONSTANTS
  Size,      \* how many schemas a document has
  MaxDepth,  \* 8 in the code
  None,      \* no schema
  Dangling,  \* a $ref that leads nowhere, or out of the document
  Shapes(_)  \* the schemas a seller may write as the n-th

Nodes == 1 .. Size

Schemas ==
  [ref : Nodes \cup {None, Dangling}, variants : SUBSET Nodes,
   type : {"none", "object", "array", "scalar"},
   properties : BOOLEAN, items : Nodes \cup {None}, enum : BOOLEAN]

Generic == [ref |-> None, variants |-> {}, type |-> "none", properties |-> FALSE,
            items |-> None, enum |-> FALSE]

\* What the constants are.
SchemasOK ==
  /\ Size \in Nat \ {0} /\ MaxDepth \in Nat
  /\ None \notin Nodes
  /\ \A n \in Nodes : Shapes(n) \subseteq Schemas

VARIABLES
  document,  \* the schemas; Generic where none is written yet
  written    \* how many are

vars == <<document, written>>

-----------------------------------------------------------------------------
(* The code *)

\* Mutation: the cut-off comes one level early.
LevelsEarly == MaxDepth

\* How many levels are looked at: depths 0 to MaxDepth.  At depth d the recursion has
\* Levels - d of them left.
Levels == MaxDepth + 1

\* resolveObject, one $ref: what is behind it is resolved already.  A $ref that leads
\* nowhere is not followed.
Follow(resolved) ==
  [n \in Nodes \cup {None} |->
     IF n = None THEN None
     ELSE IF document[n].ref \notin Nodes THEN n
     ELSE resolved[document[n].ref]]

\* resolveObject with so many levels left.
Resolve[levels \in Nat] ==
  IF levels = 0 THEN [n \in Nodes \cup {None} |-> None] ELSE Follow(Resolve[levels - 1])

\* isConcreteSchema, one level: accepted are the schemas it accepts with a level less.  A
\* type, when there is one, decides before enum and const.
Accept(levels, accepted) ==
  LET Below(n) == Resolve[levels - 1][n] \in accepted IN
  {n \in Nodes :
     LET s == Resolve[levels][n] IN
       /\ s # None
       /\ \/ \E v \in document[s].variants : Below(v)
          \/ document[s].type = "object" /\ document[s].properties
          \/ document[s].type = "array" /\ Below(document[s].items)
          \/ document[s].type = "scalar"
          \/ document[s].type = "none" /\ document[s].enum}

\* Mutation: a schema too deep to look at is taken to be concrete.
AnythingTooDeep == Nodes \cup {None}

ConcreteTooDeep == {}

\* isConcreteSchema: what it accepts with so many levels left.
ConcreteWith[levels \in Nat] ==
  IF levels = 0 THEN ConcreteTooDeep ELSE Accept(levels, ConcreteWith[levels - 1])

\* The schema of a media type is resolved once before it is judged.
Concrete == Resolve[Levels][1] \in ConcreteWith[Levels]

-----------------------------------------------------------------------------
(* The meaning of a document, without a limit: the least set of schemas of  *)
(* which each says something by itself or through one that is in the set.   *)

SaysSomething(n, said) ==
  LET s == document[n] IN
  IF s.ref \in Nodes THEN s.ref \in said
  ELSE \/ s.variants \cap said # {}
       \/ s.type = "object" /\ s.properties
       \/ s.type = "array" /\ s.items \in said
       \/ s.type = "scalar"
       \/ s.type = "none" /\ s.enum

Say(said) == {n \in Nodes : SaysSomething(n, said)}

Closed(said) == Say(said) \subseteq said

Meaningful == {n \in Nodes : \A said \in SUBSET Nodes : Closed(said) => n \in said}

\* The schemas that say something within so many references and levels.
Within[levels \in Nat] == IF levels = 0 THEN Say({}) ELSE Say(Within[levels - 1])

-----------------------------------------------------------------------------
Init == document = [n \in Nodes |-> Generic] /\ written = 0

Write ==
  /\ written < Size
  /\ \E s \in Shapes(Size - written) : document' = [document EXCEPT ![Size - written] = s]
  /\ written' = written + 1

Next == Write

Spec == Init /\ [][Next]_vars

-----------------------------------------------------------------------------
TypeOK ==
  /\ document \in [Nodes -> Schemas]
  /\ written \in 0 .. Size

\* What is called concrete is concrete: the limit, a loop of references or one
\* that leads nowhere never passes for content (specsmith.go:290-349).
ConcreteIsReal == Concrete => 1 \in Meaningful

\* What says something within the limit is called concrete, whatever loops the
\* document has besides (specsmith.go:290-349).
ShallowIsFound == 1 \in Within[MaxDepth] => Concrete

=============================================================================
