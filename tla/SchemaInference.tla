---------------------------- MODULE SchemaInference ----------------------------
(***************************************************************************)
(* The schema proposed for a request (internal/canary/specsmith.go): read  *)
(* off the request body, to a fixed depth, width and length, and without   *)
(* the values in it.  A caller sends one body after another.               *)
(*                                                                         *)
(* The recursion is on the levels that are left: MaxSchemaDepth - depth.   *)
(***************************************************************************)
EXTENDS Naturals, Sequences, FiniteSets

CONSTANTS
  MaxSchemaDepth,       \* 6 in the code
  MaxSchemaProperties,  \* 64
  MaxSchemaArrayItems,  \* 16
  Keys,                 \* the names of properties, in the order of their bytes
  LongKeys,             \* those of more than 128 bytes
  Values,               \* JSON values, with their parts
  Bodies,               \* the bodies that are sent
  None                  \* no body, or one that is not JSON

\* A value is [t, v] for a leaf, [t, items] for an array, [t, members] for an object.
\* The type "number" is a number with a point or an exponent: 1.0 as well as 1.5.
LeafTypes == {"integer", "number", "string", "boolean", "null"}

Names == {Keys[i] : i \in DOMAIN Keys}

\* What the constants are.
InferenceOK ==
  /\ MaxSchemaDepth \in Nat /\ MaxSchemaProperties \in Nat /\ MaxSchemaArrayItems \in Nat
  /\ Keys \in Seq(STRING) /\ \A i, j \in DOMAIN Keys : Keys[i] = Keys[j] => i = j
  /\ Bodies \subseteq Values /\ None \notin Values
  /\ \A v \in Values :
       /\ v.t \in LeafTypes \cup {"object", "array"}
       /\ v.t = "object" => DOMAIN v.members \subseteq Names /\ v.members \in [DOMAIN v.members -> Values]
       /\ v.t = "array" => v.items \in Seq(Values)

VARIABLE body

vars == <<body>>

-----------------------------------------------------------------------------
Anything == [type |-> "any"]

Before(k, l) == \E j \in DOMAIN Keys : Keys[j] = l /\ \E i \in 1 .. j - 1 : Keys[i] = k

\* Mutation: one key too many is kept.
OneKeyMore(keys) ==
  {k \in keys : Cardinality({l \in keys : Before(l, k)}) <= MaxSchemaProperties}

\* Those of the keys that are kept.
FirstKeys(keys) ==
  {k \in keys : Cardinality({l \in keys : Before(l, k)}) < MaxSchemaProperties}

\* Mutation: an example is kept for the reviewer.
LeafSchemaWithExample(leaf) == [type |-> leaf.t, example |-> leaf.v]

LeafSchema(leaf) == [type |-> leaf.t]

\* Mutation: what is too deep to look at is closed like any other object.
TooDeepClosed == [type |-> "object", properties |-> << >>]

TooDeep == Anything

\* One variant is the schema of the items, several are a oneOf.
ItemSchema(variants) ==
  CASE variants = {} -> Anything
    [] \E schema \in variants : variants = {schema} -> CHOOSE schema \in variants : TRUE
    [] OTHER -> [type |-> "oneOf", variants |-> variants]

\* The items of an array that are looked at.
Sampled(array) == {i \in DOMAIN array.items : i <= MaxSchemaArrayItems}

\* schemaForValue, one level: below are the schemas of the parts.  An object is closed:
\* additionalProperties is false.
Describe(below) ==
  [v \in Values |->
     CASE v.t = "object" ->
            [type |-> "object",
             properties |-> [k \in FirstKeys(DOMAIN v.members) \ LongKeys |-> below[v.members[k]]]]
       [] v.t = "array" ->
            [type |-> "array", items |-> ItemSchema({below[v.items[i]] : i \in Sampled(v)})]
       [] OTHER -> LeafSchema(v)]

\* schemaForValue with so many levels left.
SchemaForValue[levels \in Nat] ==
  IF levels = 0 THEN [v \in Values |-> TooDeep] ELSE Describe(SchemaForValue[levels - 1])

\* inferJSONSchema: of a body that is one JSON value.
Inferred == IF body = None THEN None ELSE SchemaForValue[MaxSchemaDepth][body]

Init == body \in Bodies \cup {None}

Send == body' \in Bodies \cup {None}

Next == Send

Spec == Init /\ [][Next]_vars

-----------------------------------------------------------------------------
(* The meaning of a schema *)

\* The schemas that may be proposed on so many levels.
SchemasOf[levels \in Nat] == {Anything} \cup {SchemaForValue[levels][v] : v \in Values}

\* One level of validation: below says whether a part validates.  Exactly one of the
\* variants of a oneOf has to.
ValidItem(below, v, schema) ==
  IF schema.type = "oneOf"
  THEN \E s \in schema.variants : \A r \in schema.variants : below[v][r] <=> r = s
  ELSE below[v][schema]

Judge(below, schemas) ==
  [v \in Values |-> [schema \in schemas |->
     CASE schema.type = "any" -> TRUE
       [] schema.type = "object" ->
            /\ v.t = "object"
            /\ DOMAIN v.members \subseteq DOMAIN schema.properties
            /\ \A k \in DOMAIN v.members : below[v.members[k]][schema.properties[k]]
       [] schema.type = "array" ->
            /\ v.t = "array"
            /\ \A i \in DOMAIN v.items : ValidItem(below, v.items[i], schema.items)
       [] schema.type = "number" -> v.t = "number" \/ v.t = "integer"
       [] schema.type = "integer" -> v.t = "integer" \/ (v.t = "number" /\ v.v = "1.0")
       [] OTHER -> v.t = schema.type]]

\* Whether a value validates against a schema of so many levels.
Validates[levels \in Nat] ==
  IF levels = 0 THEN [v \in Values |-> [schema \in SchemasOf[0] |-> schema = Anything]]
  ELSE Judge(Validates[levels - 1], SchemasOf[levels])

-----------------------------------------------------------------------------
(* Properties *)

\* Whether two values differ only in their leaves; below says it of their parts.
Compare(below) ==
  [v \in Values |-> [w \in Values |->
     /\ v.t = w.t
     /\ v.t = "object" =>
          /\ DOMAIN v.members = DOMAIN w.members
          /\ \A k \in DOMAIN v.members : below[v.members[k]][w.members[k]]
     /\ v.t = "array" =>
          /\ DOMAIN v.items = DOMAIN w.items
          /\ \A i \in DOMAIN v.items : below[v.items[i]][w.items[i]]]]

\* To so many levels.
Alike[levels \in Nat] ==
  IF levels = 0 THEN [v \in Values |-> [w \in Values |-> TRUE]] ELSE Compare(Alike[levels - 1])

\* The names that the schema of an object lists, and the items it takes of an array.
Shown(w) ==
  {k \in DOMAIN w.members \ LongKeys :
     Cardinality({l \in DOMAIN w.members : Before(l, k)}) < MaxSchemaProperties}
Seen(w) == {w.items[i] : i \in DOMAIN w.items \cap 1 .. MaxSchemaArrayItems}

\* Whether two values are of one shape in all that is looked at.  Just above the limit
\* nothing is: there every array is like every other.
Resemble(below, last) ==
  [v \in Values |-> [w \in Values |->
     /\ v.t = w.t
     /\ v.t = "object" =>
          /\ Shown(v) = Shown(w)
          /\ \A k \in Shown(v) : below[v.members[k]][w.members[k]]
     /\ v.t = "array" /\ ~last =>
          /\ \A x \in Seen(v) : \E y \in Seen(w) : below[x][y]
          /\ \A y \in Seen(w) : \E x \in Seen(v) : below[x][y]]]

Same[levels \in Nat] ==
  IF levels = 0 THEN [v \in Values |-> [w \in Values |-> TRUE]]
  ELSE Resemble(Same[levels - 1], levels = 1)

\* Whether a value may stand where another one was seen: every name it has was shown, and
\* each of its items suits exactly one of the shapes that were, if there were any.
Suit(below, same) ==
  [v \in Values |-> [w \in Values |->
     CASE w.t = "object" ->
            /\ v.t = "object"
            /\ DOMAIN v.members \subseteq Shown(w)
            /\ \A k \in DOMAIN v.members : below[v.members[k]][w.members[k]]
       [] w.t = "array" ->
            /\ v.t = "array"
            /\ \A i \in DOMAIN v.items : Seen(w) # {} =>
                 \E y \in Seen(w) : /\ below[v.items[i]][y]
                                    /\ \A z \in Seen(w) : below[v.items[i]][z] => same[y][z]
       [] w.t = "number" -> v.t \in {"number", "integer"}
       [] w.t = "integer" -> v.t = "integer" \/ (v.t = "number" /\ v.v = "1.0")
       [] OTHER -> v.t = w.t]]

Fits[levels \in Nat] ==
  IF levels = 0 THEN [v \in Values |-> [w \in Values |-> TRUE]]
  ELSE Suit(Fits[levels - 1], Same[levels - 1])

\* No object has more names than are kept, or a long one.
Confine(below) ==
  [v \in Values |->
     /\ v.t = "object" =>
          /\ Cardinality(DOMAIN v.members) <= MaxSchemaProperties
          /\ DOMAIN v.members \cap LongKeys = {}
          /\ \A k \in DOMAIN v.members : below[v.members[k]]
     /\ v.t = "array" => \A i \in DOMAIN v.items : below[v.items[i]]]

Narrow[levels \in Nat] ==
  IF levels = 0 THEN [v \in Values |-> TRUE] ELSE Confine(Narrow[levels - 1])

\* Two values of no common JSON type (integers are numbers), or two objects of which the
\* first has a name that the second has not.
Apart(v, w) ==
  \/ v.t # w.t /\ ~({v.t, w.t} \subseteq {"integer", "number"})
  \/ v.t = "object" /\ w.t = "object" /\ ~(DOMAIN v.members \subseteq DOMAIN w.members)

\* Each item of an array is alike or apart from those that are looked at, and alike one.
Sort(below, alike) ==
  [v \in Values |->
     /\ v.t = "object" => \A k \in DOMAIN v.members : below[v.members[k]]
     /\ v.t = "array" =>
          \A i \in DOMAIN v.items :
            /\ below[v.items[i]]
            /\ \A w \in Seen(v) : alike[v.items[i]][w] \/ Apart(v.items[i], w)
            /\ \E w \in Seen(v) : alike[v.items[i]][w]]

Tidy[levels \in Nat] ==
  IF levels = 0 THEN [v \in Values |-> TRUE] ELSE Sort(Tidy[levels - 1], Alike[levels - 1])

\* README.md:238: "the invariant that inferred schemas contain no example values".  Two
\* bodies that differ only in their leaves, as deep as they are looked at, have one schema,
\* so that no value can be read off it (specsmith.go:611-686).
ValueFree ==
  [][None \notin {body, body'} /\ Alike[MaxSchemaDepth][body][body'] => Inferred' = Inferred]_vars

Accepted == Validates[MaxSchemaDepth][body][Inferred]

\* The schema proposed for a body accepts that body exactly if it suits itself: what is
\* too deep asks nothing, but a name that is cut off is refused, and so is an item that
\* suits two of the shapes in its array, or none of those it begins with
\* (specsmith.go:621-676).
AcceptedExactly == body # None => (Accepted <=> Fits[MaxSchemaDepth][body][body])

\* Of a body whose arrays are in order, the width and the length of names decide: cut off
\* there its schema is closed, cut off for depth it is open (specsmith.go:622, 633-642).
OnlyWidthCloses ==
  body # None /\ Tidy[MaxSchemaDepth][body] => (Accepted <=> Narrow[MaxSchemaDepth][body])

=============================================================================
