----------------------------- MODULE MCSpecReview -----------------------------
(***************************************************************************)
(* The specification review for TLC: every document and every challenge    *)
(* that the analysis tells apart, and, each by itself, the parts of the    *)
(* analysis that SpecReview takes the results of (SpecReviewParts).  The   *)
(* subject says which:                                                     *)
(*   review     SpecReview                                                 *)
(*   paths      OperationLookup, the paths of a document                   *)
(*   contract   OperationLookup, the responses and parameters              *)
(*   schema     Schemas                                                    *)
(*   body       SchemaInference                                            *)
(***************************************************************************)
EXTENDS SpecReviewParts, SequencesExt

VARIABLE subject

parts == <<path, paths, responses, parameters, document, written, body>>

-----------------------------------------------------------------------------
(* SpecReview *)

MCTargets == {[method |-> "GET", query |-> FALSE], [method |-> "GET", query |-> TRUE],
              [method |-> "POST", query |-> FALSE]}

\* An example is published beside something: the media type or the parameter.
MCOpenAPIDocs ==
  [outline : Outlines \ {"operation"}, operation : {NoOperation}]
  \cup {d \in [outline : {"operation"}, operation : Operations] :
          d.operation.inputExample => d.operation.input # "none"}

MCRegistrationDocs ==
  {d \in Registrations :
     (~d.available => ~d.parses) /\ (~d.parses => ~d.active /\ ~d.covers /\ ~d.identified)}

MCSkillDocs == {"missing", "unusable", "usable"}

MCChallenges ==
  {c \in ChallengeType : ~c.bazaar => ~c.input /\ ~c.output} \cup {None}

\* The payment rules play no part here.
MCTexts == {Mainnet, Sepolia}
MCAddresses == {"asset"}
MCAllowedAssets == [network \in MCTexts |-> "asset"]

-----------------------------------------------------------------------------
(* OperationLookup: "~" comes after the brace in a document's order, "a" before it. *)

MCSegments == <<"", "a", "{x}", "~">>
MCTemplated == {"{x}"}
MCPaths == [parts : UNION {[1 .. n -> Range(MCSegments)] : n \in 1 .. 2}, slash : BOOLEAN]
Root == [parts |-> <<"">>, slash |-> FALSE]

\* A document's path is "/" or has no empty segment; so has a URL's.
MCPathKeys == {p \in MCPaths : p = Root \/ \A i \in DOMAIN p.parts : p.parts[i] # ""}

\* A longer path ends in a slash like a shorter one.
MCAudited == {p \in MCPathKeys : p.slash => Len(p.parts) = 1}

MCMediaTypes == {"application/hal+json", "application/json", "application/vnd.x+json"}

\* A second media type only where application/json does not settle the matter.
MCContents ==
  {c \in [MCMediaTypes -> {"none", "unreadable", "bare", "schema"}] :
     /\ c["application/vnd.x+json"] \in {"none", "schema"}
     /\ c["application/json"] = "unreadable" => c["application/vnd.x+json"] = "schema"
     /\ c["application/hal+json"] # "none" =>
          c["application/hal+json"] = "unreadable" /\ c["application/json"] = "unreadable"}

MCParameters ==
  [at : {"query"}, named : BOOLEAN, schema : BOOLEAN]
  \cup [at : {"path", "reference"}, named : {TRUE}, schema : {TRUE}]

MCCodes == <<"200", "201", "404", "default">>

-----------------------------------------------------------------------------
(* Schemas: one kind of content at a time, a choice between others beside a *)
(* type, and a reference with a type beside it.                             *)

MCShapes(n) ==
  LET later == (n + 1) .. Size IN
  [ref : 1 .. Size \cup {Dangling}, variants : {{}}, type : {"none", "scalar"},
   properties : {FALSE}, items : {None}, enum : {FALSE}]
  \cup {s \in [ref : {None}, variants : SUBSET later, type : {"none", "object"},
                properties : BOOLEAN, items : {None}, enum : {FALSE}] :
          s.properties /\ s.variants # {} => s.type = "object"}
  \cup [ref : {None}, variants : {{}}, type : {"none", "object"}, properties : {FALSE},
        items : {None}, enum : {TRUE}]
  \cup [ref : {None}, variants : {{}}, type : {"array"}, properties : {FALSE},
        items : later \cup {None}, enum : {FALSE}]

-----------------------------------------------------------------------------
(* SchemaInference: arrays of three levels and one more item than is looked *)
(* at, objects with one more property than is kept and with a long name,    *)
(* each in the other, and lists of objects with different names.            *)

MCLeaves ==
  [t : {"integer"}, v : {"1", "2"}] \cup [t : {"number"}, v : {"1.0", "1.5"}]
  \cup [t : {"string"}, v : {"x", "y"}] \cup [t : {"null"}, v : {"null"}]

One == [t |-> "integer", v |-> "1"]
Strings == [t : {"string"}, v : {"x", "y"}]
MCFewLeaves == {One} \cup Strings

Arrays(items, length) ==
  [t : {"array"}, items : UNION {[1 .. n -> items] : n \in 0 .. length}]
Objects(members, keys) ==
  [t : {"object"}, members : UNION {[ks -> members] : ks \in SUBSET keys}]

MCKeys == <<"a", "a_long", "b", "c">>
MCLongKeys == {"a_long"}
MCWide == [t |-> "object", members |-> [key \in {"a", "b", "c"} |-> One]]

MCShort == Arrays(MCFewLeaves, 1) \cup Objects(MCFewLeaves, {"a"})
MCInWide == Arrays({MCWide}, 1)

MCBodies ==
  MCLeaves \cup Arrays(MCLeaves, 2)
  \cup Arrays({l \in MCLeaves : l.t \in {"integer", "number"}}, 3)
  \cup Objects(Strings, {"a", "b", "c"}) \cup Objects({One}, Range(MCKeys))
  \cup Arrays(MCShort, 2) \cup Objects(MCShort, {"a", "b"})
  \cup Arrays(Arrays(MCShort, 1), 2)
  \cup Arrays(Objects({One}, {"a", "b"}), 3)
  \cup MCInWide \cup Arrays(MCInWide, 1) \cup Arrays(Arrays(MCInWide, 1), 1)

MCValues == MCBodies \cup MCShort \cup Arrays(MCShort, 1)

-----------------------------------------------------------------------------
(* One subject at a time *)

MCInit ==
  /\ Init /\ Lookup!Init /\ Content!Init /\ Inference!Init
  /\ subject \in {"review", "paths", "contract", "schema", "body"}
  /\ subject # "review" => target = [method |-> "GET", query |-> FALSE]
  /\ subject # "paths" => path = Root
  /\ subject # "body" => body = None

Review == subject = "review" /\ Next /\ UNCHANGED <<subject, parts>>

Paths ==
  /\ subject = "paths"
  /\ \E key \in MCPathKeys, object \in BOOLEAN : Lookup!AddPath(key, object)
  /\ UNCHANGED <<vars, subject, document, written, body>>

Contract ==
  /\ subject = "contract"
  /\ \/ \E code \in Range(MCCodes), content \in MCContents :
          Lookup!AddResponse(code, content)
     \/ \E parameter \in MCParameters : Lookup!AddParameter(parameter)
  /\ UNCHANGED <<vars, subject, document, written, body>>

Schema ==
  /\ subject = "schema"
  /\ Content!Next
  /\ UNCHANGED <<vars, subject, path, paths, responses, parameters, body>>

Body ==
  /\ subject = "body"
  /\ Inference!Next
  /\ UNCHANGED <<vars, subject, path, paths, responses, parameters, document, written>>

MCSpec == MCInit /\ [][Review \/ Paths \/ Contract \/ Schema \/ Body]_<<vars, subject, parts>>

=============================================================================
