---------------------------- MODULE SpecReviewParts ----------------------------
(***************************************************************************)
(* The parts of a specification review whose results SpecReview takes, each *)
(* with state of its own beside the review: the operation that is read from *)
(* a document, what makes its schemas concrete, and the schema that is      *)
(* proposed for a request.                                                  *)
(***************************************************************************)
EXTENDS SpecReview

CONSTANTS
  Segments, Templated, AuditedPaths, PathKeys, MaxPaths,      \* OperationLookup
  Codes, Contents, Parameters, MaxParameters,
  Size, MaxDepth, Dangling, Shapes(_),                        \* Schemas
  MaxSchemaDepth, MaxSchemaProperties, MaxSchemaArrayItems,   \* SchemaInference
  BodyKeys, LongKeys, Values, Bodies

VARIABLES path, paths, responses, parameters, document, written, body

Lookup == INSTANCE OperationLookup WITH Targets <- AuditedPaths, target <- path
Content == INSTANCE Schemas
Inference == INSTANCE SchemaInference WITH Keys <- BodyKeys

ASSUME PartsAssumption == Lookup!LookupOK /\ Content!SchemasOK /\ Inference!InferenceOK

-----------------------------------------------------------------------------
\* The operation is found whenever a path of the document stands for the target, and
\* only then (specsmith.go:187-231).
FindsItsPath == Lookup!FindsItsPath

\* Which operation is audited never depends on entries that are not its own
\* (specsmith.go:194-204).
OthersDecideNothing == Lookup!OthersDecideNothing

\* The first successful response with JSON decides, and every query parameter counts,
\* whatever is described besides (specsmith.go:249-264, 351-368).
ContractIsStable == Lookup!ContractIsStable

\* What is called concrete is concrete, in spite of limits and loops
\* (specsmith.go:290-349).
ConcreteIsReal == Content!ConcreteIsReal

\* What says something within the limit is called concrete (specsmith.go:290-349).
ShallowIsFound == Content!ShallowIsFound

\* No value of a body can be read off the schema proposed for it (specsmith.go:611-686).
ValueFree == Inference!ValueFree

\* The schema proposed for a body accepts that body exactly if it suits itself
\* (specsmith.go:621-676).
AcceptedExactly == Inference!AcceptedExactly

\* A name that is cut off closes the schema, a value that is too deep does not
\* (specsmith.go:622, 633-642).
OnlyWidthCloses == Inference!OnlyWidthCloses

=============================================================================
