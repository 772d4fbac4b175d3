SPECIFICATION MCSpec
CONSTANTS
  None = None
  Malformed = Malformed
  Dangling = Dangling
  Texts <- MCTexts
  AddressTexts <- MCAddresses
  Addresses <- MCAddresses
  OperatorCap = 1
  AllowedNetworks <- MCTexts
  AllowedAssets <- MCAllowedAssets
  Targets <- MCTargets
  OpenAPIDocs <- MCOpenAPIDocs
  RegistrationDocs <- MCRegistrationDocs
  SkillDocs <- MCSkillDocs
  Challenges <- MCChallenges
  Segments <- MCSegments
  Templated <- MCTemplated
  AuditedPaths <- MCAudited
  PathKeys <- MCPathKeys
  MaxPaths = 3
  Codes <- MCCodes
  Contents <- MCContents
  Parameters <- MCParameters
  MaxParameters = 2
  Size = 4
  MaxDepth = 2
  Shapes <- MCShapes
  MaxSchemaDepth = 3
  MaxSchemaProperties = 2
  MaxSchemaArrayItems = 2
  BodyKeys <- MCKeys
  LongKeys <- MCLongKeys
  Values <- MCValues
  Bodies <- MCBodies
INVARIANTS ReadyMeansChecked NothingDropped AgreesWithScoring FindsItsPath ConcreteIsReal ShallowIsFound AcceptedExactly OnlyWidthCloses
PROPERTIES OthersDecideNothing ContractIsStable ValueFree
CHECK_DEADLOCK FALSE
