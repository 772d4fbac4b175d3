SPECIFICATION MCSpec
CONSTANTS
  None = None
  c1 = c1
  c2 = c2
  name = name
  other = other
  Calls <- TwoCalls
  Names <- BothNames
  Addresses <- MCAddresses
  URLs <- MCURLs
  LookUps <- FewLookUps
  AllowHTTP = TRUE
  AllowPrivateTargets = FALSE
  MaxConnections = 2
INVARIANT RangesAreBlocked
