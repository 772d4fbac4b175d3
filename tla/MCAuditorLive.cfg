SPECIFICATION FairSpec
CONSTANTS
  None = None
  Malformed = Malformed
  a1 = a1
  a2 = a2
  w1 = w1
  w2 = w2
  Usdc = Usdc
  SepoliaUsdc = SepoliaUsdc
  Shop = Shop
  OtherShop = OtherShop
  Texts <- MCTexts
  AddressTexts <- MCAddresses
  Addresses <- MCAddresses
  OperatorCap = 2
  AllowedNetworks <- MCAllowedNetworks
  AllowedAssets <- MCAllowedAssets
  Audits <- TwoAudits
  Requests <- LiveRequests
  Replies <- LiveReplies
  PaidStatuses = {200}
  Judgements <- LiveJudgements
  EvaluatorConfigured = TRUE
  Wallets <- MCWallets
  KeyRings <- OneKeyRing
  MaxCopies = 1
PROPERTY EveryAuditEnds
