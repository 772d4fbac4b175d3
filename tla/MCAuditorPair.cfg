SPECIFICATION Spec
CONSTANTS
  None = None
  Malformed = Malformed
  a1 = a1
  a2 = a2
  w1 = w1
  w2 = w2
  Usdc = Usdc
  SepoliaUsdc = SepoliaUsdc
  Shop = Shop
  OtherShop = OtherShop
  Texts <- MCTexts
  AddressTexts <- MCAddresses
  Addresses <- MCAddresses
  OperatorCap = 2
  AllowedNetworks <- MCAllowedNetworks
  AllowedAssets <- MCAllowedAssets
  Audits <- TwoAudits
  Requests <- PairRequests
  Replies <- PairReplies
  PaidStatuses = {200}
  Judgements <- MCJudgements
  EvaluatorConfigured = FALSE
  Wallets <- MCWallets
  KeyRings <- TwoKeyRings
  MaxCopies = 2
INVARIANTS SettledWithinAuthority NoHiddenPayment PaymentsIndependent ReportsNameOneWallet
PROPERTY SpendsOnce
SYMMETRY AuditSymmetry
