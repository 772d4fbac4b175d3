SPECIFICATION Spec
CONSTANTS
  None = None
  Malformed = Malformed
  a1 = a1
  a2 = a2
  w1 = w1
  w2 = w2
  Usdc = Usdc
  SepoliaUsdc = SepoliaUsdc
  Shop = Shop
  OtherShop = OtherShop
  Texts <- MCTexts
  AddressTexts <- MCAddresses
  Addresses <- MCAddresses
  OperatorCap = 2
  AllowedNetworks <- MCAllowedNetworks
  AllowedAssets <- MCAllowedAssets
  Audits <- OneAudit
  Requests <- LooseRequests
  Replies <- LiveReplies
  PaidStatuses = {200, 402, 500}
  Judgements <- LiveJudgements
  EvaluatorConfigured = TRUE
  Wallets <- MCWallets
  KeyRings <- OneKeyRing
  MaxCopies = 1
INVARIANT PaymentNamesNetwork
