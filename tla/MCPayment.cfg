SPECIFICATION Spec
CONSTANTS
  None = None
  Malformed = Malformed
  Usdc = Usdc
  SepoliaUsdc = SepoliaUsdc
  Shop = Shop
  OtherShop = OtherShop
  NotAnAddress = NotAnAddress
  OperatorCap = 3
  MaxOptions = 3
  Texts <- MCTexts
  AddressTexts <- MCAddressTexts
  Addresses <- MCAddresses
  AllowedNetworks <- MCAllowedNetworks
  AllowedAssets <- MCAllowedAssets
  Offers <- MCOffers
  Names <- MCNames
  Assets <- MCAssets
INVARIANT ChoiceIsAuthorizable
PROPERTIES OrderDecidesNothing WideningNeverRedirects
