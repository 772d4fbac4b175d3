SPECIFICATION Spec
CONSTANTS
  None = None
  c1 = c1
  c2 = c2
  c3 = c3
  w1 = w1
  w2 = w2
  d = d
  Callers <- ThreeCallers
  Wallets <- MCWallets
  KeyRings <- MCKeyRings
  TypedData <- MCTypedData
INVARIANTS TypeOK OneWalletPerLifetime
PROPERTIES PinnedUntilRestart EveryCallEnds
