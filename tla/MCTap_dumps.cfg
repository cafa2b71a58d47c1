SPECIFICATION Spec

CONSTANTS
  STRICT = FALSE
  NumBanks = 4
  REG_MIN = 1
  REG_MAX = 4
  REGION_SIZE = 4
  BankChunks = 2
  NoCart = NoCart
  Unknown = Unknown
  RomSz <- MCRomSz
  SavSz <- MCSavSz
  PastTable <- MCPastTable
  OpenBus <- MCOpenBus
  Carts <- AllCarts
  Lens <- OneLen
  Addrs <- None
  Ports <- RamPort
  Idxs <- FirstIdxs
  PokeVals <- MCPokeVals

INVARIANTS
  TypeOK
  ErrorCoherent
  OpenBusClocked
  WordBus
  WalkBacked

PROPERTIES
  ErrorQuiesces
  OwnBankOnly
  HeaderExact
  DumpExact
  DumpComplete
  DumpsServed
