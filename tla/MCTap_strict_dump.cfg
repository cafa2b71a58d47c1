SPECIFICATION Spec

CONSTANTS
  STRICT = TRUE
  NumBanks = 4
  REG_MIN = 1
  REG_MAX = 4
  REGION_SIZE = 4
  BankChunks = 2
  NoCart = NoCart
  Unknown = Unknown
  RomSz <- MCRomSz
  SavSz <- MCSavSz
  PastTable <- MCPastTable
  OpenBus <- MCOpenBus
  Carts <- OneLargeCart
  Lens <- FewLens
  Addrs <- MCAddrs
  Ports <- EdgePorts
  Idxs <- RamIdxs
  PokeVals <- MCPokeVals

INVARIANTS
  WidthPrepared
