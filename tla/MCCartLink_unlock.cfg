\* Every handshake of every cartridge, with any number before and after it.
SPECIFICATION Spec
CONSTANTS
  XFER_WIDTH <- mc_XFER_WIDTH
  SECRET_WIDTH <- mc_SECRET_WIDTH
  SECRET <- mc_SECRET
  DELAY <- mc_DELAY
  PERIOD <- mc_PERIOD
  Answers <- mc_Answers
  Lags <- mc_Lags
INVARIANTS
  TypeOK
  FreshSamples
  OneDriver
PROPERTIES
  Verdict
  NothingDelays
  Terminates
  LinkServed
