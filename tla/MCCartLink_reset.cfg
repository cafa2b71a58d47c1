\* The line rises before the count on every handshake but the first.
SPECIFICATION Spec
CONSTANTS
  XFER_WIDTH <- mc_XFER_WIDTH
  SECRET_WIDTH <- mc_SECRET_WIDTH
  SECRET <- mc_SECRET
  DELAY <- mc_DELAY
  PERIOD <- mc_PERIOD
  Answers <- mc_Answers
  Lags <- mc_Lags
PROPERTY
  RstAfterOneCycle
