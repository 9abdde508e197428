SPECIFICATION FairSpec
CONSTANTS
  Byte <- MCByte
  JUNK = JUNK
  Block = 2
  Sources <- MCSources
  Reorder = FALSE
  Modes = {"up", "down"}
  Aborts = TRUE
  MaxResend = 3
  MaxLoss = 2
CHECK_DEADLOCK FALSE
INVARIANTS InOrder UploadComplete 
PROPERTIES ReadEndsAfterClient ReturnsUnlessAborted
