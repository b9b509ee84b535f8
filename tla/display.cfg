SPECIFICATION Spec
CONSTANTS
  LCD_COLS = 2
  DDRAM_COLS = 5
  RX_BUFFER = 9
  Texts <- MCTexts
  CR = "CR"
  NL = "NL"
  Blank = "_"
  Booting = "*"
  MaxUpdates = 2
INVARIANTS
  WholeUpdateShows
  OverflowNeedsForce
PROPERTY
  UnforcedShows
