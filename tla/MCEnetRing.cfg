SPECIFICATION FairSpec
CONSTANTS
  RXSIZE = 2
  TXSIZE = 2
  Frame = {f1, f2}
  NoFrame = NoFrame
  Torn = Torn
INVARIANTS CursorArcs
PROPERTIES ImplementsLink Progress
