SPECIFICATION FairSpec
CONSTANTS
  RXSIZE = 2
  TXSIZE = 2
  Frame = {f1}
  NoFrame = NoFrame
  Torn = Torn
PROPERTIES RxResumes
