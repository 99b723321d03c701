SPECIFICATION FairSpec
CONSTANTS
  symbol = symbol
  source = source
  string = string
  Events = 2
  Questions = 2
  Earlier <- MCEarlier
  Visits = 2
  Slow <- MCSlow
  Fast <- MCFast
  Capacity = 1
  Credit = 1
  FrameItems = 1
INVARIANTS
  OneSymbolConsumer
  SocketInUseIsLive
  AllSentBeforeEnd
  ReceivedOnce
PROPERTIES
  ExitCompletes
CHECK_DEADLOCK FALSE
