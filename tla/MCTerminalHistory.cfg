SPECIFICATION HistorySpec
CONSTANTS
  s1 = s1
  c1 = c1
  Sessions <- OneSession
  Clients <- OneClient
  Watched = s1
  Bytes = {0, 1, 2}
  Size = 2
  MaxSessions = 1
  History = 2
  ChanCap = 2
  InCap = 1
  OutCap = 1
  MaxChunks = 3
  MaxInput = 1
INVARIANTS
  RegisteredChannelsOpen
  ReplayMeetsLive
  BufferReplays
PROPERTIES
  ClosingEnds
  HandlersEnd
  KeepsLastBytes
CHECK_DEADLOCK FALSE
