SPECIFICATION MCSpec
CONSTANTS
  \* TuiLink
  MaxConns = 3
  BufSize = 1
  MaxEvents = 2
  MaxRestarts = 1
  \* TuiSession
  Tuis = {1, 2}
  MaxTokens = 4
  MaxLogouts = 1
  MaxRelaunches = 1
  MaxSyncs = 2
  \* TuiSidebar
  NoChat = NoChat
  ChatIDs = {1, 2, 3}
  People = {2, 4}
  InOrder <- MCInOrder
  Found <- MCFound
  Heights = {1, 2}
  MaxNews = 2
INVARIANTS
  OneSocket EventsInOrder
  RetiredStaysRetired  
  ContactsAreFresh HighlightIsDrawn
PROPERTIES KeepsTrying HighlightSticks
CHECK_DEADLOCK FALSE
