SPECIFICATION MCSpec
CONSTANTS
  \* TuiComposer
  Chats = {c1, c2}
  NoChat = NoChat
  MaxAtHand = 1
  \* TuiPanels
  ThemeGroups <- MCThemeGroups
  HelpGroups <- MCHelpGroups
  PointerCount = 3
  StyleCount = 5
  Toggles = 2
  Selectors = 2
  ListCount = 2
  Hits = {0, 1, 2}
  MaxOpen = 2
  MaxSaves = 1
INVARIANTS TextStaysInItsChat DraftsKept EveryItemIsReachable PreviewIsUndone
PROPERTIES PasteIsOneMessage LockedChatGetsNothing
