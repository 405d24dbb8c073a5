SPECIFICATION Spec
CONSTANTS
    Chats = {c1, c2}
    Slots = {1, 2}
    Ids = {m1}
    old = old
    home = c1
    OldBodies <- MCOldBodies
    t = t
    u = u
    Texts <- MCTexts
    Files <- MCFiles
    Forms <- MCForms
    Ballots <- MCBallots
    MinPollOptions = 2
    MaxPollOptions = 3
    MaxRequests = 2
    MaxChanges = 1
INVARIANTS DeniedIsUntouched ArchiveAgrees
PROPERTIES EveryRequestIsAnswered
CHECK_DEADLOCK FALSE
