SPECIFICATION PollsSpec
CONSTANTS
  Words = {" ", "x", "X", "y", "long"}
  MinPollOptions = 2
  MaxPollOptions = 3
  MaxRows = 3
  MaxVotes = 3
  MaxRequests = 2
  Ballots = {{1}, {0}}
INVARIANTS SentIsTaken  NotesAddUp
CHECK_DEADLOCK FALSE
