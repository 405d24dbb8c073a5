------------------------------ MODULE TuiPolls ------------------------------
(***************************************************************************)
(* Polls in the TUI (internal/tui poll.go, poll_vote_ui.go, poll_votes.go):*)
(* the form that makes one, the panel that votes on it, and the card that  *)
(* counts the votes out of the messages of the chat.  The backend keeps    *)
(* the votes it has sent or received; an answer puts a vote at the end of  *)
(* the TUI's list, an event sorts the list by seconds.                     *)
(*                                                                         *)
(* A text is a word: " " is blank, "long" is over the limit, and words are *)
(* the same option when they differ in case only.  A vote names options by *)
(* their place in the poll: their names all differ.                        *)
(***************************************************************************)
EXTENDS Naturals, Sequences, FiniteSets, SequencesExt, Lists

CONSTANTS
  Words,                            \* what can be typed into a row at once
  MinPollOptions, MaxPollOptions,   \* 2 and 12 in the code
  MaxRows,                          \* rows a list keeps (150 in boundCaches)
  MaxVotes, MaxRequests,            \* bounds: votes stored, requests under way
  Ballots                           \* the choices of votes from elsewhere, {0} for unread

ASSUME PollAssumption ==
  /\ MinPollOptions \in Nat \ {0} /\ MaxPollOptions \in Nat /\ MinPollOptions <= MaxPollOptions
  /\ MaxRows \in Nat \ {0, 1} /\ MaxVotes \in Nat /\ MaxRequests \in Nat
  /\ Ballots \subseteq (SUBSET {1, 2}) \cup {{0}}

Voters  == {"me", "ann"}
Unknown == {0}                      \* a vote that was not decrypted
Closed  == [open |-> FALSE]
NoRequest == [options |-> <<>>]
NoPoll  == [size |-> 0, limit |-> 0]
PollRow == 0                        \* the poll's own row; a vote's row is its place in votes

VARIABLES
  form,      \* the "New poll" panel
  request,   \* the poll on its way: NoRequest before and after
  poll,      \* the poll of the chat, once the backend stored it
  panel,     \* the list of polls or the vote panel
  votes,     \* the votes the backend stored, each in a second of its own: who, names
  sending,   \* my votes under way: names, place in votes once stored
  events,    \* rows the socket brings
  list,      \* the rows of the chat as the TUI has them
  missed     \* an answer was lost, or a row evicted from a list out of order; a load mends it

pollVars == <<form, request, poll, panel, votes, sending, events, list, missed>>
making == <<form, request, poll>>
voting == <<panel, sending>>
shown  == <<events, list, missed>>

-----------------------------------------------------------------------------
(* boundCaches, after every message the TUI handles.                       *)
Bounded(rows) == IF Len(rows) > MaxRows THEN SubSeq(rows, Len(rows) - MaxRows + 1, Len(rows)) ELSE rows

InTimeOrder(rows) == \A i, j \in DOMAIN rows : i < j => rows[i] < rows[j]

(* An answer's row goes to the end of the list, unless it is there already.*)
Show(row) ==
  /\ list' = IF row \in Range(list) THEN list ELSE Bounded(Append(list, row))
  /\ missed' = (missed \/ (Len(list) = MaxRows /\ ~InTimeOrder(list)))

-----------------------------------------------------------------------------
(* Making a poll                                                           *)

Lower(word) == IF word = "X" THEN "x" ELSE word
Tidy(word)  == IF word = " " THEN "" ELSE word
TooLong(word) == word = "long"

(* cleanPollDraft: the options that are left, and whether they will do.    *)
Cleaned(options) == Within([i \in DOMAIN options |-> Tidy(options[i])], Words \ {""})

Different(options) ==
  \A i, j \in DOMAIN options : Lower(options[i]) = Lower(options[j]) => i = j

(* Mutant: spellings that differ in case only are different options.       *)
DraftKeepsCase(question, options) ==
  /\ Tidy(question) # "" /\ ~TooLong(question)
  /\ Len(Cleaned(options)) \in MinPollOptions..MaxPollOptions
  /\ \A i \in DOMAIN Cleaned(options) : ~TooLong(Cleaned(options)[i])
  /\ IsInjective(Cleaned(options))

CleanPollDraft(question, options) ==
  /\ Tidy(question) # "" /\ ~TooLong(question)
  /\ Len(Cleaned(options)) \in MinPollOptions..MaxPollOptions
  /\ \A i \in DOMAIN Cleaned(options) : ~TooLong(Cleaned(options)[i])
  /\ Different(Cleaned(options))

EmptyForm == [open |-> TRUE, question |-> "", options |-> [i \in 1..MinPollOptions |-> ""],
              field |-> 0, multiple |-> FALSE, discardArmed |-> FALSE]

MultipleField == Len(form.options) + 1
SendField     == Len(form.options) + 2
FieldCount    == Len(form.options) + 3
OnOption      == form.field \in 1..Len(form.options)
Blank == Tidy(form.question) = "" /\ \A i \in DOMAIN form.options : Tidy(form.options[i]) = ""

RunPollCommand ==
  /\ request = NoRequest /\ poll = NoPoll /\ ~form.open
  /\ form' = EmptyForm
  /\ UNCHANGED <<request, poll, voting, votes, shown>>

SendPoll(question, options, multiple) ==
  /\ CleanPollDraft(question, options)
  /\ request' = [question |-> Tidy(question), options |-> Cleaned(options),
                 multiple |-> multiple, stored |-> FALSE]

(* "/createpoll question | option | option" sends at once.                 *)
RunInlinePoll ==
  /\ request = NoRequest /\ poll = NoPoll /\ ~form.open
  /\ \E question \in Words, options \in SeqOf(Words, MaxPollOptions + 1), multiple \in BOOLEAN :
       SendPoll(question, options, multiple)
  /\ UNCHANGED <<form, poll, voting, votes, shown>>

(* What a key leaves of the form, but for Esc: the discard is off again.   *)
Keys(f) == form.open /\ form' = [f EXCEPT !.discardArmed = FALSE]

InsertText ==
  /\ form.open
  /\ \E word \in Words \ {"long"} :
       \/ form.field = 0 /\ Keys([form EXCEPT !.question = word])
       \/ OnOption /\ Keys([form EXCEPT !.options[form.field] = word])
  /\ UNCHANGED <<request, poll, voting, votes, shown>>

(* Backspace on an empty option removes its row, while two others remain.  *)
BackspaceKey ==
  /\ form.open
  /\ \/ form.field = 0 /\ Keys([form EXCEPT !.question = ""])
     \/ OnOption /\ form.options[form.field] # ""
        /\ Keys([form EXCEPT !.options[form.field] = ""])
     \/ OnOption /\ form.options[form.field] = "" /\ Len(form.options) > MinPollOptions
        /\ Keys([form EXCEPT !.options = RemoveAt(@, form.field), !.field = @ - 1])
  /\ UNCHANGED <<request, poll, voting, votes, shown>>

Step ==
  /\ form.open
  /\ \E by \in {1, FieldCount - 1} : Keys([form EXCEPT !.field = (@ + by) % FieldCount])
  /\ UNCHANGED <<request, poll, voting, votes, shown>>

(* Enter goes on to the next row, and adds one after the last filled one.  *)
Enter ==
  /\ form.open
  /\ \/ form.field = 0 /\ Keys([form EXCEPT !.field = 1])
     \/ /\ OnOption
        /\ LET more == /\ form.field = Len(form.options) /\ form.options[form.field] # ""
                       /\ Len(form.options) < MaxPollOptions
           IN  Keys([form EXCEPT !.options = IF more THEN Append(@, "") ELSE @, !.field = @ + 1])
     \/ form.field = MultipleField /\ Keys([form EXCEPT !.multiple = ~@])
  /\ UNCHANGED <<request, poll, voting, votes, shown>>

(* Enter on the send row, or Alt+S anywhere.                               *)
TryToSend ==
  /\ form.open
  /\ SendPoll(form.question, form.options, form.multiple)
  /\ form' = Closed
  /\ UNCHANGED <<poll, voting, votes, shown>>

EscapeForm ==
  /\ form.open
  /\ form' = IF Blank \/ form.discardArmed THEN Closed ELSE [form EXCEPT !.discardArmed = TRUE]
  /\ UNCHANGED <<request, poll, voting, votes, shown>>

(* The backend's own rules (whatsapp.CleanPoll).                           *)
CleanPoll(question, options) ==
  /\ Tidy(question) # "" /\ ~TooLong(Tidy(question))
  /\ Len(Cleaned(options)) >= MinPollOptions /\ Len(Cleaned(options)) <= MaxPollOptions
  /\ \A o \in Range(Cleaned(options)) : ~TooLong(o)
  /\ \A o \in Range(Cleaned(options)) :
       Cardinality({i \in DOMAIN Cleaned(options) : Lower(Cleaned(options)[i]) = Lower(o)}) = 1

HandleSendPoll ==
  /\ request # NoRequest /\ ~request.stored
  /\ CleanPoll(request.question, request.options)
  /\ request' = [request EXCEPT !.stored = TRUE]
  /\ poll' = [size |-> Len(request.options), limit |-> IF request.multiple THEN 0 ELSE 1]
  /\ UNCHANGED <<form, voting, votes, shown>>

(* The answer; an error when the poll was not sent, or the answer is lost. *)
ApplyPollSent ==
  /\ request # NoRequest /\ request' = NoRequest
  /\ \/ request.stored /\ Show(PollRow)
     \/ UNCHANGED <<list, missed>>
  /\ UNCHANGED <<form, poll, voting, votes, events>>

(* A poll of somebody else's, which may allow a number of answers.         *)
PollArrives ==
  /\ request = NoRequest /\ poll = NoPoll /\ ~form.open
  /\ poll' = [size |-> 3, limit |-> 2] /\ list' = <<PollRow>>
  /\ UNCHANGED <<form, request, voting, votes, events, missed>>

-----------------------------------------------------------------------------
(* Counting the votes                                                      *)

IsVote(row) == row # PollRow
Options == 1..poll.size

(* collectPollVotes: a later row of the same voter takes the place of the  *)
(* earlier one.  Mutant: a vote that cannot be read counts for nothing.    *)
CollectUnread(rows) ==
  [v \in Voters |->
     LET had[i \in 0..Len(rows)] ==
           IF i = 0 THEN {}
           ELSE IF IsVote(rows[i]) /\ votes[rows[i]].who = v THEN votes[rows[i]].names \ Unknown
           ELSE had[i - 1]
     IN  had[Len(rows)]]

Counted(row, v) == IsVote(row) /\ votes[row].who = v /\ votes[row].names # Unknown

CollectPollVotes(rows) ==
  [v \in Voters |->
     LET had[i \in 0..Len(rows)] ==
           IF i = 0 THEN {} ELSE IF Counted(rows[i], v) THEN votes[rows[i]].names ELSE had[i - 1]
     IN  had[Len(rows)]]

(* priorChoice: what a voter had chosen in the latest earlier row that can *)
(* be read.                                                                *)
PriorChoice(rows, i) ==
  LET earlier == {j \in 1..(i - 1) : Counted(rows[j], votes[rows[i]].who)}
  IN  IF earlier = {} THEN {}
      ELSE votes[rows[CHOOSE j \in earlier : \A k \in earlier : k <= j]].names

(* changedOptions: the line of a vote names what it added and took back,   *)
(* and all of it when that is nothing.  Mutant: it never says what was     *)
(* taken back.                                                             *)
NoteOnlyAdds(prev, now) ==
  [voted |-> IF now \subseteq prev THEN now ELSE now \ prev, withdrew |-> {}]

ChangedOptions(prev, now) ==
  IF now = prev THEN [voted |-> now, withdrew |-> {}]
  ELSE [voted |-> now \ prev, withdrew |-> prev \ now]

PollVoteNote(rows, i) ==
  IF votes[rows[i]].names = Unknown THEN [voted |-> {}, withdrew |-> {}]
  ELSE ChangedOptions(PriorChoice(rows, i), votes[rows[i]].names)

-----------------------------------------------------------------------------
(* Voting                                                                  *)

(* The bounds on the votes are here as well, so that a panel can send.     *)
OpenPollList ==
  /\ ~panel.open /\ PollRow \in Range(list)
  /\ Cardinality(sending) < MaxRequests
  /\ Len(votes) + Cardinality({r \in sending : r.at = 0}) < MaxVotes
  /\ panel' = [open |-> TRUE, kind |-> "list"]
  /\ UNCHANGED <<making, votes, sending, shown>>

(* The poll may have left the list by now.                                 *)
OpenVoteForm ==
  /\ panel.open /\ panel.kind = "list"
  /\ LET mine == CollectPollVotes(list)["me"]
     IN  panel' = IF PollRow \in Range(list)
                  THEN [open |-> TRUE, kind |-> "vote", ticks |-> mine \cap Options,
                        hadVote |-> mine # {}]
                  ELSE Closed
  /\ UNCHANGED <<making, votes, sending, shown>>

ClosePanel ==
  /\ panel.open /\ panel' = Closed
  /\ UNCHANGED <<making, votes, sending, shown>>

(* The cursor is at any option, or at the row below to withdraw the vote.  *)
VoteKeys == panel.open /\ panel.kind = "vote"

(* Space.                                                                  *)
Toggle ==
  /\ VoteKeys
  /\ \E o \in Options :
       panel' = [panel EXCEPT !.ticks = IF o \in @ THEN @ \ {o}
                                        ELSE IF poll.limit = 1 THEN {o}
                                        ELSE IF poll.limit > 0 /\ Cardinality(@) >= poll.limit THEN @
                                        ELSE @ \cup {o}]
  /\ UNCHANGED <<making, votes, sending, shown>>

SendVote(names) ==
  /\ Cardinality(sending) < MaxRequests /\ Len(votes) < MaxVotes
  /\ \A r \in sending : r.at = 0 => r.names # names
  /\ sending' = sending \cup {[names |-> names, at |-> 0]}
  /\ panel' = Closed

EnterVote ==
  /\ VoteKeys
  /\ \/ panel.hadVote /\ SendVote({})
     \/ poll.limit = 1 /\ \E o \in Options : SendVote({o})
     \/ poll.limit # 1 /\ panel.ticks # {} /\ SendVote(panel.ticks)
  /\ UNCHANGED <<making, votes, shown>>

Store(who, names) ==
  Len(votes) < MaxVotes /\ votes' = Append(votes, [who |-> who, names |-> names])

(* The backend's own rules (whatsapp.ValidateVote).                        *)
ValidateVote(names) == names \subseteq Options /\ (poll.limit > 0 => Cardinality(names) <= poll.limit)

HandleVotePoll ==
  /\ \E r \in sending :
       /\ r.at = 0 /\ ValidateVote(r.names)
       /\ Store("me", r.names)
       /\ sending' = (sending \ {r}) \cup {[names |-> {}, at |-> Len(votes) + 1]}
  /\ UNCHANGED <<making, panel, shown>>

(* A vote is refused (a rule, no secret of the poll, WhatsApp), or its     *)
(* answer is lost.                                                         *)
VoteFails ==
  /\ \E r \in sending : /\ sending' = sending \ {r}
                        /\ missed' = (missed \/ r.at # 0)
  /\ UNCHANGED <<making, panel, votes, events, list>>

(* By second: the poll's row, then the votes by their place.               *)
ByTime(rows) == [k \in 1..Cardinality(rows) |-> Place(rows, k)]

ApplyPollVoted ==
  /\ \E r \in sending : r.at # 0 /\ sending' = sending \ {r} /\ Show(r.at)
  /\ UNCHANGED <<making, panel, votes, events>>

(* Somebody else votes, or this account does on its phone.  (TuiMessages   *)
(* has the events that are lost.)                                          *)
ReceiveVote ==
  /\ poll # NoPoll
  /\ \E who \in Voters, names \in Ballots : Store(who, names)
  /\ events' = Append(events, Len(votes) + 1)
  /\ UNCHANGED <<making, voting, list, missed>>

HandleWSEvent ==
  /\ events # <<>> /\ events' = Tail(events)
  /\ IF Head(events) \in Range(list) THEN UNCHANGED list
     ELSE list' = Bounded(ByTime(Range(list) \cup {Head(events)}))
  /\ UNCHANGED <<making, voting, votes, missed>>

(* The chat is opened again and its newest rows are loaded.                *)
LoadMessages ==
  /\ poll # NoPoll /\ ~panel.open
  /\ list' = Bounded(ByTime({PollRow} \cup DOMAIN votes))
  /\ missed' = FALSE
  /\ UNCHANGED <<making, voting, votes, events>>

-----------------------------------------------------------------------------
PollsInit ==
  /\ form = Closed /\ request = NoRequest /\ poll = NoPoll
  /\ panel = Closed /\ sending = {}
  /\ votes = <<>> /\ events = <<>> /\ list = <<>> /\ missed = FALSE

FormNext == RunPollCommand \/ RunInlinePoll \/ InsertText \/ BackspaceKey \/ Step
            \/ Enter \/ TryToSend \/ EscapeForm \/ HandleSendPoll \/ ApplyPollSent \/ PollArrives
VoteNext == OpenPollList \/ OpenVoteForm \/ ClosePanel \/ Toggle \/ EnterVote
            \/ HandleVotePoll \/ VoteFails \/ ApplyPollVoted
RowsNext == ReceiveVote \/ HandleWSEvent \/ LoadMessages

PollsNext == FormNext \/ VoteNext \/ RowsNext

PollsSpec == PollsInit /\ [][PollsNext]_pollVars

-----------------------------------------------------------------------------
PollsTypeOK ==
  /\ form.open => /\ Len(form.options) \in MinPollOptions..MaxPollOptions
                  /\ form.field \in 0..(FieldCount - 1)
                  /\ Range(form.options) \subseteq Words \cup {""}
  /\ VoteKeys => panel.ticks \subseteq Options
  /\ Len(votes) <= MaxVotes /\ Len(list) <= MaxRows /\ IsInjective(list)
  /\ Range(list) \subseteq {PollRow} \cup DOMAIN votes
  /\ Range(events) \subseteq DOMAIN votes

(* The rules are written twice, in the TUI and in the backend: a poll that *)
(* the TUI sends is one the backend takes, and so is a vote, whatever      *)
(* earlier vote its ticks started from.  (Form and panel are closed by     *)
(* then, so a refusal would lose what was typed.)                          *)
SentIsTaken ==
  /\ request # NoRequest => CleanPoll(request.question, request.options)
  /\ \A r \in sending : ValidateVote(r.names)

(* The latest vote of each voter that could be read.                       *)
LatestVote(v) ==
  LET cast == {i \in DOMAIN votes : votes[i].who = v /\ votes[i].names # Unknown}
  IN  IF cast = {} THEN {} ELSE votes[CHOOSE i \in cast : \A j \in cast : j <= i].names

(* A card counts the latest vote of everybody, once what is under way has  *)
(* come in: the rows that are evicted first are the poll's own, so no card *)
(* is shown with a part of its votes.  Not so after a lost answer, and     *)
(* when answers crossed and nothing sorted the list since (if a row is     *)
(* evicted then, it may be a vote).                                        *)
CardCountsEveryone ==
  (/\ PollRow \in Range(list) /\ events = <<>> /\ \A r \in sending : r.at = 0
   /\ ~missed /\ InTimeOrder(list))
     => \A v \in Voters : CollectPollVotes(list)[v] = LatestVote(v)

(* What the lines of these rows say, one after the other.                  *)
Noted(rows) ==
  LET had[i \in 0..Len(rows)] ==
        IF i = 0 THEN {}
        ELSE (had[i - 1] \cup PollVoteNote(rows, i).voted) \ PollVoteNote(rows, i).withdrew
  IN  had[Len(rows)]

(* The lines under a card tell the same story as its bars: what was voted  *)
(* for and withdrawn, line by line, adds up to what is counted.            *)
NotesAddUp ==
  \A v \in Voters :
    Noted(Within(list, {r \in Range(list) : IsVote(r) /\ votes[r].who = v})) = CollectPollVotes(list)[v]
=============================================================================
