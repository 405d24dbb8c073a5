------------------------------ MODULE Requests ------------------------------
(***************************************************************************)
(* The request handlers that make WhatsApp do something: send, file,       *)
(* forward, poll, vote, reaction, typing, edit and delete, and the edit    *)
(* events that reach the archive beside them.                              *)
(*                                                                         *)
(* A handler is the sequence of its steps.  Handlers run concurrently;     *)
(* between two steps the connection may go, the whitelist may change,      *)
(* another handler may touch the same message, and the user may log out.   *)
(* A call to WhatsApp may be carried out although its answer never comes.  *)
(* How the whitelist decides is the business of Permissions.               *)
(***************************************************************************)
EXTENDS Integers, Sequences, FiniteSets

CONSTANTS
    Chats,
    Slots,            \* numbers of requests that may be under way at once
    Ids,              \* IDs of new messages
    old, home,        \* a received message in the archive, and its chat
    OldBodies,        \* what that message may be
    Texts,
    Files,            \* files that may be sent: what their content looks like, and their extension
    Forms,            \* lists of poll options that may be typed
    Ballots,          \* sets of options that may be chosen
    MinPollOptions, MaxPollOptions,
    MaxRequests,      \* bound: requests made
    MaxChanges        \* bound: changes of the connection or of the whitelist

Nothing == [kind |-> "nothing"]   \* no row, no message, no text

ASSUME RequestsAssumption ==
    /\ old \notin Ids \cup {Nothing} /\ Nothing \notin Ids \cup Texts
    /\ home \in Chats /\ Slots \subseteq Nat
    /\ MinPollOptions \in Nat /\ MaxPollOptions \in Nat
    /\ MaxRequests \in Nat /\ MaxChanges \in Nat

VARIABLES
    allow,            \* the whitelist's answer for each chat
    client, up,       \* a.client: a number, 0 for nil; whether it is connected and logged in
    row,              \* the archive: a chat and a body, or Nothing
    wa,               \* what WhatsApp has: a chat, a body, and whether it was revoked
    shown,            \* the text of the last message:edited
    req,              \* the requests
    sure,             \* history: messages about which no two requests overlapped and no answer was lost
    left

vars == <<allow, client, up, row, wa, shown, req, sure, left>>

Text(t) == [kind |-> "text", text |-> t]
Reaction(target) == [kind |-> "reaction", target |-> target]
Poll(options, limit) == [kind |-> "poll", options |-> options, limit |-> limit]
Vote(target, choice) == [kind |-> "vote", target |-> target, choice |-> choice]
Media(file, link) == [kind |-> "media", file |-> file, link |-> link, once |-> FALSE]

Free == [op |-> "none", status |-> 200]
Over(s) == req[s].status # 0
Busy(id) == \E s \in Slots : ~Over(s) /\ req[s].id = id

-----------------------------------------------------------------------------
(* Pure checks of what goes out *)

\* What content and extension say about a file of the given kind.
isISOBMFF(f) == f.content = "ftyp"

mediaMIMEType(kind, f) ==
    \/ f.content = kind
    \/ isISOBMFF(f) /\ f.ext \in (IF kind = "image" THEN {"heic", "avif"} ELSE {"mp4", "mov"})

audioMIMEType(f) ==
    \/ f.content \in {"mpeg", "ogg"}
    \/ isISOBMFF(f) /\ f.ext \in {"m4a", "aac", "mp4"}
    \/ f.content = "frames" /\ f.ext \in {"mp3", "aac"}

ValidateSendFileInput(f) ==
    CASE f.kind = "document" -> TRUE
      [] f.kind \in {"image", "video"} -> mediaMIMEType(f.kind, f)
      [] f.kind = "audio" -> audioMIMEType(f)

\* Poll options are records: whether the text is blank or too long, and
\* what is left of it in lower case.
Blank(o) == o = "blank"
TooLong(o) == o = "long"
Folded(o) == IF o = "A" THEN "a" ELSE o

tidied(form) == SelectSeq(form, LAMBDA o : ~Blank(o))

CleanPoll(form) ==
    LET cleaned == tidied(form) IN
    /\ Len(cleaned) \in MinPollOptions .. MaxPollOptions
    /\ \A i, j \in DOMAIN cleaned :
          ~TooLong(cleaned[i]) /\ (i # j => Folded(cleaned[i]) # Folded(cleaned[j]))

\* A limit of 0 allows any number, a negative one is not known.
ValidateVote(poll, choice) ==
    /\ choice \subseteq {poll.options[i] : i \in DOMAIN poll.options}
    /\ poll.limit > 0 => Cardinality(choice) <= poll.limit

-----------------------------------------------------------------------------
(* The handlers, as the order of what they do *)

handleSendMessage == <<"connected", "gate", "client", "call", "store">>
handleSendFile == <<"connected", "gate", "file", "client", "upload", "call", "store">>
handleReact == <<"connected", "gate", "client", "call", "store">>
handleTyping == <<"connected", "gate", "client", "call">>
\* Mutant: a forward is checked against nothing.
ForwardUnchecked == <<"connected", "source", "media", "age", "reupload", "call", "store">>

handleForwardMessage == <<"connected", "gate", "source", "media", "age", "reupload", "call", "store">>
handleSendPoll == <<"connected", "gate", "form", "call", "store">>
handleVotePoll == <<"connected", "gate", "poll", "origin", "secret", "call", "store">>
handleEditMessage == <<"gate", "connected", "window", "client", "call", "read", "write", "tell">>
\* Mutant: the row goes before the message.
DeleteDropsFirst(mine) ==
    <<"gate", "connected", "drop">> \o (IF mine THEN <<"client", "call">> ELSE <<>>)

handleDeleteMessage(mine) ==
    <<"gate", "connected">> \o (IF mine THEN <<"client", "call">> ELSE <<>>) \o <<"drop">>

\* An edit event: what the phone changed.
receiveEdit == <<"read", "write", "tell">>

Request(op, todo, c, id, body) ==
    [op |-> op, todo |-> todo, chat |-> c, id |-> id, body |-> body,
     from |-> Nothing, client |-> 0, stale |-> FALSE, slow |-> FALSE, seen |-> allow[c], told |-> FALSE, status |-> 0]

Asks(c, id) ==
    {Request("send", handleSendMessage, c, id, Text(t)) : t \in Texts}
    \cup {Request("file", handleSendFile, c, id, Media(f, "fresh")) : f \in Files}
    \cup {Request("react", handleReact, c, id, Reaction(old)),
          Request("typing", handleTyping, c, Nothing, Nothing),
          [Request("forward", handleForwardMessage, c, id, Nothing) EXCEPT !.from = old]}
    \cup {Request("poll", handleSendPoll, c, id, Poll(form, 1)) : form \in Forms}
    \cup {Request("vote", handleVotePoll, c, id, Vote(old, b)) : b \in Ballots}

\* Requests about the message that is there already: its own chat is named.
AsksAbout(id) ==
    {Request("edit", handleEditMessage, wa[id].chat, id, Text(t)) : t \in Texts}
    \cup {Request("delete", handleDeleteMessage(TRUE), wa[id].chat, id, Nothing)}

-----------------------------------------------------------------------------

Init ==
    /\ allow \in [Chats -> BOOLEAN]
    /\ client = 1 /\ up = TRUE
    /\ \E b \in OldBodies, sent \in SUBSET Ids, t \in Texts :
         /\ row = [id \in Ids \cup {old} |->
                     CASE id = old -> [chat |-> home, body |-> b]
                       [] id \in sent -> [chat |-> home, body |-> Text(t)]
                       [] id \in Ids \ sent -> Nothing]
         /\ wa = [id \in Ids |-> IF id \in sent THEN [chat |-> home, body |-> Text(t), gone |-> FALSE] ELSE Nothing]
    /\ shown = [id \in Ids |-> Nothing]
    /\ req = [s \in Slots |-> Free]
    /\ sure = Ids
    /\ left = [requests |-> MaxRequests, changes |-> MaxChanges]

Begin(s, r) ==
    /\ Over(s) /\ \A z \in Slots : z < s => ~Over(z)
    /\ left.requests > 0 /\ left' = [left EXCEPT !.requests = @ - 1]
    /\ req' = [req EXCEPT ![s] = r]
    /\ sure' = IF Busy(r.id) THEN sure \ {r.id} ELSE sure

\* The TUI chooses a new ID for what it sends.
Ask(s) ==
    /\ \/ \E c \in Chats, id \in Ids :
            /\ wa[id] = Nothing /\ ~Busy(id)
            /\ \E r \in Asks(c, id) : Begin(s, r)
       \/ \E id \in Ids :
            /\ wa[id] # Nothing /\ wa[id].body.kind = "text"
            /\ \E r \in AsksAbout(id) : Begin(s, r)
       \/ \E r \in {Request("delete", handleDeleteMessage(FALSE), c, old, Nothing) : c \in Chats} : Begin(s, r)
    /\ UNCHANGED <<allow, client, up, row, wa, shown>>

\* The user edits a message on the phone; the event brings it here.
phoneEdit(s) ==
    /\ \E id \in Ids, t \in Texts :
         /\ up /\ wa[id] # Nothing /\ ~wa[id].gone /\ wa[id].body.kind = "text"
         /\ wa' = [wa EXCEPT ![id].body = Text(t)]
         /\ Begin(s, [Request("event", receiveEdit, wa[id].chat, id, Text(t)) EXCEPT !.seen = TRUE])
    /\ UNCHANGED <<allow, client, up, row, shown>>

-----------------------------------------------------------------------------
(* The steps *)

At(s, step) == ~Over(s) /\ Head(req[s].todo) = step

\* On to the next step, or the answer 200.
Proceed(s, r) ==
    req' = [req EXCEPT ![s] = [r EXCEPT !.todo = Tail(@),
                                        !.status = IF Len(r.todo) = 1 THEN 200 ELSE 0]]
Answer(s, status) == req' = [req EXCEPT ![s] = [@ EXCEPT !.status = status, !.todo = <<>>]]

\* http.Server cuts a connection whose answer is written later than
\* WriteTimeout, half a minute, after the request was read: 0, no answer.
Heard(r) == IF r.slow THEN 0 ELSE r.status

world == <<allow, client, up>>
data == <<row, wa, shown, sure>>

connectedClient(s) ==
    /\ At(s, "connected")
    /\ IF client # 0 /\ up THEN Proceed(s, [req[s] EXCEPT !.client = client]) ELSE Answer(s, 409)
    /\ UNCHANGED <<world, data, left>>

\* Forward, poll and vote go on with the client they looked at, the other
\* handlers read a.client again.
getClient(s) ==
    /\ At(s, "client")
    /\ IF client # 0 THEN Proceed(s, [req[s] EXCEPT !.client = client]) ELSE Answer(s, 409)
    /\ UNCHANGED <<world, data, left>>

isChatAllowed(s) ==
    /\ At(s, "gate")
    /\ IF allow[req[s].chat] THEN Proceed(s, req[s]) ELSE Answer(s, 403)
    /\ UNCHANGED <<world, data, left>>

checkFile(s) ==
    /\ At(s, "file")
    /\ IF ValidateSendFileInput(req[s].body.file) THEN Proceed(s, req[s]) ELSE Answer(s, 400)
    /\ UNCHANGED <<world, data, left>>

\* "large files on slow links legitimately take minutes".
upload(s) ==
    /\ At(s, "upload")
    /\ \/ up /\ client = req[s].client /\ (\E slow \in BOOLEAN : Proceed(s, [req[s] EXCEPT !.slow = slow]))
       \/ Answer(s, 500)
    /\ UNCHANGED <<world, data, left>>

\* resolveForward: the message, ...
resolveForward(s) ==
    /\ At(s, "source")
    /\ LET src == row[req[s].from] IN
       CASE src = Nothing -> Answer(s, 404)
         [] src # Nothing /\ src.body.kind = "text" ->
              req' = [req EXCEPT ![s].body = src.body, ![s].todo = <<"call", "store">>]
         [] src # Nothing /\ src.body.kind = "media" -> Proceed(s, [req[s] EXCEPT !.body = src.body])
         [] src # Nothing /\ src.body.kind \notin {"text", "media"} -> Answer(s, 400)
    /\ UNCHANGED <<world, data, left>>

\* ... its stored media, without which nothing can be sent, ...
BuildForwardedMediaMessage(s) ==
    /\ At(s, "media")
    /\ IF row[req[s].from] = Nothing THEN Answer(s, 404)
       ELSE IF req[s].body.once THEN Answer(s, 400) ELSE Proceed(s, req[s])
    /\ UNCHANGED <<world, data, left>>

\* ... and its age: a row that is gone by now counts as too old.
MediaLinkStale(s) ==
    /\ At(s, "age")
    /\ Proceed(s, [req[s] EXCEPT !.stale = row[req[s].from] = Nothing \/ req[s].body.link = "old"])
    /\ UNCHANGED <<world, data, left>>

reuploadForwardedMedia(s) ==
    /\ At(s, "reupload")
    /\ CASE ~req[s].stale -> Proceed(s, req[s])
         [] req[s].stale /\ client = 0 -> Answer(s, 409)
         [] req[s].stale /\ client # 0 ->
              \/ up /\ \E slow \in BOOLEAN : Proceed(s, [req[s] EXCEPT !.body.link = "fresh", !.slow = slow])
              \/ \E status \in {410, 500} : Answer(s, status)
    /\ UNCHANGED <<world, data, left>>

resolvePoll(s) ==
    /\ At(s, "form")
    /\ IF CleanPoll(req[s].body.options)
       THEN \E limit \in {0, 1} : Proceed(s, [req[s] EXCEPT !.body = Poll(tidied(@.options), limit)])
       ELSE Answer(s, 400)
    /\ UNCHANGED <<world, data, left>>

resolvePollVote(s) ==
    /\ At(s, "poll")
    /\ LET poll == row[req[s].body.target] IN
       IF poll = Nothing THEN Answer(s, 404)
       ELSE IF poll.body.kind = "poll" /\ ValidateVote(poll.body, req[s].body.choice)
            THEN Proceed(s, [req[s] EXCEPT !.from = poll.body]) ELSE Answer(s, 400)
    /\ UNCHANGED <<world, data, left>>

GetMessageOrigin(s) ==
    /\ At(s, "origin")
    /\ IF row[req[s].body.target] = Nothing THEN Answer(s, 500) ELSE Proceed(s, req[s])
    /\ UNCHANGED <<world, data, left>>

\* The poll's secret was saved under one of the names of its chat and
\* sender, or under none of them.
buildPollVote(s) ==
    /\ At(s, "secret")
    /\ Proceed(s, req[s]) \/ (\E status \in {422, 500} : Answer(s, status))
    /\ UNCHANGED <<world, data, left>>

\* The row must be there, and young enough.
editWindow(s) ==
    /\ At(s, "window")
    /\ IF row[req[s].id] = Nothing THEN Answer(s, 404) ELSE Proceed(s, req[s]) \/ Answer(s, 409)
    /\ UNCHANGED <<world, data, left>>

\* What a call does at WhatsApp.
Effect(r) ==
    CASE r.op = "typing" -> wa
      [] r.op = "delete" -> [wa EXCEPT ![r.id].gone = TRUE]
      [] r.op = "edit" -> IF wa[r.id].gone THEN wa ELSE [wa EXCEPT ![r.id].body = r.body]
      [] r.op \notin {"typing", "delete", "edit"} ->
            [wa EXCEPT ![r.id] = [chat |-> r.chat, body |-> r.body, gone |-> FALSE]]

\* Mutant: without a time limit an answer may never come.
callForever(s) ==
    /\ At(s, "call") /\ up /\ client = req[s].client
    /\ wa' = Effect(req[s]) /\ sure' = sure
    /\ Proceed(s, [req[s] EXCEPT !.told = TRUE])
    /\ UNCHANGED <<world, row, shown, left>>

\* The call is carried out, and its answer comes, or does not come in time;
\* or it is not carried out.  A failing typing report is not looked at.
call(s) ==
    /\ At(s, "call")
    /\ LET r == req[s] IN
       \/ /\ up /\ client = r.client
          /\ wa' = Effect(r) /\ sure' = sure
          /\ Proceed(s, [r EXCEPT !.told = TRUE])
       \/ /\ up /\ client = r.client /\ r.op # "typing"
          /\ wa' = Effect(r) /\ sure' = sure \ {r.id}
          /\ req' = [req EXCEPT ![s] = [r EXCEPT !.told = TRUE, !.status = 500, !.todo = <<>>]]
       \/ /\ wa' = wa /\ sure' = sure
          /\ Answer(s, IF r.op = "typing" THEN 200 ELSE 500)
    /\ UNCHANGED <<world, row, shown, left>>

\* upsertMessage: a failing write is logged, the answer is the same.
upsertMessage(s) ==
    /\ At(s, "store")
    /\ \/ row' = [row EXCEPT ![req[s].id] = [chat |-> req[s].chat, body |-> req[s].body]] /\ sure' = sure
       \/ row' = row /\ sure' = sure \ {req[s].id}
    /\ Proceed(s, req[s])
    /\ UNCHANGED <<world, wa, shown, left>>

\* deleteMessageFromDB, in the chat that was named.  An error is answered.
deleteMessageFromDB(s) ==
    /\ At(s, "drop")
    /\ LET m == row[req[s].id] IN
       \/ /\ row' = IF m # Nothing /\ m.chat = req[s].chat THEN [row EXCEPT ![req[s].id] = Nothing] ELSE row
          /\ Proceed(s, req[s]) /\ sure' = sure
       \/ row' = row /\ Answer(s, 500) /\ sure' = sure \ {req[s].id}
    /\ UNCHANGED <<world, wa, shown, left>>

\* editMessageInDB reads the row, ...
editMessageInDB(s) ==
    /\ At(s, "read")
    /\ IF row[req[s].id] = Nothing THEN Answer(s, 200) ELSE Proceed(s, req[s])
    /\ UNCHANGED <<world, data, left>>

\* ... updates it if it is still there, ...
updateRow(s) ==
    /\ At(s, "write")
    /\ row' = IF row[req[s].id] = Nothing THEN row ELSE [row EXCEPT ![req[s].id].body = req[s].body]
    /\ Proceed(s, req[s])
    /\ UNCHANGED <<world, wa, shown, sure, left>>

\* ... and the TUIs are told.
tellEdited(s) ==
    /\ At(s, "tell")
    /\ shown' = [shown EXCEPT ![req[s].id] = req[s].body.text]
    /\ Proceed(s, req[s])
    /\ UNCHANGED <<world, row, wa, sure, left>>

-----------------------------------------------------------------------------
(* What happens meanwhile *)

Change == left.changes > 0 /\ left' = [left EXCEPT !.changes = @ - 1]

setWhitelist(c) ==
    /\ Change
    /\ allow' = [allow EXCEPT ![c] = ~@]
    /\ req' = [s \in Slots |->
                 IF req[s] # Free /\ req[s].chat = c THEN [req[s] EXCEPT !.seen = TRUE] ELSE req[s]]
    /\ UNCHANGED <<client, up, data>>

connection ==
    /\ Change
    /\ up' = ~up
    /\ client' = IF client = 0 THEN 2 ELSE client
    /\ UNCHANGED <<allow, data, req>>

\* A logout takes the client and the archive; another account may follow.
logout ==
    /\ Change
    /\ client' = 0 /\ up' = FALSE
    /\ row' = [id \in DOMAIN row |-> Nothing]
    /\ sure' = {}
    /\ UNCHANGED <<allow, wa, shown, req>>

Step(s) ==
    \/ connectedClient(s) \/ getClient(s) \/ isChatAllowed(s)
    \/ checkFile(s) \/ upload(s)
    \/ resolveForward(s) \/ BuildForwardedMediaMessage(s) \/ MediaLinkStale(s) \/ reuploadForwardedMedia(s)
    \/ resolvePoll(s) \/ resolvePollVote(s) \/ GetMessageOrigin(s) \/ buildPollVote(s)
    \/ editWindow(s) \/ call(s) \/ upsertMessage(s) \/ deleteMessageFromDB(s)
    \/ editMessageInDB(s) \/ updateRow(s) \/ tellEdited(s)

Next ==
    \/ \E s \in Slots : Ask(s) \/ phoneEdit(s) \/ Step(s)
    \/ \E c \in Chats : setWhitelist(c)
    \/ connection \/ logout

\* Every call has a time limit, and SQLite answers.
Spec == Init /\ [][Next]_vars /\ \A s \in Slots : WF_vars(Step(s))

-----------------------------------------------------------------------------
(* Properties *)

\* Every variable has the type its comment says; a request without an
\* answer has something left to do.
TypeOK ==
    /\ allow \in [Chats -> BOOLEAN] /\ client \in 0 .. 2 /\ up \in BOOLEAN
    /\ \A id \in Ids \cup {old} : row[id] # Nothing => row[id].chat \in Chats /\ row[id].body # Nothing
    /\ \A id \in Ids : shown[id] \in Texts \cup {Nothing}
    /\ \A s \in Slots : req[s] # Free => (req[s].status = 0 <=> req[s].todo # <<>>)

\* "The target chat must be whitelisted, like any outgoing message"
\* (resolveForward): whatever a handler made WhatsApp do about a chat, the
\* chat was allowed at some moment since the request came.
DeniedIsUntouched ==
    \A s \in Slots : req[s] # Free /\ req[s].told => req[s].seen

\* The archive holds nothing that WhatsApp never accepted; and about a
\* message on which no two requests overlapped and no answer was lost, the
\* archive, WhatsApp and the last message:edited agree.
ArchiveAgrees ==
    \A id \in Ids :
        /\ row[id] # Nothing => wa[id] # Nothing
        /\ id \in sure /\ ~Busy(id) =>
             /\ row[id] # Nothing <=> wa[id] # Nothing /\ ~wa[id].gone
             /\ row[id] # Nothing => row[id].chat = wa[id].chat /\ row[id].body = wa[id].body
             /\ row[id] # Nothing /\ shown[id] # Nothing => row[id].body = Text(shown[id])

\* "an unanswered call fails instead of hanging its request forever"
\* (waCallTimeout): every request gets an answer.
EveryRequestIsAnswered ==
    \A s \in Slots : ~Over(s) ~> Over(s)

\* Not kept by the code (README, "Disagreements"):
\* "Per-call client with no timeout - 150MB uploads over slow links can
\* easily exceed the shared 12s default" (sendFile of the TUI): whoever waits
\* for a file that was sent hears that it was.
SlowUploadIsConfirmed ==
    \A s \in Slots : req[s] # Free /\ req[s].op = "file" /\ req[s].status = 200 => Heard(req[s]) = 200

=============================================================================
