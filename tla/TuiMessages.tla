----------------------------- MODULE TuiMessages -----------------------------
(* The list of messages the TUI shows of one chat, and its composer.

   The list is fed from five sides that know nothing of each other: pages the
   backend read from the archive at some earlier time, the window around a
   search hit, events of the socket, the placeholder of a message being sent,
   and the answer to that send.  A request of the TUI is a goroutine: its
   answer is taken by Update in any order with the others (tui/update.go,
   tui/ws_event.go, tui/composer.go, tui/api.go, tui/sidebar.go).

   The archive is a sequence of rows in the order of their times, which are
   all different.  Messages are numbers.                                    *)
EXTENDS Integers, Sequences, FiniteSets, Functions, Lists

CONSTANTS
    Old,         \* number of messages in the archive at the start
    Sends,       \* messages the user may send: their texts, their client IDs
    News,        \* messages of the others, to arrive
    Top,         \* a number above all of these
    LoadSize,    \* 120: messages asked for when a chat is opened
    OlderSize,   \* 100: messages asked for when scrolling up
    Hits,        \* rows the full-text search finds, by their place
    Half,        \* half the window around a search hit
    Cap,         \* maxCachedMessagesPerChat, 150
    Slots,       \* numbers of GETs that may be under way
    MaxQueue,    \* bound: events of this chat between the backend and Update
    MaxAsks,     \* bound: GETs made
    Statuses,    \* what receipts say
    MaxMoves     \* bound: receipts, and times the user leaves the chat or throws away
                 \* what is in the composer

ASSUME TuiMessagesAssumption ==
    /\ {Old, LoadSize, OlderSize, Half, Cap} \subseteq Nat \ {0}
    /\ {Top, MaxQueue, MaxAsks, MaxMoves} \subseteq Nat
    /\ Slots \subseteq Nat /\ Hits \subseteq 1 .. Old
    /\ \A i \in Sends \cup News : i \in Nat /\ i > Old /\ i < Top
    /\ Sends \cap News = {}

\* The composer, when it holds something else than the text of a send.
Blank == 0
Other == -1

VARIABLES
    stored,   \* the archive of this chat
    msgs,     \* x.msgs[chat]
    loadingOlder, noMoreOlder,
    ask,      \* GET /messages, a slot for each
    events,   \* messages and receipts on their way over the socket
    send,     \* each send: what the backend does about it, and what the TUI knows
    wa,       \* the sends WhatsApp has taken
    here,     \* this chat is the active one
    input,    \* the composer of the chat, when it is active
    draft,    \* x.drafts[chat]
    gone,     \* history: texts the user threw away, or that came back to a composer in use
    holes,    \* history: why rows may be missing between those that are shown
    left      \* the bounds

composer == <<here, input, draft>>
vars == <<stored, msgs, loadingOlder, noMoreOlder, ask, events, send, wa, composer, gone, holes, left>>

\* The ID WhatsApp knows the message by: the one the TUI chose, or another when
\* the TUI had no randomness for one (newOutgoingMessageID, isClientMessageID).
Fallback(i) == i + Top
Real(i) == send[i].id

Row(id, at, receipt) == [id |-> id, at |-> at, receipt |-> receipt, pending |-> FALSE]
now == Len(stored) + 1

\* Slots are taken lowest first.
NoAsk == [kind |-> "none", st |-> "none"]
Asked(kind, from) == [kind |-> kind, st |-> "asked", from |-> from]
FreeSlot(s) == ask[s] = NoAsk /\ \A t \in Slots : t < s => ask[t] # NoAsk

-----------------------------------------------------------------------------
(* Lists of rows *)

IdsOf(rows) == {rows[n].id : n \in DOMAIN rows}
messageIndex(rows, id) == IF id \in IdsOf(rows) THEN CHOOSE n \in DOMAIN rows : rows[n].id = id ELSE 0
pendingPlaceholder(rows, id) == \E n \in DOMAIN rows : rows[n].id = id /\ rows[n].pending
Put(rows, id, row) == [n \in DOMAIN rows |-> IF rows[n].id = id THEN row ELSE rows[n]]
Without(rows, ids) == Kept(rows, {n \in DOMAIN rows : rows[n].id \notin ids})
removeMessage(rows, id) == Without(rows, {id})

\* What sort.Slice makes of the rows: it is not stable.
byTime(rows) ==
    {sorted \in {[n \in DOMAIN rows |-> rows[p[n]]] : p \in Bijection(DOMAIN rows, DOMAIN rows)} :
        \A m, n \in DOMAIN rows : m < n => sorted[m].at <= sorted[n].at}
Newest(rows, n) == SubSeq(rows, IF Len(rows) > n THEN Len(rows) - n + 1 ELSE 1, Len(rows))

\* boundCaches, after every Update.
boundCaches(rows) == Newest(rows, Cap)

\* The chat has been opened, and its first page is there.
Init ==
    /\ stored = [n \in 1 .. Old |-> Row(n, n, "none")]
    /\ msgs = boundCaches(Newest(stored, LoadSize))
    /\ loadingOlder = FALSE /\ noMoreOlder = (Old <= LoadSize)
    /\ ask = [s \in Slots |-> NoAsk]
    /\ events = <<>>
    /\ send = [i \in Sends |-> [id |-> i, file |-> FALSE, job |-> "none", tui |-> "none"]]
    /\ wa = {}
    /\ here = TRUE /\ input = Blank /\ draft = Blank
    /\ gone = {} /\ holes = {}
    /\ left = [asks |-> MaxAsks, moves |-> MaxMoves]

\* Messages that an event or an answer is going to bring.
Arriving == {events[n].row.id : n \in {n \in DOMAIN events : events[n].type = "message"}}
Answering == {Real(i) : i \in {i \in Sends : send[i].tui = "waiting"}}
OnItsWay == Arriving \cup Answering

\* The list has the one before the other.
Precedes(rows, a, b) == \E m, n \in DOMAIN rows : m < n /\ rows[m].id = a /\ rows[n].id = b

\* History: what is cut off the top is newer than a message that stays, or comes.
CutShort(rows) ==
    \E m \in 1 .. Len(rows) - Cap : \E id \in IdsOf(boundCaches(rows)) \cup OnItsWay' :
        Precedes(stored, id, rows[m].id)

Show(rows, why) ==
    /\ msgs' = boundCaches(rows)
    /\ holes' = why \cup IF CutShort(rows) THEN {"cut"} ELSE {}

\* The archive, when row r is upserted: what is there keeps its receipt.
Upserted(r) == IF r.id \in IdsOf(stored) THEN stored ELSE Append(stored, r)

\* History: lists that were read earlier are outdated by what happens now.
Outdated ==
    [s \in Slots |-> IF ask[s].kind # "older" /\ ask[s].st = "answered"
                     THEN [ask[s] EXCEPT !.late = TRUE] ELSE ask[s]]

\* History: a row of the archive is not shown, and no event will bring it.
Unshown(why) == holes' = holes \cup {why} /\ ask' = Outdated

\* An event joins the queue, or is lost: the socket is down, or the queue full.
Push(e) ==
    \/ Len(events) < MaxQueue /\ events' = Append(events, e) /\ UNCHANGED <<holes, ask>>
    \/ events' = events /\ Unshown("lost event")

-----------------------------------------------------------------------------
(* The composer of the chat *)

Move == left.moves > 0 /\ left' = [left EXCEPT !.moves = @ - 1]

\* The user writes.
Type ==
    /\ here /\ input = Blank
    /\ input' \in {i \in Sends : send[i].tui = "none"} \cup {Other}
    /\ UNCHANGED <<stored, msgs, loadingOlder, noMoreOlder, ask, events, send, wa, here, draft, gone, holes, left>>

Clear ==
    /\ here /\ input # Blank /\ Move
    /\ gone' = gone \cup ({input} \cap Sends)
    /\ input' = Blank
    /\ UNCHANGED <<stored, msgs, loadingOlder, noMoreOlder, ask, events, send, wa, here, draft, holes>>

optimisticOutgoingMessage(i, file) ==
    [Row(i, now, IF file THEN "sending" ELSE "sent") EXCEPT !.pending = TRUE]

\* Enter, once materialized: the placeholder, and the POST.  With an attachment
\* the text is its caption.
composerSend ==
    /\ here /\ input \in Sends /\ send[input].tui = "none"
    /\ \E id \in {input, Fallback(input)}, file \in BOOLEAN :
          /\ file => id = input   \* bound: only a text is sent with a fallback ID
          /\ send' = [send EXCEPT ![input] = [id |-> id, file |-> file, job |-> "asked", tui |-> "waiting"]]
          /\ UNCHANGED events
          /\ Show(Append(msgs, optimisticOutgoingMessage(input, file)), holes)
    /\ input' = Blank
    /\ UNCHANGED <<stored, loadingOlder, noMoreOlder, ask, wa, here, draft, gone, left>>

\* Mutant: the draft of a chat that is not open is left alone.
RestoreInOpenChatOnly(i) ==
    /\ input' = IF here /\ input = Blank THEN i ELSE input
    /\ gone' = IF here /\ input # Blank THEN gone \cup {i} ELSE gone
    /\ UNCHANGED <<here, draft>>

restoreFailedSendText(i) ==
    IF here
    THEN /\ input' = IF input = Blank THEN i ELSE input
         /\ gone' = IF input = Blank THEN gone ELSE gone \cup {i}
         /\ UNCHANGED <<here, draft>>
    ELSE /\ draft' = IF draft = Blank THEN i ELSE draft
         /\ gone' = IF draft = Blank THEN gone ELSE gone \cup {i}
         /\ UNCHANGED <<here, input>>

\* Opening another chat: saveDraft of this one.
LeaveChat ==
    /\ here /\ Move
    /\ draft' = input
    /\ here' = FALSE /\ input' = Blank
    /\ UNCHANGED <<stored, msgs, loadingOlder, noMoreOlder, ask, events, send, wa, gone, holes>>

\* Thirty other chats later, the list of this one may be evicted.
Evict ==
    /\ ~here /\ msgs # <<>>
    /\ msgs' = <<>>
    /\ holes' = holes \cup {"evicted"}
    /\ UNCHANGED <<stored, loadingOlder, noMoreOlder, ask, events, send, wa, composer, gone, left>>

-----------------------------------------------------------------------------
(* Requests for messages *)

Get(s, kind, from) ==
    /\ left.asks > 0 /\ FreeSlot(s)
    /\ ask' = [ask EXCEPT ![s] = Asked(kind, from)]
    /\ left' = [left EXCEPT !.asks = @ - 1]

\* openSelectedChat: the same again when the chat is open already.
openSelectedChat(s) ==
    /\ Get(s, "load", 0)
    /\ IF here THEN UNCHANGED composer
       ELSE here' = TRUE /\ input' = draft /\ UNCHANGED draft
    /\ UNCHANGED <<stored, msgs, loadingOlder, noMoreOlder, events, send, wa, gone, holes>>

maybeLoadOlder(s) ==
    /\ here /\ ~loadingOlder /\ ~noMoreOlder /\ msgs # <<>>
    /\ Get(s, "older", msgs[1].at)
    /\ loadingOlder' = TRUE
    /\ UNCHANGED <<stored, msgs, noMoreOlder, events, send, wa, composer, gone, holes>>

\* Enter on a search hit, in this chat.
getMsgsAround(s) ==
    /\ here
    /\ \E n \in Hits : Get(s, "around", n)
    /\ UNCHANGED <<stored, msgs, loadingOlder, noMoreOlder, events, send, wa, composer, gone, holes>>

Before(at) == Kept(stored, {n \in DOMAIN stored : stored[n].at < at})

\* Mutant: the page is read from the wrong end.
OldestPage(rows, limit) ==
    [rows |-> SubSeq(rows, 1, IF Len(rows) > limit THEN limit ELSE Len(rows)), more |-> Len(rows) > limit]

\* handleMessages and handleMessagesAround read the archive.
Page(rows, limit) == [rows |-> Newest(rows, limit), more |-> Len(rows) > limit]

Window(n) == SubSeq(stored, IF n > Half THEN n - Half ELSE 1,
                            IF n + Half < Len(stored) THEN n + Half ELSE Len(stored))

handleMessages(s) ==
    /\ ask[s].st = "asked"
    /\ LET page == CASE ask[s].kind = "load" -> Page(stored, LoadSize)
                     [] ask[s].kind = "older" -> Page(Before(ask[s].from), OlderSize)
                     [] ask[s].kind = "around" -> [rows |-> Window(ask[s].from), more |-> TRUE]
       IN ask' = [ask EXCEPT ![s] = [kind |-> @.kind, st |-> "answered", from |-> @.from, late |-> FALSE,
                                     rows |-> page.rows, more |-> page.more]]
    /\ UNCHANGED <<stored, msgs, loadingOlder, noMoreOlder, events, send, wa, composer, gone, holes, left>>

getFails(s) ==
    /\ ask[s].st = "asked"
    /\ ask' = [ask EXCEPT ![s] = NoAsk]
    /\ loadingOlder' = IF ask[s].kind = "older" THEN FALSE ELSE loadingOlder
    /\ UNCHANGED <<stored, msgs, noMoreOlder, events, send, wa, composer, gone, holes, left>>

\* History: the page begins after a message that is still to come.
Begins(rows) == \E id \in OnItsWay : Precedes(stored, id, rows[1].id)

msgsMsg(s) ==
    /\ ask[s].kind = "load" /\ ask[s].st = "answered"
    /\ loadingOlder' = FALSE
    /\ noMoreOlder' = ~ask[s].more
    /\ ask' = [ask EXCEPT ![s] = NoAsk]
    /\ UNCHANGED <<stored, events, send, wa, composer, gone, left>>
    /\ Show(ask[s].rows, IF ask[s].late \/ Begins(ask[s].rows) THEN {"late page"} ELSE {})

\* History: what is shown still goes back to the row the page was asked for.
Reaches(from) == \E n \in 1 .. from : n \in DOMAIN stored /\ stored[n].id \in IdsOf(msgs)

olderMsgsMsg(s) ==
    /\ ask[s].kind = "older" /\ ask[s].st = "answered"
    /\ loadingOlder' = FALSE
    /\ noMoreOlder' = (noMoreOlder \/ ~ask[s].more)
    /\ ask' = [ask EXCEPT ![s] = NoAsk]
    /\ UNCHANGED <<stored, events, send, wa, composer, gone, left>>
    /\ Show(Without(ask[s].rows, IdsOf(msgs)) \o msgs,
            IF Reaches(ask[s].from) THEN holes ELSE holes \cup {"late page"})

aroundMsgsMsg(s) ==
    /\ ask[s].kind = "around" /\ ask[s].st = "answered"
    /\ loadingOlder' = FALSE /\ noMoreOlder' = FALSE
    /\ ask' = [ask EXCEPT ![s] = NoAsk]
    /\ UNCHANGED <<stored, events, send, wa, composer, gone, left>>
    /\ Show(ask[s].rows, holes \cup {"window"})

-----------------------------------------------------------------------------
(* Events *)

Message(r) == [type |-> "message", row |-> r]
Receipt(ids, status) == [type |-> "receipt", ids |-> ids, status |-> status]

\* A message of somebody else.
ReceiveMessage(n) ==
    /\ n \notin IdsOf(stored)
    /\ stored' = Upserted(Row(n, now, "none"))
    /\ Push(Message(Row(n, now, "none")))
    /\ UNCHANGED <<msgs, loadingOlder, noMoreOlder, send, wa, composer, gone, left>>

\* WhatsApp's own copy of a message we sent, once.
Echo(i) ==
    /\ i \in wa /\ send[i].job # "asked" /\ Real(i) \notin IdsOf(stored)
    /\ stored' = Upserted(Row(Real(i), now, "sent"))
    /\ Push(Message(Row(Real(i), now, "sent")))
    /\ UNCHANGED <<msgs, loadingOlder, noMoreOlder, send, wa, composer, gone, left>>

receiptStatusRank(r) == CASE r = "sent" -> 1 [] r = "delivered" -> 2 [] r = "read" -> 3 [] OTHER -> 0

\* A receipt names several messages; it is passed on when it raises one of them.
ReceiveReceipt ==
    /\ Move
    /\ \E ids \in SUBSET {Real(i) : i \in wa} \ {{}}, status \in Statuses :
          LET raised == {id \in ids : \E n \in DOMAIN stored :
                            stored[n].id = id /\ receiptStatusRank(stored[n].receipt) < receiptStatusRank(status)}
          IN /\ raised # {}
             /\ stored' = [n \in DOMAIN stored |->
                   IF stored[n].id \in raised THEN [stored[n] EXCEPT !.receipt = status] ELSE stored[n]]
             /\ Push(Receipt(ids, status))
    /\ UNCHANGED <<msgs, loadingOlder, noMoreOlder, send, wa, composer, gone>>

\* A message already listed replaces its placeholder and nothing else.
withMessage(r) ==
    IF r.id \in IdsOf(msgs)
    THEN {IF pendingPlaceholder(msgs, r.id) THEN Put(msgs, r.id, r) ELSE msgs}
    ELSE byTime(Append(msgs, r))

\* The status is taken as it comes; only rows of ours have one.
withReceipt(ids, status) ==
    [n \in DOMAIN msgs |-> IF msgs[n].id \in ids
                           THEN [msgs[n] EXCEPT !.receipt = status, !.pending = FALSE] ELSE msgs[n]]

handleWSEvent ==
    /\ events # <<>>
    /\ events' = Tail(events)
    /\ ask' = Outdated
    /\ UNCHANGED <<stored, loadingOlder, noMoreOlder, send, wa, composer, gone, left>>
    /\ \E rows \in IF Head(events).type = "message" THEN withMessage(Head(events).row)
                  ELSE {withReceipt(Head(events).ids, Head(events).status)} : Show(rows, holes)

-----------------------------------------------------------------------------
(* A send, in the backend and in the TUI *)

\* WhatsApp takes the message; the answer of its server may still be lost.
Accept(i) ==
    /\ send[i].job = "asked"
    /\ wa' = wa \cup {i}
    /\ \E job \in {"taken", "failed"} : send' = [send EXCEPT ![i].job = job]
    /\ UNCHANGED <<stored, msgs, loadingOlder, noMoreOlder, ask, events, composer, gone, holes, left>>

Refuse(i) ==
    /\ send[i].job = "asked"
    /\ send' = [send EXCEPT ![i].job = "failed"]
    /\ UNCHANGED <<stored, msgs, loadingOlder, noMoreOlder, ask, events, wa, composer, gone, holes, left>>

\* handleSendMessage stores the row; the answer carries it as "sent".
StoreSent(i) ==
    /\ send[i].job = "taken"
    /\ stored' = Upserted(Row(Real(i), now, "sent"))
    /\ send' = [send EXCEPT ![i].job = "stored"]
    /\ IF send[i].tui = "over" THEN Unshown("timeout") ELSE UNCHANGED <<holes, ask>>
    /\ UNCHANGED <<msgs, loadingOlder, noMoreOlder, events, wa, composer, gone, left>>

\* Mutant: an answer whose message is not listed any more is appended, whatever
\* stands there under its real ID.
ApplySentTwice(i, sent) ==
    IF i \in IdsOf(msgs)
    THEN IF pendingPlaceholder(msgs, i) THEN Put(msgs, i, sent) ELSE msgs
    ELSE IF sent.id \in IdsOf(msgs) THEN msgs ELSE Append(msgs, sent)

applySentMessage(i, sent) ==
    IF i \in IdsOf(msgs) /\ sent.id \in IdsOf(msgs) /\ i # sent.id
    THEN IF pendingPlaceholder(msgs, i) THEN removeMessage(msgs, i) ELSE msgs
    ELSE IF i \in IdsOf(msgs)
         THEN IF pendingPlaceholder(msgs, i) THEN Put(msgs, i, sent) ELSE msgs
         ELSE IF sent.id \in IdsOf(msgs) THEN msgs ELSE Append(msgs, sent)

timeOf(id) == stored[messageIndex(stored, id)].at

sentMsg(i) ==
    /\ send[i].job = "stored" /\ send[i].tui = "waiting"
    /\ send' = [send EXCEPT ![i].tui = "over"]
    /\ ask' = Outdated
    /\ UNCHANGED <<stored, loadingOlder, noMoreOlder, events, wa, composer, gone, left>>
    /\ Show(applySentMessage(i, Row(Real(i), timeOf(Real(i)), "sent")), holes)

\* The POST fails: the backend says so, or the client waits no longer.
sentMsgErr(i) ==
    /\ send[i].tui = "waiting"
    /\ send' = [send EXCEPT ![i].tui = "over"]
    /\ IF i \in IdsOf(msgs) /\ ~pendingPlaceholder(msgs, i)
       THEN ask' = Outdated /\ UNCHANGED <<msgs, composer, gone, holes>>
       ELSE /\ msgs' = boundCaches(removeMessage(msgs, i))
            /\ IF send[i].file THEN UNCHANGED <<composer, gone>> ELSE restoreFailedSendText(i)
            /\ IF Real(i) \in IdsOf(stored) THEN Unshown("timeout") ELSE UNCHANGED <<holes, ask>>
    /\ UNCHANGED <<stored, loadingOlder, noMoreOlder, events, wa, left>>

Next ==
    \/ Type \/ Clear \/ composerSend \/ LeaveChat \/ Evict
    \/ \E s \in Slots :
          \/ openSelectedChat(s) \/ maybeLoadOlder(s) \/ getMsgsAround(s)
          \/ handleMessages(s) \/ getFails(s)
          \/ msgsMsg(s) \/ olderMsgsMsg(s) \/ aroundMsgsMsg(s)
    \/ \E n \in News : ReceiveMessage(n)
    \/ ReceiveReceipt
    \/ handleWSEvent
    \/ \E i \in Sends :
          Echo(i) \/ Accept(i) \/ Refuse(i) \/ StoreSent(i) \/ sentMsg(i) \/ sentMsgErr(i)

Spec == Init /\ [][Next]_vars

-----------------------------------------------------------------------------
(* Properties *)

Rows == [id : 1 .. Old \cup Sends \cup {Fallback(i) : i \in Sends} \cup News, at : Nat,
         receipt : {"none", "sending", "sent", "delivered", "read"}, pending : BOOLEAN]

\* The type invariant; a list never outgrows its cap (cachebound.go).
TypeOK ==
    /\ stored \in Seq(Rows) /\ msgs \in Seq(Rows) /\ Len(msgs) <= Cap
    /\ loadingOlder \in BOOLEAN /\ noMoreOlder \in BOOLEAN /\ here \in BOOLEAN
    /\ \A s \in Slots : ask[s].kind \in {"none", "load", "older", "around"}
    /\ Len(events) <= MaxQueue
    /\ \A i \in Sends : send[i].job \in {"none", "asked", "taken", "failed", "stored"}
    /\ {input, draft} \subseteq Sends \cup {Blank, Other}
    /\ wa \subseteq Sends /\ gone \subseteq Sends

\* No message is listed twice, whichever of placeholder, echo, answer, page
\* and window brings it first, also when WhatsApp gave it another ID than the
\* one the TUI had chosen (applySentMessage, olderMsgsMsg, case "message").
ListedOnce == \A m, n \in DOMAIN msgs : msgs[m].id = msgs[n].id => m = n

\* A text whose send failed is in the composer or the draft of its chat,
\* unless WhatsApp has the message, something newer stood there, or the user
\* threw it away; wherever the user is when the answer comes
\* (restoreFailedSendText, saveDraft, restoreDraft).
NoTextLost ==
    \A i \in Sends :
        send[i].tui = "over" /\ ~send[i].file => i \in wa \cup gone \cup ({input, draft} \cap Sends)

\* What is shown has no holes: when nothing is on its way, the rows of the
\* archive that are shown are the newest ones, without a gap.  Six things
\* break that until the chat is opened again, and nothing else does: a lost
\* event, a page outdated by what changed between its request and its arrival,
\* or that begins after what is still to come, the window around a search hit,
\* the eviction of the list while it was not open, a send that went out
\* although its answer failed, and a list that is cut at its cap while it is
\* not in order or an older message is still to come.
Quiet ==
    /\ events = <<>> /\ ask = [s \in Slots |-> NoAsk]
    /\ \A i \in Sends : send[i].tui # "waiting" /\ send[i].job \notin {"asked", "taken"}
    /\ \A i \in wa : Real(i) \in IdsOf(stored)

NoHoles ==
    Quiet /\ holes = {} /\ msgs # <<>> =>
        IdsOf(msgs) = IdsOf(Newest(stored, Len(msgs)))

\* Not kept by the code (README, "Disagreements"):
\* Messages of an older page are shown (update.go: "Prepend, dedupe by message
\* key"; cachebound.go: what is evicted "stays safely on disk").
OlderPageIsShown ==
    [][\A s \in Slots : olderMsgsMsg(s) => IdsOf(ask[s].rows) \subseteq IdsOf(msgs')]_vars
=============================================================================
