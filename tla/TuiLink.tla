------------------------------- MODULE TuiLink -------------------------------
(***************************************************************************)
(* The TUI's connection to the backend: the WebSocket it reads events      *)
(* from, how it reconnects, and the screen that the events decide.         *)
(*                                                                         *)
(* Update handles one message at a time.  A message comes from a command   *)
(* (openWS, readWS, a tick, a POST) that runs in a goroutine of its own,   *)
(* so messages of different commands arrive in any order.  A readWS        *)
(* command reads one event of the channel it was given; its message does   *)
(* not say which channel that was.                                         *)
(***************************************************************************)
EXTENDS Naturals, Sequences

CONSTANTS
    MaxConns,     \* bound: connections the TUI opens
    BufSize,      \* size of the channel openWS makes
    MaxEvents,    \* bound: events the backend sends on one connection
    MaxRestarts   \* bound: how often the user presses r

Conns == 1 .. MaxConns
None == 0   \* x.ws is nil

Statuses == {"starting", "connecting", "qr", "reconnecting", "error", "logged-out", "ready"}

ASSUME TuiLinkAssumption ==
    /\ MaxConns \in Nat \ {0}
    /\ BufSize \in Nat \ {0}
    /\ MaxEvents \in Nat
    /\ MaxRestarts \in Nat

VARIABLES
    begun,      \* initMsg has been handled
    status, sessionReady, wsDisconnected,   \* fields of the model
    cur,        \* x.ws and x.wsCh, which change together
    conn,       \* each connection: new, open, closed
    sent,       \* events received on each connection, dropped ones included
    buf,        \* the channel of each connection: numbers of its events
    dials,      \* openWS commands under way
    readers,    \* readWS commands waiting on each channel
    posts,      \* POSTs of /start under way
    opened,     \* wsOpenMsg with a connection, not yet handled
    failed,     \* wsOpenMsg with an error, not yet handled
    read,       \* wsEvtMsg with an event: <<connection, number>>
    ended,      \* wsEvtMsg of a closed channel
    ticks,      \* ticks that will bring a reconnectMsg
    splash,     \* a tick that will bring a splashDoneMsg
    shown,      \* history: the last event of each connection that Update handled
    disordered, \* history: an event was handled after a later one of its connection
    restarts    \* how often the user pressed r

screen == <<status, sessionReady, splash, posts>>
link == <<cur, wsDisconnected>>
net == <<conn, sent, buf>>
mail == <<opened, failed, read, ended, ticks>>
past == <<shown, disordered, restarts>>
linkVars == <<begun, status, sessionReady, wsDisconnected, cur, conn, sent, buf, dials, readers, posts,
          opened, failed, read, ended, ticks, splash, shown, disordered, restarts>>

-----------------------------------------------------------------------------

LinkInit ==
    /\ begun = FALSE
    /\ status = "starting" /\ sessionReady = FALSE /\ wsDisconnected = FALSE
    /\ cur = None
    /\ conn = [c \in Conns |-> "new"]
    /\ sent = [c \in Conns |-> 0]
    /\ buf = [c \in Conns |-> <<>>]
    /\ dials = 0 /\ readers = [c \in Conns |-> 0] /\ posts = 0
    /\ opened = {} /\ failed = 0 /\ read = {} /\ ended = 0 /\ ticks = 0 /\ splash = FALSE
    /\ shown = [c \in Conns |-> 0]
    /\ disordered = FALSE /\ restarts = 0

-----------------------------------------------------------------------------
(* The goroutines that commands start, and the backend at the other end *)

\* openWS.  TLC has Conns to give out; after the last one dialling fails.
Dial(c) ==
    /\ dials > 0
    /\ conn[c] = "new" /\ \A d \in 1 .. c - 1 : conn[d] # "new"
    /\ dials' = dials - 1
    /\ conn' = [conn EXCEPT ![c] = "open"]
    /\ opened' = opened \cup {c}
    /\ UNCHANGED <<begun, screen, link, sent, buf, readers, failed, read, ended, ticks, past>>

DialFails ==
    /\ dials > 0
    /\ dials' = dials - 1
    /\ failed' = failed + 1
    /\ UNCHANGED <<begun, screen, link, net, readers, opened, read, ended, ticks, past>>

\* The goroutine that openWS leaves behind; a full channel loses the event.
Receive(c) ==
    /\ conn[c] = "open" /\ sent[c] < MaxEvents
    /\ sent' = [sent EXCEPT ![c] = @ + 1]
    /\ buf' = IF Len(buf[c]) < BufSize
              THEN [buf EXCEPT ![c] = Append(@, sent'[c])] ELSE buf
    /\ UNCHANGED <<begun, screen, link, conn, dials, readers, mail, past>>

\* The backend has stopped, or has dropped this client.
PeerCloses(c) ==
    /\ conn[c] = "open"
    /\ conn' = [conn EXCEPT ![c] = "closed"]
    /\ UNCHANGED <<begun, screen, link, sent, buf, dials, readers, mail, past>>

\* readWS
ReadEvent(c) ==
    /\ readers[c] > 0 /\ buf[c] # <<>>
    /\ readers' = [readers EXCEPT ![c] = @ - 1]
    /\ read' = read \cup {<<c, Head(buf[c])>>}
    /\ buf' = [buf EXCEPT ![c] = Tail(@)]
    /\ UNCHANGED <<begun, screen, link, conn, sent, dials, opened, failed, ended, ticks, past>>

ReadEnd(c) ==
    /\ readers[c] > 0 /\ buf[c] = <<>> /\ conn[c] = "closed"
    /\ readers' = [readers EXCEPT ![c] = @ - 1]
    /\ ended' = ended + 1
    /\ UNCHANGED <<begun, screen, link, net, dials, opened, failed, read, ticks, past>>

-----------------------------------------------------------------------------
(* Update: the connection *)

\* The backend answers; the TUI opens its socket and posts /start.
initMsg ==
    /\ ~begun /\ begun' = TRUE
    /\ status' = "connecting"
    /\ dials' = dials + 1
    /\ posts' = posts + 1
    /\ UNCHANGED <<sessionReady, splash, link, net, readers, mail, past>>

initMsgErr ==
    /\ ~begun /\ begun' = TRUE
    /\ status' = "error"
    /\ UNCHANGED <<sessionReady, splash, posts, link, net, dials, readers, mail, past>>

\* Mutant: the connection that x.ws held so far is forgotten, not closed.
OpenedWithoutClose(c) ==
    /\ c \in opened /\ opened' = opened \ {c}
    /\ wsDisconnected' = FALSE
    /\ cur' = c
    /\ readers' = [readers EXCEPT ![c] = @ + 1]
    /\ UNCHANGED <<begun, screen, net, dials, failed, read, ended, ticks, past>>

\* Mutant: two readWS commands on the new channel.
OpenedReadsTwice(c) ==
    /\ c \in opened /\ opened' = opened \ {c}
    /\ wsDisconnected' = FALSE
    /\ conn' = [d \in Conns |-> IF d = cur THEN "closed" ELSE conn[d]]
    /\ cur' = c
    /\ readers' = [readers EXCEPT ![c] = @ + 2]
    /\ UNCHANGED <<begun, screen, sent, buf, dials, failed, read, ended, ticks, past>>

wsOpenMsg(c) ==
    /\ c \in opened /\ opened' = opened \ {c}
    /\ wsDisconnected' = FALSE
    /\ conn' = [d \in Conns |-> IF d = cur THEN "closed" ELSE conn[d]]
    /\ cur' = c
    /\ readers' = [readers EXCEPT ![c] = @ + 1]
    /\ UNCHANGED <<begun, screen, sent, buf, dials, failed, read, ended, ticks, past>>

\* On the chat screen only the top bar says that a reconnect follows.
wsOpenMsgErr ==
    /\ failed > 0 /\ failed' = failed - 1
    /\ wsDisconnected' = TRUE
    /\ \/ /\ status = "ready"
          /\ UNCHANGED <<status, ticks>>
       \/ /\ status # "ready"
          /\ status' = "reconnecting"
          /\ ticks' = ticks + 1
    /\ UNCHANGED <<begun, sessionReady, splash, posts, cur, net, dials, readers, opened, read,
                   ended, past>>

reconnectMsg ==
    /\ ticks > 0 /\ ticks' = ticks - 1
    /\ dials' = dials + 1
    /\ UNCHANGED <<begun, screen, link, net, readers, opened, failed, read, ended, past>>

\* Mutant: off the chat screen nothing follows.
EndedOnChatScreenOnly ==
    /\ ended > 0 /\ ended' = ended - 1
    /\ wsDisconnected' = TRUE
    /\ ticks' = IF status = "ready" THEN ticks + 1 ELSE ticks
    /\ UNCHANGED <<begun, screen, cur, net, dials, readers, opened, failed, read, past>>

\* wsEvtMsg of a closed channel, whichever that was.
wsEnded ==
    /\ ended > 0 /\ ended' = ended - 1
    /\ wsDisconnected' = TRUE
    /\ ticks' = ticks + 1
    /\ UNCHANGED <<begun, screen, cur, net, dials, readers, opened, failed, read, past>>

-----------------------------------------------------------------------------
(* Update: the events, and the screen *)

\* The next readWS is given the channel of now, not the one the event came from.
Takes(c, n) ==
    /\ <<c, n>> \in read /\ read' = read \ {<<c, n>>}
    /\ readers' = [readers EXCEPT ![cur] = @ + 1]
    /\ shown' = [shown EXCEPT ![c] = IF n > @ THEN n ELSE @]
    /\ disordered' = (disordered \/ n < shown[c])
    /\ UNCHANGED <<begun, posts, link, net, dials, opened, failed, ended, ticks, restarts>>

evtQR(c, n) ==
    /\ Takes(c, n)
    /\ status' = "qr"
    /\ UNCHANGED <<sessionReady, splash>>

evtReady(c, n) ==
    /\ Takes(c, n)
    /\ sessionReady' = TRUE
    /\ status' = IF status = "qr" THEN "connecting" ELSE status
    /\ splash' = TRUE

\* "status" with "connect-failed: ..."
evtConnectFailed(c, n) ==
    /\ Takes(c, n)
    /\ status' = "error"
    /\ UNCHANGED <<sessionReady, splash>>

\* "status" and "disconnected"; on the chat screen they go to the top bar.
evtStatus(c, n) ==
    /\ Takes(c, n)
    /\ status' \in IF status = "ready" THEN {"ready"}
                   ELSE {"connecting", "reconnecting", "logged-out"}
    /\ UNCHANGED <<sessionReady, splash>>

\* Everything that leaves the screen alone.
evtOther(c, n) == Takes(c, n) /\ UNCHANGED <<status, sessionReady, splash>>

MayFinish == sessionReady /\ status \notin {"ready", "error", "logged-out"}

splashDoneMsg ==
    /\ splash /\ splash' = FALSE
    /\ status' = IF MayFinish THEN "ready" ELSE status
    /\ UNCHANGED <<begun, sessionReady, posts, link, net, dials, readers, mail, past>>

\* The chats and contacts that a new socket or "chats:loaded" made the TUI fetch.
maybeFinishSplash ==
    /\ sessionReady /\ status # "ready"
    /\ splash' = TRUE
    /\ UNCHANGED <<begun, status, sessionReady, posts, link, net, dials, readers, mail, past>>

PostReturns ==
    /\ posts > 0 /\ posts' = posts - 1
    /\ status' \in {status, IF status = "ready" THEN "ready" ELSE "error"}
    /\ UNCHANGED <<begun, sessionReady, splash, link, net, dials, readers, mail, past>>

-----------------------------------------------------------------------------
(* Update: the keys of the start-up screen *)

\* r; if the screen shows an expired QR code, /start is posted, too.
keyR ==
    /\ status # "ready"
    /\ restarts < MaxRestarts /\ restarts' = restarts + 1
    /\ status' = "connecting"
    /\ sessionReady' = FALSE
    /\ dials' = dials + 1
    /\ posts' \in IF status = "qr" THEN {posts, posts + 1} ELSE {posts}
    /\ UNCHANGED <<begun, splash, link, net, readers, mail, shown, disordered>>

keyOther ==
    /\ MayFinish
    /\ status' = "ready"
    /\ UNCHANGED <<begun, sessionReady, splash, posts, link, net, dials, readers, mail, past>>

-----------------------------------------------------------------------------

Event(c, n) ==
    \/ evtQR(c, n) \/ evtReady(c, n) \/ evtConnectFailed(c, n)
    \/ evtStatus(c, n) \/ evtOther(c, n)

LinkNext ==
    \/ \E c \in Conns : Dial(c)
    \/ DialFails
    \/ \E c \in Conns : Receive(c)
    \/ \E c \in Conns : PeerCloses(c)
    \/ \E c \in Conns : ReadEvent(c)
    \/ \E c \in Conns : ReadEnd(c)
    \/ initMsg \/ initMsgErr
    \/ \E c \in Conns : wsOpenMsg(c)
    \/ wsOpenMsgErr \/ reconnectMsg \/ wsEnded
    \/ \E c \in Conns, n \in 1 .. MaxEvents : Event(c, n)
    \/ splashDoneMsg \/ maybeFinishSplash \/ PostReturns
    \/ keyR \/ keyOther

LinkSpec == LinkInit /\ [][LinkNext]_linkVars

-----------------------------------------------------------------------------
(* Properties *)

\* The type of every variable; no channel holds more than it was made for.
LinkTypeOK ==
    /\ begun \in BOOLEAN /\ status \in Statuses
    /\ sessionReady \in BOOLEAN /\ wsDisconnected \in BOOLEAN
    /\ cur \in Conns \cup {None}
    /\ conn \in [Conns -> {"new", "open", "closed"}]
    /\ sent \in [Conns -> 0 .. MaxEvents]
    /\ buf \in [Conns -> Seq(1 .. MaxEvents)]
    /\ \A c \in Conns : Len(buf[c]) <= BufSize
    /\ readers \in [Conns -> Nat]
    /\ {dials, posts, failed, ended, ticks} \subseteq Nat
    /\ opened \subseteq Conns
    /\ read \subseteq Conns \X (1 .. MaxEvents)
    /\ splash \in BOOLEAN
    /\ shown \in [Conns -> 0 .. MaxEvents]
    /\ disordered \in BOOLEAN /\ restarts \in 0 .. MaxRestarts

\* Something is under way from which the next message about the connection comes.
Trying ==
    \/ dials > 0 \/ opened # {} \/ failed > 0
    \/ read # {} \/ ended > 0 \/ ticks > 0
    \/ \E c \in Conns : readers[c] > 0

\* The TUI never has a socket that it forgot: the backend gives out only a few.
OneSocket ==
    \A c \in Conns : conn[c] = "open" => c = cur \/ c \in opened

\* Off the chat screen every end of a connection and every failure to open one is
\* followed by an attempt to reconnect.
KeepsTrying == [][Trying => Trying' \/ status = "ready"]_linkVars

\* Events are handled in the order in which the backend sent them, as long as the user
\* has not opened a second socket with r: the readWS of the first one waits then too.
EventsInOrder == disordered => restarts > 0

\* The top bar of the chat screen says "Reconnecting in 2s..." after a failed attempt,
\* and nextReconnectDelay returns "the delay to wait before the next attempt": a TUI that
\* is disconnected has something under way that will reconnect it.
NeverGivesUp == wsDisconnected => Trying
=============================================================================
