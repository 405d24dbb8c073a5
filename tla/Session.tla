------------------------------- MODULE Session -------------------------------
(***************************************************************************)
(* The WhatsApp session of the backend (startSession, the connection       *)
(* events) and the WebSocket hub that tells the TUIs about it.             *)
(*                                                                         *)
(* A critical section of App.mu is one atomic step.  What a goroutine      *)
(* broadcasts after it has unlocked App.mu is a step of its own: other     *)
(* goroutines run in between.  whatsmeow is external: how its client       *)
(* answers is taken from how the backend uses it, and it delivers events   *)
(* in any order.  One client, from the start of the process or the end of  *)
(* a logout to the next logout.                                            *)
(***************************************************************************)
EXTENDS Naturals, Sequences, FiniteSets

CONSTANTS
    Sockets,       \* WebSocket connections of TUIs, each used once
    MaxWSClients,  \* maxWSClients
    SendQueueSize, \* wsSendQueueSize
    Nothing,       \* no snapshot to write
    MaxConnects,   \* bound: times the session came up
    MaxCalls,      \* bound: calls of Connect under way at once
    MaxPending     \* bound: undelivered events of one kind

\* "idle" stands for the empty string of the code.
ConnStates == {"idle", "waiting-qr", "connecting", "ready", "disconnected", "logged-out",
               "connect-failed"}
EventKinds == {"Connected", "Disconnected", "LoggedOut"}

\* What a TUI is told.  A "ready" is told apart by the time the session came up that
\* it is about; every other event is one that takes a place in the queues.
Other == [type |-> "other"]
Ready(n) == [type |-> "ready", n |-> n]
Envelopes == {Other} \cup {Ready(n) : n \in 1 .. MaxConnects}

ASSUME SessionAssumption ==
    /\ IsFiniteSet(Sockets)
    /\ MaxWSClients \in Nat \ {0}
    /\ SendQueueSize \in Nat \ {0}
    /\ Nothing \notin Envelopes
    /\ MaxConnects \in Nat
    /\ MaxCalls \in Nat \ {0}
    /\ MaxPending \in Nat \ {0}

VARIABLES
    started, connected, connState,   \* fields of App
    start,        \* startSession: idle, or what it does next; startMu is held
    calls,        \* how many calls of Connect are under way
    link,         \* whatsmeow's connection: off, scan (waits to be paired), auth, online,
                  \* retry (reconnects by itself)
    qr,           \* the QR channel: none, open, closed (its last code has expired)
    paired,       \* Store.ID # nil
    forgetting,   \* the LoggedOut handler is about to set Store.ID to nil
    events,       \* events not yet delivered, by kind
    saying,       \* the "ready"s that handlers are about to broadcast
    announced,    \* how often the session has come up, as far as the handler knows
    ws,           \* each socket: none, registered, snapshot, open, gone
    queue,        \* sendCh of each socket
    snapshot,     \* what handleWS is going to write to each socket
    told,         \* the newest "ready" that each socket got
    connects,     \* counted against its bound
    dropped,      \* history: sockets whose queue was full once
    overtaken     \* history: an event was handled while the Connect under way was

app == <<started, connected, connState>>
wa == <<calls, link, qr, paired, events, connects>>
news == <<saying, announced>>
hub == <<ws, queue, snapshot, told, dropped>>
vars == <<started, connected, connState, start, calls, link, qr, paired, forgetting, events,
          saying, announced, ws, queue, snapshot, told, connects, dropped, overtaken>>

-----------------------------------------------------------------------------

IsConnected == link \in {"scan", "auth", "online"}
Registered == {s \in Sockets : ws[s] \in {"registered", "snapshot", "open"}}

Init ==
    /\ started = FALSE /\ connected = FALSE /\ connState = "idle"
    /\ start = "idle"
    /\ calls = 0 /\ link = "off" /\ qr = "none"
    /\ paired \in BOOLEAN
    /\ forgetting = FALSE
    /\ events = [k \in EventKinds |-> 0]
    /\ saying = {} /\ announced = 0
    /\ ws = [s \in Sockets |-> "none"]
    /\ queue = [s \in Sockets |-> <<>>]
    /\ snapshot = [s \in Sockets |-> Nothing]
    /\ told = [s \in Sockets |-> 0]
    /\ connects = 0
    /\ dropped = {} /\ overtaken = FALSE

-----------------------------------------------------------------------------
(* startSession *)

\* Mutant: only a connection that is up keeps /start from connecting again.
ReattachWhenConnected == started /\ IsConnected

\* A connect is in flight, or the session is up: /start has nothing to do.
Reattach ==
    /\ started
    /\ \/ IsConnected
       \/ connState \in {"connecting", "waiting-qr"}

startSessionReattach ==
    /\ start = "idle"
    /\ Reattach
    /\ start' = "reattached"
    /\ UNCHANGED <<app, wa, forgetting, news, hub, overtaken>>

ReattachReturns ==
    /\ start = "reattached"
    /\ start' = "idle"
    /\ UNCHANGED <<app, wa, forgetting, news, hub, overtaken>>

startSessionChecked ==
    /\ start = "idle"
    /\ ~Reattach
    /\ start' = "set"
    /\ UNCHANGED <<app, wa, forgetting, news, hub, overtaken>>

\* started and connState, which is then broadcast.
startSessionSet ==
    /\ start = "set"
    /\ started' = TRUE
    /\ connState' = IF paired THEN "connecting" ELSE "waiting-qr"
    /\ start' = "connect"
    /\ UNCHANGED <<connected, wa, forgetting, news, hub, overtaken>>

\* GetQRChannel refuses a client that is connected.
startSessionNoQR ==
    /\ start = "connect"
    /\ ~paired /\ IsConnected
    /\ started' = FALSE
    /\ connState' = "connect-failed"
    /\ start' = "idle"
    /\ UNCHANGED <<connected, wa, forgetting, news, hub, overtaken>>

\* With a QR channel if the device is not paired; then Connect, in its own goroutine.
startSessionConnect ==
    /\ start = "connect"
    /\ paired \/ ~IsConnected
    /\ calls < MaxCalls
    /\ qr' = IF paired THEN qr ELSE "open"
    /\ calls' = calls + 1
    /\ start' = "idle"
    /\ UNCHANGED <<app, link, paired, forgetting, events, connects, news, hub, overtaken>>

\* Connect returns without an error.  (What the backend does for the chat list then is
\* in module ChatState.)
ConnectSucceeds ==
    /\ calls > 0
    /\ ~IsConnected
    /\ calls' = calls - 1
    /\ link' = IF paired THEN "auth" ELSE "scan"
    /\ overtaken' = (overtaken /\ (calls > 1 \/ start = "connect"))
    /\ UNCHANGED <<app, start, qr, paired, forgetting, events, connects, news, hub>>

\* Mutant: the failure is logged and nothing else.
ConnectFailsSilently ==
    /\ calls > 0
    /\ calls' = calls - 1
    /\ overtaken' = (overtaken /\ (calls > 1 \/ start = "connect"))
    /\ UNCHANGED <<app, start, link, qr, paired, forgetting, events, connects, news, hub>>

\* The network is down, or the client is connected already.
ConnectFails ==
    /\ calls > 0
    /\ calls' = calls - 1
    /\ started' = FALSE
    /\ connState' = "connect-failed"
    /\ overtaken' = (overtaken /\ (calls > 1 \/ start = "connect"))
    /\ UNCHANGED <<connected, start, link, qr, paired, forgetting, events, connects, news, hub>>

-----------------------------------------------------------------------------
(* whatsmeow's side of the connection *)

\* "timeout": the last code has expired; whatsmeow closes the channel and disconnects.
CodesRunOut ==
    /\ link = "scan" /\ qr = "open"
    /\ qr' = "closed"
    /\ link' = "off"
    /\ UNCHANGED <<app, start, calls, paired, forgetting, events, connects, news, hub,
                   overtaken>>

Scanned ==
    /\ link = "scan" /\ qr = "open"
    /\ paired' = TRUE
    /\ qr' = "none"
    /\ link' = "auth"
    /\ UNCHANGED <<app, start, calls, forgetting, events, connects, news, hub, overtaken>>

Sends(kind) ==
    events[kind] < MaxPending /\ events' = [events EXCEPT ![kind] = @ + 1]

Authenticated ==
    /\ link = "auth" /\ paired
    /\ connects < MaxConnects
    /\ connects' = connects + 1
    /\ link' = "online"
    /\ Sends("Connected")
    /\ UNCHANGED <<app, start, calls, qr, paired, forgetting, news, hub, overtaken>>

\* The connection is lost; whatsmeow reconnects by itself.
Drop ==
    /\ IsConnected
    /\ link = "scan" => qr # "open"
    /\ link' = "retry"
    /\ Sends("Disconnected")
    /\ UNCHANGED <<app, start, calls, qr, paired, forgetting, connects, news, hub, overtaken>>

Reconnect ==
    /\ link = "retry"
    /\ link' = IF paired THEN "auth" ELSE "scan"
    /\ UNCHANGED <<app, start, calls, qr, paired, forgetting, events, connects, news, hub,
                   overtaken>>

\* The phone has unlinked the device.
Unlinked ==
    /\ link \in {"auth", "online"}
    /\ link' = "off"
    /\ Sends("LoggedOut")
    /\ UNCHANGED <<app, start, calls, qr, paired, forgetting, connects, news, hub, overtaken>>

-----------------------------------------------------------------------------
(* bindEvents: the handler *)

Handles(kind) ==
    /\ events[kind] > 0
    /\ events' = [events EXCEPT ![kind] = @ - 1]
    /\ overtaken' = (overtaken \/ calls > 0 \/ start = "connect")

HandleConnected ==
    /\ Handles("Connected")
    /\ connected' = TRUE
    /\ connState' = "ready"
    /\ announced' = announced + 1
    /\ saying' = saying \cup {announced + 1}
    /\ UNCHANGED <<started, start, calls, link, qr, paired, forgetting, connects, hub>>

HandleDisconnected ==
    /\ Handles("Disconnected")
    /\ connected' = FALSE
    /\ connState' = "disconnected"
    /\ UNCHANGED <<started, start, calls, link, qr, paired, forgetting, connects, news, hub>>

HandleLoggedOut ==
    /\ ~forgetting
    /\ Handles("LoggedOut")
    /\ connected' = FALSE
    /\ started' = FALSE
    /\ connState' = "logged-out"
    /\ forgetting' = TRUE
    /\ UNCHANGED <<start, calls, link, qr, paired, connects, news, hub>>

\* After its broadcast the handler deletes the device.
ForgetDevice ==
    /\ forgetting
    /\ forgetting' = FALSE
    /\ paired' = FALSE
    /\ UNCHANGED <<app, start, calls, link, qr, events, connects, news, hub, overtaken>>

-----------------------------------------------------------------------------
(* The hub *)

\* The socket is in wsClients, and its writer runs, before handleWS reads the state.
handleWSRegister(s) ==
    /\ ws[s] = "none"
    /\ Cardinality(Registered) < MaxWSClients
    /\ ws' = [ws EXCEPT ![s] = "registered"]
    /\ UNCHANGED <<app, start, wa, forgetting, news, queue, snapshot, told, dropped, overtaken>>

handleWSReject(s) ==
    /\ ws[s] = "none"
    /\ Cardinality(Registered) >= MaxWSClients
    /\ ws' = [ws EXCEPT ![s] = "gone"]
    /\ UNCHANGED <<app, start, wa, forgetting, news, queue, snapshot, told, dropped, overtaken>>

\* Mutant: a TUI that joins a session that is up waits for the next "ready".
SnapshotWithoutReady(s) ==
    /\ ws[s] = "registered"
    /\ snapshot' = [snapshot EXCEPT ![s] = Other]
    /\ ws' = [ws EXCEPT ![s] = "snapshot"]
    /\ UNCHANGED <<app, start, wa, forgetting, news, queue, told, dropped, overtaken>>

handleWSSnapshot(s) ==
    /\ ws[s] = "registered"
    /\ snapshot' = [snapshot EXCEPT ![s] = IF connected THEN Ready(announced) ELSE Other]
    /\ ws' = [ws EXCEPT ![s] = "snapshot"]
    /\ UNCHANGED <<app, start, wa, forgetting, news, queue, told, dropped, overtaken>>

Hears(s, e) ==
    told' = [told EXCEPT ![s] = IF e.type = "ready" /\ e.n > @ THEN e.n ELSE @]

\* Written to the socket directly, past the queue.
handleWSWrite(s) ==
    /\ ws[s] = "snapshot"
    /\ Hears(s, snapshot[s])
    /\ snapshot' = [snapshot EXCEPT ![s] = Nothing]
    /\ ws' = [ws EXCEPT ![s] = "open"]
    /\ UNCHANGED <<app, start, wa, forgetting, news, queue, dropped, overtaken>>

\* enqueue: a full queue loses the event, for this socket only.
broadcast(e) ==
    LET full == {s \in Registered : Len(queue[s]) >= SendQueueSize}
    IN /\ queue' = [s \in Sockets |->
             IF s \in Registered \ full THEN Append(queue[s], e) ELSE queue[s]]
       /\ dropped' = dropped \cup full
       /\ UNCHANGED <<app, start, wa, forgetting, announced, ws, snapshot, told, overtaken>>

broadcastReady(n) ==
    /\ n \in saying
    /\ saying' = saying \ {n}
    /\ broadcast(Ready(n))

\* Anything else, by any goroutine: "qr" (and lastQR, which only decides what else a late
\* joiner is shown), "status", "disconnected", messages, receipts.
broadcastOther == broadcast(Other) /\ UNCHANGED saying

runWriter(s) ==
    /\ s \in Registered
    /\ queue[s] # <<>>
    /\ Hears(s, Head(queue[s]))
    /\ queue' = [queue EXCEPT ![s] = Tail(@)]
    /\ UNCHANGED <<app, start, wa, forgetting, news, ws, snapshot, dropped, overtaken>>

\* A failed write, a silent peer or a closed connection; what is queued is lost.
removeWSClient(s) ==
    /\ s \in Registered
    /\ ws' = [ws EXCEPT ![s] = "gone"]
    /\ queue' = [queue EXCEPT ![s] = <<>>]
    /\ snapshot' = [snapshot EXCEPT ![s] = Nothing]
    /\ told' = [told EXCEPT ![s] = 0]
    /\ dropped' = dropped \ {s}
    /\ UNCHANGED <<app, start, wa, forgetting, news, overtaken>>

-----------------------------------------------------------------------------

StartSession ==
    \/ startSessionReattach \/ ReattachReturns \/ startSessionChecked
    \/ startSessionSet \/ startSessionNoQR \/ startSessionConnect
    \/ ConnectSucceeds \/ ConnectFails

Whatsmeow ==
    \/ CodesRunOut \/ Scanned
    \/ Authenticated \/ Drop \/ Reconnect \/ Unlinked

HandleEvent == HandleConnected \/ HandleDisconnected \/ HandleLoggedOut \/ ForgetDevice

Hub ==
    \/ \E s \in Sockets : handleWSRegister(s)
    \/ \E s \in Sockets : handleWSReject(s)
    \/ \E s \in Sockets : handleWSSnapshot(s)
    \/ \E s \in Sockets : handleWSWrite(s)
    \/ \E n \in 1 .. MaxConnects : broadcastReady(n)
    \/ broadcastOther
    \/ \E s \in Sockets : runWriter(s)
    \/ \E s \in Sockets : removeWSClient(s)

Next == StartSession \/ Whatsmeow \/ HandleEvent \/ Hub

Spec == Init /\ [][Next]_vars

-----------------------------------------------------------------------------
(* Properties *)

\* The type of every variable; no queue is longer than wsSendQueueSize and no more than
\* maxWSClients sockets are registered.
TypeOK ==
    /\ started \in BOOLEAN /\ connected \in BOOLEAN /\ connState \in ConnStates
    /\ start \in {"idle", "reattached", "set", "connect"}
    /\ calls \in 0 .. MaxCalls
    /\ link \in {"off", "scan", "auth", "online", "retry"}
    /\ qr \in {"none", "open", "closed"}
    /\ paired \in BOOLEAN /\ forgetting \in BOOLEAN /\ overtaken \in BOOLEAN
    /\ events \in [EventKinds -> 0 .. MaxPending]
    /\ saying \subseteq 1 .. announced
    /\ connects \in 0 .. MaxConnects /\ announced \in 0 .. MaxConnects
    /\ announced + events["Connected"] = connects
    /\ ws \in [Sockets -> {"none", "registered", "snapshot", "open", "gone"}]
    /\ Cardinality(Registered) <= MaxWSClients
    /\ queue \in [Sockets -> Seq(Envelopes)]
    /\ \A s \in Sockets : Len(queue[s]) <= SendQueueSize
    /\ snapshot \in [Sockets -> Envelopes \cup {Nothing}]
    /\ told \in [Sockets -> 0 .. MaxConnects]
    /\ dropped \subseteq Sockets

\* Something is on its way that will change connState: a call of /start or Connect, a
\* connection, or an event.
InFlight ==
    \/ start \in {"set", "connect"}
    \/ calls > 0
    \/ link # "off"
    \/ \E k \in EventKinds : events[k] > 0

\* A TUI learns of a session that is up, whenever its socket is opened: handleWS puts
\* the socket into wsClients before it reads the state, so a session that comes up in
\* between is announced to it, once or twice but never not at all.  Only a queue that
\* was full may have lost the announcement.
ReadyReachesEveryClient ==
    \A s \in Sockets :
        /\ connected
        /\ ws[s] = "open" /\ queue[s] = <<>> /\ s \notin dropped
        /\ announced \notin saying
        => told[s] = announced

\* startSession: "a repeat call while a connect is in flight must be a no-op".  It is,
\* unless an event of whatsmeow has replaced connState since.
NoSecondConnect == calls <= 1 \/ overtaken

\* A backend that makes /start wait for a connect has one to wait for: every way a
\* connect can end changes connState or started, except the end of the QR codes.
ConnectIsInFlight ==
    started /\ connState \in {"connecting", "waiting-qr"} => InFlight \/ qr = "closed"

\* Not kept by the code (README, "Disagreements"):
\* startSession: "Fall through and try again only if nothing is in flight", and so /start
\* returns at once only if something is.
ReattachesToSomething == [][start' = "reattached" => InFlight]_start
=============================================================================
