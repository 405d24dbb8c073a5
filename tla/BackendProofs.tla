------------------------------ MODULE BackendProofs ------------------------------
(* Proofs about the session and the hub, for every number of sockets, every cap, every *)
(* queue size and every bound; about the message archive, for archives of every size;  *)
(* and about the pinned and archived chats, what the tables end up with and what the   *)
(* list of the TUI ends up with, for any set of chats and any number of changes,       *)
(* reconnections, crashes and GETs.                                                    *)
EXTENDS Session, MessageStore, ChatFlags, FiniteSetTheorems, SequenceTheorems, TLAPS

-----------------------------------------------------------------------------
(* Session: the session and the hub. *)

-----------------------------------------------------------------------------
(* Type correctness. *)

\* What TypeOK rests on: a session that is up has been announced, and a socket that is
\* about to get its snapshot has one.
TypeInv ==
    /\ TypeOK
    /\ connected => announced >= 1
    /\ \A s \in Sockets : ws[s] = "snapshot" => snapshot[s] \in Envelopes

LEMMA EnvelopeCases ==
    ASSUME NEW e \in Envelopes
    PROVE  e.type = "ready" => e.n \in 1 .. MaxConnects /\ e = Ready(e.n)
  BY DEF Envelopes, Other, Ready

LEMMA RegisteredFinite == IsFiniteSet(Registered) /\ Cardinality(Registered) \in Nat
<1>1. Registered \subseteq Sockets
  BY DEF Registered
<1>2. IsFiniteSet(Registered)
  BY <1>1, SessionAssumption, FS_Subset
<1> QED BY <1>2, FS_CardinalityType

\* Hearing an envelope leaves told a number of announcements.
LEMMA HearsType ==
    ASSUME TypeOK, NEW s \in Sockets, NEW e \in Envelopes, Hears(s, e)
    PROVE  told' \in [Sockets -> 0 .. MaxConnects]
<1>1. e.type = "ready" => e.n \in 1 .. MaxConnects
  BY EnvelopeCases
<1> QED BY <1>1, SessionAssumption DEF Hears, TypeOK

\* A broadcast of any envelope keeps the queues within their size.
LEMMA BroadcastType ==
    ASSUME TypeOK, NEW e \in Envelopes, broadcast(e)
    PROVE  /\ queue' \in [Sockets -> Seq(Envelopes)]
           /\ \A s \in Sockets : Len(queue'[s]) <= SendQueueSize
           /\ dropped' \subseteq Sockets
<1> DEFINE full == {s \in Registered : Len(queue[s]) >= SendQueueSize}
<1>1. /\ queue' = [s \in Sockets |->
             IF s \in Registered \ full THEN Append(queue[s], e) ELSE queue[s]]
      /\ dropped' = dropped \cup full
  BY DEF broadcast
<1>2. ASSUME NEW s \in Sockets
      PROVE  queue'[s] \in Seq(Envelopes) /\ Len(queue'[s]) <= SendQueueSize
  <2>1. /\ queue[s] \in Seq(Envelopes)
        /\ Len(queue[s]) \in Nat /\ Len(queue[s]) <= SendQueueSize
    BY DEF TypeOK
  <2>2. CASE s \in Registered \ full
    <3>1. queue'[s] = Append(queue[s], e) /\ Len(queue[s]) < SendQueueSize
      BY <1>1, <2>1, <2>2, SessionAssumption
    <3>2. /\ Append(queue[s], e) \in Seq(Envelopes)
          /\ Len(Append(queue[s], e)) = Len(queue[s]) + 1
      BY <2>1, AppendProperties
    <3> QED BY <2>1, <3>1, <3>2, SessionAssumption
  <2>3. CASE s \notin Registered \ full
    BY <1>1, <2>1, <2>3
  <2> QED BY <2>2, <2>3
<1>3. full \subseteq Sockets
  BY DEF Registered
<1> QED BY <1>1, <1>2, <1>3 DEF TypeOK

LEMMA TypeInit == Init => TypeInv
<1> SUFFICES ASSUME Init PROVE TypeInv
  OBVIOUS
<1>1. Registered = {}
  BY DEF Init, Registered
<1>2. Cardinality(Registered) <= MaxWSClients
  BY <1>1, FS_EmptySet, SessionAssumption
<1>3. \A s \in Sockets : queue[s] = <<>> /\ Len(queue[s]) = 0
  BY DEF Init
<1>4. queue \in [Sockets -> Seq(Envelopes)]
  <2>1. <<>> \in Seq(Envelopes)
    OBVIOUS
  <2> QED BY <2>1, Zenon DEF Init
<1>5. /\ started \in BOOLEAN /\ connected \in BOOLEAN /\ connected = FALSE
      /\ paired \in BOOLEAN /\ forgetting \in BOOLEAN /\ overtaken \in BOOLEAN
  BY Zenon DEF Init
<1>6. \A s \in Sockets : ws[s] # "snapshot"
  BY DEF Init
<1>7. /\ calls \in 0 .. MaxCalls /\ connects \in 0 .. MaxConnects
      /\ announced \in 0 .. MaxConnects
      /\ saying \subseteq 1 .. announced
  BY SessionAssumption DEF Init
<1>11. told \in [Sockets -> 0 .. MaxConnects]
  BY SessionAssumption DEF Init
<1>12. events \in [EventKinds -> 0 .. MaxPending]
  BY SessionAssumption DEF Init, EventKinds
<1>13. announced + events["Connected"] = connects
  BY SessionAssumption DEF Init, EventKinds
<1>8. /\ connState \in ConnStates
      /\ start \in {"idle", "reattached", "set", "connect"}
      /\ link \in {"off", "scan", "auth", "online", "retry"}
      /\ qr \in {"none", "open", "closed"}
      /\ ws \in [Sockets -> {"none", "registered", "snapshot", "open", "gone"}]
      /\ snapshot \in [Sockets -> Envelopes \cup {Nothing}]
      /\ dropped \subseteq Sockets
  BY DEF Init, ConnStates
<1>9. \A s \in Sockets : Len(queue[s]) <= SendQueueSize
  BY <1>3, SessionAssumption
<1>10. TypeOK
  BY <1>2, <1>4, <1>5, <1>7, <1>8, <1>9, <1>11, <1>12, <1>13, Zenon DEF TypeOK
<1> QED BY <1>5, <1>6, <1>10 DEF TypeInv

LEMMA HandlesType ==
    ASSUME TypeOK, NEW kind \in EventKinds, Handles(kind)
    PROVE  /\ overtaken' \in BOOLEAN
           /\ events' \in [EventKinds -> 0 .. MaxPending]
           /\ kind = "Connected" => events'["Connected"] = events["Connected"] - 1
           /\ kind # "Connected" => events'["Connected"] = events["Connected"]
<1>1. overtaken' \in BOOLEAN
  BY Zenon DEF Handles
<1>2. events' = [events EXCEPT ![kind] = events[kind] - 1] /\ events[kind] > 0
  BY Zenon DEF Handles
<1>3. events \in [EventKinds -> 0 .. MaxPending] /\ "Connected" \in EventKinds
  BY DEF TypeOK, EventKinds
<1> QED BY <1>1, <1>2, <1>3, SessionAssumption

\* The steps that leave the hub alone.
LEMMA TypeStepSession ==
    ASSUME TypeInv, StartSession \/ Whatsmeow \/ HandleEvent
    PROVE  TypeInv'
<1> USE SessionAssumption DEF TypeInv, TypeOK, ConnStates, EventKinds
<1>0. UNCHANGED hub
  BY DEF StartSession, startSessionReattach, ReattachReturns, startSessionChecked,
         startSessionSet, startSessionNoQR, startSessionConnect, ConnectSucceeds, ConnectFails,
         Whatsmeow, CodesRunOut, Scanned, Authenticated, Drop, Reconnect, Unlinked,
         HandleEvent, HandleConnected, HandleDisconnected, HandleLoggedOut, ForgetDevice
<1>1. Registered' = Registered
  BY <1>0 DEF Registered, hub
<1>2. CASE StartSession
  <2>1. CASE startSessionReattach
    BY <1>0, <1>1, <2>1 DEF startSessionReattach, app, wa, news, hub
  <2>2. CASE ReattachReturns
    BY <1>0, <1>1, <2>2 DEF ReattachReturns, app, wa, news, hub
  <2>3. CASE startSessionChecked
    BY <1>0, <1>1, <2>3 DEF startSessionChecked, app, wa, news, hub
  <2>4. CASE startSessionSet
    BY <1>0, <1>1, <2>4 DEF startSessionSet, app, wa, news, hub
  <2>5. CASE startSessionNoQR
    BY <1>0, <1>1, <2>5 DEF startSessionNoQR, app, wa, news, hub
  <2>6. CASE startSessionConnect
    BY <1>0, <1>1, <2>6 DEF startSessionConnect, app, wa, news, hub
  <2>7. CASE ConnectSucceeds
    BY <1>0, <1>1, <2>7 DEF ConnectSucceeds, app, wa, news, hub
  <2>8. CASE ConnectFails
    <3>1. overtaken' \in BOOLEAN
      BY <2>8, Zenon DEF ConnectFails
    <3>2. calls' = calls - 1 /\ calls > 0
      BY <2>8 DEF ConnectFails
    <3>3. UNCHANGED <<connected, start, link, qr, paired, forgetting, events, connects, news>>
      BY <2>8 DEF ConnectFails
    <3>4. started' \in BOOLEAN /\ connState' \in ConnStates
      BY <2>8, Zenon DEF ConnectFails
    <3> QED BY <1>0, <1>1, <3>1, <3>2, <3>3, <3>4 DEF news, hub
  <2> QED BY <1>2, <2>1, <2>2, <2>3, <2>4, <2>5, <2>6, <2>7, <2>8 DEF StartSession
<1>3. CASE Whatsmeow
  <2>1. CASE CodesRunOut
    BY <1>0, <1>1, <2>1 DEF CodesRunOut, app, wa, news, hub
  <2>2. CASE Scanned
    BY <1>0, <1>1, <2>2 DEF Scanned, app, wa, news, hub
  <2>3. CASE Authenticated
    BY <1>0, <1>1, <2>3 DEF Authenticated, Sends, app, wa, news, hub
  <2>4. CASE Drop
    BY <1>0, <1>1, <2>4 DEF Drop, Sends, app, wa, news, hub
  <2>5. CASE Reconnect
    BY <1>0, <1>1, <2>5 DEF Reconnect, app, wa, news, hub
  <2>6. CASE Unlinked
    BY <1>0, <1>1, <2>6 DEF Unlinked, Sends, app, wa, news, hub
  <2> QED BY <1>3, <2>1, <2>2, <2>3, <2>4, <2>5, <2>6 DEF Whatsmeow
<1>4. CASE HandleEvent
  <2>1. CASE HandleConnected
    BY <1>0, <1>1, <2>1, HandlesType, SMTT(20) DEF HandleConnected, app, wa, news, hub
  <2>2. CASE HandleDisconnected
    <3>1. "Disconnected" \in EventKinds /\ Handles("Disconnected")
      BY <2>2 DEF HandleDisconnected
    <3>2. /\ overtaken' \in BOOLEAN
          /\ events' \in [EventKinds -> 0 .. MaxPending]
          /\ events'["Connected"] = events["Connected"]
      BY <3>1, HandlesType
    <3>3. /\ connected' = FALSE /\ connState' = "disconnected"
          /\ UNCHANGED <<started, start, calls, link, qr, paired, forgetting, connects, news>>
      BY <2>2 DEF HandleDisconnected
    <3> QED BY <1>0, <1>1, <3>2, <3>3 DEF news, hub
  <2>3. CASE HandleLoggedOut
    BY <1>0, <1>1, <2>3, HandlesType DEF HandleLoggedOut, app, wa, news, hub
  <2>4. CASE ForgetDevice
    <3>1. forgetting' \in BOOLEAN /\ paired' \in BOOLEAN
      BY <2>4, Zenon DEF ForgetDevice
    <3>2. UNCHANGED <<app, start, calls, link, qr, events, connects, news, overtaken>>
      BY <2>4 DEF ForgetDevice
    <3> QED BY <1>0, <1>1, <3>1, <3>2 DEF app, news, hub
  <2> QED BY <1>4, <2>1, <2>2, <2>3, <2>4 DEF HandleEvent
<1> QED BY <1>2, <1>3, <1>4

LEMMA TypeStepHub ==
    ASSUME TypeInv, Hub
    PROVE  TypeInv'
<1> USE SessionAssumption
<1>1. ASSUME NEW s \in Sockets, handleWSRegister(s) PROVE TypeInv'
  <2>1. Registered' = Registered \cup {s}
    BY <1>1 DEF handleWSRegister, Registered, TypeInv, TypeOK
  <2>2. s \notin Registered
    BY <1>1 DEF handleWSRegister, Registered
  <2>3. Cardinality(Registered') = Cardinality(Registered) + 1
    BY <2>1, <2>2, RegisteredFinite, FS_AddElement
  <2>4. Cardinality(Registered') <= MaxWSClients
    BY <1>1, <2>3, RegisteredFinite DEF handleWSRegister
  <2> QED BY <1>1, <2>4 DEF handleWSRegister, TypeInv, TypeOK, app, wa, news
<1>2. ASSUME NEW s \in Sockets, handleWSReject(s) PROVE TypeInv'
  <2>1. Registered' = Registered
    BY <1>2 DEF handleWSReject, Registered, TypeInv, TypeOK
  <2> QED BY <1>2, <2>1 DEF handleWSReject, TypeInv, TypeOK, app, wa, news
<1>3. ASSUME NEW s \in Sockets, handleWSSnapshot(s) PROVE TypeInv'
  <2>1. Registered' = Registered
    BY <1>3 DEF handleWSSnapshot, Registered, TypeInv, TypeOK
  <2>2. connected => announced \in 1 .. MaxConnects
    BY DEF TypeInv, TypeOK, EventKinds
  <2>3. (IF connected THEN Ready(announced) ELSE Other) \in Envelopes
    BY <2>2 DEF Envelopes
  <2> QED BY <1>3, <2>1, <2>3 DEF handleWSSnapshot, TypeInv, TypeOK, app, wa, news
<1>4. ASSUME NEW s \in Sockets, handleWSWrite(s) PROVE TypeInv'
  <2>1. Registered' = Registered
    BY <1>4 DEF handleWSWrite, Registered, TypeInv, TypeOK
  <2>2. told' \in [Sockets -> 0 .. MaxConnects]
    BY <1>4, HearsType DEF handleWSWrite, TypeInv
  <2>3. /\ ws' \in [Sockets -> {"none", "registered", "snapshot", "open", "gone"}]
        /\ \A r \in Sockets : ws'[r] = "snapshot" => ws[r] = "snapshot" /\ r # s
    BY <1>4 DEF handleWSWrite, TypeInv, TypeOK
  <2>4. /\ snapshot' \in [Sockets -> Envelopes \cup {Nothing}]
        /\ \A r \in Sockets : r # s => snapshot'[r] = snapshot[r]
    BY <1>4 DEF handleWSWrite, TypeInv, TypeOK
  <2>5. UNCHANGED <<app, wa, start, forgetting, queue, dropped, announced, saying, overtaken>>
    BY <1>4 DEF handleWSWrite, news
  <2> QED BY <2>1, <2>2, <2>3, <2>4, <2>5 DEF TypeInv, TypeOK, app, wa
<1>5. ASSUME NEW n \in 1 .. MaxConnects, broadcastReady(n) PROVE TypeInv'
  <2>1. Ready(n) \in Envelopes
    BY DEF Envelopes
  <2>2. broadcast(Ready(n)) /\ Registered' = Registered
    BY <1>5 DEF broadcastReady, broadcast, Registered
  <2> QED BY <1>5, <2>1, <2>2, BroadcastType
          DEF broadcastReady, broadcast, TypeInv, TypeOK, app, wa
<1>6. CASE broadcastOther
  <2>1. Other \in Envelopes
    BY DEF Envelopes
  <2>2. broadcast(Other) /\ Registered' = Registered
    BY <1>6 DEF broadcastOther, broadcast, Registered
  <2> QED BY <1>6, <2>1, <2>2, BroadcastType
          DEF broadcastOther, broadcast, TypeInv, TypeOK, app, wa
<1>7. ASSUME NEW s \in Sockets, runWriter(s) PROVE TypeInv'
  <2>1. Registered' = Registered
    BY <1>7 DEF runWriter, Registered
  <2>2. /\ queue[s] \in Seq(Envelopes) /\ queue[s] # <<>>
        /\ Len(queue[s]) <= SendQueueSize
    BY <1>7 DEF runWriter, TypeInv, TypeOK
  <2>3. /\ Head(queue[s]) \in Envelopes
        /\ Tail(queue[s]) \in Seq(Envelopes)
        /\ Len(Tail(queue[s])) = Len(queue[s]) - 1
    BY <2>2, HeadTailProperties
  <2>4. told' \in [Sockets -> 0 .. MaxConnects]
    BY <1>7, <2>3, HearsType DEF runWriter, TypeInv
  <2>5. /\ queue' \in [Sockets -> Seq(Envelopes)]
        /\ \A r \in Sockets : Len(queue'[r]) <= SendQueueSize
    <3>1. queue' = [queue EXCEPT ![s] = Tail(queue[s])]
      BY <1>7 DEF runWriter
    <3>2. Len(Tail(queue[s])) <= SendQueueSize
      BY <2>2, <2>3
    <3> QED BY <3>1, <3>2, <2>3 DEF TypeInv, TypeOK
  <2> QED BY <1>7, <2>1, <2>4, <2>5, SMTT(20) DEF runWriter, TypeInv, TypeOK, app, wa, news
<1>8. ASSUME NEW s \in Sockets, removeWSClient(s) PROVE TypeInv'
  <2>1. Registered' \subseteq Registered
    BY <1>8 DEF removeWSClient, Registered, TypeInv, TypeOK
  <2>2. Cardinality(Registered') <= MaxWSClients
    <3>1. /\ Cardinality(Registered') <= Cardinality(Registered)
          /\ Cardinality(Registered') \in Nat
      BY <2>1, RegisteredFinite, FS_Subset, FS_CardinalityType
    <3> QED BY <3>1, RegisteredFinite DEF TypeInv, TypeOK
  <2>3. /\ queue' \in [Sockets -> Seq(Envelopes)]
        /\ \A r \in Sockets : Len(queue'[r]) <= SendQueueSize
    <3>1. queue' = [queue EXCEPT ![s] = <<>>]
      BY <1>8 DEF removeWSClient
    <3>2. <<>> \in Seq(Envelopes) /\ Len(<<>>) = 0
      OBVIOUS
    <3> QED BY <3>1, <3>2 DEF TypeInv, TypeOK
  <2> QED BY <1>8, <2>2, <2>3 DEF removeWSClient, TypeInv, TypeOK, app, wa, news
<1> QED BY <1>1, <1>2, <1>3, <1>4, <1>5, <1>6, <1>7, <1>8 DEF Hub

LEMMA TypeStep == TypeInv /\ [Next]_vars => TypeInv'
<1>1. CASE UNCHANGED vars
  BY <1>1 DEF vars, TypeInv, TypeOK, Registered
<1> QED BY <1>1, TypeStepSession, TypeStepHub DEF Next

LEMMA TypeInvHolds == Spec => []TypeInv
  BY TypeInit, TypeStep, PTL DEF Spec

\* Every variable keeps its type; no send queue outgrows wsSendQueueSize and no more than
\* maxWSClients sockets are registered, however many come and go (server.go, handleWS).
THEOREM TypeCorrect == Spec => []TypeOK
<1>1. TypeInv => TypeOK
  BY DEF TypeInv
<1> QED BY <1>1, TypeInvHolds, PTL
-----------------------------------------------------------------------------
(* A connect that /start waits for. *)

LEMMA InFlightStep ==
    ASSUME TypeInv, ConnectIsInFlight, [Next]_vars
    PROVE  ConnectIsInFlight'
<1> USE DEF ConnectIsInFlight, InFlight
<1> SUFFICES ASSUME started', connState' \in {"connecting", "waiting-qr"}
             PROVE  InFlight' \/ qr' = "closed"
  OBVIOUS
<1>1. CASE startSessionSet \/ startSessionConnect
  <2>1. calls \in Nat
    BY DEF TypeInv, TypeOK
  <2> QED BY <1>1, <2>1 DEF startSessionSet, startSessionConnect
<1>2. CASE ConnectSucceeds \/ Scanned \/ Drop \/ Reconnect \/ Authenticated
  BY <1>2 DEF ConnectSucceeds, Scanned, Drop, Reconnect, Authenticated
<1>3. CASE Unlinked
  <2>1. "LoggedOut" \in EventKinds /\ events["LoggedOut"] \in Nat
    BY DEF TypeInv, TypeOK, EventKinds
  <2>2. events' = [events EXCEPT !["LoggedOut"] = events["LoggedOut"] + 1]
    BY <1>3 DEF Unlinked, Sends
  <2>3. events'["LoggedOut"] > 0
    BY <2>1, <2>2 DEF TypeInv, TypeOK
  <2> QED BY <2>1, <2>3
\* Every way a connect ends changes started or connState, the end of the codes qr.
<1>4. CASE ConnectFails \/ startSessionNoQR \/ CodesRunOut
  BY <1>4 DEF ConnectFails, startSessionNoQR, CodesRunOut
<1>5. CASE HandleConnected \/ HandleDisconnected \/ HandleLoggedOut
  BY <1>5 DEF HandleConnected, HandleDisconnected, HandleLoggedOut
<1>6. CASE startSessionReattach \/ ReattachReturns \/ startSessionChecked
  BY <1>6 DEF startSessionReattach, ReattachReturns, startSessionChecked, app, wa
<1>7. CASE ForgetDevice \/ Hub \/ UNCHANGED vars
  <2>1. UNCHANGED <<app, start, calls, link, qr, events>>
    BY <1>7 DEF ForgetDevice, Hub, handleWSRegister, handleWSReject, handleWSSnapshot,
                handleWSWrite, broadcastReady, broadcastOther, broadcast, runWriter,
                removeWSClient, wa, app, vars
  <2> QED BY <2>1 DEF app
<1> QED BY <1>1, <1>2, <1>3, <1>4, <1>5, <1>6, <1>7
        DEF Next, StartSession, Whatsmeow, HandleEvent

\* While started is set and connState says that a connect is under way, one is, or the QR
\* codes have run out (startSession, the handler of bindEvents): /start is never held off
\* by a connect that has ended without a trace, except by that one.
THEOREM StartIsNotHeldOff == Spec => []ConnectIsInFlight
<1>1. Init => ConnectIsInFlight
  BY DEF Init, ConnectIsInFlight
<1>2. TypeInv /\ ConnectIsInFlight /\ [Next]_vars => ConnectIsInFlight'
  BY InFlightStep
<1> QED BY <1>1, <1>2, TypeInvHolds, PTL DEF Spec

-----------------------------------------------------------------------------
(* One connect at a time. *)

\* What startSession relies on: a call of Connect that is under way, or that startMu is
\* held for, shows in started and connState, so long as no event has replaced connState.
ConnInv ==
    ~overtaken =>
        /\ calls <= 1
        /\ calls = 1 \/ start = "connect" =>
               started /\ connState \in {"connecting", "waiting-qr"}
        /\ start \in {"set", "connect"} => calls = 0

LEMMA ConnStep ==
    ASSUME TypeInv, ConnInv, [Next]_vars
    PROVE  ConnInv'
<1>0. /\ calls \in Nat
      /\ start \in {"idle", "reattached", "set", "connect"}
  BY DEF TypeInv, TypeOK
<1> SUFFICES ASSUME ~overtaken'
             PROVE  /\ calls' <= 1
                    /\ calls' = 1 \/ start' = "connect" =>
                           started' /\ connState' \in {"connecting", "waiting-qr"}
                    /\ start' \in {"set", "connect"} => calls' = 0
  BY DEF ConnInv
\* Nothing is in flight: that is what startSession has checked.
<1>1. CASE startSessionChecked
  BY <1>0, <1>1 DEF startSessionChecked, Reattach, ConnInv, app, wa
<1>2. CASE startSessionSet
  BY <1>0, <1>2 DEF startSessionSet, ConnInv, wa
<1>3. CASE startSessionConnect
  BY <1>0, <1>3 DEF startSessionConnect, ConnInv, app
<1>4. CASE startSessionNoQR
  BY <1>0, <1>4 DEF startSessionNoQR, ConnInv, wa
\* When the last call of Connect ends, history starts again.
<1>5. CASE ConnectSucceeds \/ ConnectFails
  <2>1. calls > 0 /\ calls' = calls - 1 /\ start' = start
    BY <1>5 DEF ConnectSucceeds, ConnectFails
  <2>2. ~overtaken \/ ~(calls > 1 \/ start = "connect")
    BY <1>5, Zenon DEF ConnectSucceeds, ConnectFails
  <2>3. calls = 1 /\ start # "connect"
    <3>1. CASE ~overtaken
      BY <1>0, <2>1, <3>1 DEF ConnInv
    <3>2. CASE ~(calls > 1 \/ start = "connect")
      BY <1>0, <2>1, <3>2
    <3> QED BY <2>2, <3>1, <3>2
  <2> QED BY <1>0, <2>1, <2>3
<1>6. CASE startSessionReattach \/ ReattachReturns
  BY <1>0, <1>6 DEF startSessionReattach, ReattachReturns, ConnInv, app, wa
<1>7. CASE Whatsmeow \/ ForgetDevice \/ Hub \/ UNCHANGED vars
  <2>1. UNCHANGED <<app, start, calls, overtaken>>
    BY <1>7 DEF Whatsmeow, CodesRunOut, Scanned, Authenticated, Drop, Reconnect, Unlinked,
                ForgetDevice, Hub, handleWSRegister, handleWSReject, handleWSSnapshot,
                handleWSWrite, broadcastReady, broadcastOther, broadcast, runWriter,
                removeWSClient, wa, app, vars
  <2> QED BY <2>1 DEF ConnInv, app
\* An event that finds a connect under way is what the property excuses.
<1>8. CASE HandleConnected \/ HandleDisconnected \/ HandleLoggedOut
  <2>1. ~(calls > 0 \/ start = "connect")
    BY <1>8, Zenon DEF HandleConnected, HandleDisconnected, HandleLoggedOut, Handles
  <2>2. UNCHANGED <<calls, start>>
    BY <1>8 DEF HandleConnected, HandleDisconnected, HandleLoggedOut
  <2> QED BY <1>0, <2>1, <2>2
<1> QED BY <1>1, <1>2, <1>3, <1>4, <1>5, <1>6, <1>7, <1>8
        DEF Next, StartSession, HandleEvent

\* Two calls of /start never have two calls of Connect under way, unless an event of
\* whatsmeow has replaced connState in between (startSession).
THEOREM OneConnect == Spec => []NoSecondConnect
<1>1. Init => ConnInv
  BY DEF Init, ConnInv
<1>2. TypeInv /\ ConnInv /\ [Next]_vars => ConnInv'
  BY ConnStep
<1>3. ConnInv => NoSecondConnect
  BY DEF ConnInv, NoSecondConnect
<1> QED BY <1>1, <1>2, <1>3, TypeInvHolds, PTL DEF Spec
-----------------------------------------------------------------------------
(* The announcement that the session is up. *)

\* No envelope runs ahead of the announcements.
NoneAhead(e) == e.type = "ready" => e.n <= announced

Bounded ==
    \A s \in Sockets :
        /\ told[s] <= announced
        /\ \A i \in 1 .. Len(queue[s]) : NoneAhead(queue[s][i])
        /\ ws[s] = "snapshot" => NoneAhead(snapshot[s])

Queued(s) == \E i \in 1 .. Len(queue[s]) : queue[s][i] = Ready(announced)

\* Where the latest announcement can be, for a socket that was shown the state or will
\* be: with the TUI, with the handler that is about to broadcast it, in the queue of the
\* socket, or in the snapshot that handleWS has taken.
Reached(s) ==
    \/ told[s] = announced
    \/ announced \in saying
    \/ s \in dropped
    \/ Queued(s)
    \/ ws[s] = "snapshot" /\ snapshot[s] = Ready(announced)

DeliveryInv ==
    /\ Bounded
    /\ connected => \A s \in Sockets : ws[s] \in {"snapshot", "open"} => Reached(s)

\* Hearing raises told, to announced if the envelope says so, and never beyond.
LEMMA HearsBounded ==
    ASSUME TypeInv, Bounded, NEW s \in Sockets, NEW e \in Envelopes, NoneAhead(e), Hears(s, e)
    PROVE  /\ told'[s] <= announced
           /\ told[s] = announced \/ e = Ready(announced) => told'[s] = announced
           /\ \A r \in Sockets \ {s} : told'[r] = told[r]
<1>1. told' = [told EXCEPT ![s] = IF e.type = "ready" /\ e.n > told[s] THEN e.n ELSE told[s]]
  BY DEF Hears
<1>2. /\ told \in [Sockets -> 0 .. MaxConnects]
      /\ announced \in Nat /\ told[s] \in Nat /\ told[s] <= announced
  BY SessionAssumption DEF TypeInv, TypeOK, Bounded
<1>3. e.type = "ready" => e.n \in Nat /\ e.n <= announced
  BY EnvelopeCases DEF NoneAhead
<1>4. e = Ready(announced) => e.type = "ready" /\ e.n = announced
  BY DEF Ready
<1>5. told'[s] = IF e.type = "ready" /\ e.n > told[s] THEN e.n ELSE told[s]
  BY <1>1, <1>2
<1> QED BY <1>1, <1>2, <1>3, <1>4, <1>5

\* A broadcast puts its envelope behind what the queue holds, or counts the socket as
\* dropped.
LEMMA BroadcastQueues ==
    ASSUME TypeInv, NEW e \in Envelopes, broadcast(e), NEW s \in Sockets
    PROVE  /\ Len(queue'[s]) \in Nat /\ Len(queue[s]) \in Nat
           /\ \/ queue'[s] = queue[s]
              \/ /\ Len(queue'[s]) = Len(queue[s]) + 1
                 /\ \A i \in 1 .. Len(queue[s]) : queue'[s][i] = queue[s][i]
                 /\ queue'[s][Len(queue[s]) + 1] = e
           /\ dropped \subseteq dropped'
           /\ s \in Registered => s \in dropped' \/ queue'[s] = Append(queue[s], e)
<1> DEFINE full == {r \in Registered : Len(queue[r]) >= SendQueueSize}
<1>1. /\ queue' = [r \in Sockets |->
             IF r \in Registered \ full THEN Append(queue[r], e) ELSE queue[r]]
      /\ dropped' = dropped \cup full
  BY DEF broadcast
<1>2. queue'[s] = IF s \in Registered \ full THEN Append(queue[s], e) ELSE queue[s]
  BY <1>1
<1>3. queue[s] \in Seq(Envelopes) /\ Len(queue[s]) \in Nat
  BY DEF TypeInv, TypeOK
<1>4. /\ Len(Append(queue[s], e)) = Len(queue[s]) + 1
      /\ \A i \in 1 .. Len(queue[s]) : Append(queue[s], e)[i] = queue[s][i]
      /\ Append(queue[s], e)[Len(queue[s]) + 1] = e
  BY <1>3, AppendProperties
<1>5. s \in Registered => s \in dropped' \/ queue'[s] = Append(queue[s], e)
  BY <1>1, <1>2
<1>6. dropped \subseteq dropped'
  BY <1>1
<1> HIDE DEF full
<1>7. queue'[s] = Append(queue[s], e) \/ queue'[s] = queue[s]
  BY <1>2
<1> QED BY <1>3, <1>4, <1>5, <1>6, <1>7

LEMMA BroadcastStep ==
    ASSUME TypeInv, DeliveryInv, NEW e \in Envelopes, broadcast(e), NoneAhead(e),
           announced \in saying => announced \in saying' \/ e = Ready(announced)
    PROVE  DeliveryInv'
<1>0. UNCHANGED <<connected, announced, ws, snapshot, told>>
  BY DEF broadcast, app
<1>1. Bounded'
  <2> SUFFICES ASSUME NEW s \in Sockets
               PROVE  /\ told'[s] <= announced
                      /\ \A i \in 1 .. Len(queue'[s]) : NoneAhead(queue'[s][i])
                      /\ ws[s] = "snapshot" => NoneAhead(snapshot[s])
    BY <1>0 DEF Bounded, NoneAhead
  <2>1. ASSUME NEW i \in 1 .. Len(queue'[s]) PROVE NoneAhead(queue'[s][i])
    <3>1. \A j \in 1 .. Len(queue[s]) : NoneAhead(queue[s][j])
      BY DEF DeliveryInv, Bounded
    <3> QED BY <3>1, BroadcastQueues
  <2> QED BY <1>0, <2>1 DEF DeliveryInv, Bounded
<1>2. ASSUME connected, NEW s \in Sockets, ws[s] \in {"snapshot", "open"}
      PROVE  Reached(s)'
  <2>1. s \in Registered
    BY <1>2 DEF Registered
  <2>2. Reached(s)
    BY <1>2 DEF DeliveryInv
  <2>3. Queued(s) => Queued(s)'
    BY <1>0, BroadcastQueues DEF Queued
  <2>4. CASE e # Ready(announced)
    BY <1>0, <2>2, <2>3, <2>4, BroadcastQueues DEF Reached
  <2>5. CASE e = Ready(announced)
    <3>1. s \in dropped' \/ queue'[s] = Append(queue[s], e)
      BY <2>1, BroadcastQueues
    <3>2. queue'[s] = Append(queue[s], e) => Queued(s)'
      <4>1. queue[s] \in Seq(Envelopes)
        BY DEF TypeInv, TypeOK
      <4>2. /\ Len(Append(queue[s], e)) = Len(queue[s]) + 1
            /\ Append(queue[s], e)[Len(queue[s]) + 1] = e
            /\ Len(queue[s]) \in Nat
        BY <4>1, AppendProperties
      <4> QED BY <1>0, <2>5, <4>2 DEF Queued
    <3> QED BY <3>1, <3>2 DEF Reached
  <2> QED BY <2>4, <2>5
<1> QED BY <1>0, <1>1, <1>2 DEF DeliveryInv

LEMMA DeliveryStep ==
    ASSUME TypeInv, DeliveryInv, [Next]_vars
    PROVE  DeliveryInv'
<1>0. /\ announced \in Nat
      /\ told \in [Sockets -> 0 .. MaxConnects]
      /\ queue \in [Sockets -> Seq(Envelopes)]
      /\ ws \in [Sockets -> {"none", "registered", "snapshot", "open", "gone"}]
      /\ snapshot \in [Sockets -> Envelopes \cup {Nothing}]
  BY SessionAssumption DEF TypeInv, TypeOK
<1>1. CASE HandleConnected
  <2>1. announced' = announced + 1 /\ announced' \in saying' /\ UNCHANGED hub
    BY <1>1 DEF HandleConnected
  <2>2. \A e \in Envelopes : NoneAhead(e) => NoneAhead(e)'
    <3>1. ASSUME NEW e \in Envelopes, NoneAhead(e) PROVE NoneAhead(e)'
      <4>1. e.type = "ready" => e.n \in Nat
        BY EnvelopeCases
      <4> QED BY <1>0, <2>1, <3>1, <4>1 DEF NoneAhead
    <3> QED BY <3>1
  <2>3. \A s \in Sockets : told[s] \in Nat
    BY <1>0
  <2>4. \A s \in Sockets : told'[s] <= announced'
    BY <1>0, <2>1, <2>3 DEF DeliveryInv, Bounded, hub
  <2>5. ASSUME NEW s \in Sockets, NEW i \in 1 .. Len(queue'[s])
        PROVE  NoneAhead(queue[s][i])'
    <3>1. queue' = queue /\ queue[s] \in Seq(Envelopes)
      BY <1>0, <2>1 DEF hub
    <3>2. i \in 1 .. Len(queue[s]) /\ queue[s][i] \in Envelopes
      BY <3>1, <2>5
    <3>3. NoneAhead(queue[s][i])
      BY <3>2 DEF DeliveryInv, Bounded
    <3>4. queue[s][i].type = "ready" => queue[s][i].n <= announced'
      BY <2>2, <3>2, <3>3 DEF NoneAhead
    <3> QED BY <3>1, <3>4 DEF NoneAhead
  <2>6. ASSUME NEW s \in Sockets, ws'[s] = "snapshot" PROVE NoneAhead(snapshot[s])'
    <3>1. /\ snapshot' = snapshot /\ ws' = ws
          /\ snapshot[s] \in Envelopes /\ NoneAhead(snapshot[s])
      BY <2>1, <2>6 DEF DeliveryInv, Bounded, TypeInv, hub
    <3>2. snapshot[s].type = "ready" => snapshot[s].n <= announced'
      BY <2>2, <3>1 DEF NoneAhead
    <3> QED BY <3>1, <3>2 DEF NoneAhead
  <2> QED BY <2>1, <2>4, <2>5, <2>6 DEF DeliveryInv, Bounded, Reached
<1>2. CASE HandleDisconnected \/ HandleLoggedOut
  <2>1. ~connected' /\ UNCHANGED <<announced, hub>>
    BY <1>2 DEF HandleDisconnected, HandleLoggedOut, news
  <2> QED BY <2>1 DEF DeliveryInv, Bounded, NoneAhead, hub
<1>3. CASE StartSession \/ Whatsmeow \/ ForgetDevice \/ UNCHANGED vars
  <2>1. UNCHANGED <<connected, announced, saying, hub>>
    BY <1>3 DEF StartSession, startSessionReattach, ReattachReturns, startSessionChecked,
                startSessionSet, startSessionNoQR, startSessionConnect, ConnectSucceeds,
                ConnectFails, Whatsmeow, CodesRunOut, Scanned, Authenticated, Drop, Reconnect,
                Unlinked, ForgetDevice, app, news, hub, vars
  <2> QED BY <2>1 DEF DeliveryInv, Bounded, NoneAhead, Reached, Queued, hub
\* A socket registers before it is shown the state.
<1>4. ASSUME NEW s \in Sockets, handleWSRegister(s) \/ handleWSReject(s)
      PROVE  DeliveryInv'
  <2>1. /\ UNCHANGED <<connected, news, queue, snapshot, told, dropped>>
        /\ ws' = [ws EXCEPT ![s] = "registered"] \/ ws' = [ws EXCEPT ![s] = "gone"]
    BY <1>4 DEF handleWSRegister, handleWSReject, app
  <2>2. \A r \in Sockets : ws'[r] \in {"snapshot", "open"} => ws'[r] = ws[r]
    BY <1>0, <2>1
  <2> QED BY <2>1, <2>2 DEF DeliveryInv, Bounded, NoneAhead, Reached, Queued, news
\* The snapshot holds the latest announcement if the session is up.
<1>5. ASSUME NEW s \in Sockets, handleWSSnapshot(s) PROVE DeliveryInv'
  <2>1. /\ UNCHANGED <<connected, news, queue, told, dropped>>
        /\ snapshot' = [snapshot EXCEPT ![s] = IF connected THEN Ready(announced) ELSE Other]
        /\ ws' = [ws EXCEPT ![s] = "snapshot"]
    BY <1>5 DEF handleWSSnapshot, app
  <2>2. \A r \in Sockets \ {s} : ws'[r] = ws[r] /\ snapshot'[r] = snapshot[r]
    BY <1>0, <2>1
  <2>3. /\ ws'[s] = "snapshot"
        /\ snapshot'[s] = IF connected THEN Ready(announced) ELSE Other
    BY <1>0, <2>1
  <2>4. NoneAhead(snapshot[s])'
    BY <1>0, <2>1, <2>3 DEF NoneAhead, Ready, Other, news
  <2>5. Bounded'
    BY <2>1, <2>2, <2>4 DEF DeliveryInv, Bounded, NoneAhead, news
  <2>6. ASSUME connected, NEW r \in Sockets, ws'[r] \in {"snapshot", "open"}
        PROVE  Reached(r)'
    BY <2>1, <2>2, <2>3, <2>6 DEF DeliveryInv, Reached, Queued, news
  <2> QED BY <2>1, <2>5, <2>6 DEF DeliveryInv
\* Writing the snapshot takes it to the TUI.
<1>6. ASSUME NEW s \in Sockets, handleWSWrite(s) PROVE DeliveryInv'
  <2>1. /\ UNCHANGED <<connected, news, queue, dropped>>
        /\ ws[s] = "snapshot" /\ Hears(s, snapshot[s])
        /\ ws' = [ws EXCEPT ![s] = "open"]
        /\ snapshot' = [snapshot EXCEPT ![s] = Nothing]
    BY <1>6 DEF handleWSWrite, app
  <2>2. snapshot[s] \in Envelopes /\ NoneAhead(snapshot[s])
    BY <2>1 DEF TypeInv, DeliveryInv, Bounded
  <2>3. /\ told'[s] <= announced
        /\ told[s] = announced \/ snapshot[s] = Ready(announced) => told'[s] = announced
        /\ \A r \in Sockets \ {s} : told'[r] = told[r]
    BY <2>1, <2>2, HearsBounded DEF DeliveryInv
  <2>4. /\ ws'[s] = "open"
        /\ \A r \in Sockets \ {s} : ws'[r] = ws[r] /\ snapshot'[r] = snapshot[r]
    BY <1>0, <2>1
  <2>5. Bounded'
    BY <2>1, <2>3, <2>4 DEF DeliveryInv, Bounded, NoneAhead, news
  <2>6. ASSUME connected, NEW r \in Sockets, ws'[r] \in {"snapshot", "open"}
        PROVE  Reached(r)'
    BY <2>1, <2>3, <2>4, <2>6 DEF DeliveryInv, Reached, Queued, news
  <2> QED BY <2>1, <2>5, <2>6 DEF DeliveryInv
<1>7. ASSUME NEW n \in 1 .. MaxConnects, broadcastReady(n) PROVE DeliveryInv'
  <2>1. /\ broadcast(Ready(n)) /\ Ready(n) \in Envelopes
        /\ n \in saying /\ saying' = saying \ {n}
    BY <1>7 DEF broadcastReady, Envelopes
  <2>2. NoneAhead(Ready(n))
    BY <1>0, <2>1 DEF NoneAhead, Ready, TypeInv, TypeOK
  <2>3. announced \in saying => announced \in saying' \/ Ready(n) = Ready(announced)
    BY <2>1
  <2> QED BY <2>1, <2>2, <2>3, BroadcastStep
<1>8. CASE broadcastOther
  <2>1. broadcast(Other) /\ saying' = saying /\ Other \in Envelopes /\ NoneAhead(Other)
    BY <1>8 DEF broadcastOther, Envelopes, NoneAhead, Other
  <2> QED BY <2>1, BroadcastStep
\* The head of the queue goes to the TUI, the others move up.
<1>9. ASSUME NEW s \in Sockets, runWriter(s) PROVE DeliveryInv'
  <2>1. /\ UNCHANGED <<connected, news, ws, snapshot, dropped>>
        /\ queue[s] # <<>> /\ Hears(s, Head(queue[s]))
        /\ queue' = [queue EXCEPT ![s] = Tail(queue[s])]
    BY <1>9 DEF runWriter, app
  <2>2. /\ Len(queue[s]) \in Nat /\ Len(queue[s]) > 0
        /\ Head(queue[s]) = queue[s][1] /\ Head(queue[s]) \in Envelopes
        /\ Len(Tail(queue[s])) = Len(queue[s]) - 1
        /\ \A i \in 1 .. Len(Tail(queue[s])) : Tail(queue[s])[i] = queue[s][i + 1]
    BY <1>0, <2>1, HeadTailProperties
  <2>3. /\ queue'[s] = Tail(queue[s])
        /\ \A r \in Sockets \ {s} : queue'[r] = queue[r]
    BY <1>0, <2>1
  <2>4. NoneAhead(Head(queue[s]))
    BY <2>2 DEF DeliveryInv, Bounded
  <2>5. /\ told'[s] <= announced
        /\ told[s] = announced \/ Head(queue[s]) = Ready(announced) => told'[s] = announced
        /\ \A r \in Sockets \ {s} : told'[r] = told[r]
    BY <2>1, <2>2, <2>4, HearsBounded DEF DeliveryInv
  <2>6. Queued(s) => Queued(s)' \/ told'[s] = announced
    <3> SUFFICES ASSUME NEW i \in 1 .. Len(queue[s]), queue[s][i] = Ready(announced), i # 1
                 PROVE  Queued(s)'
      BY <2>2, <2>5 DEF Queued
    <3>1. i - 1 \in 1 .. Len(queue'[s]) /\ queue'[s][i - 1] = queue[s][i]
      BY <2>2, <2>3
    <3> QED BY <2>1, <3>1 DEF Queued, news
  <2>7. \A i \in 1 .. Len(queue'[s]) : NoneAhead(queue'[s][i])
    BY <2>2, <2>3 DEF DeliveryInv, Bounded
  <2>8. Bounded'
    BY <2>1, <2>3, <2>5, <2>7 DEF DeliveryInv, Bounded, NoneAhead, news
  <2>9. ASSUME connected, NEW r \in Sockets, ws[r] \in {"snapshot", "open"}
        PROVE  Reached(r)'
    <3>1. CASE r = s
      BY <2>1, <2>5, <2>6, <2>9, <3>1 DEF DeliveryInv, Reached, news
    <3>2. CASE r # s
      BY <2>1, <2>3, <2>5, <2>9, <3>2 DEF DeliveryInv, Reached, Queued, news
    <3> QED BY <3>1, <3>2
  <2> QED BY <2>1, <2>8, <2>9 DEF DeliveryInv
<1>10. ASSUME NEW s \in Sockets, removeWSClient(s) PROVE DeliveryInv'
  <2>1. /\ UNCHANGED <<connected, news>>
        /\ ws' = [ws EXCEPT ![s] = "gone"]
        /\ queue' = [queue EXCEPT ![s] = <<>>]
        /\ snapshot' = [snapshot EXCEPT ![s] = Nothing]
        /\ told' = [told EXCEPT ![s] = 0]
        /\ dropped' = dropped \ {s}
    BY <1>10 DEF removeWSClient, app
  <2>2. ws'[s] = "gone" /\ queue'[s] = <<>> /\ told'[s] = 0
    BY <1>0, <2>1
  <2>3. \A r \in Sockets \ {s} :
            /\ ws'[r] = ws[r] /\ queue'[r] = queue[r] /\ snapshot'[r] = snapshot[r]
            /\ told'[r] = told[r]
    BY <1>0, <2>1
  <2>4. Bounded'
    BY <1>0, <2>1, <2>2, <2>3 DEF DeliveryInv, Bounded, NoneAhead, news
  <2>5. ASSUME connected, NEW r \in Sockets, ws'[r] \in {"snapshot", "open"}
        PROVE  Reached(r)'
    BY <2>1, <2>2, <2>3, <2>5 DEF DeliveryInv, Reached, Queued, news
  <2> QED BY <2>1, <2>4, <2>5 DEF DeliveryInv
<1> QED BY <1>1, <1>2, <1>3, <1>4, <1>5, <1>6, <1>7, <1>8, <1>9, <1>10
        DEF Next, HandleEvent, Hub

\* A TUI whose socket is open, whose queue is empty and never was full knows of the latest
\* time the session came up, if it still is up and nobody is about to announce it: handleWS
\* registers the socket before it reads the state, so that no interleaving with the handler
\* of bindEvents and its broadcast loses the news.
THEOREM NewsArrives == Spec => []ReadyReachesEveryClient
<1>1. Init => DeliveryInv
  BY DEF Init, DeliveryInv, Bounded
<1>2. TypeInv /\ DeliveryInv /\ [Next]_vars => DeliveryInv'
  BY DeliveryStep
<1>3. DeliveryInv => ReadyReachesEveryClient
  BY DEF DeliveryInv, Reached, Queued, ReadyReachesEveryClient
<1> QED BY <1>1, <1>2, <1>3, TypeInvHolds, PTL DEF Spec

-----------------------------------------------------------------------------
(* MessageStore: the archive. *)

-----------------------------------------------------------------------------
(* Type correctness. *)

LEMMA RowUpdates ==
    ASSUME NEW row \in Row, NEW body \in Payloads, NEW receipt \in Receipts
    PROVE  /\ [row EXCEPT !.body = body] \in Row
           /\ [row EXCEPT !.receipt = receipt] \in Row
           /\ NoRow \notin Row
  BY ArchiveAssumption DEF Row

LEMMA InsertRowType ==
    ASSUME ArchiveTypeOK, NEW m \in Msgs, NEW body \in Payloads, NEW receipt \in Receipts,
           insertRow(m, body, receipt)
    PROVE  messages' \in [Msgs -> Row \cup {NoRow}]
<1>1. CASE m \notin Stored
  <2>1. PICK r \in 1 .. MaxRowid :
           messages' = [messages EXCEPT ![m] = [rowid |-> r, body |-> body, receipt |-> receipt]]
    BY <1>1 DEF insertRow
  <2>2. [rowid |-> r, body |-> body, receipt |-> receipt] \in Row
    BY ArchiveAssumption DEF Row
  <2> QED BY <2>1, <2>2 DEF ArchiveTypeOK
<1>2. CASE m \in Stored
  <2>1. messages[m] \in Row
    BY <1>2 DEF ArchiveTypeOK, Stored
  <2>2. messages' = [messages EXCEPT ![m] = [messages[m] EXCEPT !.body = body]]
    BY <1>2 DEF insertRow
  <2> QED BY <2>1, <2>2, RowUpdates DEF ArchiveTypeOK
<1> QED BY <1>1, <1>2

\* What every delivery keeps: live, from history, or of an own message.
LEMMA UpsertType ==
    ASSUME ArchiveTypeOK, NEW m \in Msgs, NEW body \in Payloads, NEW receipt \in Receipts,
           NEW later, upsertMessage(m, body, receipt, later)
    PROVE  ArchiveTypeOK'
<1>1. messages' \in [Msgs -> Row \cup {NoRow}]
  BY InsertRowType DEF upsertMessage
<1>2. fts' \subseteq Msgs \X Texts
  BY DEF upsertMessage, ArchiveTypeOK, WithoutEntry, EntriesFor
<1>3. /\ recent' \subseteq Msgs
      /\ torn' \subseteq Msgs
      /\ contended' \subseteq Msgs
  BY DEF upsertMessage, ArchiveTypeOK
<1> QED BY <1>1, <1>2, <1>3 DEF upsertMessage, ArchiveTypeOK

LEMMA EditBeginType ==
    ASSUME ArchiveTypeOK, NEW e \in Editors, NEW m \in Msgs, NEW body \in Payloads,
           editMessageInDB(e, m, body)
    PROVE  ArchiveTypeOK'
  BY DEF editMessageInDB, ArchiveTypeOK

\* What the next statement of an edit finds in its locals.
LEMMA EditLocals ==
    ASSUME ArchiveTypeOK, NEW e \in Editors, edit[e].pc # "idle"
    PROVE  edit[e] \in [pc : {"update", "unindex", "index"}, msg : Msgs, body : Payloads]
  BY DEF ArchiveTypeOK, Idle

LEMMA ArchiveTypeStep == ArchiveTypeOK /\ [ArchiveNext]_archiveVars => ArchiveTypeOK'
<1> SUFFICES ASSUME ArchiveTypeOK, [ArchiveNext]_archiveVars PROVE ArchiveTypeOK'
  OBVIOUS
<1>1. CASE backfillReceipt
  <2>1. ASSUME NEW m \in Msgs, messages[m] # NoRow
        PROVE  [messages[m] EXCEPT !.receipt = "delivered"] \in Row
    <3>1. messages[m] \in Row
      BY <2>1 DEF ArchiveTypeOK
    <3> QED BY <3>1 DEF Row, Receipts
  <2>2. messages' \in [Msgs -> Row \cup {NoRow}]
    BY <1>1, <2>1 DEF backfillReceipt, ArchiveTypeOK, Stored
  <2> QED BY <1>1, <2>2 DEF backfillReceipt, ArchiveTypeOK
<1>2. CASE purgeInvisibleProtocolMessages
  BY <1>2 DEF purgeInvisibleProtocolMessages, ArchiveTypeOK
<1>3. CASE purgeOrphanEntries
  BY <1>3 DEF purgeOrphanEntries, ArchiveTypeOK
<1>4. CASE BackfillStart
  BY <1>4 DEF BackfillStart, ArchiveTypeOK
<1>5. ASSUME NEW page \in SUBSET Msgs, BackfillScan(page) PROVE ArchiveTypeOK'
  <2>1. PICK m \in page :
          LET found == {<<n, messages[n].body>> : n \in {k \in page : HasText(k)}}
          IN  backfill' = [pc      |-> IF found = {} THEN "mark" ELSE "insert",
                           last    |-> messages[m].rowid,
                           pending |-> found]
    BY <1>5 DEF BackfillScan
  <2>2. messages[m].rowid \in Nat
    BY <1>5 DEF BackfillScan, IsPage, Unscanned, Stored, ArchiveTypeOK, Row
  <2>3. {<<n, messages[n].body>> : n \in {k \in page : HasText(k)}} \in SUBSET (Msgs \X Texts)
    BY <1>5 DEF HasText
  <2> QED BY <1>5, <2>1, <2>2, <2>3 DEF BackfillScan, ArchiveTypeOK
<1>6. CASE BackfillEnd
  BY <1>6 DEF BackfillEnd, ArchiveTypeOK
<1>7. CASE BackfillInsert
  BY <1>7 DEF BackfillInsert, ArchiveTypeOK
<1>8. CASE BackfillMark
  BY <1>8 DEF BackfillMark, ArchiveTypeOK
<1>9. ASSUME NEW m \in Msgs, NEW body \in Payloads, ReceiveMessage(m, body) PROVE ArchiveTypeOK'
  BY <1>9, UpsertType DEF ReceiveMessage, Receipts
<1>10. ASSUME NEW m \in Msgs, NEW body \in Payloads, HistoryMessage(m, body) PROVE ArchiveTypeOK'
  BY <1>10, UpsertType DEF HistoryMessage, Receipts
<1>11. ASSUME NEW m \in Msgs, NEW body \in Payloads, SendMessage(m, body) PROVE ArchiveTypeOK'
  BY <1>11, UpsertType DEF SendMessage, Receipts
<1>12. ASSUME NEW ids \in SUBSET Msgs, NEW status \in {"delivered", "read", "played"},
              UpdateReceiptStatus(ids, status)
       PROVE  ArchiveTypeOK'
  <2>1. ASSUME NEW m \in Msgs, messages[m] # NoRow
        PROVE  [messages[m] EXCEPT !.receipt = status] \in Row
    <3>1. messages[m] \in Row
      BY <2>1 DEF ArchiveTypeOK
    <3> QED BY <3>1 DEF Row, Receipts
  <2>2. messages' \in [Msgs -> Row \cup {NoRow}]
    BY <1>12, <2>1 DEF UpdateReceiptStatus, ArchiveTypeOK, Stored
  <2> QED BY <1>12, <2>2 DEF UpdateReceiptStatus, ArchiveTypeOK
<1>13. ASSUME NEW m \in Msgs, DeleteMessage(m) PROVE ArchiveTypeOK'
  BY <1>13 DEF DeleteMessage, ArchiveTypeOK, WithoutEntry
<1>14. ASSUME NEW m \in Msgs, NEW text \in Texts, handleEditMessage(m, text) PROVE ArchiveTypeOK'
  BY <1>14, EditBeginType DEF handleEditMessage, Editors, Payloads
<1>15. ASSUME NEW m \in Msgs, NEW body \in Payloads, ReceiveEdit(m, body) PROVE ArchiveTypeOK'
  BY <1>15, EditBeginType DEF ReceiveEdit, Editors
<1>16. ASSUME NEW e \in Editors, EditUpdate(e) PROVE ArchiveTypeOK'
  <2>1. edit[e] \in [pc : {"update", "unindex", "index"}, msg : Msgs, body : Payloads]
    BY <1>16, EditLocals DEF EditUpdate
  <2>2. messages' \in [Msgs -> Row \cup {NoRow}]
    <3> DEFINE m == edit[e].msg
    <3>1. m \in Stored => [messages[m] EXCEPT !.body = edit[e].body] \in Row
      <4>1. m \in Stored => messages[m] \in Row
        BY DEF ArchiveTypeOK, Stored
      <4> QED BY <2>1, <4>1 DEF Row
    <3>2. messages' = IF m \in Stored
                      THEN [messages EXCEPT ![m] = [messages[m] EXCEPT !.body = edit[e].body]]
                      ELSE messages
      BY <1>16 DEF EditUpdate
    <3> QED BY <3>1, <3>2, <2>1 DEF ArchiveTypeOK
  <2>3. edit' \in [Editors -> {Idle} \cup
                    [pc : {"update", "unindex", "index"}, msg : Msgs, body : Payloads]]
    BY <1>16, <2>1 DEF EditUpdate, ArchiveTypeOK
  <2> QED BY <1>16, <2>2, <2>3 DEF EditUpdate, ArchiveTypeOK
<1>17. ASSUME NEW e \in Editors, EditUnindex(e) PROVE ArchiveTypeOK'
  <2>1. edit[e] \in [pc : {"update", "unindex", "index"}, msg : Msgs, body : Payloads]
    BY <1>17, EditLocals DEF EditUnindex
  <2> QED BY <1>17, <2>1 DEF EditUnindex, ArchiveTypeOK, WithoutEntry
<1>18. ASSUME NEW e \in Editors, EditIndex(e) PROVE ArchiveTypeOK'
  <2>1. edit[e] \in [pc : {"update", "unindex", "index"}, msg : Msgs, body : Payloads]
    BY <1>18, EditLocals DEF EditIndex
  <2> QED BY <1>18, <2>1 DEF EditIndex, ArchiveTypeOK, EntriesFor
<1>19. CASE Crash
  BY <1>19 DEF Crash, Restart, HalfEdited, ArchiveTypeOK
<1>20. CASE Logout
  <2>1. PICK survivors \in SUBSET {e \in Editors : edit[e].pc = "unindex"} :
          /\ edit' = [e \in Editors |-> IF e \in survivors THEN edit[e] ELSE Idle]
          /\ contended' = {m \in Msgs : \E e \in survivors : edit[e].msg = m}
    BY <1>20 DEF Logout
  <2> QED BY <1>20, <2>1 DEF Logout, Restart, ArchiveTypeOK
<1>21. CASE UNCHANGED archiveVars
  BY <1>21 DEF archiveVars, ArchiveTypeOK
<1> QED
  BY <1>1, <1>2, <1>3, <1>4, <1>5, <1>6, <1>7, <1>8, <1>9, <1>10, <1>11, <1>12, <1>13,
     <1>14, <1>15, <1>16, <1>17, <1>18, <1>19, <1>20, <1>21
     DEF ArchiveNext, LoadState, Backfill, Edit

\* Every reachable state of the archive is well typed (the schema of store.go:81).
THEOREM ArchiveTypeCorrect == ArchiveSpec => []ArchiveTypeOK
<1>1. ArchiveInit => ArchiveTypeOK
  <2> SUFFICES ASSUME ArchiveInit PROVE ArchiveTypeOK
    OBVIOUS
  <2>1. Cardinality(Msgs) \in Nat
    BY ArchiveAssumption, FS_CardinalityType
  <2>2. LegacyRow \subseteq Row
    <3>1. 1 .. Cardinality(Msgs) \subseteq Nat \ {0}
      BY <2>1
    <3>2. {""} \subseteq Receipts
      BY DEF Receipts
    <3> QED BY <3>1, <3>2, Zenon DEF LegacyRow, Row
  <2>3. messages \in [Msgs -> Row \cup {NoRow}]
    <3>1. messages \in [Msgs -> LegacyRow \cup {NoRow}]
      BY DEF ArchiveInit
    <3> QED BY <3>1, <2>2
  <2> QED BY <2>3 DEF ArchiveInit, ArchiveTypeOK
<1> QED BY <1>1, ArchiveTypeStep, PTL DEF ArchiveSpec

-----------------------------------------------------------------------------
(* Nothing is skipped.  The property itself is not inductive: it says      *)
(* nothing of the page the backfill holds in memory, whose rows are past   *)
(* its position and not indexed yet.                                       *)

Unexcused(m) == HasText(m) /\ ~Indexed(m) /\ m \notin HalfEdited /\ m \notin torn

\* The backfill has this row before it, or in its hands.
Ahead(m) ==
    /\ messages[m].rowid > watermark
    /\ m \notin recent
    /\ backfill.pc \in {"scan", "mark"} => messages[m].rowid > backfill.last
    /\ backfill.pc = "insert" =>
          \/ messages[m].rowid > backfill.last
          \/ \E t \in Texts : <<m, t>> \in backfill.pending

WatermarkInv ==
    /\ \A m \in Msgs : Unexcused(m) => Ahead(m)
    /\ \A e \in Editors : edit[e].pc \in {"unindex", "index"} => edit[e].body \in Texts

LEMMA WatermarkInvImplies == WatermarkInv => NothingSkipped
  BY DEF WatermarkInv, NothingSkipped, Unexcused, Ahead

\* Enough for a message to stay ahead: its row, the backfill and the recent rows are
\* as before, and so is what excuses it.
LEMMA StaysAhead ==
    ASSUME NEW m \in Msgs, Unexcused(m) => Ahead(m),
           Unexcused(m)' => Unexcused(m),
           Unexcused(m)' => messages'[m].rowid = messages[m].rowid,
           watermark' = watermark, backfill' = backfill,
           Unexcused(m)' /\ m \in recent' => m \in recent
    PROVE  Unexcused(m)' => Ahead(m)'
  BY DEF Ahead

LEMMA UpsertKeepsWatermarkInv ==
    ASSUME ArchiveTypeOK, WatermarkInv, NEW m \in Msgs, NEW body \in Payloads, NEW receipt,
           NEW later, upsertMessage(m, body, receipt, later)
    PROVE  WatermarkInv'
<1>1. messages'[m].body = body /\ \A n \in Msgs \ {m} : messages'[n] = messages[n]
  <2>1. CASE m \notin Stored
    BY <2>1 DEF upsertMessage, insertRow, ArchiveTypeOK
  <2>2. CASE m \in Stored
    <3>1. messages[m] \in Row
      BY <2>2 DEF Stored, ArchiveTypeOK
    <3>2. messages' = [messages EXCEPT ![m] = [messages[m] EXCEPT !.body = body]]
      BY <2>2 DEF upsertMessage, insertRow
    <3>3. [messages[m] EXCEPT !.body = body].body = body
      BY <3>1 DEF Row
    <3> QED BY <3>2, <3>3 DEF ArchiveTypeOK
  <2> QED BY <2>1, <2>2
<1>2. ~Unexcused(m)'
  BY <1>1 DEF Unexcused, HasText, Indexed, upsertMessage, EntriesFor
<1>3. ASSUME NEW n \in Msgs \ {m} PROVE Unexcused(n)' => Ahead(n)'
  <2>1. Indexed(n) => Indexed(n)'
    BY DEF Indexed, upsertMessage, WithoutEntry
  <2>2. Unexcused(n)' => Unexcused(n)
    BY <1>1, <2>1 DEF Unexcused, HasText, Stored, HalfEdited, upsertMessage
  <2>3. n \in recent' => n \in recent
    BY DEF upsertMessage
  <2> QED BY <1>1, <2>2, <2>3, StaysAhead DEF upsertMessage, WatermarkInv
<1>4. edit' = edit
  BY DEF upsertMessage
<1> QED BY <1>2, <1>3, <1>4 DEF WatermarkInv

LEMMA EditBeginKeepsWatermarkInv ==
    ASSUME ArchiveTypeOK, WatermarkInv, NEW e \in Editors, NEW m \in Msgs, NEW body \in Payloads,
           editMessageInDB(e, m, body)
    PROVE  WatermarkInv'
<1>1. HalfEdited' = HalfEdited
  BY DEF HalfEdited, editMessageInDB, ArchiveTypeOK, Idle
<1>2. ASSUME NEW n \in Msgs PROVE Unexcused(n)' => Ahead(n)'
  BY <1>1 DEF WatermarkInv, Unexcused, Ahead, HasText, Stored, Indexed, editMessageInDB
<1>3. \A o \in Editors : edit'[o].pc \in {"unindex", "index"} => edit'[o].body \in Texts
  BY DEF WatermarkInv, editMessageInDB, ArchiveTypeOK
<1> QED BY <1>2, <1>3 DEF WatermarkInv

\* The page is what makes the scan safe: a row it leaves out lies behind all of it.
LEMMA ScanKeepsWatermarkInv ==
    ASSUME ArchiveTypeOK, WatermarkInv, NEW page \in SUBSET Msgs, BackfillScan(page)
    PROVE  WatermarkInv'
<1> DEFINE found == {<<n, messages[n].body>> : n \in {k \in page : HasText(k)}}
<1>1. PICK top \in page :
         backfill' = [pc      |-> IF found = {} THEN "mark" ELSE "insert",
                      last    |-> messages[top].rowid,
                      pending |-> found]
  BY DEF BackfillScan
<1>2. /\ IsPage(page) /\ backfill.pc = "scan"
      /\ UNCHANGED <<messages, fts, watermark, recent, edit, torn>>
  BY DEF BackfillScan
<1>3. \A k \in Msgs : messages[k] # NoRow => messages[k].rowid \in Nat
  BY DEF ArchiveTypeOK, Row
<1>4. ASSUME NEW m \in Msgs, Unexcused(m)' PROVE Ahead(m)'
  <2>1. Unexcused(m)
    BY <1>2, <1>4 DEF Unexcused, HasText, Stored, Indexed, HalfEdited
  <2>2. m \in Unscanned /\ messages[m].rowid > watermark
    BY <1>2, <2>1 DEF WatermarkInv, Ahead, Unexcused, HasText, Unscanned
  <2>3. CASE m \in page
    <3>1. HasText(m) /\ messages[m].body \in Texts
      BY <2>1 DEF Unexcused, HasText
    <3>2. <<m, messages[m].body>> \in found
      BY <2>3, <3>1
    <3>3. backfill'.pc = "insert" /\ backfill'.pending = found
      BY <1>1, <3>2
    <3>4. \E t \in Texts : <<m, t>> \in backfill'.pending
      BY <3>1, <3>2, <3>3
    <3> QED BY <1>2, <2>2, <3>3, <3>4 DEF Ahead, Unscanned
  <2>4. CASE m \notin page
    <3>1. messages[top].rowid < messages[m].rowid
      BY <1>2, <2>2, <2>4 DEF IsPage
    <3>2. messages[top].rowid \in Nat /\ messages[m].rowid \in Nat
      BY <1>2, <1>3, <2>2 DEF IsPage, Unscanned, Stored
    <3>3. backfill'.last = messages[top].rowid
      BY <1>1
    <3> QED BY <1>2, <2>2, <3>1, <3>2, <3>3 DEF Ahead, Unscanned
  <2> QED BY <2>3, <2>4
<1> QED BY <1>2, <1>4 DEF WatermarkInv

LEMMA WatermarkStep == ArchiveTypeOK /\ WatermarkInv /\ [ArchiveNext]_archiveVars => WatermarkInv'
<1> SUFFICES ASSUME ArchiveTypeOK, WatermarkInv, [ArchiveNext]_archiveVars PROVE WatermarkInv'
  OBVIOUS
<1> USE DEF WatermarkInv
<1>1. CASE backfillReceipt
  <2>1. ASSUME NEW m \in Msgs, messages[m] # NoRow
        PROVE  /\ messages'[m] # NoRow
               /\ messages'[m].rowid = messages[m].rowid
               /\ messages'[m].body = messages[m].body
    <3>1. messages[m] \in Row /\ [messages[m] EXCEPT !.receipt = "delivered"] \in Row
      BY <2>1 DEF ArchiveTypeOK, Row, Receipts
    <3> QED BY <1>1, <2>1, <3>1, ArchiveAssumption DEF backfillReceipt, Row
  <2>2. \A m \in Msgs : messages[m] = NoRow => messages'[m] = NoRow
    BY <1>1 DEF backfillReceipt, Stored
  <2> QED BY <1>1, <2>1, <2>2
        DEF backfillReceipt, Unexcused, Ahead, HasText, Stored, Indexed, HalfEdited
<1>2. CASE purgeInvisibleProtocolMessages
  BY <1>2 DEF purgeInvisibleProtocolMessages, Unexcused, Ahead, HasText, Stored, Indexed,
              HalfEdited
<1>3. CASE purgeOrphanEntries
  BY <1>3 DEF purgeOrphanEntries, Unexcused, Ahead, HasText, Stored, Indexed, HalfEdited
<1>4. CASE BackfillStart
  BY <1>4 DEF BackfillStart, Unexcused, Ahead, HasText, Stored, Indexed, HalfEdited
<1>5. ASSUME NEW page \in SUBSET Msgs, BackfillScan(page) PROVE WatermarkInv'
  BY <1>5, ScanKeepsWatermarkInv
<1>6. CASE BackfillEnd
  BY <1>6 DEF BackfillEnd, ArchiveTypeOK, Unexcused, Ahead, HasText, Stored, Indexed, HalfEdited
<1>7. CASE BackfillInsert
  <2>1. backfill'.pc = "mark" /\ backfill'.last = backfill.last
    BY <1>7 DEF BackfillInsert, ArchiveTypeOK
  <2>2. ASSUME NEW m \in Msgs, Unexcused(m)' PROVE Ahead(m)'
    <3>1. Unexcused(m) /\ \A t \in Texts : <<m, t>> \notin backfill.pending
      BY <1>7, <2>2 DEF BackfillInsert, Unexcused, HasText, Stored, Indexed, HalfEdited
    <3> QED BY <1>7, <2>1, <3>1 DEF BackfillInsert, Ahead
  <2> QED BY <1>7, <2>2 DEF BackfillInsert
<1>8. CASE BackfillMark
  <2>1. backfill'.pc = "scan" /\ backfill'.last = backfill.last
    BY <1>8 DEF BackfillMark, ArchiveTypeOK
  <2> QED BY <1>8, <2>1
        DEF BackfillMark, Unexcused, Ahead, HasText, Stored, Indexed, HalfEdited
<1>9. ASSUME NEW m \in Msgs, NEW body \in Payloads, ReceiveMessage(m, body)
      PROVE  WatermarkInv'
  BY <1>9, UpsertKeepsWatermarkInv DEF ReceiveMessage
<1>10. ASSUME NEW m \in Msgs, NEW body \in Payloads, HistoryMessage(m, body)
       PROVE  WatermarkInv'
  BY <1>10, UpsertKeepsWatermarkInv DEF HistoryMessage
<1>11. ASSUME NEW m \in Msgs, NEW body \in Payloads, SendMessage(m, body)
       PROVE  WatermarkInv'
  BY <1>11, UpsertKeepsWatermarkInv DEF SendMessage
<1>12. ASSUME NEW ids \in SUBSET Msgs, NEW status \in {"delivered", "read", "played"},
              UpdateReceiptStatus(ids, status)
       PROVE  WatermarkInv'
  <2>1. ASSUME NEW m \in Msgs, messages[m] # NoRow
        PROVE  /\ messages'[m].rowid = messages[m].rowid
               /\ messages'[m].body = messages[m].body
    <3>1. messages[m] \in Row
      BY <2>1 DEF ArchiveTypeOK
    <3> QED BY <1>12, <3>1 DEF UpdateReceiptStatus, Row
  <2>2. \A m \in Msgs : messages[m] = NoRow => messages'[m] = NoRow
    BY <1>12 DEF UpdateReceiptStatus, Stored
  <2> QED BY <1>12, <2>1, <2>2
        DEF UpdateReceiptStatus, Unexcused, Ahead, HasText, Stored, Indexed, HalfEdited
<1>13. ASSUME NEW m \in Msgs, DeleteMessage(m) PROVE WatermarkInv'
  <2>1. ~Unexcused(m)'
    BY <1>13 DEF DeleteMessage, Unexcused, HasText, Stored, ArchiveTypeOK
  <2>2. ASSUME NEW n \in Msgs \ {m} PROVE Unexcused(n)' => Ahead(n)'
    BY <1>13 DEF DeleteMessage, Unexcused, Ahead, HasText, Stored, Indexed, WithoutEntry,
                 HalfEdited, ArchiveTypeOK
  <2> QED BY <1>13, <2>1, <2>2 DEF DeleteMessage
<1>14. ASSUME NEW m \in Msgs, NEW text \in Texts, handleEditMessage(m, text)
       PROVE  WatermarkInv'
  BY <1>14, EditBeginKeepsWatermarkInv DEF handleEditMessage, Editors, Payloads
<1>15. ASSUME NEW m \in Msgs, NEW body \in Payloads, ReceiveEdit(m, body)
       PROVE  WatermarkInv'
  BY <1>15, EditBeginKeepsWatermarkInv DEF ReceiveEdit, Editors
<1>16. ASSUME NEW e \in Editors, EditUpdate(e) PROVE WatermarkInv'
  <2>1. edit[e] \in [pc : {"update", "unindex", "index"}, msg : Msgs, body : Payloads]
    BY <1>16, EditLocals DEF EditUpdate
  <2> PICK m \in Msgs : edit[e].msg = m
    BY <2>1
  <2>2. CASE edit[e].body = NoText
    <3>1. edit' = [edit EXCEPT ![e] = Idle]
      BY <1>16, <2>2 DEF EditUpdate
    <3>2. HalfEdited' = HalfEdited
      BY <1>16, <3>1 DEF HalfEdited, EditUpdate, ArchiveTypeOK, Idle
    <3>3. ~HasText(m)'
      <4>1. CASE m \in Stored
        <5>1. messages[m] \in Row /\ messages'[m] = [messages[m] EXCEPT !.body = NoText]
          BY <1>16, <2>1, <2>2, <4>1 DEF EditUpdate, ArchiveTypeOK, Stored
        <5> QED BY <5>1, ArchiveAssumption DEF HasText, Row
      <4>2. CASE m \notin Stored
        BY <1>16, <4>2 DEF EditUpdate, HasText, Stored
      <4> QED BY <4>1, <4>2
    <3>4. \A n \in Msgs \ {m} : messages'[n] = messages[n]
      BY <1>16, <2>1 DEF EditUpdate, ArchiveTypeOK
    <3>5. \A n \in Msgs : Unexcused(n)' => Ahead(n)'
      BY <1>16, <3>2, <3>3, <3>4
         DEF EditUpdate, Unexcused, Ahead, HasText, Stored, Indexed
    <3>6. \A o \in Editors : edit'[o].pc \in {"unindex", "index"} => edit'[o].body \in Texts
      BY <3>1 DEF ArchiveTypeOK, Idle
    <3> QED BY <3>5, <3>6
  <2>3. CASE edit[e].body # NoText
    <3>1. edit' = [edit EXCEPT ![e] = [edit[e] EXCEPT !.pc = "unindex"]]
      BY <1>16, <2>3 DEF EditUpdate
    <3>2. edit'[e].pc = "unindex" /\ edit'[e].msg = m /\ edit'[e].body = edit[e].body
      BY <2>1, <3>1 DEF ArchiveTypeOK
    <3>3. m \in HalfEdited' /\ HalfEdited \subseteq HalfEdited'
      BY <1>16, <2>1, <3>1, <3>2 DEF HalfEdited, EditUpdate, ArchiveTypeOK
    <3>4. \A n \in Msgs \ {m} : messages'[n] = messages[n]
      BY <1>16, <2>1 DEF EditUpdate, ArchiveTypeOK
    <3>5. \A n \in Msgs : Unexcused(n)' => Ahead(n)'
      BY <1>16, <3>3, <3>4 DEF EditUpdate, Unexcused, Ahead, HasText, Stored, Indexed
    <3>6. \A o \in Editors : edit'[o].pc \in {"unindex", "index"} => edit'[o].body \in Texts
      BY <2>1, <2>3, <3>1, <3>2 DEF ArchiveTypeOK, Payloads
    <3> QED BY <3>5, <3>6
  <2> QED BY <2>2, <2>3
<1>17. ASSUME NEW e \in Editors, EditUnindex(e) PROVE WatermarkInv'
  <2>1. edit[e] \in [pc : {"update", "unindex", "index"}, msg : Msgs, body : Payloads]
    BY <1>17, EditLocals DEF EditUnindex
  <2> PICK m \in Msgs : edit[e].msg = m
    BY <2>1
  <2>2. /\ edit'[e].pc = "index" /\ edit'[e].msg = m /\ edit'[e].body = edit[e].body
        /\ \A o \in Editors \ {e} : edit'[o] = edit[o]
    BY <1>17, <2>1 DEF EditUnindex, ArchiveTypeOK
  <2>3. m \in HalfEdited' /\ HalfEdited \subseteq HalfEdited'
    BY <1>17, <2>1, <2>2 DEF HalfEdited, EditUnindex
  <2>4. \A n \in Msgs \ {m} : Indexed(n)' <=> Indexed(n)
    BY <1>17 DEF EditUnindex, Indexed, WithoutEntry
  <2>5. \A n \in Msgs : Unexcused(n)' => Ahead(n)'
    BY <1>17, <2>3, <2>4 DEF EditUnindex, Unexcused, Ahead, HasText, Stored
  <2> QED BY <1>17, <2>2, <2>5 DEF EditUnindex
<1>18. ASSUME NEW e \in Editors, EditIndex(e) PROVE WatermarkInv'
  <2>1. edit[e] \in [pc : {"update", "unindex", "index"}, msg : Msgs, body : Payloads]
    BY <1>18, EditLocals DEF EditIndex
  <2> PICK m \in Msgs : edit[e].msg = m
    BY <2>1
  <2>2. edit'[e] = Idle /\ \A o \in Editors \ {e} : edit'[o] = edit[o]
    BY <1>18 DEF EditIndex, ArchiveTypeOK
  <2>3. Indexed(m)' /\ \A n \in Msgs : Indexed(n) => Indexed(n)'
    <3>1. edit[e].body \in Texts
      BY <1>18 DEF EditIndex
    <3> QED BY <1>18, <3>1 DEF EditIndex, EntriesFor, Indexed
  <2>4. \A n \in Msgs \ {m} : n \in HalfEdited => n \in HalfEdited'
    BY <2>2 DEF HalfEdited
  <2>5. \A n \in Msgs : Unexcused(n)' => Ahead(n)'
    BY <1>18, <2>3, <2>4 DEF EditIndex, Unexcused, Ahead, HasText, Stored
  <2> QED BY <1>18, <2>2, <2>5 DEF Idle
<1>19. CASE Crash
  <2>1. \A m \in Msgs : Unexcused(m)' => Unexcused(m)
    BY <1>19 DEF Crash, Unexcused, HasText, Stored, Indexed
  <2>2. backfill'.pc = "start" /\ recent' = {}
    BY <1>19 DEF Crash, Restart
  <2> QED BY <1>19, <2>1, <2>2 DEF Crash, Ahead, Idle
<1>20. CASE Logout
  <2>1. \A m \in Msgs : ~Unexcused(m)'
    BY <1>20 DEF Logout, Unexcused, HasText, Stored
  <2>2. \A e \in Editors : edit'[e] = edit[e] \/ edit'[e] = Idle
    BY <1>20 DEF Logout
  <2> QED BY <2>1, <2>2 DEF Idle
<1>21. CASE UNCHANGED archiveVars
  BY <1>21 DEF archiveVars, Unexcused, Ahead, HasText, Stored, Indexed, HalfEdited
<1> QED
  BY <1>1, <1>2, <1>3, <1>4, <1>5, <1>6, <1>7, <1>8, <1>9, <1>10, <1>11, <1>12, <1>13,
     <1>14, <1>15, <1>16, <1>17, <1>18, <1>19, <1>20, <1>21
     DEF ArchiveNext, LoadState, Backfill, Edit

\* The watermark of BackfillFTS (store/messages.go:520) skips no text, in an archive
\* of any size, across crashes, logouts, edits, deletions and redeliveries.
THEOREM NeverSkips == ArchiveSpec => []NothingSkipped
<1>1. ArchiveInit => WatermarkInv
  <2> SUFFICES ASSUME ArchiveInit PROVE WatermarkInv
    OBVIOUS
  <2>1. \A m \in Msgs : messages[m] # NoRow => messages[m].rowid > 0
    <3>1. Cardinality(Msgs) \in Nat
      BY ArchiveAssumption, FS_CardinalityType
    <3>2. \A m \in Msgs : messages[m] # NoRow => messages[m].rowid \in 1 .. Cardinality(Msgs)
      BY DEF ArchiveInit, LegacyRow
    <3> QED BY <3>1, <3>2
  <2> QED BY <2>1 DEF ArchiveInit, WatermarkInv, Unexcused, Ahead, HasText, Stored, Idle
<1> QED BY <1>1, ArchiveTypeCorrect, WatermarkStep, WatermarkInvImplies, PTL DEF ArchiveSpec

-----------------------------------------------------------------------------
(* Receipts. *)

\* No step lowers the delivery status of a message that stays stored
\* (backend/messages.go:291), for any set of messages.
THEOREM ReceiptsOnlyRise == ArchiveSpec => ReceiptNeverRegresses
<1> DEFINE Rises == \A m \in Msgs :
             messages[m] # NoRow /\ messages'[m] # NoRow =>
                receiptStatusRank(messages[m].receipt)
                   <= receiptStatusRank(messages'[m].receipt)
<1>1. \A r \in Receipts : receiptStatusRank(r) \in Nat
  BY DEF Receipts, receiptStatusRank
<1>2. ArchiveTypeOK /\ [ArchiveNext]_archiveVars => [Rises]_archiveVars
  <2> SUFFICES ASSUME ArchiveTypeOK, ArchiveNext, NEW m \in Msgs,
                      messages[m] # NoRow, messages'[m] # NoRow
               PROVE  receiptStatusRank(messages[m].receipt)
                         <= receiptStatusRank(messages'[m].receipt)
    OBVIOUS
  <2> DEFINE Same == messages'[m].receipt = messages[m].receipt
  <2>1. messages[m] \in Row /\ receiptStatusRank(messages[m].receipt) \in Nat
    BY <1>1 DEF ArchiveTypeOK, Row
  <2>2. Same => receiptStatusRank(messages[m].receipt)
                   <= receiptStatusRank(messages'[m].receipt)
    BY <2>1
  <2>3. ASSUME NEW n \in Msgs, NEW body \in Payloads, NEW receipt, NEW later,
               upsertMessage(n, body, receipt, later)
        PROVE  Same
    BY <2>1, <2>3 DEF upsertMessage, insertRow, Stored, ArchiveTypeOK, Row
  <2>4. CASE backfillReceipt
    <3>1. CASE m \in Mine /\ messages[m].receipt = ""
      <4>1. messages'[m].receipt = "delivered"
        BY <2>1, <2>4, <3>1 DEF backfillReceipt, Stored, Row
      <4>2. receiptStatusRank(messages[m].receipt) = 0
        BY <3>1 DEF receiptStatusRank
      <4>3. receiptStatusRank(messages'[m].receipt) = 2
        BY <4>1 DEF receiptStatusRank
      <4> QED BY <4>2, <4>3
    <3>2. CASE ~(m \in Mine /\ messages[m].receipt = "")
      BY <2>2, <2>4, <3>2 DEF backfillReceipt, Stored
    <3> QED BY <3>1, <3>2
  <2>5. ASSUME NEW ids \in SUBSET Msgs, NEW status \in {"delivered", "read", "played"},
               UpdateReceiptStatus(ids, status)
        PROVE  receiptStatusRank(messages[m].receipt)
                  <= receiptStatusRank(messages'[m].receipt)
    <3> DEFINE Raised == /\ m \in ids \cap Stored \cap Mine
                         /\ receiptStatusRank(messages[m].receipt) < receiptStatusRank(status)
    <3>1. CASE Raised
      <4>1. messages'[m].receipt = status
        BY <2>1, <2>5, <3>1 DEF UpdateReceiptStatus, Row
      <4>2. receiptStatusRank(status) \in Nat
        BY <1>1 DEF Receipts
      <4> QED BY <2>1, <3>1, <4>1, <4>2
    <3>2. CASE ~Raised
      BY <2>2, <2>5, <3>2 DEF UpdateReceiptStatus
    <3> QED BY <3>1, <3>2
  <2>6. ASSUME NEW e \in Editors, EditUpdate(e) PROVE Same
    <3>1. CASE edit[e].msg = m
      BY <2>1, <2>6, <3>1 DEF EditUpdate, Stored, ArchiveTypeOK, Row
    <3>2. CASE edit[e].msg # m
      BY <2>6, <3>2 DEF EditUpdate, ArchiveTypeOK
    <3> QED BY <3>1, <3>2
  <2>7. CASE purgeInvisibleProtocolMessages \/ \E n \in Msgs : DeleteMessage(n)
    BY <2>7, <2>2 DEF purgeInvisibleProtocolMessages, DeleteMessage, ArchiveTypeOK
  <2>8. CASE Logout
    BY <2>8 DEF Logout
  <2>9. CASE messages' = messages
    BY <2>2, <2>9
  <2> QED
    BY <2>2, <2>3, <2>4, <2>5, <2>6, <2>7, <2>8, <2>9
       DEF ArchiveNext, LoadState, Backfill, Edit, purgeOrphanEntries, BackfillStart, BackfillScan,
           BackfillEnd, BackfillInsert, BackfillMark, ReceiveMessage, HistoryMessage,
           SendMessage, handleEditMessage, ReceiveEdit, editMessageInDB, EditUnindex,
           EditIndex, Crash
<1> QED BY <1>2, ArchiveTypeCorrect, PTL DEF ArchiveSpec, ReceiptNeverRegresses

-----------------------------------------------------------------------------
(* Search hits.  Between the statements of one writer an entry may be       *)
(* stale; that no writer leaves it so takes what each of them holds in      *)
(* memory: the text of an edit, and the texts of a page of the backfill.    *)

Accurate(m, t) == messages[m] # NoRow /\ messages[m].body = t

EditsOf(m) == {e \in Editors : edit[e].pc # "idle" /\ edit[e].msg = m}

\* The edit of this message is the only one, of a text, and nobody else holds
\* or has stored another.
OneEdit(m) ==
    \A e \in EditsOf(m) :
        /\ messages[m] # NoRow /\ edit[e].body \in Texts
        /\ edit[e].pc \in {"unindex", "index"} => messages[m].body = edit[e].body
        /\ edit[e].pc = "index" => \A t \in Texts : <<m, t>> \notin fts
        /\ \A t \in Texts : <<m, t>> \notin backfill.pending
        /\ EditsOf(m) = {e}

SearchOf(m) ==
    m \notin contended =>
        /\ \A t \in Texts : <<m, t>> \in fts => Accurate(m, t) \/ m \in HalfEdited
        /\ \A t \in Texts : <<m, t>> \in backfill.pending => Accurate(m, t)
        /\ OneEdit(m)

SearchInv ==
    /\ boot # "up" => \A e \in Editors : edit[e].pc = "idle"
    /\ \A m \in Msgs : SearchOf(m)

\* Enough for what holds of a message to stay: its row keeps its text, it gets
\* no entry, and no edit of it begins or goes on.
LEMMA SearchKept ==
    ASSUME NEW m \in Msgs, SearchOf(m),
           m \in contended => m \in contended',
           messages[m] # NoRow => messages'[m] # NoRow /\ messages'[m].body = messages[m].body,
           \A t \in Texts : <<m, t>> \in fts' => <<m, t>> \in fts,
           \A t \in Texts : <<m, t>> \in backfill'.pending => <<m, t>> \in backfill.pending,
           \A e \in Editors : edit'[e].pc # "idle" /\ edit'[e].msg = m => edit'[e] = edit[e],
           m \in HalfEdited => m \in HalfEdited' \/ m \in contended'
    PROVE  SearchOf(m)'
<1> SUFFICES ASSUME m \notin contended'
             PROVE  /\ \A t \in Texts : <<m, t>> \in fts' => Accurate(m, t)' \/ m \in HalfEdited'
                    /\ \A t \in Texts : <<m, t>> \in backfill'.pending => Accurate(m, t)'
                    /\ OneEdit(m)'
  BY DEF SearchOf
<1>1. \A t \in Texts : Accurate(m, t) => Accurate(m, t)'
  BY DEF Accurate
<1>2. \A t \in Texts : <<m, t>> \in fts' => Accurate(m, t)' \/ m \in HalfEdited'
  BY <1>1 DEF SearchOf
<1>3. \A t \in Texts : <<m, t>> \in backfill'.pending => Accurate(m, t)'
  BY <1>1 DEF SearchOf
<1>4. OneEdit(m)'
  <2> SUFFICES ASSUME NEW e \in Editors, edit'[e].pc # "idle", edit'[e].msg = m
               PROVE  /\ messages'[m] # NoRow /\ edit'[e].body \in Texts
                      /\ edit'[e].pc \in {"unindex", "index"} => messages'[m].body = edit'[e].body
                      /\ edit'[e].pc = "index" => \A t \in Texts : <<m, t>> \notin fts'
                      /\ \A t \in Texts : <<m, t>> \notin backfill'.pending
                      /\ EditsOf(m)' = {e}
    BY DEF OneEdit, EditsOf
  <2>1. edit'[e] = edit[e] /\ e \in EditsOf(m) /\ e \in EditsOf(m)' /\ OneEdit(m)
    BY DEF EditsOf, SearchOf
  <2>2. EditsOf(m)' \subseteq EditsOf(m)
    BY DEF EditsOf
  <2> QED BY <2>1, <2>2 DEF OneEdit
<1> QED BY <1>2, <1>3, <1>4

\* Whoever writes the row or the entries of a message while another writer has
\* it in hand makes it contended.
LEMMA NobodyElse ==
    ASSUME NEW m \in Msgs, ~AtWork(m)
    PROVE  EditsOf(m) = {} /\ \A t \in Texts : <<m, t>> \notin backfill.pending
  BY DEF AtWork, Editing, EditsOf

LEMMA UpsertKeepsSearchInv ==
    ASSUME ArchiveTypeOK, SearchInv, NEW m \in Msgs, NEW body \in Payloads,
           NEW receipt \in Receipts, NEW later, upsertMessage(m, body, receipt, later)
    PROVE  SearchInv'
<1>1. /\ messages'[m] # NoRow /\ messages'[m].body = body
      /\ \A n \in Msgs \ {m} : messages'[n] = messages[n]
  <2>1. CASE m \notin Stored
    <3>1. PICK r \in 1 .. MaxRowid :
             messages' = [messages EXCEPT ![m] = [rowid |-> r, body |-> body, receipt |-> receipt]]
      BY <2>1 DEF upsertMessage, insertRow
    <3>2. messages'[m] = [rowid |-> r, body |-> body, receipt |-> receipt]
      BY <3>1 DEF ArchiveTypeOK
    <3>3. [rowid |-> r, body |-> body, receipt |-> receipt] # NoRow
      BY ArchiveAssumption DEF Row
    <3> QED BY <3>1, <3>2, <3>3 DEF ArchiveTypeOK
  <2>2. CASE m \in Stored
    <3>1. messages[m] \in Row
      BY <2>2 DEF Stored, ArchiveTypeOK
    <3>2. messages' = [messages EXCEPT ![m] = [messages[m] EXCEPT !.body = body]]
      BY <2>2 DEF upsertMessage, insertRow
    <3>3. [messages[m] EXCEPT !.body = body].body = body /\ [messages[m] EXCEPT !.body = body] # NoRow
      BY <3>1, ArchiveAssumption DEF Row
    <3> QED BY <3>2, <3>3 DEF ArchiveTypeOK
  <2> QED BY <2>1, <2>2
<1>2. UNCHANGED <<boot, edit, backfill>> /\ fts' = WithoutEntry(m) \cup EntriesFor(m, body)
      /\ contended' = IF AtWork(m) THEN contended \cup {m} ELSE contended \ {m}
  BY DEF upsertMessage
<1>3. SearchOf(m)'
  <2> SUFFICES ASSUME ~AtWork(m) PROVE SearchOf(m)'
    BY <1>2 DEF SearchOf
  <2>1. EditsOf(m)' = {} /\ \A t \in Texts : <<m, t>> \notin backfill'.pending
    BY <1>2, NobodyElse DEF EditsOf
  <2>2. \A t \in Texts : <<m, t>> \in fts' => t = body
    BY <1>2 DEF WithoutEntry, EntriesFor
  <2> QED BY <1>1, <2>1, <2>2 DEF SearchOf, OneEdit, Accurate
<1>4. ASSUME NEW n \in Msgs \ {m} PROVE SearchOf(n)'
  <2>1. \A t \in Texts : <<n, t>> \in fts' => <<n, t>> \in fts
    BY <1>2 DEF WithoutEntry, EntriesFor
  <2>2. HalfEdited' = HalfEdited
    BY <1>2 DEF HalfEdited
  <2>3. n \in contended => n \in contended'
    BY <1>2
  <2> QED BY <1>1, <1>2, <2>1, <2>2, <2>3, SearchKept DEF SearchInv
<1> QED BY <1>2, <1>3, <1>4 DEF SearchInv

LEMMA EditBeginKeepsSearchInv ==
    ASSUME ArchiveTypeOK, SearchInv, NEW e \in Editors, NEW m \in Msgs, NEW body \in Payloads,
           editMessageInDB(e, m, body)
    PROVE  SearchInv'
<1>1. /\ boot = "up" /\ edit[e] = Idle /\ messages[m] # NoRow /\ UNCHANGED <<messages, fts, boot, backfill>>
      /\ edit' = [edit EXCEPT ![e] = [pc |-> "update", msg |-> m, body |-> body]]
      /\ contended' = IF AtWork(m) \/ body = NoText THEN contended \cup {m} ELSE contended
  BY DEF editMessageInDB, Stored
<1>2. /\ edit'[e].pc = "update" /\ edit'[e].msg = m /\ edit'[e].body = body
      /\ \A o \in Editors \ {e} : edit'[o] = edit[o]
      /\ edit[e].pc = "idle"
  BY <1>1 DEF ArchiveTypeOK, Idle
<1>3. HalfEdited' = HalfEdited
  BY <1>2 DEF HalfEdited
<1>4. SearchOf(m)'
  <2> SUFFICES ASSUME ~AtWork(m), body # NoText, m \notin contended PROVE SearchOf(m)'
    BY <1>1 DEF SearchOf
  <2>1. EditsOf(m) = {} /\ \A t \in Texts : <<m, t>> \notin backfill.pending
    BY NobodyElse
  <2>2. EditsOf(m)' = {e} /\ body \in Texts
    BY <1>2, <2>1 DEF EditsOf, Payloads
  <2>3. OneEdit(m)'
    BY <1>1, <1>2, <2>1, <2>2 DEF OneEdit
  <2>4. \A t \in Texts : <<m, t>> \in fts' => Accurate(m, t)' \/ m \in HalfEdited'
    BY <1>1, <1>3 DEF SearchInv, SearchOf, Accurate
  <2> QED BY <1>1, <2>1, <2>3, <2>4 DEF SearchOf
<1>5. ASSUME NEW n \in Msgs \ {m} PROVE SearchOf(n)'
  <2>1. \A o \in Editors : edit'[o].pc # "idle" /\ edit'[o].msg = n => edit'[o] = edit[o]
    BY <1>2
  <2> QED BY <1>1, <1>3, <2>1, SearchKept DEF SearchInv
<1> QED BY <1>1, <1>4, <1>5 DEF SearchInv

\* The texts of a page are those the rows have, and who is being edited is
\* contended from then on.
LEMMA ScanKeepsSearchInv ==
    ASSUME ArchiveTypeOK, SearchInv, NEW page \in SUBSET Msgs, BackfillScan(page)
    PROVE  SearchInv'
<1> DEFINE found == {<<n, messages[n].body>> : n \in {k \in page : HasText(k)}}
<1>1. /\ UNCHANGED <<messages, fts, boot, edit>>
      /\ contended' = contended \cup {m \in page : HasText(m) /\ Editing(m)}
      /\ backfill'.pending = found
  BY DEF BackfillScan
<1>2. HalfEdited' = HalfEdited
  BY <1>1 DEF HalfEdited
<1>3. ASSUME NEW m \in Msgs, m \notin contended' PROVE SearchOf(m)'
  <2>1. ASSUME NEW t \in Texts, <<m, t>> \in found
        PROVE  Accurate(m, t) /\ m \in page /\ HasText(m)
    BY <2>1 DEF HasText, Stored, Accurate
  <2>2. \A t \in Texts : <<m, t>> \in backfill'.pending => Accurate(m, t)' /\ EditsOf(m)' = {}
    BY <1>1, <1>3, <2>1 DEF Accurate, Editing, EditsOf
  <2>3. EditsOf(m)' = EditsOf(m)
    BY <1>1 DEF EditsOf
  <2>4. OneEdit(m)'
    BY <1>1, <1>3, <2>2, <2>3 DEF SearchInv, SearchOf, OneEdit
  <2>5. \A t \in Texts : <<m, t>> \in fts' => Accurate(m, t)' \/ m \in HalfEdited'
    BY <1>1, <1>2, <1>3 DEF SearchInv, SearchOf, Accurate
  <2> QED BY <2>2, <2>4, <2>5 DEF SearchOf
<1>4. \A m \in Msgs : SearchOf(m)'
  BY <1>3 DEF SearchOf
<1> QED BY <1>1, <1>4 DEF SearchInv

LEMMA EditKeepsSearchInv ==
    ASSUME ArchiveTypeOK, SearchInv, NEW e \in Editors, EditUpdate(e) \/ EditUnindex(e) \/ EditIndex(e)
    PROVE  SearchInv'
<1>1. edit[e] \in [pc : {"update", "unindex", "index"}, msg : Msgs, body : Payloads] /\ edit[e].pc # "idle"
  BY EditLocals DEF EditUpdate, EditUnindex, EditIndex
<1> PICK m \in Msgs : edit[e].msg = m
  BY <1>1
<1>2. e \in EditsOf(m) /\ UNCHANGED <<boot, backfill, contended>>
  BY <1>1 DEF EditsOf, EditUpdate, EditUnindex, EditIndex
<1>3. PICK next \in {Idle} \cup [pc : {"unindex", "index"}, msg : {m}, body : {edit[e].body}] :
         edit' = [edit EXCEPT ![e] = next]
  <2>1. \A p \in {"unindex", "index"} :
          [edit[e] EXCEPT !.pc = p] \in [pc : {"unindex", "index"}, msg : {m}, body : {edit[e].body}]
    BY <1>1
  <2>2. edit' = [edit EXCEPT ![e] = Idle] \/ \E p \in {"unindex", "index"} : edit' = [edit EXCEPT ![e] = [edit[e] EXCEPT !.pc = p]]
    BY DEF EditUpdate, EditUnindex, EditIndex
  <2> QED BY <2>1, <2>2
<1>4. edit'[e] = next /\ \A o \in Editors \ {e} : edit'[o] = edit[o]
  BY <1>3 DEF ArchiveTypeOK
<1>5. boot # "up" => \A o \in Editors : edit'[o].pc = "idle"
  BY <1>1 DEF SearchInv
\* Other messages.
<1>6. ASSUME NEW n \in Msgs \ {m} PROVE SearchOf(n)'
  <2>1. messages'[n] = messages[n] /\ \A t \in Texts : <<n, t>> \in fts' => <<n, t>> \in fts
    BY <1>1 DEF EditUpdate, EditUnindex, EditIndex, WithoutEntry, EntriesFor, ArchiveTypeOK
  <2>2. \A o \in Editors : edit'[o].pc # "idle" /\ edit'[o].msg = n => edit'[o] = edit[o]
    BY <1>4 DEF Idle
  <2>3. n \in HalfEdited => n \in HalfEdited'
    BY <1>4 DEF HalfEdited
  <2> QED BY <1>2, <2>1, <2>2, <2>3, SearchKept DEF SearchInv
\* The message of the edit.
<1>7. ASSUME m \notin contended PROVE SearchOf(m)'
  <2>1. /\ \A t \in Texts : <<m, t>> \in fts => Accurate(m, t) \/ m \in HalfEdited
        /\ messages[m] # NoRow /\ edit[e].body \in Texts
        /\ edit[e].pc \in {"unindex", "index"} => messages[m].body = edit[e].body
        /\ edit[e].pc = "index" => \A t \in Texts : <<m, t>> \notin fts
        /\ \A t \in Texts : <<m, t>> \notin backfill.pending
        /\ EditsOf(m) = {e}
    BY <1>2, <1>7 DEF SearchInv, SearchOf, OneEdit
  <2>2. EditsOf(m)' \subseteq {e}
    BY <1>4, <2>1 DEF EditsOf
  <2>3. \A t \in Texts : <<m, t>> \notin backfill'.pending
    BY <1>2, <2>1
  <2>4. CASE EditUpdate(e)
    <3>1. messages[m] \in Row /\ edit[e].body # NoText /\ m \in Stored
      BY <2>1, ArchiveAssumption DEF ArchiveTypeOK, Stored
    <3>2. /\ messages' = [messages EXCEPT ![m] = [messages[m] EXCEPT !.body = edit[e].body]]
          /\ edit' = [edit EXCEPT ![e] = [edit[e] EXCEPT !.pc = "unindex"]] /\ fts' = fts
      BY <2>4, <3>1 DEF EditUpdate
    <3>3. messages'[m] # NoRow /\ messages'[m].body = edit[e].body
      <4>1. [messages[m] EXCEPT !.body = edit[e].body] \in Row
        BY <1>1, <3>1, RowUpdates DEF Row
      <4> QED BY <3>1, <3>2, <4>1, ArchiveAssumption DEF ArchiveTypeOK, Row
    <3>4. edit'[e].pc = "unindex" /\ edit'[e].msg = m /\ edit'[e].body = edit[e].body
      BY <1>1, <3>2 DEF ArchiveTypeOK
    <3>5. m \in HalfEdited' /\ EditsOf(m)' = {e}
      BY <2>2, <3>4 DEF HalfEdited, EditsOf
    <3> QED BY <2>1, <2>3, <3>3, <3>4, <3>5 DEF SearchOf, OneEdit
  <2>5. CASE EditUnindex(e)
    <3>1. messages' = messages /\ edit[e].pc = "unindex" /\ fts' = WithoutEntry(m)
          /\ edit' = [edit EXCEPT ![e] = [edit[e] EXCEPT !.pc = "index"]]
      BY <2>5 DEF EditUnindex
    <3>2. edit'[e].pc = "index" /\ edit'[e].msg = m /\ edit'[e].body = edit[e].body
      BY <1>1, <3>1 DEF ArchiveTypeOK
    <3>3. EditsOf(m)' = {e} /\ \A t \in Texts : <<m, t>> \notin fts'
      BY <2>2, <3>1, <3>2 DEF EditsOf, WithoutEntry
    <3> QED BY <2>1, <2>3, <3>1, <3>2, <3>3 DEF SearchOf, OneEdit
  <2>6. CASE EditIndex(e)
    <3>1. messages' = messages /\ edit[e].pc = "index" /\ edit' = [edit EXCEPT ![e] = Idle]
          /\ fts' = fts \cup EntriesFor(m, edit[e].body)
      BY <2>6 DEF EditIndex
    <3>2. edit'[e].pc = "idle"
      BY <3>1 DEF Idle, ArchiveTypeOK
    <3>3. EditsOf(m)' = {}
      BY <2>2, <3>2 DEF EditsOf
    <3>4. \A t \in Texts : <<m, t>> \in fts' => Accurate(m, t)'
      BY <2>1, <3>1 DEF EntriesFor, Accurate
    <3> QED BY <2>3, <3>3, <3>4 DEF SearchOf, OneEdit
  <2> QED BY <2>4, <2>5, <2>6
<1>8. SearchOf(m)'
  BY <1>2, <1>7 DEF SearchOf
<1> QED BY <1>2, <1>5, <1>6, <1>8 DEF SearchInv

LEMMA SearchStep == ArchiveTypeOK /\ SearchInv /\ [ArchiveNext]_archiveVars => SearchInv'
<1> SUFFICES ASSUME ArchiveTypeOK, SearchInv, [ArchiveNext]_archiveVars PROVE SearchInv'
  OBVIOUS
<1>1. ASSUME UNCHANGED <<fts, backfill, edit, contended>>, boot' \in {boot, "purge"}, boot # "up" \/ boot' = boot,
             \A m \in Msgs : messages[m] # NoRow =>
                messages'[m] # NoRow /\ messages'[m].body = messages[m].body
      PROVE  SearchInv'
  <2>1. HalfEdited' = HalfEdited
    BY <1>1 DEF HalfEdited
  <2>2. \A m \in Msgs : SearchOf(m)'
    BY <1>1, <2>1, SearchKept DEF SearchInv
  <2> QED BY <1>1, <2>2 DEF SearchInv
<1>2. CASE backfillReceipt
  <2>1. ASSUME NEW m \in Msgs, messages[m] # NoRow
        PROVE  messages'[m] # NoRow /\ messages'[m].body = messages[m].body
    <3>1. messages[m] \in Row /\ [messages[m] EXCEPT !.receipt = "delivered"] \in Row
      BY <2>1 DEF ArchiveTypeOK, Row, Receipts
    <3> QED BY <1>2, <2>1, <3>1, ArchiveAssumption DEF backfillReceipt, Row
  <2> QED BY <1>1, <1>2, <2>1 DEF backfillReceipt
<1>3. ASSUME NEW ids \in SUBSET Msgs, NEW status \in {"delivered", "read", "played"},
              UpdateReceiptStatus(ids, status)
       PROVE  SearchInv'
  <2>1. ASSUME NEW m \in Msgs, messages[m] # NoRow
        PROVE  messages'[m] # NoRow /\ messages'[m].body = messages[m].body
    <3>1. messages[m] \in Row /\ [messages[m] EXCEPT !.receipt = status] \in Row
      BY <2>1 DEF ArchiveTypeOK, Row, Receipts
    <3> QED BY <1>3, <2>1, <3>1, ArchiveAssumption DEF UpdateReceiptStatus, Row
  <2> QED BY <1>1, <1>3, <2>1 DEF UpdateReceiptStatus
<1>4. CASE purgeInvisibleProtocolMessages
  <2>1. /\ boot = "purge" /\ UNCHANGED <<fts, backfill, edit, contended>>
        /\ \A m \in Msgs : messages'[m] = IF messages[m] # NoRow /\ messages[m].body = Control THEN NoRow ELSE messages[m]
    BY <1>4 DEF purgeInvisibleProtocolMessages, Stored
  <2>2. \A e \in Editors : edit[e].pc = "idle" /\ edit'[e].pc = "idle"
    BY <2>1 DEF SearchInv
  <2>3. ASSUME NEW m \in Msgs, m \notin contended PROVE SearchOf(m)'
    <3>1. m \notin HalfEdited /\ EditsOf(m)' = {}
      BY <2>2 DEF HalfEdited, EditsOf
    <3>2. \A t \in Texts : Accurate(m, t) => Accurate(m, t)'
      BY <2>1, ArchiveAssumption DEF Accurate, Payloads
    <3> QED BY <2>1, <2>3, <3>1, <3>2 DEF SearchInv, SearchOf, OneEdit
  <2>4. \A m \in Msgs : SearchOf(m)'
    BY <2>1, <2>3 DEF SearchOf
  <2> QED BY <2>2, <2>4 DEF SearchInv
<1>5. CASE purgeOrphanEntries
  <2>1. UNCHANGED <<messages, backfill, edit, contended>> /\ fts' \subseteq fts /\ boot # "up"
    BY <1>5 DEF purgeOrphanEntries
  <2>2. HalfEdited' = HalfEdited
    BY <2>1 DEF HalfEdited
  <2>3. \A m \in Msgs : SearchOf(m)'
    BY <2>1, <2>2, SearchKept DEF SearchInv
  <2> QED BY <2>1, <2>3 DEF SearchInv
<1>6. CASE BackfillStart \/ BackfillEnd \/ BackfillMark
  <2>1. UNCHANGED <<messages, fts, boot, edit, contended>> /\ backfill'.pending \subseteq backfill.pending
    BY <1>6 DEF BackfillStart, BackfillEnd, BackfillMark, ArchiveTypeOK
  <2>2. HalfEdited' = HalfEdited
    BY <2>1 DEF HalfEdited
  <2>3. \A m \in Msgs : SearchOf(m)'
    BY <2>1, <2>2, SearchKept DEF SearchInv
  <2> QED BY <2>1, <2>3 DEF SearchInv
<1>7. CASE BackfillInsert
  <2>1. UNCHANGED <<messages, boot, edit, contended>> /\ backfill'.pending = {} /\ fts' = fts \cup backfill.pending
    BY <1>7 DEF BackfillInsert, ArchiveTypeOK
  <2>2. HalfEdited' = HalfEdited
    BY <2>1 DEF HalfEdited
  <2>3. ASSUME NEW m \in Msgs, m \notin contended PROVE SearchOf(m)'
    <3>1. EditsOf(m)' = EditsOf(m)
      BY <2>1 DEF EditsOf
    <3>2. \A t \in Texts : <<m, t>> \in fts' => Accurate(m, t)' \/ m \in HalfEdited'
      BY <2>1, <2>2, <2>3 DEF SearchInv, SearchOf, Accurate
    <3>3. OneEdit(m)'
      BY <2>1, <2>3, <3>1 DEF SearchInv, SearchOf, OneEdit
    <3> QED BY <2>1, <3>2, <3>3 DEF SearchOf
  <2>4. \A m \in Msgs : SearchOf(m)'
    BY <2>1, <2>3 DEF SearchOf
  <2> QED BY <2>1, <2>4 DEF SearchInv
<1>8. ASSUME NEW m \in Msgs, DeleteMessage(m) PROVE SearchInv'
  <2>1. /\ messages' = [messages EXCEPT ![m] = NoRow] /\ fts' = WithoutEntry(m)
        /\ contended' = (IF AtWork(m) THEN contended \cup {m} ELSE contended \ {m})
        /\ UNCHANGED <<boot, backfill, edit>>
    BY <1>8 DEF DeleteMessage
  <2>2. HalfEdited' = HalfEdited
    BY <2>1 DEF HalfEdited
  <2>3. ASSUME NEW n \in Msgs \ {m} PROVE SearchOf(n)'
    <3>1. messages'[n] = messages[n] /\ (n \in contended => n \in contended')
          /\ \A t \in Texts : <<n, t>> \in fts' => <<n, t>> \in fts
      BY <2>1 DEF ArchiveTypeOK, WithoutEntry
    <3> QED BY <2>1, <2>2, <3>1, SearchKept DEF SearchInv
  <2>4. SearchOf(m)'
    <3> SUFFICES ASSUME ~AtWork(m) PROVE SearchOf(m)'
      BY <2>1 DEF SearchOf
    <3>1. EditsOf(m)' = {} /\ \A t \in Texts : <<m, t>> \notin backfill'.pending
      BY <2>1, NobodyElse DEF EditsOf
    <3>2. \A t \in Texts : <<m, t>> \notin fts'
      BY <2>1 DEF WithoutEntry
    <3> QED BY <3>1, <3>2 DEF SearchOf, OneEdit
  <2> QED BY <2>1, <2>3, <2>4 DEF SearchInv
<1>9. CASE Crash
  <2>1. /\ UNCHANGED <<messages, fts>> /\ backfill'.pending = {} /\ contended' = contended \cup HalfEdited
        /\ \A e \in Editors : edit'[e].pc = "idle"
    BY <1>9 DEF Crash, Restart, Idle
  <2>2. \A m \in Msgs : SearchOf(m)'
    BY <2>1, SearchKept DEF SearchInv
  <2> QED BY <2>1, <2>2 DEF SearchInv
<1>10. CASE Logout
  <2>1. PICK survivors \in SUBSET {e \in Editors : edit[e].pc = "unindex"} :
          /\ edit' = [e \in Editors |-> IF e \in survivors THEN edit[e] ELSE Idle]
          /\ contended' = {m \in Msgs : \E e \in survivors : edit[e].msg = m}
    BY <1>10 DEF Logout
  <2>2. boot = "up" /\ boot' = boot /\ fts' = {} /\ backfill'.pending = {}
    BY <1>10 DEF Logout, Restart
  <2>3. ASSUME NEW m \in Msgs, m \notin contended' PROVE EditsOf(m)' = {}
    BY <2>1, <2>3 DEF EditsOf, Idle
  <2>4. \A m \in Msgs : SearchOf(m)'
    BY <2>2, <2>3 DEF SearchOf, OneEdit
  <2> QED BY <2>2, <2>4 DEF SearchInv
<1>11. CASE UNCHANGED archiveVars
  BY <1>1, <1>11 DEF archiveVars
<1>12. ASSUME NEW m \in Msgs, NEW body \in Payloads,
              ReceiveMessage(m, body) \/ HistoryMessage(m, body) \/ SendMessage(m, body)
       PROVE  SearchInv'
  BY <1>12, UpsertKeepsSearchInv DEF ReceiveMessage, HistoryMessage, SendMessage, Receipts
<1>13. ASSUME NEW m \in Msgs, NEW body \in Payloads, handleEditMessage(m, body) \/ ReceiveEdit(m, body)
       PROVE  SearchInv'
  BY <1>13, EditBeginKeepsSearchInv DEF handleEditMessage, ReceiveEdit, Editors
<1>14. Texts \subseteq Payloads
  BY DEF Payloads
<1> QED
  BY <1>2, <1>3, <1>4, <1>5, <1>6, <1>7, <1>8, <1>9, <1>10, <1>11, <1>12, <1>13, <1>14,
     ScanKeepsSearchInv, EditKeepsSearchInv DEF ArchiveNext, LoadState, Backfill, Edit

\* A search hit is a stored message with its present text, in an archive of
\* any size, unless two writers of its entry overlapped, a crash cut one, or an
\* edit removed its text.
THEOREM HitsAreTrue == ArchiveSpec => []SearchTruthful
<1>1. ArchiveInit => SearchInv
  BY DEF ArchiveInit, SearchInv, SearchOf, OneEdit, EditsOf, Idle
<1>2. ArchiveTypeOK /\ SearchInv => SearchTruthful
  <2> SUFFICES ASSUME ArchiveTypeOK, SearchInv, NEW x \in fts
               PROVE  \/ x[1] \in Stored /\ messages[x[1]].body = x[2]
                      \/ Editing(x[1])
                      \/ x[1] \in contended
    BY DEF SearchTruthful
  <2>1. PICK m \in Msgs, t \in Texts : x = <<m, t>>
    BY DEF ArchiveTypeOK
  <2>2. m \in contended \/ Accurate(m, t) \/ m \in HalfEdited
    BY <2>1 DEF SearchInv, SearchOf
  <2>3. m \in HalfEdited => Editing(m)
    BY DEF HalfEdited, Editing
  <2> QED BY <2>1, <2>2, <2>3 DEF Accurate, Stored
<1> QED BY <1>1, <1>2, ArchiveTypeCorrect, SearchStep, PTL DEF ArchiveSpec

-----------------------------------------------------------------------------
(* ChatFlags: pins and archived chats. *)

Fields == {"pins", "archives"}

-----------------------------------------------------------------------------
(* Types, in full: what the fields of the records are.                       *)

Jobs == {NoJob} \cup [step : {"apply"}, change : Change]
                \cup [step : {"unpin"}, change : Change, changed : BOOLEAN]
Downloads == [step : {"fetch", "pins", "archives"}, todo : Flags, seen : Flags, changed : BOOLEAN]
Resyncs == {NoJob, [step |-> "start"]} \cup Downloads
Gets == [pins : SUBSET Chats, archives : SUBSET Chats, read : BOOLEAN, passed : BOOLEAN]

FlagsTypes ==
    /\ phone \in Flags /\ table \in Flags /\ list \in Flags
    /\ pushed \in Seq(Change) /\ gets \in Seq(Gets) /\ notices \in Nat
    /\ job \in [{"event", "request"} -> Jobs] /\ resync \in Resyncs
    /\ online \in BOOLEAN /\ flagsResynced \in BOOLEAN /\ synced \in BOOLEAN
    /\ late \subseteq Chats /\ outrun \in BOOLEAN /\ silent \in BOOLEAN

-----------------------------------------------------------------------------
(* The tables and the phone.                                                 *)

\* One resync for a process, and the tables are in step only after it.
OneResync ==
    /\ resync # NoJob => flagsResynced /\ ~synced
    /\ synced => flagsResynced
    /\ resync.step \in {"pins", "archives"} => resync.todo = NoFlags

\* The goroutine of the events holds a change that it will write.
InEvent(field, chat) ==
    /\ job["event"].step \in {"apply", "unpin"} /\ job["event"].change.chat = chat
    /\ IF job["event"].step = "unpin" THEN field = "pins"
       ELSE IF job["event"].change.kind = "pin" THEN field = "pins"
       ELSE field = "archives" \/ job["event"].change.on

\* The resync will write the flag, or prune it.
InResync(field, chat) ==
    /\ resync.step \in {"fetch", "pins"} \/ (resync.step = "archives" /\ field = "archives")
    /\ \/ chat \in phone[field] /\ chat \in resync.todo[field]
       \/ chat \notin phone[field] /\ chat \in table[field]
          /\ chat \notin resync.todo[field] /\ chat \notin resync.seen[field]

Agrees(field, chat) == chat \in table[field] <=> chat \in phone[field]

\* From the moment of the download on, a flag that differs from the phone's is
\* one that somebody is about to write, or one that was written late.
WillAgree ==
    synced \/ resync.step \in {"fetch", "pins", "archives"} =>
      \A c \in Chats \ late : \A field \in Fields :
        Agrees(field, c) \/ Awaited(field, c) \/ InEvent(field, c) \/ InResync(field, c)

-----------------------------------------------------------------------------
(* The list and the tables.                                                  *)

\* A change that is in the tables and will be told of by the goroutine.
Untold ==
    \/ \E g \in {"event", "request"} : job[g].step = "unpin" /\ job[g].changed
    \/ resync.step = "archives" /\ resync.changed

Newest == gets[Len(gets)]

\* When everything was told, the GET that was asked last read the tables as
\* they are, or a newer one was shown before it.
ListInv ==
    flagsResynced /\ notices = 0 /\ ~silent /\ ~Untold =>
      /\ Len(gets) = 0 => outrun \/ list = Shown(table)
      /\ Len(gets) # 0 /\ ~Newest.passed =>
            /\ Newest.pins = table.pins
            /\ Newest.read => Newest.archives = table.archives

FlagsInv == FlagsTypes /\ OneResync /\ WillAgree /\ ListInv

-----------------------------------------------------------------------------
(* Records.                                                                  *)

LEMMA FlagsAreSets ==
    ASSUME NEW f \in Flags
    PROVE  /\ f = [pins |-> f.pins, archives |-> f.archives]
           /\ f.pins \subseteq Chats /\ f.archives \subseteq Chats
           /\ f["pins"] = f.pins /\ f["archives"] = f.archives
  BY DEF Flags

LEMMA FlagsOf ==
    ASSUME NEW S \in SUBSET Chats, NEW T \in SUBSET Chats
    PROVE  [pins |-> S, archives |-> T] \in Flags
  BY DEF Flags

LEMMA FlagWrites ==
    ASSUME NEW f \in Flags, NEW field \in Fields, NEW S \in SUBSET Chats
    PROVE  /\ [f EXCEPT ![field] = S] \in Flags
           /\ [f EXCEPT ![field] = S][field] = S
           /\ \A other \in Fields : other # field => [f EXCEPT ![field] = S][other] = f[other]
<1>1. CASE field = "pins"
  BY <1>1 DEF Flags, Fields
<1>2. CASE field = "archives"
  BY <1>2 DEF Flags, Fields
<1> QED BY <1>1, <1>2 DEF Fields

LEMMA FlagMoves ==
    ASSUME NEW f \in Flags, NEW field \in Fields, NEW c \in Chats
    PROVE  /\ [f EXCEPT ![field] = @ \ {c}] \in Flags
           /\ [f EXCEPT ![field] = @ \cup {c}] \in Flags
           /\ \A g \in Fields, d \in Chats : g # field \/ d # c =>
                /\ d \in [f EXCEPT ![field] = @ \ {c}][g] <=> d \in f[g]
                /\ d \in [f EXCEPT ![field] = @ \cup {c}][g] <=> d \in f[g]
<1>1. CASE field = "pins"
  BY <1>1 DEF Flags, Fields
<1>2. CASE field = "archives"
  BY <1>2 DEF Flags, Fields
<1> QED BY <1>1, <1>2 DEF Fields

LEMMA NoFlagsIs == NoFlags \in Flags /\ NoFlags.pins = {} /\ NoFlags.archives = {}
  BY DEF NoFlags, Flags

LEMMA ShownIsFlags ==
    ASSUME NEW f \in Flags
    PROVE  Shown(f) \in Flags
  BY DEF Shown, Flags

\* A change covers a flag of a chat: applying it writes that flag.
Covers(e, field, chat) ==
    /\ e.chat = chat
    /\ IF e.kind = "pin" THEN field = "pins" ELSE field = "archives" \/ e.on

LEMMA AfterIs ==
    ASSUME NEW f \in Flags, NEW e \in Change
    PROVE  /\ After(f, e) \in Flags
           /\ \A field \in Fields : \A c \in Chats :
                ~Covers(e, field, c) => (c \in After(f, e)[field] <=> c \in f[field])
<1> DEFINE g == After(f, e)
<1>1. CASE e.kind = "pin"
  <2>1. g = [f EXCEPT !.pins = Put(f.pins, e.chat, e.on)]
    BY <1>1 DEF After
  <2>2. Put(f.pins, e.chat, e.on) \in SUBSET Chats
    BY DEF Put, Flags, Change
  <2>3. g \in Flags /\ g["pins"] = Put(f.pins, e.chat, e.on) /\ g["archives"] = f["archives"]
    BY <2>1, <2>2 DEF Flags
  <2>4. \A c \in Chats : c # e.chat => (c \in g["pins"] <=> c \in f["pins"])
    BY <2>3 DEF Put, Flags
  <2> QED BY <1>1, <2>3, <2>4 DEF Covers, Fields
<1>2. CASE e.kind # "pin"
  <2> DEFINE P == IF e.on THEN f.pins \ {e.chat} ELSE f.pins
             A == Put(f.archives, e.chat, e.on)
  <2>1. g = [pins |-> P, archives |-> A]
    BY <1>2 DEF After
  <2>2. P \in SUBSET Chats /\ A \in SUBSET Chats
    BY DEF Put, Flags, Change
  <2>3. g \in Flags /\ g["pins"] = P /\ g["archives"] = A
    <3> HIDE DEF P, A
    <3> QED BY <2>1, <2>2 DEF Flags
  <2>4. \A c \in Chats : c # e.chat => (c \in g["archives"] <=> c \in f["archives"])
    BY <2>3 DEF Put, Flags
  <2>5. \A c \in Chats : c # e.chat \/ ~e.on => (c \in g["pins"] <=> c \in f["pins"])
    BY <2>3 DEF Flags
  <2> QED BY <1>2, <2>3, <2>4, <2>5 DEF Covers, Fields
<1> QED BY <1>1, <1>2

LEMMA JobKinds ==
    ASSUME NEW e \in Change, NEW b \in BOOLEAN
    PROVE  /\ NoJob \in Jobs /\ NoJob \in Resyncs /\ [step |-> "start"] \in Resyncs
           /\ [step |-> "apply", change |-> e] \in Jobs
           /\ [step |-> "unpin", change |-> e, changed |-> b] \in Jobs
  BY DEF Jobs, Resyncs, NoJob

LEMMA JobFields ==
    ASSUME NEW j \in Jobs
    PROVE  /\ j.step \in {"idle", "apply", "unpin"}
           /\ j.step \in {"apply", "unpin"} => j.change \in Change
           /\ j.step = "unpin" => j.changed \in BOOLEAN
           /\ j.step = "idle" => j = NoJob
  BY DEF Jobs, NoJob

LEMMA ResyncFields ==
    ASSUME NEW r \in Resyncs
    PROVE  /\ r.step \in {"idle", "start", "fetch", "pins", "archives"}
           /\ r.step \in {"fetch", "pins", "archives"} => r \in Downloads
           /\ r.step = "idle" => r = NoJob
           /\ r = NoJob => r.step = "idle"
  BY DEF Resyncs, NoJob, Downloads

LEMMA DownloadFields ==
    ASSUME NEW r \in Downloads
    PROVE  /\ r \in Resyncs /\ r.todo \in Flags /\ r.seen \in Flags /\ r.changed \in BOOLEAN
           /\ r.step \in {"fetch", "pins", "archives"}
           /\ r = [step |-> r.step, todo |-> r.todo, seen |-> r.seen, changed |-> r.changed]
  BY DEF Resyncs, Downloads

-----------------------------------------------------------------------------
(* The events on their way, and the writes.                                  *)

LEMMA AwaitedIs ==
    ASSUME NEW f, NEW c
    PROVE  Awaited(f, c) <=> \E i \in DOMAIN pushed : Covers(pushed[i], f, c)
  BY DEF Awaited, Covers

LEMMA EventsGrow ==
    ASSUME pushed \in Seq(Change), NEW e \in Change, pushed' = Append(pushed, e), NEW f, NEW c
    PROVE  /\ pushed' \in Seq(Change)
           /\ Awaited(f, c)' <=> Awaited(f, c) \/ Covers(e, f, c)
<1>1. /\ DOMAIN pushed = 1 .. Len(pushed) /\ DOMAIN pushed' = 1 .. Len(pushed) + 1
      /\ pushed'[Len(pushed) + 1] = e
      /\ \A i \in 1 .. Len(pushed) : pushed'[i] = pushed[i]
      /\ pushed' \in Seq(Change) /\ Len(pushed) \in Nat
  OBVIOUS
<1>2. Awaited(f, c)' <=> \E i \in DOMAIN pushed' : Covers(pushed'[i], f, c)
  BY DEF Awaited, Covers
<1>3. Awaited(f, c) <=> \E i \in DOMAIN pushed : Covers(pushed[i], f, c)
  BY AwaitedIs
<1> QED BY <1>1, <1>2, <1>3

LEMMA EventTaken ==
    ASSUME pushed \in Seq(Change), pushed # <<>>, pushed' = Tail(pushed), NEW f, NEW c
    PROVE  /\ pushed' \in Seq(Change) /\ Head(pushed) \in Change
           /\ Awaited(f, c) => Awaited(f, c)' \/ Covers(Head(pushed), f, c)
<1>1. /\ DOMAIN pushed = 1 .. Len(pushed) /\ DOMAIN pushed' = 1 .. Len(pushed) - 1
      /\ Head(pushed) = pushed[1] /\ Len(pushed) \in Nat
      /\ \A i \in 1 .. Len(pushed) - 1 : pushed'[i] = pushed[i + 1]
      /\ pushed' \in Seq(Change) /\ Head(pushed) \in Change
  OBVIOUS
<1>2. Awaited(f, c)' <=> \E i \in DOMAIN pushed' : Covers(pushed'[i], f, c)
  BY DEF Awaited, Covers
<1>3. Awaited(f, c) <=> \E i \in DOMAIN pushed : Covers(pushed[i], f, c)
  BY AwaitedIs
<1>4. ASSUME NEW i \in 1 .. Len(pushed), Covers(pushed[i], f, c), i # 1
      PROVE  i - 1 \in 1 .. Len(pushed) - 1 /\ pushed'[i - 1] = pushed[i]
  BY <1>1, <1>4
<1> QED BY <1>1, <1>2, <1>3, <1>4

LEMMA WriteIs ==
    ASSUME FlagsTypes, NEW field \in Fields, NEW chat \in Chats, NEW on,
           Write(field, chat, on), UNCHANGED <<phone, pushed>>
    PROVE  /\ table' \in Flags /\ late' \subseteq Chats /\ late \subseteq late'
           /\ \A f \in Fields, c \in Chats :
                f # field \/ c # chat => (c \in table'[f] <=> c \in table[f])
           /\ chat \notin late' => Agrees(field, chat)' \/ Awaited(field, chat)'
<1> DEFINE S == Put(table[field], chat, on)
<1>1. S \in SUBSET Chats /\ \A c \in Chats : c # chat => (c \in S <=> c \in table[field])
  BY FlagsAreSets DEF FlagsTypes, Put, Fields
<1>2. table' = [table EXCEPT ![field] = S]
  BY DEF Write
<1>3. /\ table' \in Flags /\ table'[field] = S
      /\ \A other \in Fields : other # field => table'[other] = table[other]
  <2> HIDE DEF S
  <2>1. table \in Flags /\ S \in SUBSET Chats
    BY <1>1 DEF FlagsTypes
  <2>2. /\ [table EXCEPT ![field] = S] \in Flags
        /\ [table EXCEPT ![field] = S][field] = S
        /\ \A other \in Fields : other # field => [table EXCEPT ![field] = S][other] = table[other]
    BY <2>1, FlagWrites
  <2> QED BY <1>2, <2>2, Zenon
<1>4. late' \subseteq Chats /\ late \subseteq late'
  BY DEF Write, FlagsTypes
<1>5. ASSUME chat \notin late' PROVE Agrees(field, chat)' \/ Awaited(field, chat)'
  <2>1. chat \notin Astray(field, table')
    BY <1>5 DEF Write
  <2>2. Awaited(field, chat)' <=> Awaited(field, chat)
    BY DEF Awaited
  <2> QED BY <2>1, <2>2 DEF Astray, Agrees
<1> QED BY <1>1, <1>3, <1>4, <1>5

\* What a step may do to the flags that it does not write.
LEMMA WrittenAgree ==
    ASSUME FlagsTypes, WillAgree, NEW field \in Fields, NEW chat \in Chats, NEW on,
           Write(field, chat, on), UNCHANGED <<phone, pushed, synced>>,
           resync'.step = resync.step,
           \A f \in Fields, c \in Chats :
              f # field \/ c # chat => /\ InEvent(f, c) => InEvent(f, c)'
                                       /\ InResync(f, c) => InResync(f, c)'
    PROVE  WillAgree'
<1> SUFFICES ASSUME synced \/ resync.step \in {"fetch", "pins", "archives"},
                    NEW c \in Chats \ late', NEW f \in Fields
             PROVE  Agrees(f, c)' \/ Awaited(f, c)' \/ InEvent(f, c)' \/ InResync(f, c)'
  BY DEF WillAgree
<1>1. CASE f = field /\ c = chat
  BY <1>1, WriteIs
<1>2. CASE f # field \/ c # chat
  <2>1. c \in Chats \ late /\ (c \in table'[f] <=> c \in table[f])
    BY <1>2, WriteIs
  <2>2. Agrees(f, c) \/ Awaited(f, c) \/ InEvent(f, c) \/ InResync(f, c)
    BY <2>1 DEF WillAgree
  <2>3. (Awaited(f, c)' <=> Awaited(f, c)) /\ (Agrees(f, c)' <=> Agrees(f, c))
    BY <2>1 DEF Awaited, Agrees
  <2> QED BY <1>2, <2>1, <2>2, <2>3
<1> QED BY <1>1, <1>2

\* A step that leaves the tables and whoever writes them alone.
LEMMA Untouched ==
    ASSUME WillAgree, UNCHANGED <<table, late, phone, pushed, synced, resync>>,
           job'["event"] = job["event"]
    PROVE  WillAgree'
<1> SUFFICES ASSUME synced \/ resync.step \in {"fetch", "pins", "archives"},
                    NEW c \in Chats \ late, NEW f \in Fields
             PROVE  Agrees(f, c)' \/ Awaited(f, c)' \/ InEvent(f, c)' \/ InResync(f, c)'
  BY DEF WillAgree
<1>1. /\ Awaited(f, c)' <=> Awaited(f, c)
      /\ Agrees(f, c)' <=> Agrees(f, c)
  BY DEF Awaited, Agrees
<1>2. InEvent(f, c)' <=> InEvent(f, c)
  BY DEF InEvent
<1>3. InResync(f, c)' <=> InResync(f, c)
  BY DEF InResync
<1> QED BY <1>1, <1>2, <1>3 DEF WillAgree

\* A change of the phone's flags, by the phone or by the user: its event is
\* queued behind the others.
LEMMA PhoneMoves ==
    ASSUME FlagsTypes, WillAgree, NEW e \in Change,
           phone' = After(phone, e), pushed' = Append(pushed, e),
           UNCHANGED <<table, late, synced, resync>>, job'["event"] = job["event"]
    PROVE  WillAgree' /\ phone' \in Flags /\ pushed' \in Seq(Change)
<1>1. phone' \in Flags /\ pushed' \in Seq(Change)
  BY AfterIs, EventsGrow DEF FlagsTypes
<1> SUFFICES ASSUME synced \/ resync.step \in {"fetch", "pins", "archives"},
                    NEW c \in Chats \ late, NEW f \in Fields
             PROVE  Agrees(f, c)' \/ Awaited(f, c)' \/ InEvent(f, c)' \/ InResync(f, c)'
  BY <1>1 DEF WillAgree
<1>2. Awaited(f, c)' <=> Awaited(f, c) \/ Covers(e, f, c)
  BY EventsGrow DEF FlagsTypes
<1>3. ~Covers(e, f, c) => (c \in phone'[f] <=> c \in phone[f])
  BY AfterIs DEF FlagsTypes
<1>4. InEvent(f, c)' <=> InEvent(f, c)
  BY DEF InEvent
<1>5. ~Covers(e, f, c) => (Agrees(f, c)' <=> Agrees(f, c)) /\ (InResync(f, c)' <=> InResync(f, c))
  BY <1>3 DEF Agrees, InResync
<1>6. Agrees(f, c) \/ Awaited(f, c) \/ InEvent(f, c) \/ InResync(f, c)
  BY DEF WillAgree
<1> QED BY <1>2, <1>4, <1>5, <1>6

\* A step that leaves the GETs alone, and writes no table without a notice.
LEMMA ListKept ==
    ASSUME ListInv, UNCHANGED listVars,
           flagsResynced' /\ notices' = 0 /\ ~silent' /\ ~Untold' =>
             flagsResynced /\ notices = 0 /\ ~silent /\ ~Untold /\ table' = table
    PROVE  ListInv'
<1>1. gets' = gets /\ list' = list /\ outrun' = outrun
  BY DEF listVars
<1> SUFFICES ASSUME flagsResynced' /\ notices' = 0 /\ ~silent' /\ ~Untold'
             PROVE  /\ Len(gets') = 0 => outrun' \/ list' = Shown(table)'
                    /\ Len(gets') # 0 /\ ~Newest'.passed =>
                         /\ Newest'.pins = table'.pins
                         /\ Newest'.read => Newest'.archives = table'.archives
  BY DEF ListInv
<1>2. Newest' = Newest /\ Shown(table)' = Shown(table)
  BY <1>1 DEF Newest, Shown
<1> QED BY <1>1, <1>2 DEF ListInv

-----------------------------------------------------------------------------
(* The steps.                                                                *)

LEMMA ChangeSteps ==
    ASSUME FlagsInv, PhoneChanges \/ Send
    PROVE  FlagsInv'
<1> USE DEF FlagsInv
<1>1. PICK e \in Change : phone' = After(phone, e) /\ pushed' = Append(pushed, e)
                          /\ (job' = job \/ job' = [job EXCEPT !["request"] = [step |-> "apply", change |-> e]])
                          /\ (job' # job => job["request"] = NoJob)
  BY DEF PhoneChanges, Send
<1>2. UNCHANGED <<resync, online, flagsResynced, synced, silent, table, notices, late, gets, list, outrun>>
  BY DEF PhoneChanges, Send, tableVars, listVars
<1>3. job' \in [{"event", "request"} -> Jobs] /\ job'["event"] = job["event"]
  BY <1>1, JobKinds DEF FlagsTypes
<1>4. WillAgree' /\ phone' \in Flags /\ pushed' \in Seq(Change)
  BY <1>1, <1>2, <1>3, PhoneMoves
<1>5. FlagsTypes'
  BY <1>2, <1>3, <1>4 DEF FlagsTypes
<1>6. OneResync'
  BY <1>2 DEF OneResync
<1>7. ListInv'
  <2>1. Untold' <=> Untold
    <3>1. CASE job' = job
      BY <1>2, <3>1 DEF Untold
    <3>2. CASE job' # job
      <4>1. job["request"].step = "idle" /\ job'["request"].step = "apply"
        BY <1>1, <3>2 DEF NoJob, FlagsTypes
      <4> QED BY <1>2, <1>3, <4>1 DEF Untold
    <3> QED BY <3>1, <3>2
  <2> QED BY <1>2, <2>1, ListKept DEF listVars
<1> QED BY <1>4, <1>5, <1>6, <1>7

LEMMA DeliverStep ==
    ASSUME FlagsInv, Deliver
    PROVE  FlagsInv'
<1> USE DEF FlagsInv
<1>1. /\ pushed \in Seq(Change) /\ pushed # <<>> /\ pushed' = Tail(pushed) /\ job["event"] = NoJob
      /\ job' = [job EXCEPT !["event"] = [step |-> "apply", change |-> Head(pushed)]]
  BY DEF Deliver, FlagsTypes
<1>2. UNCHANGED <<phone, resync, online, flagsResynced, synced, silent, table, notices, late, gets, list, outrun>>
  BY DEF Deliver, tableVars, listVars
<1>3. pushed' \in Seq(Change) /\ Head(pushed) \in Change
  BY <1>1, EventTaken
<1>4. /\ job' \in [{"event", "request"} -> Jobs] /\ job'["request"] = job["request"]
      /\ job'["event"] = [step |-> "apply", change |-> Head(pushed)]
  BY <1>1, <1>3, JobKinds DEF FlagsTypes
<1>5. WillAgree'
  <2> SUFFICES ASSUME synced \/ resync.step \in {"fetch", "pins", "archives"},
                      NEW c \in Chats \ late, NEW f \in Fields
               PROVE  Agrees(f, c)' \/ Awaited(f, c)' \/ InEvent(f, c)' \/ InResync(f, c)'
    BY <1>2 DEF WillAgree
  <2>1. Awaited(f, c) => Awaited(f, c)' \/ Covers(Head(pushed), f, c)
    BY <1>1, EventTaken
  <2>2. Covers(Head(pushed), f, c) => InEvent(f, c)'
    BY <1>4 DEF Covers, InEvent
  <2>3. (Agrees(f, c)' <=> Agrees(f, c)) /\ (InResync(f, c)' <=> InResync(f, c))
    BY <1>2 DEF Agrees, InResync
  <2>4. ~InEvent(f, c)
    BY <1>1 DEF InEvent, NoJob
  <2> QED BY <2>1, <2>2, <2>3, <2>4 DEF WillAgree
<1>6. FlagsTypes'
  BY <1>2, <1>3, <1>4 DEF FlagsTypes
<1>7. OneResync'
  BY <1>2 DEF OneResync
<1>8. ListInv'
  <2>1. job["event"].step = "idle" /\ job'["event"].step = "apply"
    BY <1>1, <1>4 DEF NoJob
  <2>2. Untold' <=> Untold
    BY <1>2, <1>4, <2>1 DEF Untold
  <2> QED BY <1>2, <2>2, ListKept DEF listVars
<1> QED BY <1>5, <1>6, <1>7, <1>8

LEMMA ApplyStep ==
    ASSUME FlagsInv, NEW g \in {"event", "request"}, Apply(g)
    PROVE  FlagsInv'
<1> USE DEF FlagsInv
<1> DEFINE e == job[g].change
           field == IF e.kind = "pin" THEN "pins" ELSE "archives"
           two == e.kind = "archive" /\ e.on
<1>1. /\ job[g].step = "apply" /\ e \in Change /\ e.chat \in Chats /\ field \in Fields
      /\ e.kind \in {"pin", "archive"}
  BY JobFields DEF Apply, FlagsTypes, Change, Fields
<1>2. Write(field, e.chat, e.on)
  BY DEF Apply
<1>3. UNCHANGED <<phone, pushed, resync, online, flagsResynced, synced, silent, gets, list, outrun>>
  BY DEF Apply, listVars
<1>4. /\ table' \in Flags /\ late' \subseteq Chats
  BY <1>1, <1>2, <1>3, WriteIs
<1>5. PICK b \in BOOLEAN : b = (table' # table)
  <2>1. (table' # table) \in BOOLEAN
    OBVIOUS
  <2> QED BY <2>1
<1>6. /\ two => /\ job' = [job EXCEPT ![g] = [step |-> "unpin", change |-> e, changed |-> b]]
                /\ notices' = notices
      /\ ~two => /\ job' = [job EXCEPT ![g] = NoJob]
                 /\ notices' = IF table' # table THEN notices + 1 ELSE notices
  BY <1>5 DEF Apply
<1>7. job' \in [{"event", "request"} -> Jobs] /\ notices' \in Nat /\ \A h \in {"event", "request"} : h # g => job'[h] = job[h]
  <2>1. NoJob \in Jobs /\ [step |-> "unpin", change |-> e, changed |-> b] \in Jobs
    BY <1>1, JobKinds
  <2> HIDE DEF e
  <2> QED BY <1>6, <2>1 DEF FlagsTypes
<1>8. FlagsTypes'
  BY <1>3, <1>4, <1>7 DEF FlagsTypes
<1>9. OneResync'
  BY <1>3 DEF OneResync
<1>10. WillAgree'
  <2>1. ASSUME NEW f \in Fields, NEW c \in Chats, f # field \/ c # e.chat
        PROVE  /\ InEvent(f, c) => InEvent(f, c)'
               /\ InResync(f, c) => InResync(f, c)'
    <3>1. c \in table'[f] <=> c \in table[f]
      BY <1>1, <1>2, <1>3, <2>1, WriteIs
    <3>2. InResync(f, c) => InResync(f, c)'
      BY <1>3, <3>1 DEF InResync
    <3>3. CASE g = "request"
      <4>1. job'["event"] = job["event"]
        BY <1>7, <3>3
      <4> QED BY <3>2, <4>1 DEF InEvent
    <3>4. CASE g = "event" /\ InEvent(f, c)
      <4>1. c = e.chat /\ two /\ f = "pins"
        BY <1>1, <2>1, <3>4 DEF InEvent, Fields
      <4>2. job'["event"].step = "unpin" /\ job'["event"].change = e
        BY <1>6, <3>4, <4>1 DEF FlagsTypes
      <4> QED BY <3>2, <4>1, <4>2 DEF InEvent
    <3> QED BY <3>2, <3>3, <3>4
  <2> HIDE DEF e, field, two
  <2> QED BY <1>1, <1>2, <1>3, <2>1, WrittenAgree
<1>11. ListInv'
  <2>1. ASSUME notices' = 0, ~Untold'
        PROVE  notices = 0 /\ ~Untold /\ table' = table
    <3>1. two => job'[g].step = "unpin" /\ job'[g].changed = b
      BY <1>6 DEF FlagsTypes
    <3>2. ~(two /\ b)
      BY <2>1, <3>1 DEF Untold
    <3>3. table' = table /\ notices = 0
      <4> HIDE DEF two
      <4>1. notices \in Nat /\ notices' = 0
        BY <2>1 DEF FlagsTypes
      <4>2. CASE two
        BY <1>5, <1>6, <2>1, <3>2, <4>2
      <4>3. CASE ~two
        <5>1. notices' = IF table' # table THEN notices + 1 ELSE notices
          BY <1>6, <4>3
        <5> QED BY <4>1, <5>1
      <4> QED BY <4>2, <4>3
    <3>4. ~Untold
      BY <1>1, <1>3, <1>7, <2>1 DEF Untold
    <3> QED BY <3>3, <3>4
  <2> QED BY <1>3, <2>1, ListKept DEF listVars
<1> QED BY <1>8, <1>9, <1>10, <1>11

LEMMA UnpinStep ==
    ASSUME FlagsInv, NEW g \in {"event", "request"}, Unpin(g)
    PROVE  FlagsInv'
<1> USE DEF FlagsInv
<1> DEFINE e == job[g].change
<1>1. job[g].step = "unpin" /\ e \in Change /\ e.chat \in Chats /\ "pins" \in Fields
  BY JobFields DEF Unpin, FlagsTypes, Change, Fields
<1>2. Write("pins", e.chat, FALSE) /\ job' = [job EXCEPT ![g] = NoJob]
      /\ notices' = IF job[g].changed \/ table' # table THEN notices + 1 ELSE notices
  BY DEF Unpin
<1>3. UNCHANGED <<phone, pushed, resync, online, flagsResynced, synced, silent, gets, list, outrun>>
  BY DEF Unpin, listVars
<1>4. /\ table' \in Flags /\ late' \subseteq Chats
  BY <1>1, <1>2, <1>3, WriteIs
<1>5. /\ job' \in [{"event", "request"} -> Jobs] /\ notices' \in Nat
      /\ \A h \in {"event", "request"} : h # g => job'[h] = job[h]
      /\ job'[g].step = "idle"
  <2>1. NoJob \in Jobs /\ NoJob.step = "idle"
    BY DEF Jobs, NoJob
  <2> QED BY <1>2, <2>1 DEF FlagsTypes
<1>6. FlagsTypes'
  BY <1>3, <1>4, <1>5 DEF FlagsTypes
<1>7. OneResync'
  BY <1>3 DEF OneResync
<1>8. WillAgree'
  <2>1. ASSUME NEW f \in Fields, NEW c \in Chats, f # "pins" \/ c # e.chat
        PROVE  /\ InEvent(f, c) => InEvent(f, c)'
               /\ InResync(f, c) => InResync(f, c)'
    <3>1. c \in table'[f] <=> c \in table[f]
      BY <1>1, <1>2, <1>3, <2>1, WriteIs
    <3>2. InResync(f, c) => InResync(f, c)'
      BY <1>3, <3>1 DEF InResync
    <3>3. CASE g = "request"
      <4>1. job'["event"] = job["event"]
        BY <1>5, <3>3
      <4> QED BY <3>2, <4>1 DEF InEvent
    <3>4. CASE g = "event"
      BY <1>1, <2>1, <3>2, <3>4 DEF InEvent
    <3> QED BY <3>3, <3>4
  <2> HIDE DEF e
  <2> QED BY <1>1, <1>2, <1>3, <2>1, WrittenAgree
<1>9. ListInv'
  <2>1. ASSUME notices' = 0, ~Untold'
        PROVE  notices = 0 /\ ~Untold /\ table' = table
    <3>1. ~job[g].changed /\ table' = table /\ notices = 0
      BY <1>2, <2>1 DEF FlagsTypes
    <3>2. ~Untold
      BY <1>3, <1>5, <2>1, <3>1 DEF Untold
    <3> QED BY <3>1, <3>2
  <2> QED BY <1>3, <2>1, ListKept DEF listVars
<1> QED BY <1>6, <1>7, <1>8, <1>9

LEMMA ConnectionSteps ==
    ASSUME FlagsInv, Connect \/ Disconnect
    PROVE  FlagsInv'
<1> USE DEF FlagsInv
<1>1. CASE Disconnect
  <2>1. UNCHANGED <<phone, pushed, job, resync, flagsResynced, synced, silent, table, notices, late, gets, list, outrun>>
        /\ online' \in BOOLEAN
    BY <1>1 DEF Disconnect, tableVars, listVars
  <2>2. FlagsTypes' /\ OneResync'
    BY <2>1 DEF FlagsTypes, OneResync
  <2>3. WillAgree'
    BY <2>1, Untouched
  <2>4. ListInv'
    BY <2>1, ListKept DEF listVars, Untold
  <2> QED BY <2>2, <2>3, <2>4
<1>2. CASE Connect
  <2>1. UNCHANGED <<phone, table, late, pushed, job, synced, silent, gets, list, outrun>>
        /\ online' \in BOOLEAN /\ flagsResynced' = TRUE /\ notices' = notices + 1
        /\ resync' = IF flagsResynced THEN resync ELSE [step |-> "start"]
    BY <1>2 DEF Connect, listVars
  <2>2. FlagsTypes'
    <3>1. resync' \in Resyncs /\ notices' \in Nat
      BY <2>1, JobKinds DEF FlagsTypes, Resyncs
    <3> QED BY <2>1, <3>1 DEF FlagsTypes
  <2>3. OneResync'
    BY <2>1 DEF OneResync
  <2>4. WillAgree'
    <3>1. CASE flagsResynced
      BY <2>1, <3>1, Untouched
    <3>2. CASE ~flagsResynced
      BY <2>1, <3>2 DEF WillAgree, OneResync
    <3> QED BY <3>1, <3>2
  <2>5. ListInv'
    BY <2>1 DEF ListInv, FlagsTypes
  <2> QED BY <2>2, <2>3, <2>4, <2>5
<1> QED BY <1>1, <1>2

LEMMA RestartStep ==
    ASSUME FlagsInv, RestartBackend
    PROVE  FlagsInv'
<1> USE DEF FlagsInv
<1>1. /\ flagsResynced' = FALSE /\ synced' = FALSE /\ online' = FALSE /\ outrun' = FALSE /\ silent' = FALSE
      /\ job' = [g \in DOMAIN job |-> NoJob] /\ resync' = NoJob
      /\ notices' = 0 /\ gets' = <<>> /\ late' = {} /\ UNCHANGED <<phone, table, pushed, list>>
  BY DEF RestartBackend
<1>2. job' \in [{"event", "request"} -> Jobs]
  BY <1>1 DEF FlagsTypes, Jobs
<1>3. resync' \in Resyncs /\ resync'.step = "idle"
  BY <1>1 DEF Resyncs, NoJob
<1>4. gets' \in Seq(Gets) /\ notices' \in Nat /\ late' \subseteq Chats
  BY <1>1
<1>5. FlagsTypes'
  BY <1>1, <1>2, <1>3, <1>4 DEF FlagsTypes
<1>6. OneResync' /\ WillAgree' /\ ListInv'
  BY <1>1, <1>3 DEF OneResync, WillAgree, ListInv
<1> QED BY <1>5, <1>6

LEMMA FetchStep ==
    ASSUME FlagsInv, Fetch
    PROVE  FlagsInv'
<1> USE DEF FlagsInv
<1>1. /\ resync.step = "start" /\ pushed' = <<>>
      /\ resync' = [step |-> "fetch", todo |-> phone, seen |-> NoFlags, changed |-> FALSE]
      /\ UNCHANGED <<phone, job, online, flagsResynced, synced, silent, table, notices, late, gets, list, outrun>>
  BY DEF Fetch, tableVars, listVars
<1>2. resync' \in Downloads /\ resync'.step = "fetch" /\ resync'.todo = phone /\ resync'.seen = NoFlags
  BY <1>1, NoFlagsIs DEF Downloads, FlagsTypes
<1>3. resync' \in Resyncs /\ pushed' \in Seq(Change)
  BY <1>1, <1>2 DEF Resyncs
<1>4. FlagsTypes'
  BY <1>1, <1>3 DEF FlagsTypes
<1>5. OneResync'
  BY <1>1, <1>2 DEF OneResync, NoJob
<1>6. WillAgree'
  <2> SUFFICES ASSUME NEW c \in Chats \ late, NEW f \in Fields, ~(c \in table[f] <=> c \in phone[f])
               PROVE  InResync(f, c)'
    BY <1>1 DEF WillAgree, Agrees
  <2>1. NoFlags[f] = {}
    BY DEF NoFlags, Fields
  <2> QED BY <1>1, <1>2, <2>1 DEF InResync
<1>7. ListInv'
  <2>1. resync'.step # "archives" /\ resync.step # "archives"
    BY <1>1, <1>2
  <2> QED BY <1>1, <2>1, ListKept DEF listVars, Untold
<1> QED BY <1>4, <1>5, <1>6, <1>7

LEMMA ReplayStep ==
    ASSUME FlagsInv, Replay
    PROVE  FlagsInv'
<1> USE DEF FlagsInv
<1>1. PICK field \in Fields : \E c \in resync.todo[field] :
         /\ resync' = [resync EXCEPT !.todo[field] = @ \ {c}, !.seen[field] = @ \cup {c}]
         /\ Write(field, c, TRUE)
  BY DEF Replay, Fields
<1>2. PICK chat \in resync.todo[field] :
         /\ resync' = [resync EXCEPT !.todo[field] = @ \ {chat}, !.seen[field] = @ \cup {chat}]
         /\ Write(field, chat, TRUE)
  BY <1>1
<1>3. /\ resync.step = "fetch" /\ notices' = IF table' # table THEN notices + 1 ELSE notices
      /\ UNCHANGED <<phone, pushed, job, online, flagsResynced, synced, silent, gets, list, outrun>>
  BY DEF Replay, listVars
<1>4. resync \in Downloads /\ resync.todo \in Flags /\ resync.seen \in Flags
  BY <1>3, ResyncFields, DownloadFields DEF FlagsTypes
<1>5. chat \in Chats
  BY <1>4, FlagsAreSets DEF Fields
<1>6. /\ resync'.step = "fetch" /\ resync'.changed = resync.changed
      /\ resync'.todo = [resync.todo EXCEPT ![field] = @ \ {chat}]
      /\ resync'.seen = [resync.seen EXCEPT ![field] = @ \cup {chat}]
      /\ resync' = [step |-> "fetch", todo |-> resync'.todo, seen |-> resync'.seen, changed |-> resync.changed]
  BY <1>2, <1>3, <1>4 DEF Downloads
<1>7. resync'.todo \in Flags /\ resync'.seen \in Flags
  <2>1. PICK todo \in Flags, seen \in Flags : todo = resync.todo /\ seen = resync.seen
    BY <1>4
  <2>2. [todo EXCEPT ![field] = @ \ {chat}] \in Flags
    BY <1>5, FlagMoves
  <2>3. [seen EXCEPT ![field] = @ \cup {chat}] \in Flags
    BY <1>5, FlagMoves
  <2> QED BY <1>6, <2>1, <2>2, <2>3, Zenon
<1>8. ASSUME NEW f \in Fields, NEW c \in Chats, f # field \/ c # chat
      PROVE  /\ c \in resync'.todo[f] <=> c \in resync.todo[f]
             /\ c \in resync'.seen[f] <=> c \in resync.seen[f]
  <2>1. PICK todo \in Flags, seen \in Flags : todo = resync.todo /\ seen = resync.seen
    BY <1>4
  <2>2. c \in [todo EXCEPT ![field] = @ \ {chat}][f] <=> c \in todo[f]
    BY <1>5, <1>8, FlagMoves
  <2>3. c \in [seen EXCEPT ![field] = @ \cup {chat}][f] <=> c \in seen[f]
    BY <1>5, <1>8, FlagMoves
  <2> QED BY <1>6, <2>1, <2>2, <2>3, Zenon
<1>10. resync' \in Downloads /\ resync' \in Resyncs
  BY <1>4, <1>6, <1>7 DEF Downloads, Resyncs
<1>11. table' \in Flags /\ late' \subseteq Chats
  BY <1>2, <1>3, <1>5, WriteIs
<1>12. FlagsTypes'
  <2>1. notices' \in Nat
    BY <1>3 DEF FlagsTypes
  <2> QED BY <1>3, <1>10, <1>11, <2>1 DEF FlagsTypes
<1>13. OneResync'
  BY <1>3, <1>6 DEF OneResync, NoJob
<1>14. WillAgree'
  <2>1. ASSUME NEW f \in Fields, NEW c \in Chats, f # field \/ c # chat
        PROVE  /\ InEvent(f, c) => InEvent(f, c)'
               /\ InResync(f, c) => InResync(f, c)'
    <3>1. c \in table'[f] <=> c \in table[f]
      BY <1>2, <1>3, <1>5, <2>1, WriteIs
    <3>2. /\ c \in resync'.todo[f] <=> c \in resync.todo[f]
          /\ c \in resync'.seen[f] <=> c \in resync.seen[f]
      BY <1>8, <2>1
    <3>3. InEvent(f, c) => InEvent(f, c)'
      BY <1>3 DEF InEvent
    <3> QED BY <1>3, <1>6, <3>1, <3>2, <3>3 DEF InResync
  <2> QED BY <1>2, <1>3, <1>5, <1>6, <2>1, WrittenAgree
<1>15. ListInv'
  <2>1. notices' = 0 => notices = 0 /\ table' = table
    BY <1>3 DEF FlagsTypes
  <2>2. Untold' <=> Untold
    BY <1>3, <1>6 DEF Untold
  <2> QED BY <1>3, <2>1, <2>2, ListKept DEF listVars
<1> QED BY <1>12, <1>13, <1>14, <1>15

LEMMA FetchedStep ==
    ASSUME FlagsInv, Fetched
    PROVE  FlagsInv'
<1> USE DEF FlagsInv
<1>1. /\ UNCHANGED <<phone, pushed, job, online, flagsResynced, synced, silent, table, notices, late, gets, list, outrun>>
      /\ \/ resync.step = "fetch" /\ resync.todo = NoFlags /\ resync' = [resync EXCEPT !.step = "pins"]
         \/ resync.step \in {"start", "fetch"} /\ resync' = NoJob
  BY DEF Fetched, tableVars, listVars
<1>2. CASE resync.step \in {"start", "fetch"} /\ resync' = NoJob
  <2>1. resync' \in Resyncs /\ resync'.step = "idle" /\ resync # NoJob
    BY <1>2 DEF Resyncs, NoJob
  <2>2. FlagsTypes' /\ OneResync'
    BY <1>1, <1>2, <2>1 DEF FlagsTypes, OneResync
  <2>3. WillAgree'
    BY <1>1, <2>1 DEF WillAgree, OneResync
  <2>4. Untold' <=> Untold
    BY <1>1, <1>2, <2>1 DEF Untold
  <2>5. ListInv'
    BY <1>1, <2>4, ListKept DEF listVars
  <2> QED BY <2>2, <2>3, <2>5
<1>3. CASE resync.step = "fetch" /\ resync.todo = NoFlags /\ resync' = [resync EXCEPT !.step = "pins"]
  <2>1. resync \in Downloads
    BY <1>3, ResyncFields DEF FlagsTypes
  <2>2. /\ resync'.step = "pins" /\ resync'.todo = resync.todo /\ resync'.seen = resync.seen
        /\ resync' \in Resyncs
    BY <1>3, <2>1 DEF Downloads, Resyncs
  <2>3. FlagsTypes' /\ OneResync'
    BY <1>1, <1>3, <2>2 DEF FlagsTypes, OneResync, NoJob
  <2>4. WillAgree'
    <3> SUFFICES ASSUME NEW c \in Chats \ late, NEW f \in Fields
                 PROVE  Agrees(f, c)' \/ Awaited(f, c)' \/ InEvent(f, c)' \/ InResync(f, c)'
      BY <1>1 DEF WillAgree
    <3>1. Agrees(f, c) \/ Awaited(f, c) \/ InEvent(f, c) \/ InResync(f, c)
      BY <1>3 DEF WillAgree
    <3>2. (Awaited(f, c)' <=> Awaited(f, c)) /\ (Agrees(f, c)' <=> Agrees(f, c)) /\ (InEvent(f, c)' <=> InEvent(f, c))
      BY <1>1 DEF Awaited, Agrees, InEvent
    <3>3. InResync(f, c) => InResync(f, c)'
      BY <1>1, <1>3, <2>2 DEF InResync
    <3> QED BY <3>1, <3>2, <3>3
  <2>5. Untold' <=> Untold
    BY <1>1, <1>3, <2>2 DEF Untold
  <2>6. ListInv'
    BY <1>1, <2>5, ListKept DEF listVars
  <2> QED BY <2>3, <2>4, <2>6
<1> QED BY <1>1, <1>2, <1>3

LEMMA KeepIs ==
    ASSUME FlagsTypes, resync.step \in {"pins", "archives"}, NEW field \in Fields,
           KeepOnly(field), UNCHANGED <<phone, pushed>>
    PROVE  /\ table' \in Flags /\ late' \subseteq Chats /\ late \subseteq late'
           /\ table'[field] = table[field] \cap resync.seen[field]
           /\ \A f \in Fields : f # field => table'[f] = table[f]
           /\ \A c \in table[field] \ table'[field] :
                c \notin late' => Agrees(field, c)' \/ Awaited(field, c)'
<1>1. PICK t \in Flags : t = table
  BY DEF FlagsTypes
<1>2. PICK S \in SUBSET Chats : S = t[field] \cap resync.seen[field]
  BY FlagsAreSets DEF Fields
<1>3. table' = [t EXCEPT ![field] = S]
  BY <1>1, <1>2 DEF KeepOnly
<1>4. /\ table' \in Flags /\ table'[field] = S
      /\ \A f \in Fields : f # field => table'[f] = table[f]
  <2>1. /\ [t EXCEPT ![field] = S] \in Flags
        /\ [t EXCEPT ![field] = S][field] = S
        /\ \A other \in Fields : other # field => [t EXCEPT ![field] = S][other] = t[other]
    BY FlagWrites
  <2> QED BY <1>1, <1>3, <2>1, Zenon
<1>5. late' = late \cup ((table[field] \ table'[field]) \cap Astray(field, table'))
  BY DEF KeepOnly
<1>6. late' \subseteq Chats /\ late \subseteq late'
  BY <1>5 DEF FlagsTypes, Astray
<1>7. ASSUME NEW c \in table[field] \ table'[field], c \notin late'
      PROVE  Agrees(field, c)' \/ Awaited(field, c)'
  <2>1. c \notin Astray(field, table')
    BY <1>5, <1>7
  <2>2. c \in Chats
    BY <1>1, <1>7, FlagsAreSets DEF Fields
  <2>3. Awaited(field, c)' <=> Awaited(field, c)
    BY DEF Awaited
  <2> QED BY <2>1, <2>2, <2>3 DEF Astray, Agrees
<1> QED BY <1>1, <1>2, <1>4, <1>6, <1>7

\* What is left to do after a pruning.
LEMMA PrunedAgree ==
    ASSUME FlagsTypes, OneResync, WillAgree, resync.step \in {"pins", "archives"},
           KeepOnly(resync.step), UNCHANGED <<phone, pushed, job>>,
           NEW c \in Chats \ late', NEW f \in Fields
    PROVE  Agrees(f, c)' \/ Awaited(f, c)' \/ InEvent(f, c)' \/ (f # resync.step /\ InResync(f, c))
<1>1. PICK field \in Fields : field = resync.step
  BY DEF Fields
<1>2. /\ late \subseteq late'
      /\ table'[field] = table[field] \cap resync.seen[field]
      /\ f # field => table'[f] = table[f]
      /\ c \in table[field] \ table'[field] => Agrees(field, c)' \/ Awaited(field, c)'
  BY <1>1, KeepIs
<1>3. (Awaited(f, c)' <=> Awaited(f, c)) /\ (InEvent(f, c)' <=> InEvent(f, c))
  BY DEF Awaited, InEvent
<1>4. Agrees(f, c) \/ Awaited(f, c) \/ InEvent(f, c) \/ InResync(f, c)
  BY <1>2 DEF WillAgree
<1>5. CASE f # field
  <2>1. Agrees(f, c)' <=> Agrees(f, c)
    BY <1>2, <1>5 DEF Agrees
  <2> QED BY <1>1, <1>3, <1>4, <1>5, <2>1
<1>6. CASE f = field /\ c \in table[field] \ table'[field]
  BY <1>2, <1>6
<1>7. CASE f = field /\ c \notin table[field] \ table'[field]
  <2>1. c \in table'[field] <=> c \in table[field]
    BY <1>2, <1>7
  <2>2. Agrees(f, c)' <=> Agrees(f, c)
    BY <1>7, <2>1 DEF Agrees
  <2>3. ~InResync(f, c)
    <3>1. c \notin resync.todo[f]
      BY <1>7 DEF OneResync, NoFlags, Fields
    <3>2. c \in table[field] => c \in resync.seen[field]
      BY <1>2, <2>1
    <3> QED BY <1>7, <3>1, <3>2 DEF InResync
  <2> QED BY <1>3, <1>4, <2>2, <2>3
<1> QED BY <1>5, <1>6, <1>7

LEMMA PruneSteps ==
    ASSUME FlagsInv, PrunePins \/ PruneArchives
    PROVE  FlagsInv'
<1> USE DEF FlagsInv
<1>1. CASE PrunePins
  <2>1. PICK b \in BOOLEAN : b = (table' # table)
    <3>1. (table' # table) \in BOOLEAN
      OBVIOUS
    <3> QED BY <3>1
  <2>2. /\ resync.step = "pins" /\ KeepOnly(resync.step)
        /\ resync' = [resync EXCEPT !.step = "archives", !.changed = b]
        /\ UNCHANGED <<phone, pushed, job, online, flagsResynced, synced, silent, notices, gets, list, outrun>>
    BY <1>1, <2>1 DEF PrunePins, listVars
  <2>3. resync \in Downloads /\ "pins" \in Fields
    BY <2>2, ResyncFields DEF FlagsTypes, Fields
  <2>4. /\ resync'.step = "archives" /\ resync'.todo = resync.todo /\ resync'.seen = resync.seen
        /\ resync'.changed = b /\ resync' \in Resyncs
    BY <2>2, <2>3 DEF Downloads, Resyncs
  <2>5. table' \in Flags /\ late' \subseteq Chats /\ table'["archives"] = table["archives"]
    BY <2>2, <2>3, KeepIs DEF Fields
  <2>6. FlagsTypes' /\ OneResync'
    BY <2>2, <2>4, <2>5 DEF FlagsTypes, OneResync, NoJob
  <2>7. WillAgree'
    <3> SUFFICES ASSUME NEW c \in Chats \ late', NEW f \in Fields
                 PROVE  Agrees(f, c)' \/ Awaited(f, c)' \/ InEvent(f, c)' \/ InResync(f, c)'
      BY DEF WillAgree
    <3>1. Agrees(f, c)' \/ Awaited(f, c)' \/ InEvent(f, c)' \/ (f # "pins" /\ InResync(f, c))
      BY <2>2, PrunedAgree
    <3>2. f = "archives" /\ InResync(f, c) => InResync(f, c)'
      BY <2>2, <2>4, <2>5 DEF InResync
    <3> QED BY <3>1, <3>2 DEF Fields
  <2>8. ListInv'
    <3>1. ASSUME ~Untold' PROVE ~Untold /\ table' = table
      <4>1. ~b
        BY <2>4, <3>1 DEF Untold
      <4> QED BY <2>1, <2>2, <3>1, <4>1 DEF Untold
    <3> QED BY <2>2, <3>1, ListKept DEF listVars
  <2> QED BY <2>6, <2>7, <2>8
<1>2. CASE PruneArchives
  <2>1. /\ resync.step = "archives" /\ resync' = NoJob
        /\ UNCHANGED <<phone, pushed, job, online, flagsResynced, gets, list, outrun>>
    BY <1>2 DEF PruneArchives, listVars
  <2>2. resync' \in Resyncs /\ resync'.step = "idle" /\ resync # NoJob /\ "archives" \in Fields
    BY <2>1 DEF Resyncs, NoJob, Fields
  <2>3. resync.changed \in BOOLEAN
    BY <2>1, ResyncFields, DownloadFields DEF FlagsTypes
  <2>4. CASE KeepOnly("archives") /\ notices' = (IF resync.changed \/ table' # table THEN notices + 1 ELSE notices)
             /\ synced' = TRUE /\ UNCHANGED silent
    <3>1. table' \in Flags /\ late' \subseteq Chats
      BY <2>1, <2>2, <2>4, KeepIs
    <3>2. notices' \in Nat
      BY <2>4 DEF FlagsTypes
    <3>3. FlagsTypes' /\ OneResync'
      BY <2>1, <2>2, <2>4, <3>1, <3>2 DEF FlagsTypes, OneResync
    <3>4. WillAgree'
      <4> SUFFICES ASSUME NEW c \in Chats \ late', NEW f \in Fields
                   PROVE  Agrees(f, c)' \/ Awaited(f, c)' \/ InEvent(f, c)' \/ InResync(f, c)'
        BY DEF WillAgree
      <4>1. Agrees(f, c)' \/ Awaited(f, c)' \/ InEvent(f, c)' \/ (f # "archives" /\ InResync(f, c))
        BY <2>1, <2>4, PrunedAgree
      <4>2. f # "archives" => ~InResync(f, c)
        BY <2>1 DEF InResync
      <4> QED BY <4>1, <4>2
    <3>5. ListInv'
      <4>1. ASSUME notices' = 0, ~Untold' PROVE notices = 0 /\ ~Untold /\ table' = table
        <5>1. ~resync.changed /\ table' = table /\ notices = 0
          BY <2>4, <4>1 DEF FlagsTypes
        <5> QED BY <2>1, <4>1, <5>1 DEF Untold
      <4> QED BY <2>1, <2>4, <4>1, ListKept DEF listVars
    <3> QED BY <3>3, <3>4, <3>5
  <2>5. CASE silent' = (silent \/ resync.changed) /\ UNCHANGED <<tableVars, synced>>
    <3>1. silent' \in BOOLEAN
      BY <2>5, Zenon
    <3>2. UNCHANGED <<table, notices, late, synced>>
      BY <2>5 DEF tableVars
    <3>3. FlagsTypes' /\ OneResync'
      BY <2>1, <2>2, <3>1, <3>2 DEF FlagsTypes, OneResync
    <3>4. WillAgree'
      BY <2>2, <3>2 DEF WillAgree, OneResync
    <3>5. ListInv'
      <4>1. ASSUME ~silent', ~Untold' PROVE ~silent /\ ~Untold
        <5>1. ~silent /\ ~resync.changed
          BY <2>5, <4>1
        <5> QED BY <2>1, <4>1, <5>1 DEF Untold
      <4> QED BY <2>1, <3>2, <4>1, ListKept DEF listVars
    <3> QED BY <3>3, <3>4, <3>5
  <2> QED BY <1>2, <2>4, <2>5 DEF PruneArchives
<1> QED BY <1>1, <1>2

LEMMA GetFields ==
    ASSUME NEW g \in Gets
    PROVE  /\ [g EXCEPT !.passed = TRUE] \in Gets
           /\ [g EXCEPT !.passed = TRUE].passed
           /\ g.passed \in BOOLEAN /\ g.read \in BOOLEAN
           /\ g.pins \in SUBSET Chats /\ g.archives \in SUBSET Chats
  BY DEF Gets

LEMMA GetSteps ==
    ASSUME FlagsInv, Ask \/ ReadArchives \/ Answer
    PROVE  FlagsInv'
<1> USE DEF FlagsInv
<1>1. UNCHANGED <<phone, table, late, pushed, job, resync, online, flagsResynced, synced, silent>>
  BY DEF Ask, ReadArchives, Answer, tableVars
<1>2. WillAgree' /\ OneResync' /\ (Untold' <=> Untold)
  BY <1>1, Untouched DEF OneResync, Untold
<1>3. table.pins \in SUBSET Chats /\ table.archives \in SUBSET Chats
      /\ table = [pins |-> table.pins, archives |-> table.archives]
  BY FlagsAreSets DEF FlagsTypes
<1>4. CASE Ask
  <2> DEFINE g == [pins |-> table.pins, archives |-> {}, read |-> FALSE, passed |-> FALSE]
  <2>1. notices \in Nat \ {0} /\ notices' = notices - 1 /\ gets' = Append(gets, g) /\ UNCHANGED <<list, outrun>>
    BY <1>4 DEF Ask, pinnedChats, FlagsTypes
  <2>2. g \in Gets
    BY <1>3 DEF Gets
  <2>3. gets' \in Seq(Gets) /\ Len(gets') = Len(gets) + 1 /\ gets'[Len(gets')] = g /\ Len(gets') # 0
    <3> HIDE DEF g
    <3> QED BY <2>1, <2>2 DEF FlagsTypes
  <2>4. FlagsTypes'
    BY <1>1, <2>1, <2>3 DEF FlagsTypes
  <2>5. ListInv'
    BY <1>1, <2>3 DEF ListInv, Newest
  <2> QED BY <1>2, <2>4, <2>5
<1>5. CASE ReadArchives
  <2>1. PICK i \in DOMAIN gets : gets' = [gets EXCEPT ![i] = [gets[i] EXCEPT !.read = TRUE, !.archives = table.archives]]
    BY <1>5 DEF ReadArchives, archivedChats
  <2>2. UNCHANGED <<list, outrun, notices>>
    BY <1>5 DEF ReadArchives, tableVars
  <2>3. i \in 1 .. Len(gets) /\ gets \in Seq(Gets) /\ gets[i] \in Gets /\ Len(gets) \in Nat
    BY <2>1 DEF FlagsTypes
  <2>4. PICK h \in Gets : /\ h = [gets[i] EXCEPT !.read = TRUE, !.archives = table.archives]
                          /\ h.pins = gets[i].pins /\ h.archives = table.archives /\ h.passed = gets[i].passed
    <3>1. PICK g \in Gets, S \in SUBSET Chats : g = gets[i] /\ S = table.archives
      BY <1>3, <2>3
    <3>2. /\ [g EXCEPT !.read = TRUE, !.archives = S] \in Gets
          /\ [g EXCEPT !.read = TRUE, !.archives = S].pins = g.pins
          /\ [g EXCEPT !.read = TRUE, !.archives = S].archives = S
          /\ [g EXCEPT !.read = TRUE, !.archives = S].passed = g.passed
      BY DEF Gets
    <3> QED BY <3>1, <3>2
  <2>5. h.pins = gets[i].pins /\ h.archives = table.archives /\ h.passed = gets[i].passed
    BY <2>4
  <2>6. gets' \in Seq(Gets) /\ Len(gets') = Len(gets)
        /\ \A j \in 1 .. Len(gets) : gets'[j] = IF j = i THEN h ELSE gets[j]
    BY <2>1, <2>3, <2>4
  <2>7. FlagsTypes'
    BY <1>1, <2>2, <2>6 DEF FlagsTypes
  <2>8. ListInv'
    <3> SUFFICES ASSUME flagsResynced, notices = 0, ~silent, ~Untold, Len(gets) # 0, ~Newest'.passed
                 PROVE  Newest'.pins = table.pins /\ (Newest'.read => Newest'.archives = table.archives)
      BY <1>1, <1>2, <2>2, <2>3, <2>6 DEF ListInv, Shown
    <3>1. Len(gets) \in 1 .. Len(gets) /\ Newest' = gets'[Len(gets)]
      BY <2>3, <2>6 DEF Newest
    <3>2. CASE i = Len(gets)
      BY <2>5, <2>6, <3>1, <3>2 DEF ListInv, Newest
    <3>3. CASE i # Len(gets)
      BY <2>6, <3>1, <3>3 DEF ListInv, Newest
    <3> QED BY <3>2, <3>3
  <2> QED BY <1>2, <2>7, <2>8
<1>6. CASE Answer
  <2>1. PICK i \in DOMAIN gets : /\ gets[i].read /\ list' = Shown([pins |-> gets[i].pins, archives |-> gets[i].archives])
                                 /\ gets' = Answered(gets, i) /\ outrun' = gets[i].passed
    BY <1>6 DEF Answer
  <2>2. notices' = notices
    BY <1>6 DEF Answer, tableVars
  <2>3. i \in 1 .. Len(gets) /\ gets \in Seq(Gets) /\ gets[i] \in Gets /\ Len(gets) \in Nat /\ Len(gets) - 1 \in Nat
    BY <2>1 DEF FlagsTypes
  <2>4. gets' = [j \in 1 .. Len(gets) - 1 |-> IF j < i THEN [gets[j] EXCEPT !.passed = TRUE] ELSE gets[j + 1]]
    BY <2>1 DEF Answered
  <2>5. ASSUME NEW j \in 1 .. Len(gets) - 1
        PROVE  (IF j < i THEN [gets[j] EXCEPT !.passed = TRUE] ELSE gets[j + 1]) \in Gets
    <3>1. j \in 1 .. Len(gets) /\ j + 1 \in 1 .. Len(gets)
      BY <2>3, <2>5
    <3>2. gets[j] \in Gets /\ gets[j + 1] \in Gets
      BY <2>3, <3>1
    <3> QED BY <3>2, GetFields
  <2>6. gets' \in Seq(Gets) /\ Len(gets') = Len(gets) - 1
    BY <2>3, <2>4, <2>5
  <2>7. list' \in Flags /\ outrun' \in BOOLEAN
    <3>1. gets[i].pins \in SUBSET Chats /\ gets[i].archives \in SUBSET Chats /\ gets[i].passed \in BOOLEAN
      BY <2>3, GetFields
    <3>2. [pins |-> gets[i].pins, archives |-> gets[i].archives] \in Flags
      BY <3>1, FlagsOf
    <3> QED BY <2>1, <3>1, <3>2, ShownIsFlags
  <2>8. FlagsTypes'
    BY <1>1, <2>2, <2>6, <2>7 DEF FlagsTypes
  <2>9. ListInv'
    <3> SUFFICES ASSUME flagsResynced, notices = 0, ~silent, ~Untold
                 PROVE  /\ Len(gets') = 0 => outrun' \/ list' = Shown(table)
                        /\ Len(gets') # 0 /\ ~Newest'.passed =>
                            /\ Newest'.pins = table.pins
                            /\ Newest'.read => Newest'.archives = table.archives
      <4>1. Shown(table)' = Shown(table)
        BY <1>1 DEF Shown
      <4> QED BY <1>1, <1>2, <2>2, <4>1 DEF ListInv
    <3>1. CASE Len(gets') = 0
      <4>1. i = Len(gets) /\ Newest = gets[i]
        <5>1. Len(gets) = 1
          BY <2>3, <2>6, <3>1
        <5> QED BY <2>3, <5>1 DEF Newest
      <4>2. CASE ~gets[i].passed
        <5>1. gets[i].pins = table.pins /\ gets[i].archives = table.archives
          BY <2>1, <2>3, <4>1, <4>2 DEF ListInv
        <5> QED BY <1>3, <2>1, <3>1, <5>1
      <4> QED BY <2>1, <3>1, <4>2
    <3>2. CASE Len(gets') # 0 /\ ~Newest'.passed
      <4>1. /\ Len(gets) - 1 \in 1 .. Len(gets) - 1
            /\ Newest' = IF Len(gets) - 1 < i THEN [gets[Len(gets) - 1] EXCEPT !.passed = TRUE] ELSE gets[Len(gets) - 1 + 1]
        BY <2>3, <2>4, <2>6, <3>2 DEF Newest
      <4>2. gets[Len(gets) - 1] \in Gets
        BY <2>3, <4>1
      <4>3. ~(Len(gets) - 1 < i)
        BY <3>2, <4>1, <4>2, GetFields
      <4>4. Newest' = Newest
        BY <2>3, <4>1, <4>3 DEF Newest
      <4> QED BY <2>3, <3>2, <4>4 DEF ListInv
    <3> QED BY <3>1, <3>2
  <2> QED BY <1>2, <2>8, <2>9
<1> QED BY <1>4, <1>5, <1>6

LEMMA FlagsInvariant == FlagsSpec => []FlagsInv
<1>1. FlagsInit => FlagsInv
  <2> SUFFICES ASSUME FlagsInit PROVE FlagsInv
    OBVIOUS
  <2>1. phone \in Flags /\ (table = NoFlags \/ table = [NoFlags EXCEPT !.pins = Chats])
    BY DEF FlagsInit
  <2>2. table \in Flags
    BY <2>1 DEF NoFlags, Flags
  <2>3. list \in Flags
    BY <2>2, ShownIsFlags DEF FlagsInit
  <2>4. job \in [{"event", "request"} -> Jobs] /\ resync \in Resyncs /\ resync.step = "idle" /\ resync = NoJob
    BY DEF FlagsInit, Jobs, Resyncs, NoJob
  <2>5. pushed \in Seq(Change) /\ gets \in Seq(Gets) /\ notices \in Nat
    BY DEF FlagsInit
  <2>6. FlagsTypes
    BY <2>1, <2>2, <2>3, <2>4, <2>5 DEF FlagsInit, FlagsTypes
  <2> QED BY <2>4, <2>6 DEF FlagsInit, FlagsInv, OneResync, WillAgree, ListInv
<1>2. FlagsInv /\ [FlagsNext]_flagsVars => FlagsInv'
  <2> SUFFICES ASSUME FlagsInv, [FlagsNext]_flagsVars PROVE FlagsInv'
    OBVIOUS
  <2>1. DOMAIN job = {"event", "request"}
    BY DEF FlagsInv, FlagsTypes
  <2>2. CASE UNCHANGED flagsVars
    <3>1. UNCHANGED <<phone, pushed, job, resync, online, flagsResynced, synced, silent, table, notices, late, gets, list, outrun>>
      BY <2>2 DEF flagsVars, tableVars, listVars
    <3>2. FlagsTypes' /\ OneResync'
      BY <3>1 DEF FlagsInv, FlagsTypes, OneResync
    <3>3. WillAgree'
      BY <3>1, Untouched DEF FlagsInv
    <3>4. ListInv'
      BY <3>1, ListKept DEF FlagsInv, listVars, Untold
    <3> QED BY <3>2, <3>3, <3>4 DEF FlagsInv
  <2>3. CASE FlagsNext
    BY <2>1, <2>3, ChangeSteps, DeliverStep, ApplyStep, UnpinStep, ConnectionSteps, RestartStep,
       FetchStep, ReplayStep, FetchedStep, PruneSteps, GetSteps DEF FlagsNext
  <2> QED BY <2>2, <2>3
<1> QED BY <1>1, <1>2, PTL DEF FlagsSpec

\* Once the resync of this process has succeeded and nothing is under way, the
\* tables say what the phone says of every chat that was not written late.
THEOREM TablesFollowPhone == FlagsSpec => []FlagsFollowPhone
<1>1. FlagsInv => FlagsFollowPhone
  <2> SUFFICES ASSUME FlagsInv, synced, pushed = <<>>, resync = NoJob,
                      \A g \in DOMAIN job : job[g] = NoJob,
                      NEW c \in Chats \ late, NEW f \in Fields
               PROVE  c \in table[f] <=> c \in phone[f]
    BY DEF FlagsFollowPhone, Fields
  <2>1. Agrees(f, c) \/ Awaited(f, c) \/ InEvent(f, c) \/ InResync(f, c)
    BY DEF FlagsInv, WillAgree
  <2>2. ~Awaited(f, c)
    BY DEF Awaited
  <2>3. ~InEvent(f, c) /\ ~InResync(f, c)
    BY DEF InEvent, InResync, FlagsInv, FlagsTypes, NoJob
  <2> QED BY <2>1, <2>2, <2>3 DEF Agrees
<1> QED BY <1>1, FlagsInvariant, PTL

\* When everything was told and answered in order, the list of the TUI shows
\* what the tables say.
THEOREM ListFollowsTables == FlagsSpec => []ListFollowsFlags
<1>1. FlagsInv => ListFollowsFlags
  <2> SUFFICES ASSUME FlagsInv, flagsResynced, notices = 0, gets = <<>>, ~outrun, ~silent,
                      \A g \in DOMAIN job : job[g].step \in {"idle", "apply"}, resync.step # "archives"
               PROVE  list = Shown(table)
    BY DEF ListFollowsFlags
  <2>1. ~Untold
    BY DEF Untold, FlagsInv, FlagsTypes
  <2>2. Len(gets) = 0
    OBVIOUS
  <2> QED BY <2>1, <2>2 DEF FlagsInv, ListInv
<1> QED BY <1>1, FlagsInvariant, PTL

=============================================================================
