------------------------------ MODULE TuiShellProofs ------------------------------
(* Proofs about the shell of the TUI: its connection to the backend, for any *)
(* number of connections and events; the session token, for any number of    *)
(* TUIs and tokens; and the list at the left, for any chats, people,         *)
(* searches and windows.                                                     *)
EXTENDS TuiLink, TuiSession, TuiSidebar, ListsProofs

-----------------------------------------------------------------------------
(* TuiLink.                                                                  *)

Before(s) == \A i, j \in 1 .. Len(s) : i < j => s[i] < s[j]

LinkTypes ==
    /\ begun \in BOOLEAN /\ restarts \in Nat /\ disordered \in BOOLEAN
    /\ status \in Statuses /\ sessionReady \in BOOLEAN
    /\ cur \in Conns \cup {None}
    /\ conn \in [Conns -> {"new", "open", "closed"}]
    /\ sent \in [Conns -> Nat] /\ shown \in [Conns -> Nat]
    /\ buf \in [Conns -> Seq(Nat)]
    /\ readers \in [Conns -> Nat]
    /\ dials \in Nat /\ failed \in Nat /\ ended \in Nat /\ ticks \in Nat
    /\ opened \subseteq Conns
    /\ read \subseteq Conns \X Nat

\* Who reads has a channel to read from.
Attached == read # {} \/ (\E c \in Conns : readers[c] > 0) => cur # None

\* Where the next message about the connection comes from, if from anywhere:
\* d dials, connections o that were opened, f failures, events r that were
\* read, e ends, t ticks and one reader at w.
Stage(d, o, f, r, e, t, w) ==
    /\ dials = d /\ opened = o /\ failed = f /\ read = r /\ ended = e /\ ticks = t
    /\ readers = [c \in Conns |-> IF c = w THEN 1 ELSE 0]

\* As long as nobody pressed r, there is one such place at most.
OneStage ==
    \/ Stage(0, {}, 0, {}, 0, 0, None)
    \/ begun /\ Stage(1, {}, 0, {}, 0, 0, None)
    \/ begun /\ \E c \in Conns : Stage(0, {c}, 0, {}, 0, 0, None)
    \/ begun /\ Stage(0, {}, 1, {}, 0, 0, None)
    \/ begun /\ cur # None /\ \E n \in Nat : Stage(0, {}, 0, {<<cur, n>>}, 0, 0, None)
    \/ begun /\ Stage(0, {}, 0, {}, 1, 0, None)
    \/ begun /\ Stage(0, {}, 0, {}, 0, 1, None)
    \/ begun /\ cur # None /\ Stage(0, {}, 0, {}, 0, 0, cur)

\* What a channel holds comes after what was read from it, and that after what
\* Update has handled.
InOrderOf(c) ==
    /\ Before(buf[c])
    /\ \A i \in 1 .. Len(buf[c]) : shown[c] < buf[c][i] /\ buf[c][i] <= sent[c]
    /\ shown[c] <= sent[c]
    /\ \A n \in Nat : <<c, n>> \in read =>
          /\ n <= sent[c]
          /\ \A i \in 1 .. Len(buf[c]) : n < buf[c][i]
          /\ restarts = 0 => shown[c] < n

LinkInv ==
    /\ LinkTypes /\ OneSocket /\ Attached
    /\ restarts = 0 => OneStage
    /\ \A c \in Conns : InOrderOf(c)
    /\ EventsInOrder

\* Sequences of event numbers: one is received, one is read.
LEMMA AppendKeeps ==
    ASSUME NEW s \in Seq(Nat), NEW k \in Nat, Before(s), \A i \in 1 .. Len(s) : s[i] < k
    PROVE  /\ Append(s, k) \in Seq(Nat) /\ Before(Append(s, k))
           /\ \A i \in 1 .. Len(Append(s, k)) :
                 Append(s, k)[i] = k \/ \E j \in 1 .. Len(s) : Append(s, k)[i] = s[j]
<1>1. Append(s, k) \in Seq(Nat) /\ Len(Append(s, k)) = Len(s) + 1
  OBVIOUS
<1>2. /\ \A i \in 1 .. Len(s) : Append(s, k)[i] = s[i]
      /\ Append(s, k)[Len(s) + 1] = k
  OBVIOUS
<1>3. \A i \in 1 .. Len(s) + 1 : i \in 1 .. Len(s) \/ i = Len(s) + 1
  OBVIOUS
<1> HIDE DEF Before
<1>4. Before(Append(s, k))
  BY <1>1, <1>2, <1>3 DEF Before
<1> QED BY <1>1, <1>2, <1>3, <1>4

LEMMA TailKeeps ==
    ASSUME NEW s \in Seq(Nat), Before(s), s # <<>>
    PROVE  /\ Head(s) \in Nat /\ Tail(s) \in Seq(Nat) /\ Before(Tail(s))
           /\ \E j \in 1 .. Len(s) : Head(s) = s[j]
           /\ \A i \in 1 .. Len(Tail(s)) :
                 Head(s) < Tail(s)[i] /\ \E j \in 1 .. Len(s) : Tail(s)[i] = s[j]
<1>1. Len(s) \in Nat \ {0} /\ Tail(s) \in Seq(Nat) /\ Len(Tail(s)) = Len(s) - 1
  OBVIOUS
<1>2. \A i \in 1 .. Len(s) - 1 : Tail(s)[i] = s[i + 1] /\ i + 1 \in 1 .. Len(s)
  OBVIOUS
<1>3. Head(s) = s[1] /\ 1 \in 1 .. Len(s) /\ Head(s) \in Nat
  BY <1>1
<1>4. Before(Tail(s))
  BY <1>1, <1>2 DEF Before
<1>5. \A i \in 1 .. Len(s) - 1 : s[1] < s[i + 1]
  BY <1>2, <1>3 DEF Before
<1> QED BY <1>1, <1>2, <1>3, <1>4, <1>5

LEMMA NoneIsNoConn == None \notin Conns /\ Conns \subseteq Nat
  BY TuiLinkAssumption DEF None, Conns

\* What an event does to the connection is the same for all of them.
LEMMA EventTakes ==
    ASSUME LinkTypes, NEW c \in Conns, NEW n \in 1 .. MaxEvents, Event(c, n)
    PROVE  Takes(c, n) /\ status' \in Statuses /\ sessionReady' \in BOOLEAN
  BY DEF Event, evtQR, evtReady, evtConnectFailed, evtStatus, evtOther, LinkTypes, Statuses

LEMMA LinkTyped ==
    ASSUME LinkTypes, \A c \in Conns : Before(buf[c]) /\ \A i \in 1 .. Len(buf[c]) : buf[c][i] <= sent[c],
           LinkNext
    PROVE  LinkTypes'
<1>1. ASSUME NEW c \in Conns, Dial(c) \/ PeerCloses(c) \/ ReadEnd(c) \/ wsOpenMsg(c)
      PROVE  LinkTypes'
  <2>1. CASE Dial(c)
    BY <2>1 DEF Dial, LinkTypes, screen, link, past
  <2>2. CASE PeerCloses(c)
    BY <2>2 DEF PeerCloses, LinkTypes, screen, link, mail, past
  <2>3. CASE ReadEnd(c)
    BY <2>3 DEF ReadEnd, LinkTypes, screen, link, net, past
  <2>4. CASE wsOpenMsg(c)
    BY <2>4 DEF wsOpenMsg, LinkTypes, screen, past
  <2> QED BY <1>1, <2>1, <2>2, <2>3, <2>4
<1>2. CASE DialFails \/ wsOpenMsgErr \/ reconnectMsg \/ wsEnded
  BY <1>2, SMTT(20) DEF DialFails, wsOpenMsgErr, reconnectMsg, wsEnded, LinkTypes, Statuses, screen, link, net, mail, past
<1>3. CASE initMsg \/ initMsgErr \/ splashDoneMsg \/ maybeFinishSplash \/ PostReturns \/ keyR \/ keyOther
  <2>1. /\ UNCHANGED <<cur, conn, sent, shown, buf, readers, opened, failed, read, ended, ticks, disordered>>
        /\ begun' \in BOOLEAN /\ status' \in Statuses /\ sessionReady' \in BOOLEAN
    BY <1>3 DEF initMsg, initMsgErr, splashDoneMsg, maybeFinishSplash, PostReturns, keyR, keyOther,
                LinkTypes, Statuses, link, net, mail, past
  <2>2. (dials' = dials \/ dials' = dials + 1) /\ (restarts' = restarts \/ restarts' = restarts + 1)
    BY <1>3 DEF initMsg, initMsgErr, splashDoneMsg, maybeFinishSplash, PostReturns, keyR, keyOther, past
  <2> QED BY <2>1, <2>2, SMTT(20) DEF LinkTypes
<1>4. ASSUME NEW c \in Conns, Receive(c)
      PROVE  LinkTypes'
  <2>1. sent' \in [Conns -> Nat]
    BY <1>4 DEF Receive, LinkTypes
  <2>2. buf' \in [Conns -> Seq(Nat)]
    BY <1>4, <2>1 DEF Receive, LinkTypes
  <2> QED BY <1>4, <2>1, <2>2 DEF Receive, LinkTypes, screen, link, mail, past
<1>5. ASSUME NEW c \in Conns, ReadEvent(c)
      PROVE  LinkTypes'
  <2>1. Head(buf[c]) \in Nat /\ Tail(buf[c]) \in Seq(Nat)
    BY <1>5, TailKeeps DEF ReadEvent, LinkTypes
  <2> QED BY <1>5, <2>1, SMTT(20) DEF ReadEvent, LinkTypes, screen, link, past
<1>6. ASSUME NEW c \in Conns, NEW n \in 1 .. MaxEvents, Event(c, n)
      PROVE  LinkTypes'
  <2>1. Takes(c, n) /\ status' \in Statuses /\ sessionReady' \in BOOLEAN
    BY <1>6, EventTakes
  <2>2. readers' \in [Conns -> Nat]
    <3>1. readers' = [readers EXCEPT ![cur] = readers[cur] + 1] /\ readers \in [Conns -> Nat]
      BY <2>1 DEF Takes, LinkTypes
    <3>2. readers' = [d \in Conns |-> IF d = cur THEN readers[d] + 1 ELSE readers[d]]
      BY <3>1
    <3>3. \A d \in Conns : readers[d] \in Nat
      BY <3>1
    <3> QED BY <3>2, <3>3
  <2>3. n \in Nat
    BY TuiLinkAssumption
  <2>4. shown' \in [Conns -> Nat]
    BY <2>1, <2>3 DEF Takes, LinkTypes
  <2>5. disordered' \in BOOLEAN
    <3>1. disordered' = (disordered \/ n < shown[c])
      BY <2>1 DEF Takes
    <3>2. (disordered \/ n < shown[c]) \in BOOLEAN
      BY Zenon
    <3> QED BY <3>1, <3>2, Zenon
  <2> QED BY <2>1, <2>2, <2>4, <2>5 DEF Takes, LinkTypes, link, net
<1> QED BY <1>1, <1>2, <1>3, <1>4, <1>5, <1>6 DEF LinkNext

\* Steps that have nothing to do with sockets, channels and messages, except
\* that one may ask for another socket.
Apart ==
    /\ UNCHANGED <<conn, cur, sent, shown, buf, readers, opened, failed, read, ended, ticks, disordered>>
    /\ \/ UNCHANGED <<begun, dials, restarts>>
       \/ ~begun /\ begun' /\ UNCHANGED <<dials, restarts>>
       \/ ~begun /\ begun' /\ dials' = dials + 1 /\ UNCHANGED restarts
       \/ restarts' = restarts + 1

LEMMA ApartSteps ==
    ASSUME initMsg \/ initMsgErr \/ splashDoneMsg \/ maybeFinishSplash \/ PostReturns \/ keyR \/ keyOther
    PROVE  Apart
  BY DEF initMsg, initMsgErr, splashDoneMsg, maybeFinishSplash, PostReturns, keyR, keyOther, Apart, link, net,
         mail, past

LEMMA SocketInv ==
    ASSUME LinkTypes, OneSocket, Attached, LinkNext PROVE OneSocket' /\ Attached'
<1> USE NoneIsNoConn
<1>1. ASSUME NEW c \in Conns, Dial(c) \/ PeerCloses(c) \/ ReadEnd(c) \/ wsOpenMsg(c) \/ Receive(c)
      PROVE  OneSocket' /\ Attached'
  <2>1. CASE Dial(c)
    BY <2>1 DEF Dial, LinkTypes, OneSocket, Attached, link
  <2>2. CASE PeerCloses(c)
    BY <2>2 DEF PeerCloses, LinkTypes, OneSocket, Attached, link, mail
  <2>3. CASE ReadEnd(c)
    BY <2>3 DEF ReadEnd, LinkTypes, OneSocket, Attached, link, net
  <2>4. CASE wsOpenMsg(c)
    BY <2>4 DEF wsOpenMsg, LinkTypes, OneSocket, Attached
  <2>5. CASE Receive(c)
    BY <2>5 DEF Receive, OneSocket, Attached, link, mail
  <2> QED BY <1>1, <2>1, <2>2, <2>3, <2>4, <2>5
<1>2. CASE DialFails \/ wsOpenMsgErr \/ reconnectMsg \/ wsEnded
  BY <1>2 DEF DialFails, wsOpenMsgErr, reconnectMsg, wsEnded, OneSocket, Attached, link, net
<1>3. CASE initMsg \/ initMsgErr \/ splashDoneMsg \/ maybeFinishSplash \/ PostReturns \/ keyR \/ keyOther
  BY <1>3, ApartSteps DEF Apart, OneSocket, Attached
<1>4. ASSUME NEW c \in Conns, ReadEvent(c)
      PROVE  OneSocket' /\ Attached'
  BY <1>4 DEF ReadEvent, OneSocket, Attached, link
<1>5. ASSUME NEW c \in Conns, NEW n \in 1 .. MaxEvents, Event(c, n)
      PROVE  OneSocket' /\ Attached'
  BY <1>5, EventTakes DEF Takes, OneSocket, Attached, link, net
<1> QED BY <1>1, <1>2, <1>3, <1>4, <1>5 DEF LinkNext

LEMMA NoReader ==
    ASSUME NEW w \in Conns, NEW f, f = [c \in Conns |-> IF c = w THEN 1 ELSE 0]
    PROVE  [f EXCEPT ![w] = @ - 1] = [c \in Conns |-> IF c = None THEN 1 ELSE 0]
<1>1. [f EXCEPT ![w] = @ - 1] = [c \in Conns |-> IF c = w THEN f[w] - 1 ELSE f[c]]
  OBVIOUS
<1>2. f[w] - 1 = 0 /\ \A c \in Conns : c # w => f[c] = 0
  OBVIOUS
<1> QED BY <1>1, <1>2, NoneIsNoConn

LEMMA NewReader ==
    ASSUME NEW w \in Conns, NEW f, f = [c \in Conns |-> IF c = None THEN 1 ELSE 0]
    PROVE  [f EXCEPT ![w] = @ + 1] = [c \in Conns |-> IF c = w THEN 1 ELSE 0]
<1>1. [f EXCEPT ![w] = @ + 1] = [c \in Conns |-> IF c = w THEN f[w] + 1 ELSE f[c]]
  OBVIOUS
<1>2. f[w] + 1 = 1 /\ \A c \in Conns : f[c] = 0
  BY NoneIsNoConn
<1> QED BY <1>1, <1>2

\* A place is left when the next one is entered.
LEMMA StageInv ==
    ASSUME LinkTypes, restarts = 0 => OneStage, LinkNext, restarts' = 0
    PROVE  OneStage'
<1> USE NoneIsNoConn
<1>0. restarts = 0 /\ OneStage
  <2>1. restarts' = restarts \/ restarts' = restarts + 1
    BY EventTakes DEF LinkNext, Dial, DialFails, Receive, PeerCloses, ReadEvent, ReadEnd, initMsg, initMsgErr,
       wsOpenMsg, wsOpenMsgErr, reconnectMsg, wsEnded, Takes, splashDoneMsg, maybeFinishSplash, PostReturns,
       keyR, keyOther, past
  <2> QED BY <2>1 DEF LinkTypes
<1>1. ASSUME NEW c \in Conns, Receive(c) \/ PeerCloses(c)
      PROVE  OneStage'
  BY <1>0, <1>1 DEF Receive, PeerCloses, OneStage, Stage, link, mail
<1>2. ASSUME NEW c \in Conns, Dial(c)
      PROVE  OneStage'
  <2>1. Stage(1, {}, 0, {}, 0, 0, None) /\ begun
    BY <1>0, <1>2 DEF Dial, OneStage, Stage
  <2>2. Stage(0, {c}, 0, {}, 0, 0, None)' /\ begun'
    BY <1>2, <2>1 DEF Dial, Stage
  <2> QED BY <2>2 DEF OneStage
<1>3. CASE DialFails
  <2>1. Stage(1, {}, 0, {}, 0, 0, None) /\ begun
    BY <1>0, <1>3 DEF DialFails, OneStage, Stage
  <2>2. Stage(0, {}, 1, {}, 0, 0, None)' /\ begun'
    BY <1>3, <2>1 DEF DialFails, Stage
  <2> QED BY <2>2 DEF OneStage
<1>4. ASSUME NEW c \in Conns, ReadEvent(c)
      PROVE  OneStage'
  <2>1. Stage(0, {}, 0, {}, 0, 0, cur) /\ begun /\ c = cur
    BY <1>0, <1>4 DEF ReadEvent, OneStage, Stage
  <2>2. PICK k \in Nat : k = Head(buf[c])
    BY <1>4 DEF ReadEvent, LinkTypes
  <2>3. readers' = [d \in Conns |-> IF d = None THEN 1 ELSE 0]
    BY <1>4, <2>1, NoReader DEF ReadEvent, Stage
  <2>4. Stage(0, {}, 0, {<<c, k>>}, 0, 0, None)' /\ begun' /\ cur' = c
    BY <1>4, <2>1, <2>2, <2>3 DEF ReadEvent, Stage, link
  <2> QED BY <2>4 DEF OneStage, Stage
<1>5. ASSUME NEW c \in Conns, ReadEnd(c)
      PROVE  OneStage'
  <2>1. Stage(0, {}, 0, {}, 0, 0, cur) /\ begun /\ c = cur
    BY <1>0, <1>5 DEF ReadEnd, OneStage, Stage
  <2>2. readers' = [d \in Conns |-> IF d = None THEN 1 ELSE 0]
    BY <1>5, <2>1, NoReader DEF ReadEnd, Stage
  <2>3. /\ dials' = 0 /\ opened' = {} /\ failed' = 0 /\ read' = {} /\ ended' = 1 /\ ticks' = 0
        /\ begun'
    BY <1>5, <2>1 DEF ReadEnd, Stage
  <2>4. Stage(0, {}, 0, {}, 1, 0, None)' /\ begun'
    BY <2>2, <2>3 DEF Stage
  <2> QED BY <2>4 DEF OneStage
<1>6. ASSUME NEW c \in Conns, wsOpenMsg(c)
      PROVE  OneStage'
  <2>1. Stage(0, {c}, 0, {}, 0, 0, None) /\ begun
    BY <1>0, <1>6 DEF wsOpenMsg, OneStage, Stage
  <2>2. readers' = [d \in Conns |-> IF d = c THEN 1 ELSE 0]
    BY <1>6, <2>1, NewReader DEF wsOpenMsg, Stage
  <2>3. Stage(0, {}, 0, {}, 0, 0, c)' /\ begun' /\ cur' = c
    BY <1>6, <2>1, <2>2 DEF wsOpenMsg, Stage
  <2> QED BY <2>3 DEF OneStage, Stage
<1>7. CASE wsOpenMsgErr
  <2>1. Stage(0, {}, 1, {}, 0, 0, None) /\ begun
    BY <1>0, <1>7 DEF wsOpenMsgErr, OneStage, Stage, LinkTypes
  <2>2. (Stage(0, {}, 0, {}, 0, 0, None)' \/ Stage(0, {}, 0, {}, 0, 1, None)') /\ begun'
    BY <1>7, <2>1 DEF wsOpenMsgErr, Stage, net
  <2> QED BY <2>2 DEF OneStage
<1>8. CASE reconnectMsg
  <2>1. Stage(0, {}, 0, {}, 0, 1, None) /\ begun
    BY <1>0, <1>8 DEF reconnectMsg, OneStage, Stage, LinkTypes
  <2>2. Stage(1, {}, 0, {}, 0, 0, None)' /\ begun'
    BY <1>8, <2>1 DEF reconnectMsg, Stage, net
  <2> QED BY <2>2 DEF OneStage
<1>9. CASE wsEnded
  <2>1. Stage(0, {}, 0, {}, 1, 0, None) /\ begun
    BY <1>0, <1>9 DEF wsEnded, OneStage, Stage, LinkTypes
  <2>2. Stage(0, {}, 0, {}, 0, 1, None)' /\ begun'
    BY <1>9, <2>1 DEF wsEnded, Stage, net
  <2> QED BY <2>2 DEF OneStage
<1>10. ASSUME NEW c \in Conns, NEW n \in 1 .. MaxEvents, Event(c, n)
       PROVE  OneStage'
  <2>1. Takes(c, n)
    BY <1>10, EventTakes
  <2>2. Stage(0, {}, 0, {<<c, n>>}, 0, 0, None) /\ begun /\ cur = c
    BY <1>0, <2>1 DEF Takes, OneStage, Stage
  <2>3. readers' = [d \in Conns |-> IF d = c THEN 1 ELSE 0]
    BY <2>1, <2>2, NewReader DEF Takes, Stage
  <2>4. Stage(0, {}, 0, {}, 0, 0, c)' /\ begun' /\ cur' = c
    BY <2>1, <2>2, <2>3 DEF Takes, Stage, link
  <2> QED BY <2>4 DEF OneStage, Stage
<1>11. CASE initMsg \/ initMsgErr \/ splashDoneMsg \/ maybeFinishSplash \/ PostReturns \/ keyR \/ keyOther
  <2>1. Apart
    BY <1>11, ApartSteps
  <2>2. CASE ~begun
    <3>1. Stage(0, {}, 0, {}, 0, 0, None)
      BY <1>0, <2>2 DEF OneStage
    <3>2. \/ Stage(0, {}, 0, {}, 0, 0, None)'
          \/ begun' /\ Stage(1, {}, 0, {}, 0, 0, None)'
      BY <1>0, <2>1, <3>1 DEF Apart, Stage
    <3> QED BY <3>2 DEF OneStage
  <2>3. CASE begun
    <3>1. UNCHANGED <<begun, dials>>
      BY <1>0, <2>1, <2>3 DEF Apart
    <3> QED BY <1>0, <2>1, <2>3, <3>1 DEF Apart, OneStage, Stage
  <2> QED BY <2>2, <2>3
<1> QED BY <1>1, <1>2, <1>3, <1>4, <1>5, <1>6, <1>7, <1>8, <1>9, <1>10, <1>11 DEF LinkNext

\* A step that touches neither the buffers nor what was read of them.
LEMMA OrderKept ==
    ASSUME NEW c \in Conns, InOrderOf(c), UNCHANGED <<buf, sent, shown, read>>,
           restarts' = 0 => restarts = 0
    PROVE  InOrderOf(c)'
  BY DEF InOrderOf, Before

LEMMA OrderInv ==
    ASSUME LinkInv, LinkNext
    PROVE  (\A c \in Conns : InOrderOf(c)') /\ EventsInOrder'
<1> USE NoneIsNoConn
<1>0. restarts' = 0 => restarts = 0
  <2>1. restarts' = restarts \/ restarts' = restarts + 1
    BY EventTakes DEF LinkInv, LinkNext, Dial, DialFails, Receive, PeerCloses, ReadEvent, ReadEnd, initMsg, initMsgErr,
       wsOpenMsg, wsOpenMsgErr, reconnectMsg, wsEnded, Takes, splashDoneMsg, maybeFinishSplash, PostReturns,
       keyR, keyOther, past
  <2> QED BY <2>1 DEF LinkInv, LinkTypes
<1>1. ASSUME UNCHANGED <<buf, sent, shown, read, disordered>>
      PROVE  (\A c \in Conns : InOrderOf(c)') /\ EventsInOrder'
  <2>1. \A c \in Conns : InOrderOf(c)'
    BY <1>0, <1>1, OrderKept DEF LinkInv
  <2>2. restarts \in Nat /\ restarts' \in Nat
    BY LinkTyped DEF LinkInv, LinkTypes, InOrderOf
  <2> QED BY <1>0, <1>1, <2>1, <2>2 DEF EventsInOrder, LinkInv
<1>2. ASSUME NEW c \in Conns, Dial(c) \/ PeerCloses(c) \/ ReadEnd(c) \/ wsOpenMsg(c)
      PROVE  UNCHANGED <<buf, sent, shown, read, disordered>>
  BY <1>2 DEF Dial, PeerCloses, ReadEnd, wsOpenMsg, screen, link, net, mail, past
<1>3. CASE DialFails \/ wsOpenMsgErr \/ reconnectMsg \/ wsEnded
  BY <1>1, <1>3 DEF DialFails, wsOpenMsgErr, reconnectMsg, wsEnded, net, past
<1>4. CASE initMsg \/ initMsgErr \/ splashDoneMsg \/ maybeFinishSplash \/ PostReturns \/ keyR \/ keyOther
  BY <1>1, <1>4, ApartSteps DEF Apart
<1>5. ASSUME NEW c \in Conns, Receive(c)
      PROVE  (\A d \in Conns : InOrderOf(d)') /\ EventsInOrder'
  <2>1. /\ UNCHANGED <<shown, read, disordered, restarts>>
        /\ sent' = [sent EXCEPT ![c] = @ + 1]
        /\ buf' = buf \/ buf' = [buf EXCEPT ![c] = Append(@, sent[c] + 1)]
    BY <1>5 DEF Receive, mail, past, LinkInv, LinkTypes
  <2>2. /\ sent[c] \in Nat /\ shown[c] \in Nat /\ buf[c] \in Seq(Nat) /\ sent'[c] = sent[c] + 1
        /\ \A n \in Nat : <<c, n>> \in read => n <= sent[c]
    BY <2>1 DEF LinkInv, LinkTypes, InOrderOf
  <2>3. ASSUME NEW d \in Conns, d # c PROVE InOrderOf(d)'
    <3>1. sent'[d] = sent[d] /\ buf'[d] = buf[d]
      BY <2>1, <2>3 DEF LinkInv, LinkTypes
    <3> QED BY <2>1, <3>1 DEF LinkInv, InOrderOf
  <2>4. InOrderOf(c)'
    <3>1. InOrderOf(c) /\ \A i \in 1 .. Len(buf[c]) : buf[c][i] \in Nat
      BY <2>2 DEF LinkInv
    <3>2. CASE buf' = buf
      BY <2>1, <2>2, <3>1, <3>2 DEF InOrderOf
    <3>3. CASE buf' = [buf EXCEPT ![c] = Append(@, sent[c] + 1)]
      <4>1. buf'[c] = Append(buf[c], sent[c] + 1)
        BY <3>3 DEF LinkInv, LinkTypes
      <4>2. PICK k \in Nat : k = sent[c] + 1
        BY <2>2
      <4>3. Before(buf'[c]) /\ \A i \in 1 .. Len(buf'[c]) :
                buf'[c][i] = k \/ \E j \in 1 .. Len(buf[c]) : buf'[c][i] = buf[c][j]
        <5>1. Before(buf[c]) /\ \A i \in 1 .. Len(buf[c]) : buf[c][i] < k
          BY <2>2, <3>1, <4>2 DEF InOrderOf
        <5>2. buf'[c] = Append(buf[c], k)
          BY <4>1, <4>2
        <5>3. PICK s \in Seq(Nat) : s = buf[c]
          BY <2>2, Zenon
        <5>4. Before(s) /\ \A i \in 1 .. Len(s) : s[i] < k
          BY <5>1, <5>3, Zenon
        <5>5. /\ Before(Append(s, k))
              /\ \A i \in 1 .. Len(Append(s, k)) :
                    Append(s, k)[i] = k \/ \E j \in 1 .. Len(s) : Append(s, k)[i] = s[j]
          BY <5>4, AppendKeeps, Zenon
        <5>6. buf'[c] = Append(s, k)
          BY <5>2, <5>3
        <5> QED BY <5>3, <5>5, <5>6
      <4>4. ASSUME NEW i \in 1 .. Len(buf'[c])
            PROVE  /\ shown[c] < buf'[c][i] /\ buf'[c][i] <= k
                   /\ \A n \in Nat : <<c, n>> \in read => n < buf'[c][i]
        <5>1. CASE buf'[c][i] = k
          BY <2>2, <3>1, <4>2, <5>1 DEF InOrderOf
        <5>2. ASSUME NEW j \in 1 .. Len(buf[c]), buf'[c][i] = buf[c][j]
              PROVE  /\ shown[c] < buf'[c][i] /\ buf'[c][i] <= k
                     /\ \A n \in Nat : <<c, n>> \in read => n < buf'[c][i]
          BY <2>2, <3>1, <4>2, <5>2, SMTT(20) DEF InOrderOf
        <5> QED BY <4>3, <5>1, <5>2
      <4> QED BY <2>1, <2>2, <3>1, <4>2, <4>3, <4>4 DEF InOrderOf
    <3> QED BY <2>1, <3>2, <3>3
  <2> QED BY <2>1, <2>3, <2>4 DEF EventsInOrder, LinkInv
<1>6. ASSUME NEW c \in Conns, ReadEvent(c)
      PROVE  (\A d \in Conns : InOrderOf(d)') /\ EventsInOrder'
  <2>1. /\ UNCHANGED <<sent, shown, disordered, restarts>>
        /\ read' = read \cup {<<c, Head(buf[c])>>}
        /\ buf' = [buf EXCEPT ![c] = Tail(@)]
        /\ buf[c] # <<>> /\ readers[c] > 0
    BY <1>6 DEF ReadEvent, past
  <2>2. /\ sent[c] \in Nat /\ shown[c] \in Nat /\ buf[c] \in Seq(Nat) /\ buf'[c] = Tail(buf[c])
        /\ InOrderOf(c)
    BY <2>1 DEF LinkInv, LinkTypes
  <2>3. ASSUME NEW d \in Conns, d # c PROVE InOrderOf(d)'
    <3>1. buf'[d] = buf[d] /\ \A n \in Nat : <<d, n>> \in read' => <<d, n>> \in read
      BY <2>1, <2>3 DEF LinkInv, LinkTypes
    <3> QED BY <2>1, <3>1 DEF LinkInv, InOrderOf
  <2>4. InOrderOf(c)'
    <3>1. /\ Head(buf[c]) \in Nat /\ Before(Tail(buf[c]))
          /\ \E j \in 1 .. Len(buf[c]) : Head(buf[c]) = buf[c][j]
          /\ \A i \in 1 .. Len(Tail(buf[c])) :
                Head(buf[c]) < Tail(buf[c])[i] /\ \E j \in 1 .. Len(buf[c]) : Tail(buf[c])[i] = buf[c][j]
      BY <2>1, <2>2, TailKeeps DEF InOrderOf
    <3>2. \A n \in Nat : <<c, n>> \in read' => <<c, n>> \in read \/ n = Head(buf[c])
      BY <2>1
    <3>3. \A i \in 1 .. Len(buf'[c]) : \E j \in 1 .. Len(buf[c]) : buf'[c][i] = buf[c][j]
      BY <2>2, <3>1
    <3>4. \A i \in 1 .. Len(buf'[c]) : Head(buf[c]) < buf'[c][i]
      BY <2>2, <3>1
    <3>5. Before(buf'[c])
      BY <2>2, <3>1
    <3> QED BY <2>1, <2>2, <3>1, <3>2, <3>3, <3>4, <3>5 DEF InOrderOf
  <2> QED BY <2>1, <2>3, <2>4 DEF EventsInOrder, LinkInv
<1>7. ASSUME NEW c \in Conns, NEW n \in 1 .. MaxEvents, Event(c, n)
      PROVE  (\A d \in Conns : InOrderOf(d)') /\ EventsInOrder'
  <2>1. /\ <<c, n>> \in read /\ read' = read \ {<<c, n>>} /\ UNCHANGED <<sent, buf, restarts>>
        /\ shown' = [shown EXCEPT ![c] = IF n > @ THEN n ELSE @]
        /\ disordered' = (disordered \/ n < shown[c])
    BY <1>7, EventTakes DEF Takes, LinkInv, net
  <2>2. n \in Nat /\ shown[c] \in Nat /\ shown \in [Conns -> Nat] /\ buf[c] \in Seq(Nat) /\ sent[c] \in Nat
    BY TuiLinkAssumption DEF LinkInv, LinkTypes
  <2>3. ASSUME NEW d \in Conns, d # c PROVE InOrderOf(d)'
    <3>1. shown'[d] = shown[d]
      BY <2>1, <2>2, <2>3
    <3> QED BY <2>1, <3>1 DEF LinkInv, InOrderOf
  <2>4. InOrderOf(c)'
    <3>1. shown'[c] = IF n > shown[c] THEN n ELSE shown[c]
      BY <2>1, <2>2
    <3>2. InOrderOf(c)
      BY DEF LinkInv
    <3>3. restarts = 0 => \A m \in Nat : <<c, m>> \notin read'
      BY <2>1 DEF LinkInv, OneStage, Stage
    <3> QED BY <2>1, <2>2, <3>1, <3>2, <3>3 DEF InOrderOf
  <2>5. EventsInOrder'
    <3>1. restarts = 0 => shown[c] < n
      BY <2>1, <2>2 DEF LinkInv, InOrderOf
    <3>2. restarts \in Nat
      BY DEF LinkInv, LinkTypes
    <3>3. restarts = 0 => ~(n < shown[c])
      BY <2>2, <3>1
    <3>4. CASE restarts = 0
      <4>1. ~disordered
        BY <3>4 DEF LinkInv, EventsInOrder
      <4>2. ~disordered'
        BY <2>1, <3>3, <3>4, <4>1
      <4> QED BY <4>2 DEF EventsInOrder
    <3> QED BY <2>1, <3>2, <3>4 DEF EventsInOrder
  <2> QED BY <2>3, <2>4, <2>5
<1> QED BY <1>1, <1>2, <1>3, <1>4, <1>5, <1>6, <1>7 DEF LinkNext

LEMMA LinkInvariant == LinkSpec => []LinkInv
<1>1. LinkInit => LinkInv
  <2> SUFFICES ASSUME LinkInit PROVE LinkInv
    OBVIOUS
  <2>1. LinkTypes
    <3>1. <<>> \in Seq(Nat) /\ {} \subseteq Conns \X Nat
      OBVIOUS
    <3> QED BY <3>1 DEF LinkInit, LinkTypes, Statuses
  <2>2. OneSocket /\ Attached /\ EventsInOrder
    BY DEF LinkInit, OneSocket, Attached, EventsInOrder
  <2>3. OneStage
    <3>1. readers = [c \in Conns |-> IF c = None THEN 1 ELSE 0]
      BY NoneIsNoConn DEF LinkInit
    <3> QED BY <3>1 DEF LinkInit, OneStage, Stage
  <2>4. ASSUME NEW c \in Conns PROVE InOrderOf(c)
    BY DEF LinkInit, InOrderOf, Before
  <2> QED BY <2>1, <2>2, <2>3, <2>4 DEF LinkInv
<1>2. LinkInv /\ [LinkNext]_linkVars => LinkInv'
  <2>1. CASE UNCHANGED linkVars
    BY <2>1 DEF linkVars, LinkInv, LinkTypes, OneSocket, Attached, OneStage, Stage, InOrderOf, Before, EventsInOrder
  <2>2. ASSUME LinkInv, LinkNext PROVE LinkInv'
    <3>1. LinkTypes'
      BY <2>2, LinkTyped DEF LinkInv, InOrderOf
    <3>2. OneSocket' /\ Attached'
      BY <2>2, SocketInv DEF LinkInv
    <3>3. restarts' = 0 => OneStage'
      BY <2>2, StageInv DEF LinkInv
    <3> QED BY <2>2, <3>1, <3>2, <3>3, OrderInv DEF LinkInv
  <2> QED BY <2>1, <2>2
<1> QED BY <1>1, <1>2, PTL DEF LinkSpec

\* The TUI holds every socket that is open, or is about to be given it: x.ws
\* and the commands never lose one, however many fail.
THEOREM NoSocketIsForgotten == LinkSpec => []OneSocket
<1>1. LinkInv => OneSocket
  BY DEF LinkInv
<1> QED BY <1>1, LinkInvariant, PTL

\* Without a second socket, Update handles events in the order they were sent.
THEOREM EventsStayInOrder == LinkSpec => []EventsInOrder
<1>1. LinkInv => EventsInOrder
  BY DEF LinkInv
<1> QED BY <1>1, LinkInvariant, PTL

\* Off the chat screen, what ends or fails is followed by another attempt.
THEOREM AttemptsFollow == LinkSpec => KeepsTrying
<1>1. ASSUME LinkInv, LinkNext, Trying, status # "ready" PROVE Trying'
  <2> USE NoneIsNoConn
  <2>0. LinkTypes /\ LinkTypes'
    BY <1>1, LinkTyped DEF LinkInv, InOrderOf
  <2>1. ASSUME NEW c \in Conns, Dial(c) \/ Receive(c) \/ PeerCloses(c) \/ ReadEvent(c) \/ ReadEnd(c) \/ wsOpenMsg(c)
        PROVE  Trying'
    <3>1. CASE Dial(c)
      BY <3>1 DEF Dial, Trying
    <3>2. CASE Receive(c) \/ PeerCloses(c)
      BY <1>1, <3>2 DEF Receive, PeerCloses, Trying, mail
    <3>3. CASE ReadEvent(c)
      BY <3>3 DEF ReadEvent, Trying
    <3>4. CASE ReadEnd(c)
      BY <2>0, <3>4 DEF ReadEnd, Trying, LinkTypes
    <3>5. CASE wsOpenMsg(c)
      BY <2>0, <3>5 DEF wsOpenMsg, Trying, LinkTypes
    <3> QED BY <2>1, <3>1, <3>2, <3>3, <3>4, <3>5
  <2>2. CASE DialFails \/ wsOpenMsgErr \/ reconnectMsg \/ wsEnded
    BY <1>1, <2>0, <2>2 DEF DialFails, wsOpenMsgErr, reconnectMsg, wsEnded, Trying, LinkTypes
  <2>3. CASE initMsg \/ initMsgErr \/ splashDoneMsg \/ maybeFinishSplash \/ PostReturns \/ keyR \/ keyOther
    <3>1. UNCHANGED <<readers, opened, failed, read, ended, ticks>> /\ (dials' = dials \/ dials' = dials + 1)
      BY <2>3 DEF initMsg, initMsgErr, splashDoneMsg, maybeFinishSplash, PostReturns, keyR, keyOther, mail
    <3> QED BY <1>1, <2>0, <3>1 DEF Trying, LinkTypes
  <2>4. ASSUME NEW c \in Conns, NEW n \in 1 .. MaxEvents, Event(c, n)
        PROVE  Trying'
    <3>1. Takes(c, n)
      BY <2>0, <2>4, EventTakes
    <3>2. cur \in Conns
      BY <1>1, <2>0, <3>1 DEF Takes, LinkInv, Attached, LinkTypes
    <3>3. readers'[cur] > 0
      <4>1. /\ readers \in [Conns -> Nat]
            /\ readers' = [readers EXCEPT ![cur] = readers[cur] + 1]
        BY <2>0, <3>1 DEF Takes, LinkTypes
      <4> QED BY <3>2, <4>1
    <3> QED BY <3>2, <3>3 DEF Trying
  <2> QED BY <1>1, <2>1, <2>2, <2>3, <2>4 DEF LinkNext
<1>2. ASSUME LinkInv, [LinkNext]_linkVars
      PROVE  [Trying => Trying' \/ status = "ready"]_linkVars
  BY <1>1, <1>2
<1> QED BY <1>2, LinkInvariant, PTL DEF LinkSpec, KeepsTrying

-----------------------------------------------------------------------------
(* TuiSession.                                                               *)

Places == {"off", "creating", "ensuring", "spawning", "probing", "failed", "running", "registered", "gone"}
Presences == [online : BOOLEAN, passed : BOOLEAN]

Terminals == [at : Places, token : Nat, child : BOOLEAN, accepted : BOOLEAN]
Backends == [alive : BOOLEAN, old : BOOLEAN, token : Nat, pid : Nat, aged : BOOLEAN,
             rotating : {"no", "decided", "written"}, new : Nat, showOnline : BOOLEAN]

SessionTypes ==
    /\ backend \in Backends
    /\ tui \in [Tuis -> Terminals]
    /\ file \in Nat /\ made \in Nat /\ retired \subseteq Nat /\ strayed \in BOOLEAN
    /\ setting \in BOOLEAN /\ asked \in BOOLEAN
    /\ wa \in [connected : BOOLEAN, shown : BOOLEAN, mixed : BOOLEAN]
    /\ sending \in Seq(Presences)

\* A token is retired for good: a new one is fresh, and between the two writes
\* of a rotation the file holds no longer what is about to be retired.
TokensInv ==
    /\ file \in 0 .. made /\ retired \subseteq 1 .. made
    /\ file \notin retired
    /\ ~backend.alive => backend = NoBackend
    /\ backend.alive =>
          /\ backend.token \in 1 .. made /\ backend.token \notin retired
          /\ backend.rotating = "written" =>
                /\ backend.new \in 1 .. made /\ backend.new \notin retired
                /\ backend.new # backend.token /\ file # backend.token
          /\ ~strayed => /\ file # NoToken
                         /\ file = IF backend.rotating = "written" THEN backend.new ELSE backend.token

\* Whatever is on its way to WhatsApp was asked for, and what was read last is
\* the setting, unless it was overtaken.
PresenceInv ==
    /\ wa.shown \/ backend.showOnline => asked
    /\ \A i \in 1 .. Len(sending) : sending[i].online => asked
    /\ ~backend.alive => ~wa.connected /\ ~wa.shown /\ sending = <<>>
    /\ wa.connected /\ Len(sending) # 0 /\ ~sending[Len(sending)].passed =>
          sending[Len(sending)].online = backend.showOnline
    /\ wa.connected /\ Len(sending) = 0 /\ ~wa.mixed => wa.shown = backend.showOnline

SessionInv == SessionTypes /\ TokensInv /\ PresenceInv

LEMMA NoBackendIs ==
    /\ NoBackend.alive = FALSE /\ NoBackend.showOnline = FALSE
    /\ NoBackend \in Backends
    /\ Offline \in [connected : BOOLEAN, shown : BOOLEAN, mixed : BOOLEAN]
    /\ ~Offline.connected /\ ~Offline.shown
    /\ <<>> \in Seq(Presences)
  BY DEF NoBackend, Offline, NoToken, NoPid, Backends

\* What a step may write into the record of one TUI, and of the others.
LEMMA TerminalChanges ==
    ASSUME NEW r \in Terminals, NEW a \in Places, NEW k \in Nat, NEW c \in BOOLEAN, NEW o \in BOOLEAN
    PROVE  /\ [r EXCEPT !.at = a] \in Terminals
           /\ [r EXCEPT !.accepted = o] \in Terminals
           /\ [r EXCEPT !.token = k, !.at = a] \in Terminals
           /\ [r EXCEPT !.at = a, !.child = c] \in Terminals
           /\ [r EXCEPT !.at = a, !.accepted = o] \in Terminals
           /\ [r EXCEPT !.child = c, !.accepted = o] \in Terminals
           /\ [r EXCEPT !.at = a, !.child = c, !.accepted = o] \in Terminals
  BY DEF Terminals

LEMMA OneTerminal ==
    ASSUME tui \in [Tuis -> Terminals], NEW t \in Tuis, NEW r \in Terminals
    PROVE  [tui EXCEPT ![t] = r] \in [Tuis -> Terminals]
  OBVIOUS

LEMMA TerminalMoves ==
    ASSUME tui \in [Tuis -> Terminals], NEW t \in Tuis, NEW a \in Places
    PROVE  [tui EXCEPT ![t].at = a] \in [Tuis -> Terminals]
<1>1. [tui EXCEPT ![t].at = a] = [tui EXCEPT ![t] = [tui[t] EXCEPT !.at = a]]
  OBVIOUS
<1>2. [tui[t] EXCEPT !.at = a] \in Terminals
  BY DEF Terminals
<1> QED BY <1>1, <1>2, OneTerminal

LEMMA TerminalTakes ==
    ASSUME tui \in [Tuis -> Terminals], NEW t \in Tuis, NEW a \in Places, NEW k \in Nat
    PROVE  [tui EXCEPT ![t].token = k, ![t].at = a] \in [Tuis -> Terminals]
<1>1. [tui EXCEPT ![t].token = k, ![t].at = a] = [tui EXCEPT ![t] = [tui[t] EXCEPT !.token = k, !.at = a]]
  OBVIOUS
<1>2. [tui[t] EXCEPT !.token = k, !.at = a] \in Terminals
  BY DEF Terminals
<1> QED BY <1>1, <1>2, OneTerminal

LEMMA TerminalSpawns ==
    ASSUME tui \in [Tuis -> Terminals], NEW t \in Tuis, NEW a \in Places, NEW c \in BOOLEAN
    PROVE  [tui EXCEPT ![t].at = a, ![t].child = c] \in [Tuis -> Terminals]
<1>1. [tui EXCEPT ![t].at = a, ![t].child = c] = [tui EXCEPT ![t] = [tui[t] EXCEPT !.at = a, !.child = c]]
  OBVIOUS
<1>2. [tui[t] EXCEPT !.at = a, !.child = c] \in Terminals
  BY DEF Terminals
<1> QED BY <1>1, <1>2, OneTerminal

\* A backend that stops, with everything in its memory.
LEMMA GoneInv ==
    ASSUME SessionInv, BackendGone, UNCHANGED <<file, made, retired>>
    PROVE  TokensInv' /\ PresenceInv'
<1>1. sending' = <<>> /\ Len(sending') = 0
  BY DEF BackendGone
<1> QED BY <1>1, NoBackendIs DEF SessionInv, SessionTypes, BackendGone, TokensInv, PresenceInv

\* A step that leaves the tokens, or the presence, alone.
LEMMA TokensKept ==
    ASSUME TokensInv, UNCHANGED <<file, made, retired, strayed>>,
           backend' = backend \/ /\ backend.alive /\ backend'.alive /\ backend'.token = backend.token
                                 /\ backend'.rotating = "written" <=> backend.rotating = "written"
                                 /\ backend'.new = backend.new
    PROVE  TokensInv'
  BY DEF TokensInv

LEMMA PresenceKept ==
    ASSUME PresenceInv, UNCHANGED <<asked, wa, sending>>,
           backend'.showOnline = backend.showOnline, backend.alive => backend'.alive
    PROVE  PresenceInv'
  BY DEF PresenceInv

\* The TUI's start.
LEMMA StartInv ==
    ASSUME SessionInv, NEW t \in Tuis,
           Launch(t) \/ CreateToken(t) \/ EnsureBackend(t) \/ Spawn(t) \/ Probe(t) \/ Register(t)
    PROVE  SessionInv'
<1> USE DEF SessionInv
<1>1. CASE Launch(t) \/ Probe(t)
  <2>1. UNCHANGED <<file, backend, made, retired, strayed, setting, asked, wa, sending>>
    BY <1>1 DEF Launch, Probe, tokens, presence
  <2>2. tui' \in [Tuis -> Terminals]
    <3>1. file \in Nat /\ {"creating", "ensuring", "running", "failed"} \subseteq Places
      BY DEF SessionTypes, Places
    <3>2. CASE Launch(t)
      <4>1. PICK a \in Places : tui' = [tui EXCEPT ![t].token = file, ![t].at = a]
        BY <3>1, <3>2 DEF Launch
      <4> QED BY <3>1, <4>1, TerminalTakes DEF SessionTypes
    <3>3. CASE Probe(t)
      <4>1. PICK a \in Places : tui' = [tui EXCEPT ![t].at = a]
        BY <3>1, <3>3 DEF Probe
      <4> QED BY <4>1, TerminalMoves DEF SessionTypes
    <3> QED BY <1>1, <3>2, <3>3
  <2> QED BY <2>1, <2>2, TokensKept, PresenceKept DEF SessionTypes
<1>2. CASE CreateToken(t)
  <2>1. UNCHANGED <<backend, retired, setting, asked, wa, sending>> /\ made' = made + 1 /\ file' = made + 1
    BY <1>2 DEF CreateToken, presence
  <2>2. strayed' = (strayed \/ (backend.alive /\ file # NoToken))
    BY <1>2 DEF CreateToken
  <2>3. tui' \in [Tuis -> Terminals]
    <3>1. made' \in Nat /\ "ensuring" \in Places /\ tui \in [Tuis -> Terminals]
      BY <2>1 DEF SessionTypes, Places
    <3>2. tui' = [tui EXCEPT ![t].token = made', ![t].at = "ensuring"]
      BY <1>2 DEF CreateToken
    <3> QED BY <3>1, <3>2, TerminalTakes
  <2>4. strayed' \in BOOLEAN
    BY <2>2, Zenon
  <2>5. backend.alive => strayed'
    BY <2>2 DEF TokensInv
  <2>6. TokensInv'
    BY <2>1, <2>5 DEF TokensInv, SessionTypes
  <2> QED BY <2>1, <2>3, <2>4, <2>6, PresenceKept DEF SessionTypes, Backends
<1>3. CASE EnsureBackend(t)
  <2>1. /\ UNCHANGED <<file, made, retired, setting>>
        /\ BackendGone \/ UNCHANGED <<backend, asked, wa, sending, strayed>>
    BY <1>3 DEF EnsureBackend
  <2>2. tui' \in [Tuis -> Terminals]
    <3>1. PICK a \in Places : tui' = [tui EXCEPT ![t].at = a]
      BY <1>3 DEF EnsureBackend, Places
    <3> QED BY <3>1, TerminalMoves DEF SessionTypes
  <2>3. TokensInv' /\ PresenceInv'
    BY <2>1, GoneInv, TokensKept, PresenceKept
  <2>4. /\ backend' \in Backends
        /\ wa' \in [connected : BOOLEAN, shown : BOOLEAN, mixed : BOOLEAN]
        /\ asked' \in BOOLEAN /\ strayed' \in BOOLEAN /\ sending' \in Seq(Presences)
    BY <2>1, NoBackendIs DEF BackendGone, SessionTypes
  <2> QED BY <2>1, <2>2, <2>3, <2>4 DEF SessionTypes
<1>4. CASE Spawn(t)
  <2>1. UNCHANGED <<file, made, retired, strayed, setting, asked, wa, sending>>
    BY <1>4 DEF Spawn, tokens, presence
  <2>2. tui' \in [Tuis -> Terminals]
    <3>1. (~backend.alive) \in BOOLEAN /\ {"failed", "probing"} \subseteq Places /\ tui \in [Tuis -> Terminals]
      BY DEF SessionTypes, Backends, Places
    <3>2. \/ tui' = [tui EXCEPT ![t].at = "failed"]
          \/ tui' = [tui EXCEPT ![t].at = "probing", ![t].child = ~backend.alive]
      BY <1>4 DEF Spawn
    <3>3. CASE tui' = [tui EXCEPT ![t].at = "failed"]
      BY <3>1, <3>3, TerminalMoves
    <3>4. CASE tui' = [tui EXCEPT ![t].at = "probing", ![t].child = ~backend.alive]
      <4>1. PICK c \in BOOLEAN : c = ~backend.alive
        BY <3>1
      <4>2. tui' = [tui EXCEPT ![t].at = "probing", ![t].child = c]
        BY <3>4, <4>1
      <4> QED BY <3>1, <4>2, TerminalSpawns
    <3> QED BY <3>2, <3>3, <3>4
  <2>3. CASE backend' = backend
    BY <2>1, <2>2, <2>3, TokensKept, PresenceKept DEF SessionTypes
  <2>4. CASE ~backend.alive /\ readSessionToken /\ backend' = NewBackend
    <3>1. /\ NewBackend \in Backends
          /\ NewBackend.alive = TRUE /\ NewBackend.token = file /\ NewBackend.rotating = "no"
          /\ NewBackend.showOnline = FALSE
      BY NoBackendIs DEF NewBackend, NoBackend, SessionTypes, Backends
    <3>2. TokensInv'
      BY <2>1, <2>4, <3>1 DEF TokensInv, readSessionToken, NoToken, SessionTypes
    <3>3. PresenceInv'
      BY <2>1, <2>4, <3>1 DEF PresenceInv, TokensInv, NoBackend
    <3> QED BY <2>1, <2>2, <2>4, <3>1, <3>2, <3>3 DEF SessionTypes
  <2> QED BY <1>4, <2>3, <2>4 DEF Spawn
<1>5. CASE Register(t)
  <2>1. UNCHANGED <<file, made, retired, strayed, setting, asked, wa, sending>>
    BY <1>5 DEF Register, tokens, presence
  <2>2. tui' \in [Tuis -> Terminals]
    <3>1. "registered" \in Places /\ TRUE \in BOOLEAN /\ FALSE \in BOOLEAN /\ 0 \in Nat
      BY DEF Places
    <3>2. CASE tui' = [tui EXCEPT ![t].at = "registered"]
      BY <3>1, <3>2, TerminalMoves DEF SessionTypes
    <3>3. CASE tui' = [u \in Tuis |->
                 IF u = t THEN [tui[u] EXCEPT !.at = "registered", !.accepted = TRUE]
                 ELSE [tui[u] EXCEPT !.accepted = FALSE]]
      BY <3>1, <3>3, TerminalChanges DEF SessionTypes
    <3> QED BY <1>5, <3>2, <3>3 DEF Register
  <2>3. \/ backend' = backend
        \/ backend' = [backend EXCEPT !.pid = t, !.aged = FALSE] /\ backend.alive
    <3>1. CASE Authorized(t)
      BY <1>5, <3>1 DEF Register, Authorized
    <3>2. CASE ~Authorized(t)
      BY <1>5, <3>2 DEF Register
    <3> QED BY <3>1, <3>2
  <2>4. t \in Nat
    BY TuiSessionAssumption
  <2>5. /\ backend' \in Backends
        /\ UNCHANGED <<backend.alive, backend.token, backend.rotating, backend.new, backend.showOnline>>
    BY <2>3, <2>4 DEF SessionTypes, Backends
  <2>6. TokensInv' /\ PresenceInv'
    BY <2>1, <2>3, <2>5, TokensKept, PresenceKept
  <2> QED BY <2>1, <2>2, <2>5, <2>6 DEF SessionTypes
<1> QED BY <1>1, <1>2, <1>3, <1>4, <1>5

\* The TUI's end, the backend's, and a logout.
LEMMA EndInv ==
    ASSUME SessionInv,
           BackendDies \/ \E t \in Tuis : Quit(t) \/ RestartTui(t) \/ TuiDies(t) \/ Logout(t)
    PROVE  SessionInv'
<1> USE DEF SessionInv
<1>1. ASSUME NEW t \in Tuis, NEW at \in Places, Leave(t, at)
      PROVE  SessionInv'
  <2>1. UNCHANGED <<file, made, retired, setting>> /\ (BackendGone \/ UNCHANGED <<backend, asked, wa, sending, strayed>>)
    BY <1>1 DEF Leave
  <2>2. tui' \in [Tuis -> Terminals]
    <3>1. /\ TRUE \in BOOLEAN /\ FALSE \in BOOLEAN /\ 0 \in Nat
          /\ tui' = [u \in Tuis |->
                 IF u = t THEN [tui[u] EXCEPT !.at = at, !.child = FALSE, !.accepted = FALSE]
                 ELSE IF Stops(t) THEN [tui[u] EXCEPT !.child = FALSE, !.accepted = FALSE]
                 ELSE tui[u]]
      BY <1>1 DEF Leave
    <3> QED BY <3>1, TerminalChanges DEF SessionTypes
  <2>3. TokensInv' /\ PresenceInv'
    BY <2>1, GoneInv, TokensKept, PresenceKept
  <2>4. /\ backend' \in Backends
        /\ wa' \in [connected : BOOLEAN, shown : BOOLEAN, mixed : BOOLEAN]
        /\ asked' \in BOOLEAN /\ strayed' \in BOOLEAN /\ sending' \in Seq(Presences)
    BY <2>1, NoBackendIs DEF BackendGone, SessionTypes
  <2> QED BY <2>1, <2>2, <2>3, <2>4 DEF SessionTypes
<1>2. CASE BackendDies
  <2>1. BackendGone /\ UNCHANGED <<file, made, retired, setting>>
    BY <1>2 DEF BackendDies
  <2>2. tui' \in [Tuis -> Terminals]
    <3>1. /\ TRUE \in BOOLEAN /\ FALSE \in BOOLEAN /\ 0 \in Nat /\ "gone" \in Places
          /\ tui' = [u \in Tuis |-> [tui[u] EXCEPT !.child = FALSE, !.accepted = FALSE]]
      BY <1>2 DEF BackendDies, Places
    <3> QED BY <3>1, TerminalChanges DEF SessionTypes
  <2>3. TokensInv' /\ PresenceInv'
    BY <2>1, GoneInv
  <2> QED BY <2>1, <2>2, <2>3, NoBackendIs DEF BackendGone, SessionTypes
<1>3. ASSUME NEW t \in Tuis, TuiDies(t)
      PROVE  SessionInv'
  <2>1. UNCHANGED <<file, backend, made, retired, strayed, setting, asked, wa, sending>>
    BY <1>3 DEF TuiDies, tokens, presence
  <2>2. tui' \in [Tuis -> Terminals]
    <3>1. /\ FALSE \in BOOLEAN /\ 0 \in Nat /\ "gone" \in Places
          /\ tui' = [tui EXCEPT ![t] = [tui[t] EXCEPT !.at = "gone", !.child = FALSE, !.accepted = FALSE]]
      BY <1>3 DEF TuiDies, Places
    <3>2. [tui[t] EXCEPT !.at = "gone", !.child = FALSE, !.accepted = FALSE] \in Terminals
      BY <3>1, TerminalChanges DEF SessionTypes
    <3> QED BY <3>1, <3>2 DEF SessionTypes
  <2> QED BY <2>1, <2>2, TokensKept, PresenceKept DEF SessionTypes
<1>4. ASSUME NEW t \in Tuis, Logout(t)
      PROVE  SessionInv'
  <2>1. /\ UNCHANGED <<backend, tui, made, retired, setting, asked, sending>>
        /\ file' = NoToken /\ strayed' = TRUE /\ wa' = Offline /\ backend.alive
    BY <1>4 DEF Logout, Authorized
  <2>2. TokensInv'
    BY <2>1 DEF TokensInv, NoToken, SessionTypes
  <2>3. PresenceInv'
    BY <2>1, NoBackendIs DEF PresenceInv
  <2> QED BY <2>1, <2>2, <2>3, NoBackendIs DEF SessionTypes, NoToken
<1> QED BY <1>1, <1>2, <1>3, <1>4 DEF Quit, RestartTui, Places

\* The rotation of the token.
LEMMA RotationInv ==
    ASSUME SessionInv, Age \/ Tick \/ RotateWrite \/ RotateSwap PROVE SessionInv'
<1> USE DEF SessionInv
<1>1. CASE Age \/ Tick
  <2>1. UNCHANGED <<file, tui, made, retired, strayed, setting, asked, wa, sending>>
    BY <1>1 DEF Age, Tick, tokens, presence
  <2>2. /\ backend' \in Backends
        /\ UNCHANGED <<backend.alive, backend.token, backend.new, backend.showOnline>>
        /\ backend.alive /\ (backend'.rotating = "written" <=> backend.rotating = "written")
    BY <1>1 DEF Age, Tick, SessionTypes, Backends
  <2>3. TokensInv' /\ PresenceInv'
    BY <2>1, <2>2, TokensKept, PresenceKept
  <2> QED BY <2>1, <2>2, <2>3 DEF SessionTypes
<1>2. CASE RotateWrite
  <2>1. UNCHANGED <<tui, retired, strayed, setting, asked, wa, sending>> /\ made' = made + 1
    BY <1>2 DEF RotateWrite, presence
  <2>2. backend.alive /\ backend.rotating = "decided"
    BY <1>2 DEF RotateWrite, TokensInv, NoBackend
  <2>3. CASE backend' = [backend EXCEPT !.rotating = "written", !.new = made + 1] /\ file' = made + 1
    <3>1. /\ backend' \in Backends
          /\ UNCHANGED <<backend.alive, backend.token, backend.showOnline>>
          /\ backend'.new = made + 1 /\ backend'.rotating = "written"
      <4>1. made + 1 \in Nat
        BY DEF SessionTypes
      <4> QED BY <2>3, <4>1 DEF SessionTypes, Backends
    <3>2. TokensInv'
      BY <2>1, <2>2, <2>3, <3>1 DEF TokensInv, SessionTypes, NoToken
    <3> QED BY <2>1, <2>3, <3>1, <3>2, PresenceKept DEF SessionTypes
  <2>4. CASE backend' = [backend EXCEPT !.rotating = "no"] /\ file' = file
    <3>1. /\ backend' \in Backends
          /\ UNCHANGED <<backend.alive, backend.token, backend.showOnline>>
          /\ backend'.rotating = "no"
      BY <2>4 DEF SessionTypes, Backends
    <3>2. TokensInv'
      BY <2>1, <2>2, <2>4, <3>1 DEF TokensInv, SessionTypes
    <3> QED BY <2>1, <2>4, <3>1, <3>2, PresenceKept DEF SessionTypes
  <2> QED BY <1>2, <2>1, <2>3, <2>4 DEF RotateWrite
<1>3. CASE RotateSwap
  <2>1. /\ UNCHANGED <<file, tui, made, setting, asked, wa, sending>>
        /\ retired' = retired \cup {backend.token} /\ strayed' = (strayed /\ file # backend.new)
    BY <1>3 DEF RotateSwap, presence
  <2>2. backend.alive /\ backend.rotating = "written"
    BY <1>3 DEF RotateSwap, TokensInv, NoBackend
  <2>3. /\ backend' \in Backends
        /\ UNCHANGED <<backend.alive, backend.showOnline>>
        /\ backend'.token = backend.new /\ backend'.rotating = "no"
    BY <1>3 DEF RotateSwap, SessionTypes, NoPid, NoToken, Backends
  <2>4. strayed' \in BOOLEAN
    <3>1. (strayed /\ file # backend.new) \in BOOLEAN
      BY Zenon
    <3> QED BY <2>1, <3>1, Zenon
  <2>5. ~strayed' => file # NoToken /\ file = backend.new
    <3>1. CASE strayed
      <4>1. ~strayed' => file = backend.new
        BY <2>1, <3>1
      <4> QED BY <2>2, <4>1 DEF TokensInv, NoToken
    <3>2. CASE ~strayed
      BY <2>2, <3>2 DEF TokensInv
    <3> QED BY <3>1, <3>2
  <2>6. TokensInv'
    BY <2>1, <2>2, <2>3, <2>5 DEF TokensInv, SessionTypes
  <2> QED BY <2>1, <2>3, <2>4, <2>6, PresenceKept DEF SessionTypes, Backends
<1> QED BY <1>1, <1>2, <1>3

\* The user's presence: what is sent, and what overtakes what.
LEMMA SendKeeps ==
    ASSUME sending \in Seq(Presences), NEW b \in BOOLEAN
    PROVE  /\ Send(b) \in Seq(Presences) /\ Len(Send(b)) = Len(sending) + 1
           /\ Send(b)[Len(Send(b))].online = b
           /\ \A i \in 1 .. Len(Send(b)) :
                 Send(b)[i].online = b \/ (i \in 1 .. Len(sending) /\ Send(b)[i] = sending[i])
<1> DEFINE e == [online |-> b, passed |-> FALSE]
<1>1. e \in Presences /\ e.online = b
  BY DEF Presences
<1> HIDE DEF e
<1>2. Append(sending, e) \in Seq(Presences) /\ Len(Append(sending, e)) = Len(sending) + 1
  BY <1>1
<1>3. /\ \A i \in 1 .. Len(sending) : Append(sending, e)[i] = sending[i]
      /\ Append(sending, e)[Len(sending) + 1] = e
  BY <1>1
<1>4. \A i \in 1 .. Len(sending) + 1 : i \in 1 .. Len(sending) \/ i = Len(sending) + 1
  OBVIOUS
<1>5. Send(b) = Append(sending, e)
  BY DEF Send, e
<1> QED BY <1>1, <1>2, <1>3, <1>4, <1>5

LEMMA SyncInv ==
    ASSUME SessionInv, Connect \/ Disconnect \/ \E t \in Tuis : SyncPresence(t)
    PROVE  SessionInv'
<1> USE DEF SessionInv
<1>0. sending \in Seq(Presences) /\ wa \in [connected : BOOLEAN, shown : BOOLEAN, mixed : BOOLEAN]
      /\ backend.showOnline \in BOOLEAN /\ Len(sending) \in Nat
  BY DEF SessionTypes, Backends
<1>1. CASE Connect
  <2>1. /\ UNCHANGED <<file, backend, tui, made, retired, strayed, setting, asked>>
        /\ backend.alive /\ wa' = [wa EXCEPT !.connected = TRUE] /\ ~wa.connected
        /\ sending' = Send(backend.showOnline)
    BY <1>1 DEF Connect, tokens
  <2>2. /\ sending' \in Seq(Presences) /\ Len(sending') = Len(sending) + 1
        /\ sending'[Len(sending')].online = backend.showOnline
        /\ \A i \in 1 .. Len(sending') :
              sending'[i].online = backend.showOnline \/ (i \in 1 .. Len(sending) /\ sending'[i] = sending[i])
    BY <1>0, <2>1, SendKeeps
  <2>3. /\ wa' \in [connected : BOOLEAN, shown : BOOLEAN, mixed : BOOLEAN]
        /\ wa'.shown = wa.shown
    BY <1>0, <2>1
  <2>4. PresenceInv'
    BY <1>0, <2>1, <2>2, <2>3 DEF PresenceInv
  <2> QED BY <2>1, <2>2, <2>3, <2>4, TokensKept DEF SessionTypes
<1>2. CASE Disconnect
  <2>1. /\ UNCHANGED <<file, backend, tui, made, retired, strayed, setting, asked, sending>>
        /\ wa' = [wa EXCEPT !.connected = FALSE, !.shown = FALSE] /\ wa.connected
    BY <1>2 DEF Disconnect, tokens
  <2>2. /\ wa' \in [connected : BOOLEAN, shown : BOOLEAN, mixed : BOOLEAN]
        /\ ~wa'.connected /\ ~wa'.shown
    BY <1>0, <2>1
  <2>3. PresenceInv'
    BY <2>1, <2>2 DEF PresenceInv
  <2> QED BY <2>1, <2>2, <2>3, TokensKept DEF SessionTypes
<1>3. ASSUME NEW t \in Tuis, SyncPresence(t)
      PROVE  SessionInv'
  <2>1. UNCHANGED <<file, tui, made, retired, strayed, wa>> /\ setting' \in BOOLEAN
    BY <1>3 DEF SyncPresence, tokens
  <2>2. CASE ~Authorized(t)
    <3>1. UNCHANGED <<backend, asked, sending>>
      BY <1>3, <2>2 DEF SyncPresence
    <3> QED BY <2>1, <3>1, TokensKept, PresenceKept DEF SessionTypes
  <2>3. CASE Authorized(t)
    <3>1. /\ backend' = [backend EXCEPT !.showOnline = setting'] /\ backend.alive
          /\ asked' = (asked \/ setting')
          /\ sending' = IF wa.connected THEN Send(setting') ELSE sending
      BY <1>3, <2>3 DEF SyncPresence, Authorized
    <3>2. /\ backend' \in Backends /\ backend'.showOnline = setting'
          /\ backend'.alive /\ backend'.token = backend.token /\ backend'.rotating = backend.rotating
          /\ backend'.new = backend.new
      BY <2>1, <3>1 DEF SessionTypes, Backends
    <3>3. asked' \in BOOLEAN
      <4>1. (asked \/ setting') \in BOOLEAN
        BY Zenon
      <4> QED BY <3>1, <4>1, Zenon
    <3>4. (asked => asked') /\ (setting' => asked')
      BY <3>1
    <3>5. CASE wa.connected
      <4>1. /\ sending' \in Seq(Presences) /\ Len(sending') = Len(sending) + 1
            /\ sending'[Len(sending')].online = setting'
            /\ \A i \in 1 .. Len(sending') :
                  sending'[i].online = setting' \/ (i \in 1 .. Len(sending) /\ sending'[i] = sending[i])
        BY <1>0, <2>1, <3>1, <3>5, SendKeeps
      <4>2. PresenceInv'
        BY <1>0, <2>1, <3>1, <3>2, <3>4, <4>1 DEF PresenceInv
      <4> QED BY <2>1, <3>1, <3>2, <3>3, <4>1, <4>2, TokensKept DEF SessionTypes
    <3>6. CASE ~wa.connected
      <4>1. PresenceInv'
        BY <2>1, <3>1, <3>2, <3>4, <3>6 DEF PresenceInv
      <4> QED BY <2>1, <3>1, <3>2, <3>3, <3>6, <4>1, TokensKept DEF SessionTypes
    <3> QED BY <3>5, <3>6
  <2> QED BY <2>2, <2>3
<1> QED BY <1>1, <1>2, <1>3

LEMMA SendInv ==
    ASSUME SessionInv, SendPresence PROVE SessionInv'
<1> USE DEF SessionInv
<1>0. sending \in Seq(Presences) /\ wa \in [connected : BOOLEAN, shown : BOOLEAN, mixed : BOOLEAN]
      /\ backend.showOnline \in BOOLEAN /\ Len(sending) \in Nat
  BY DEF SessionTypes, Backends
<1>1. PICK i \in 1 .. Len(sending) :
         /\ wa' = [wa EXCEPT !.shown = wa.connected /\ sending[i].online, !.mixed = sending[i].passed]
         /\ sending' = [j \in 1..Len(sending) - 1 |->
                          IF j < i THEN [sending[j] EXCEPT !.passed = TRUE] ELSE sending[j + 1]]
  <2>1. DOMAIN sending = 1 .. Len(sending)
    BY <1>0
  <2> QED BY <2>1 DEF SendPresence
<1>2. UNCHANGED <<file, backend, tui, made, retired, strayed, setting, asked>>
  BY DEF SendPresence, tokens
<1>3. sending[i] \in Presences /\ sending[i].online \in BOOLEAN /\ sending[i].passed \in BOOLEAN
  <2>1. sending[i] \in Presences
    BY <1>0
  <2> QED BY <2>1 DEF Presences
<1>4. \A j \in 1 .. Len(sending) - 1 :
         /\ j \in 1 .. Len(sending) /\ j + 1 \in 1 .. Len(sending)
         /\ sending'[j] \in Presences
         /\ sending'[j].online = IF j < i THEN sending[j].online ELSE sending[j + 1].online
         /\ sending'[j].passed = IF j < i THEN TRUE ELSE sending[j + 1].passed
  <2>1. ASSUME NEW j \in 1 .. Len(sending) - 1
        PROVE  /\ j \in 1 .. Len(sending) /\ j + 1 \in 1 .. Len(sending)
               /\ sending'[j] \in Presences
               /\ sending'[j].online = IF j < i THEN sending[j].online ELSE sending[j + 1].online
               /\ sending'[j].passed = IF j < i THEN TRUE ELSE sending[j + 1].passed
    <3>1. j \in 1 .. Len(sending) /\ j + 1 \in 1 .. Len(sending)
      BY <1>0
    <3>2. sending[j] \in Presences /\ sending[j + 1] \in Presences
      BY <1>0, <3>1
    <3>3. sending'[j] = IF j < i THEN [sending[j] EXCEPT !.passed = TRUE] ELSE sending[j + 1]
      BY <1>1
    <3> QED BY <3>1, <3>2, <3>3 DEF Presences
  <2> QED BY <2>1
<1>5. sending' \in Seq(Presences) /\ Len(sending') = Len(sending) - 1
  <2>1. Len(sending) - 1 \in Nat
    BY <1>0
  <2> QED BY <1>1, <1>4, <2>1
<1>6. /\ wa' \in [connected : BOOLEAN, shown : BOOLEAN, mixed : BOOLEAN]
      /\ wa'.connected = wa.connected /\ wa'.shown = (wa.connected /\ sending[i].online)
      /\ wa'.mixed = sending[i].passed
  BY <1>0, <1>1, <1>3
<1>7. PresenceInv'
  <2>1. (wa'.shown => asked) /\ \A j \in 1 .. Len(sending') : sending'[j].online => asked
    BY <1>0, <1>4, <1>5, <1>6 DEF PresenceInv
  <2>2. backend.alive
    BY <1>0 DEF PresenceInv
  <2>3. ASSUME wa.connected, Len(sending') # 0, ~sending'[Len(sending')].passed
        PROVE  sending'[Len(sending')].online = backend.showOnline
    <3>1. Len(sending') \in 1 .. Len(sending) - 1 /\ Len(sending') + 1 = Len(sending)
      BY <1>0, <1>5, <2>3
    <3>2. /\ sending'[Len(sending')].online =
                 IF Len(sending') < i THEN sending[Len(sending')].online ELSE sending[Len(sending)].online
          /\ sending'[Len(sending')].passed =
                 IF Len(sending') < i THEN TRUE ELSE sending[Len(sending)].passed
      BY <1>4, <3>1
    <3>3. ~(Len(sending') < i)
      BY <2>3, <3>2
    <3>4. ~sending[Len(sending)].passed /\ Len(sending) # 0
      BY <1>0, <2>3, <3>1, <3>2, <3>3
    <3>5. sending'[Len(sending')].online = sending[Len(sending)].online
      BY <3>2, <3>3
    <3> QED BY <2>3, <3>4, <3>5 DEF PresenceInv
  <2>4. ASSUME wa.connected, Len(sending') = 0, ~wa'.mixed
        PROVE  wa'.shown = backend.showOnline
    <3>1. Len(sending) = 1
      BY <1>0, <1>5, <2>4
    <3>2. i = 1
      BY <3>1
    <3> QED BY <1>0, <1>3, <1>6, <2>4, <3>1, <3>2 DEF PresenceInv
  <2> QED BY <1>2, <1>6, <2>1, <2>2, <2>3, <2>4 DEF PresenceInv
<1> QED BY <1>2, <1>5, <1>6, <1>7, TokensKept DEF SessionTypes

LEMMA SessionInvariant == SessionSpec => []SessionInv
<1>1. SessionInit => SessionInv
  <2> SUFFICES ASSUME SessionInit PROVE SessionInv
    OBVIOUS
  <2>1. \/ file = 0 /\ backend = NoBackend
        \/ file = 1 /\ backend = NoBackend
        \/ file = 1 /\ backend = [NoBackend EXCEPT !.alive = TRUE, !.old = TRUE, !.token = 1]
    BY DEF SessionInit, NoToken
  <2>2. /\ backend \in Backends /\ backend.showOnline = FALSE /\ backend.rotating = "no"
        /\ backend.alive => backend.token = 1 /\ file = 1
        /\ ~backend.alive => backend = NoBackend
    <3>1. CASE backend = NoBackend
      BY <3>1 DEF NoBackend, Backends, NoToken, NoPid
    <3>2. CASE file = 1 /\ backend = [NoBackend EXCEPT !.alive = TRUE, !.old = TRUE, !.token = 1]
      BY <3>2 DEF NoBackend, Backends, NoToken, NoPid
    <3> QED BY <2>1, <3>1, <3>2
  <2>10. file \in Nat /\ file \in 0 .. 1 /\ made \in Nat
    BY <2>1 DEF SessionInit
  <2>3. tui \in [Tuis -> Terminals]
    BY DEF SessionInit, Terminals, Places, NoToken
  <2>4. sending = <<>> /\ Len(sending) = 0 /\ sending \in Seq(Presences)
    BY NoBackendIs DEF SessionInit
  <2>5. wa = Offline /\ ~wa.connected /\ ~wa.shown
    BY NoBackendIs DEF SessionInit
  <2>6. made = 1 /\ retired = {} /\ strayed = FALSE /\ asked = FALSE /\ setting \in BOOLEAN
    BY DEF SessionInit
  <2>7. SessionTypes
    <3>1. retired \subseteq Nat /\ strayed \in BOOLEAN /\ asked \in BOOLEAN
      BY <2>6
    <3>2. wa \in [connected : BOOLEAN, shown : BOOLEAN, mixed : BOOLEAN]
      BY <2>5, NoBackendIs
    <3> QED BY <2>2, <2>3, <2>4, <2>6, <2>10, <3>1, <3>2 DEF SessionTypes
  <2>8. TokensInv
    BY <2>2, <2>6, <2>10 DEF TokensInv, NoToken
  <2>9. PresenceInv
    BY <2>2, <2>4, <2>5 DEF PresenceInv
  <2> QED BY <2>7, <2>8, <2>9 DEF SessionInv
<1>2. SessionInv /\ [SessionNext]_sessionVars => SessionInv'
  <2>1. CASE UNCHANGED sessionVars
    BY <2>1 DEF sessionVars, tokens, presence, SessionInv, SessionTypes, TokensInv, PresenceInv
  <2> QED BY <2>1, StartInv, EndInv, RotationInv, SyncInv, SendInv DEF SessionNext
<1> QED BY <1>1, <1>2, PTL DEF SessionSpec

\* A token that a rotation has replaced opens no backend again, for any number
\* of TUIs, rotations, logouts and deaths.
THEOREM RetiredForGood == SessionSpec => []RetiredStaysRetired
<1>1. SessionInv => RetiredStaysRetired
  BY DEF SessionInv, TokensInv, RetiredStaysRetired
<1> QED BY <1>1, SessionInvariant, PTL

\* Outside a rotation the file opens the backend, unless it has strayed.
THEOREM FileOpens == SessionSpec => []FileOpensBackend
<1>1. SessionInv => FileOpensBackend
  BY DEF SessionInv, TokensInv, FileOpensBackend
<1> QED BY <1>1, SessionInvariant, PTL

\* Nobody is shown online who has not asked for it, and what is shown in the end
\* is the setting, in whatever order the presences are sent.
THEOREM HiddenUnlessAsked == SessionSpec => []HiddenByDefault
<1>1. SessionInv => HiddenByDefault
  <2> SUFFICES ASSUME SessionInv PROVE HiddenByDefault
    OBVIOUS
  <2>1. sending = <<>> => Len(sending) = 0
    OBVIOUS
  <2> QED BY <2>1 DEF SessionInv, PresenceInv, HiddenByDefault
<1> QED BY <1>1, SessionInvariant, PTL

-----------------------------------------------------------------------------
(* TuiSidebar.                                                               *)

\* The cached list of people is the one that would be made now.
THEOREM PeopleAreFresh == SidebarSpec => []ContactsAreFresh
<1>1. SidebarInit => ContactsAreFresh
  BY DEF SidebarInit, ContactsAreFresh
<1>2. ContactsAreFresh /\ [SidebarNext]_sidebarVars => ContactsAreFresh'
  <2> SUFFICES ASSUME ContactsAreFresh, [SidebarNext]_sidebarVars PROVE ContactsAreFresh'
    OBVIOUS
  <2>1. ASSUME UNCHANGED <<stored, known, showAll>>, Read \/ cache' = cache \/ InvalidateContacts
        PROVE  ContactsAreFresh'
    <3>1. ContactList' = ContactList
      BY <2>1 DEF ContactList
    <3>2. CASE cache' = cache
      BY <3>1, <3>2 DEF ContactsAreFresh
    <3>3. CASE InvalidateContacts
      BY <3>3 DEF ContactsAreFresh, InvalidateContacts
    <3>4. CASE Read /\ cache' # cache
      <4>1. cache' = [valid |-> TRUE, list |-> ContactList]
        BY <3>4 DEF Read
      <4> QED BY <3>1, <4>1 DEF ContactsAreFresh
    <3> QED BY <2>1, <3>2, <3>3, <3>4
  <2>2. CASE ChatsMsg \/ SendMoves \/ Typing \/ Draw \/ Resize
    BY <2>1, <2>2 DEF ChatsMsg, SendMoves, Typing, Draw, Resize, people
  <2>3. CASE ContactsMsg \/ NamesChange \/ AllContacts
    BY <2>3 DEF ContactsMsg, NamesChange, AllContacts, IdentityChanged, InvalidateContacts, ContactsAreFresh
  <2>4. CASE AltC \/ ToggleArchivedView \/ AltP \/ AltS \/ CtrlK \/ SearchKey
    BY <2>1, <2>4 DEF AltC, ToggleArchivedView, AltP, AltS, CtrlK, SearchKey, Key, people
  <2>5. CASE Arrow \/ AltArrow \/ Enter \/ TabInChat \/ EscInChat
    BY <2>1, <2>5 DEF Arrow, AltArrow, Enter, TabInChat, EscInChat, Key, people
  <2>6. CASE UNCHANGED sidebarVars
    BY <2>1, <2>6 DEF sidebarVars
  <2> QED BY <2>2, <2>3, <2>4, <2>5, <2>6 DEF SidebarNext
<1> QED BY <1>1, <1>2, PTL DEF SidebarSpec

\* What the assumption says of the lists.
LEMMA SidebarConstants ==
    /\ InOrder \in Seq(Everything) /\ Heights \subseteq Nat \ {0}
    /\ ChatIDs \subseteq Everything /\ People \subseteq Everything
    /\ NoChat \notin Everything
  BY SidebarAssumption DEF Everything

LEMMA ContactsListed == ContactList \in Seq(Everything)
<1>1. Within(InOrder, known) \in Seq(Everything)
  BY SidebarConstants, WithinList
<1>2. Within(InOrder, {p \in People \ known : showAll \/ p \in stored}) \in Seq(Everything)
  BY SidebarConstants, WithinList
<1> QED BY <1>1, <1>2 DEF ContactList

\* Both tabs show a list, whatever the cache and the search leave of it.
LEMMA ItemsListed ==
    ASSUME recent \in Seq(Everything), ContactsAreFresh
    PROVE  Filtered \in Seq(Everything)
<1>1. CASE tab = "contacts"
  BY <1>1, ContactsListed, WithinList DEF Filtered, SidebarItems, ContactsAreFresh
<1>2. CASE tab # "contacts"
  <2>1. Sorted \in Seq(Everything)
    <3>1. Within(recent, pinned) \in Seq(Everything) /\ Within(recent, ChatIDs \ pinned) \in Seq(Everything)
      BY WithinList
    <3> QED BY <3>1 DEF Sorted
  <2>2. SidebarItems \in Seq(Everything)
    BY <1>2, <2>1, WithinList DEF SidebarItems
  <2> QED BY <2>2, WithinList DEF Filtered
<1> QED BY <1>1, <1>2

LEMMA NewestListed ==
    ASSUME recent \in Seq(Everything), NEW c \in Everything
    PROVE  Newest(c) \in Seq(Everything)
<1>1. Within(recent, ChatIDs \ {c}) \in Seq(Everything)
  BY WithinList
<1>2. <<c>> \in Seq(Everything)
  OBVIOUS
<1> QED BY <1>1, <1>2 DEF Newest

\* The window that ensureSideVisible leaves.
LEMMA WindowFollows ==
    ASSUME NEW n \in Nat, NEW rows \in Nat \ {0}, NEW at \in Nat, NEW scroll \in Nat,
           NEW to, NEW top, NEW last, NEW start,
           last = IF n > rows THEN n - rows ELSE 0,
           to = IF n = 0 THEN 0 ELSE Smaller(at, n - 1),
           start = Smaller(Smaller(scroll, last), to),
           top = IF n = 0 THEN 0 ELSE IF to >= start + rows THEN to + 1 - rows ELSE start
    PROVE  /\ to \in Nat /\ top \in Nat
           /\ n # 0 => Smaller(top, last) <= to /\ to < Smaller(top, last) + rows
<1>1. CASE n = 0
  BY <1>1
<1>2. CASE n # 0
  <2>1. to \in Nat /\ to <= n - 1
    BY <1>2 DEF Smaller
  <2>2. last \in Nat /\ (n > rows => last = n - rows) /\ (~(n > rows) => last = 0)
    OBVIOUS
  <2>3. start \in Nat /\ start <= to /\ start <= last
    BY <2>1, <2>2 DEF Smaller
  <2>4. CASE to >= start + rows
    <3>1. top = to + 1 - rows /\ top \in Nat /\ top <= to
      BY <1>2, <2>1, <2>3, <2>4
    <3>2. n > rows /\ top <= last
      BY <2>1, <2>2, <2>3, <2>4, <3>1
    <3> QED BY <2>1, <2>2, <3>1, <3>2 DEF Smaller
  <2>5. CASE ~(to >= start + rows)
    BY <1>2, <2>1, <2>2, <2>3, <2>5 DEF Smaller
  <2> QED BY <2>4, <2>5
<1> QED BY <1>1, <1>2

\* resortChats finds the chat that was highlighted, if it is in the list.
LEMMA ResortedFinds ==
    ASSUME NEW list \in Seq(Everything), sel \in Nat
    PROVE  /\ Resorted(list) \in Nat
           /\ SelectedChatID \in Range(list) =>
                Resorted(list) < Len(list) /\ list[Resorted(list) + 1] = SelectedChatID
<1> DEFINE I == {i \in 1 .. Len(list) : list[i] = SelectedChatID}
           now == SelectInSeq(list, LAMBDA c : c = SelectedChatID)
<1>1. now = IF I # {} THEN Min(I) ELSE 0
  BY DEF SelectInSeq
<1>2. Resorted(list) = IF now = 0 THEN sel ELSE now - 1
  BY DEF Resorted
<1>3. I \in SUBSET (1 .. Len(list)) /\ I \in SUBSET Nat /\ Len(list) \in Nat
  OBVIOUS
<1>4. ASSUME I # {}
      PROVE  now \in I
  <2>1. \E i \in I : \A j \in I : i <= j
    <3> HIDE DEF I
    <3> QED BY <1>3, <1>4, FirstPlace
  <2>2. Min(I) \in I
    <3> HIDE DEF I
    <3> QED BY <2>1 DEF Min
  <2> QED BY <1>1, <1>4, <2>2
<1>5. SelectedChatID \in Range(list) => I # {}
  BY DEF Range
<1>6. now \in I => now \in 1 .. Len(list) /\ list[now] = SelectedChatID
  OBVIOUS
<1> HIDE DEF I, now
<1>7. CASE I # {}
  <2>1. now \in 1 .. Len(list) /\ list[now] = SelectedChatID
    BY <1>4, <1>6, <1>7
  <2>2. now - 1 \in Nat /\ now - 1 < Len(list) /\ now - 1 + 1 = now /\ now # 0
    BY <1>3, <2>1
  <2> QED BY <1>2, <2>1, <2>2
<1>8. CASE I = {}
  BY <1>1, <1>2, <1>5, <1>8
<1> QED BY <1>7, <1>8

LEMMA RecentListed == SidebarSpec => [](recent \in Seq(Everything))
<1>1. SidebarInit => recent \in Seq(Everything)
  BY DEF SidebarInit
<1>2. recent \in Seq(Everything) /\ [SidebarNext]_sidebarVars => (recent \in Seq(Everything))'
  <2> SUFFICES ASSUME recent \in Seq(Everything), [SidebarNext]_sidebarVars
               PROVE  recent' \in Seq(Everything)
    OBVIOUS
  <2>1. CASE ChatsMsg
    <3>1. CASE recent' = Within(InOrder, ChatIDs)
      BY <3>1, SidebarConstants, WithinList
    <3>2. ASSUME NEW c \in ChatIDs, recent' = Newest(c) PROVE recent' \in Seq(Everything)
      BY <3>2, SidebarConstants, NewestListed
    <3> QED BY <2>1, <3>1, <3>2 DEF ChatsMsg
  <2>2. CASE SendMoves
    <3>1. active \in Everything
      BY <2>2 DEF SendMoves, Range
    <3> QED BY <2>2, <3>1, NewestListed DEF SendMoves
  <2>3. CASE ContactsMsg \/ NamesChange \/ AllContacts \/ Typing \/ Draw \/ Resize
    BY <2>3 DEF ContactsMsg, NamesChange, AllContacts, IdentityChanged, Typing, Draw, Resize, chats
  <2>4. CASE AltC \/ ToggleArchivedView \/ AltP \/ AltS \/ CtrlK \/ SearchKey
    BY <2>4 DEF AltC, ToggleArchivedView, AltP, AltS, CtrlK, SearchKey, Key, chats
  <2>5. CASE Arrow \/ AltArrow \/ Enter \/ TabInChat \/ EscInChat
    BY <2>5 DEF Arrow, AltArrow, Enter, TabInChat, EscInChat, Key, chats
  <2>6. CASE UNCHANGED sidebarVars
    BY <2>6 DEF sidebarVars
  <2> QED BY <2>1, <2>2, <2>3, <2>4, <2>5, <2>6 DEF SidebarNext
<1> QED BY <1>1, <1>2, PTL DEF SidebarSpec

LEMMA RowsAreListed == SidebarSpec => [](Filtered \in Seq(Everything))
<1>1. recent \in Seq(Everything) /\ ContactsAreFresh => Filtered \in Seq(Everything)
  BY ItemsListed
<1> QED BY <1>1, RecentListed, PeopleAreFresh, PTL

\* The numbers of the list are numbers, and the highlight is drawn.
WindowInv ==
    /\ sel \in Nat /\ sideScroll \in Nat /\ height \in Nat \ {0}
    /\ HighlightIsDrawn

\* What ensureSideVisible does with any place and any window.
LEMMA EnsureDraws ==
    ASSUME Filtered' \in Seq(Everything), height' \in Nat \ {0},
           NEW at \in Nat, NEW scroll \in Nat, EnsureVisible(at, scroll)
    PROVE  WindowInv'
<1>1. PICK n \in {Len(Filtered')} : \E rows \in {SideViewRows'} :
         LET last == IF n > rows THEN n - rows ELSE 0
             start == Smaller(Smaller(scroll, last), sel')
         IN  /\ sel' = IF n = 0 THEN 0 ELSE Smaller(at, n - 1)
             /\ sideScroll' = IF n = 0 THEN 0 ELSE IF sel' >= start + rows THEN sel' + 1 - rows ELSE start
  BY DEF EnsureVisible
<1>2. PICK rows \in {SideViewRows'} :
         LET last == IF n > rows THEN n - rows ELSE 0
             start == Smaller(Smaller(scroll, last), sel')
         IN  /\ sel' = IF n = 0 THEN 0 ELSE Smaller(at, n - 1)
             /\ sideScroll' = IF n = 0 THEN 0 ELSE IF sel' >= start + rows THEN sel' + 1 - rows ELSE start
  BY <1>1
<1>3. n \in Nat /\ n = Len(Filtered') /\ (Filtered' # <<>> => n # 0)
  OBVIOUS
<1>4. rows \in Nat \ {0} /\ rows = SideViewRows'
  <2>1. Footer' \in {0, 1}
    BY DEF Footer
  <2>2. PICK f \in {0, 1} : f = Footer'
    BY <2>1
  <2>3. SideViewRows' = IF 1 >= height' - f THEN 1 ELSE height' - f
    BY <2>2 DEF SideViewRows, Greater
  <2>4. PICK h \in Nat \ {0} : h = height'
    OBVIOUS
  <2>5. (IF 1 >= h - f THEN 1 ELSE h - f) \in Nat \ {0}
    OBVIOUS
  <2> QED BY <2>3, <2>4, <2>5
<1>5. PICK last : last = IF n > rows THEN n - rows ELSE 0
  OBVIOUS
<1>6. PICK start : start = Smaller(Smaller(scroll, last), sel')
  OBVIOUS
<1>7. PICK to : to = sel'
  OBVIOUS
<1>8. PICK top : top = sideScroll'
  OBVIOUS
<1>9. /\ to = IF n = 0 THEN 0 ELSE Smaller(at, n - 1)
      /\ start = Smaller(Smaller(scroll, last), to)
      /\ top = IF n = 0 THEN 0 ELSE IF to >= start + rows THEN to + 1 - rows ELSE start
  BY <1>2, <1>5, <1>6, <1>7, <1>8
<1>10. /\ to \in Nat /\ top \in Nat
       /\ n # 0 => Smaller(top, last) <= to /\ to < Smaller(top, last) + rows
  BY <1>3, <1>4, <1>5, <1>9, WindowFollows, SMTT(30)
<1>11. Filtered' # <<>> => Smaller(sideScroll', last) <= sel' /\ sel' < Smaller(sideScroll', last) + SideViewRows'
  BY <1>3, <1>4, <1>7, <1>8, <1>10
<1>12. last = IF Len(Filtered') > SideViewRows' THEN Len(Filtered') - SideViewRows' ELSE 0
  BY <1>3, <1>4, <1>5
<1>13. HighlightIsDrawn'
  BY <1>11, <1>12 DEF HighlightIsDrawn, Smaller
<1> QED BY <1>7, <1>8, <1>10, <1>13 DEF WindowInv

\* Whoever fills or drops the cache changes nothing that is shown.
LEMMA SameRows ==
    ASSUME ContactsAreFresh, UNCHANGED <<recent, pinned, archived, stored, known, showAll, tab, archivedView, search>>,
           Read \/ InvalidateContacts \/ cache' = cache
    PROVE  Filtered' = Filtered
<1>1. ContactList' = ContactList
  BY DEF ContactList
<1>2. SidebarItems' = SidebarItems
  <2>1. CASE tab = "contacts"
    BY <1>1, <2>1 DEF SidebarItems, ContactsAreFresh, Read, InvalidateContacts
  <2>2. CASE tab # "contacts"
    BY <2>2 DEF SidebarItems, Sorted
  <2> QED BY <2>1, <2>2
<1> QED BY <1>2 DEF Filtered

\* Nor does what leaves the list, the window and the highlight alone.
LEMMA SameWindow ==
    ASSUME WindowInv, Filtered' = Filtered, UNCHANGED <<archived, tab, archivedView, height, sel, sideScroll>>,
           settled' => settled
    PROVE  WindowInv'
<1>1. SideViewRows' = SideViewRows
  BY DEF SideViewRows, Footer
<1> QED BY <1>1 DEF WindowInv, HighlightIsDrawn

LEMMA StepInList ==
    ASSUME NEW n \in Nat \ {0}, NEW i \in Nat, NEW by \in {1, n - 1}
    PROVE  Step(n, i, by) \in Nat
  BY DEF Step

LEMMA WindowStep ==
    ASSUME WindowInv, ContactsAreFresh, Filtered \in Seq(Everything), Filtered' \in Seq(Everything),
           [SidebarNext]_sidebarVars
    PROVE  WindowInv'
<1> USE DEF chats, people
<1>1. ASSUME NEW at \in Nat, NEW scroll \in Nat, EnsureVisible(at, scroll), height' = height
      PROVE  WindowInv'
  BY <1>1, EnsureDraws DEF WindowInv
<1>2. sel \in Nat /\ sideScroll \in Nat /\ 0 \in Nat /\ Len(Filtered) \in Nat
  BY DEF WindowInv
<1>3. CASE ChatsMsg
  <2>1. PICK list \in {Filtered'} : EnsureVisible(Resorted(list), sideScroll)
    BY <1>3 DEF ChatsMsg
  <2>2. Resorted(list) \in Nat
    BY <1>2, ResortedFinds
  <2> QED BY <1>1, <1>2, <1>3, <2>1, <2>2 DEF ChatsMsg
<1>4. CASE SendMoves
  <2>1. sel' \in Nat
    <3>1. PICK list \in {Filtered'} : sel' = Resorted(list)
      BY <1>4 DEF SendMoves
    <3> QED BY <1>2, <3>1, ResortedFinds
  <2> QED BY <1>4, <2>1 DEF SendMoves, WindowInv, HighlightIsDrawn
<1>5. CASE ContactsMsg \/ NamesChange \/ AllContacts \/ Resize
  <2>1. settled' = FALSE /\ sel' = sel /\ sideScroll' = sideScroll /\ height' \in Nat \ {0}
    BY <1>5, SidebarConstants DEF ContactsMsg, NamesChange, AllContacts, IdentityChanged, Resize, WindowInv
  <2> QED BY <1>2, <2>1 DEF WindowInv, HighlightIsDrawn
<1>6. CASE Typing \/ Draw
  BY <1>6, SameRows, SameWindow DEF Typing, Draw
<1>7. CASE AltC \/ ToggleArchivedView \/ AltP
  BY <1>1, <1>2, <1>7 DEF AltC, ToggleArchivedView, AltP, Key
<1>8. CASE AltS \/ SearchKey
  BY <1>1, <1>2, <1>8 DEF AltS, SearchKey, Key
<1>9. CASE CtrlK \/ TabInChat
  BY <1>9, SameRows, SameWindow DEF CtrlK, TabInChat, Key
<1>10. CASE Arrow
  <2>1. PICK by \in {1, Len(Filtered) - 1} :
           EnsureVisible(IF Filtered = <<>> THEN sel ELSE Step(Len(Filtered), sel, by), sideScroll)
    BY <1>10 DEF Arrow
  <2>2. (IF Filtered = <<>> THEN sel ELSE Step(Len(Filtered), sel, by)) \in Nat
    <3>1. CASE Filtered = <<>>
      BY <1>2, <3>1
    <3>2. CASE Filtered # <<>>
      <4>1. Len(Filtered) \in Nat \ {0}
        BY <1>2, <3>2
      <4>2. Step(Len(Filtered), sel, by) \in Nat
        BY <1>2, <4>1, StepInList
      <4> QED BY <3>2, <4>2
    <3> QED BY <3>1, <3>2
  <2> QED BY <1>1, <1>2, <1>10, <2>1, <2>2 DEF Arrow, Key
<1>11. CASE AltArrow
  <2> DEFINE open == SelectInSeq(Filtered, LAMBDA c : c = active)
             from == IF open = 0 THEN sel ELSE open - 1
             I == {i \in 1 .. Len(Filtered) : Filtered[i] = active}
  <2>1. from \in Nat
    <3>1. open = IF I # {} THEN Min(I) ELSE 0
      BY DEF SelectInSeq
    <3>2. I \in SUBSET Nat /\ I \in SUBSET (1 .. Len(Filtered))
      OBVIOUS
    <3>3. ASSUME I # {} PROVE Min(I) \in I
      <4> HIDE DEF I
      <4>1. \E i \in I : \A j \in I : i <= j
        BY <3>2, <3>3, FirstPlace
      <4> QED BY <4>1 DEF Min
    <3>4. open = 0 \/ open \in 1 .. Len(Filtered)
      <4> HIDE DEF I, open
      <4> QED BY <3>1, <3>2, <3>3
    <3> HIDE DEF open
    <3> QED BY <1>2, <3>4
  <2>2. Len(Filtered) \in Nat \ {0}
    BY <1>2, <1>11 DEF AltArrow
  <2>3. PICK by \in {1, Len(Filtered) - 1} : EnsureVisible(Step(Len(Filtered), from, by), sideScroll)
    BY <1>11 DEF AltArrow
  <2>4. Step(Len(Filtered), from, by) \in Nat
    <3> HIDE DEF from
    <3> QED BY <2>1, <2>2, StepInList
  <2> HIDE DEF from
  <2> QED BY <1>1, <1>2, <1>11, <2>3, <2>4 DEF AltArrow, Key
<1>12. CASE Enter
  <2>1. sel' \in Nat /\ sideScroll' = sideScroll /\ height' = height
    BY <1>2, <1>12 DEF Enter, Key
  <2>2. CASE sel' = sel
    <3>1. settled' => settled
      BY <1>12 DEF Enter
    <3> QED BY <1>12, <2>2, <3>1, SameRows, SameWindow DEF Enter, Key
  <2>3. CASE sel' # sel
    <3>1. ~settled'
      BY <1>12, <2>3 DEF Enter
    <3> QED BY <2>1, <3>1 DEF WindowInv, HighlightIsDrawn
  <2> QED BY <2>2, <2>3
<1>13. CASE EscInChat
  <2>1. CASE focused
    BY <1>13, <2>1, SameRows, SameWindow DEF EscInChat, Key
  <2>2. CASE ~focused
    BY <1>1, <1>2, <1>13, <2>2 DEF EscInChat, Key
  <2> QED BY <2>1, <2>2
<1>14. CASE UNCHANGED sidebarVars
  <2>1. /\ UNCHANGED <<recent, pinned, archived, stored, known, showAll, tab, archivedView, search, cache>>
        /\ UNCHANGED <<height, sel, sideScroll, settled>>
    BY <1>14 DEF sidebarVars
  <2> QED BY <2>1, SameRows, SameWindow
<1> QED BY <1>3, <1>4, <1>5, <1>6, <1>7, <1>8, <1>9, <1>10, <1>11, <1>12, <1>13, <1>14 DEF SidebarNext

LEMMA WindowInvariant == SidebarSpec => []WindowInv
<1>1. SidebarInit => WindowInv
  <2> SUFFICES ASSUME SidebarInit PROVE WindowInv
    OBVIOUS
  <2>1. Filtered = <<>>
    <3>1. Within(recent, pinned) = <<>> /\ Within(recent, ChatIDs \ pinned) = <<>>
      BY NothingWithin DEF SidebarInit
    <3>2. Sorted = <<>>
      BY <3>1 DEF Sorted
    <3>3. SidebarItems = <<>>
      BY <3>2, NothingWithin DEF SidebarItems, SidebarInit
    <3> QED BY <3>3, NothingWithin DEF Filtered
  <2> QED BY <2>1, SidebarConstants DEF SidebarInit, WindowInv, HighlightIsDrawn
<1>2. /\ WindowInv /\ ContactsAreFresh /\ Filtered \in Seq(Everything) /\ (Filtered \in Seq(Everything))'
      /\ [SidebarNext]_sidebarVars
      => WindowInv'
  BY WindowStep
<1> QED BY <1>1, <1>2, RowsAreListed, PeopleAreFresh, PTL DEF SidebarSpec

\* The highlight is on a row that is drawn, until a list changes under it
\* without ensureSideVisible.
THEOREM HighlightIsSeen == SidebarSpec => []HighlightIsDrawn
<1>1. WindowInv => HighlightIsDrawn
  BY DEF WindowInv
<1> QED BY <1>1, WindowInvariant, PTL

\* A chat that is highlighted stays highlighted when a message, a send, a pin
\* or another chat's archiving moves it.
THEOREM HighlightStays == SidebarSpec => HighlightSticks
<1> DEFINE was == SelectedChatID
           Stays == <<recent', pinned', archived'>> # chats /\ was # NoChat /\ was \in Range(Filtered')
                    => Highlighted' = was
<1>1. /\ WindowInv /\ Filtered \in Seq(Everything) /\ (Filtered \in Seq(Everything))'
      /\ [SidebarNext]_sidebarVars
      => [Stays]_sidebarVars
  <2> SUFFICES ASSUME WindowInv, Filtered \in Seq(Everything), Filtered' \in Seq(Everything), SidebarNext,
                      <<recent', pinned', archived'>> # chats, was # NoChat, was \in Range(Filtered')
               PROVE  Highlighted' = was
    BY DEF SidebarNext
  <2>1. ChatsMsg \/ SendMoves
    BY DEF SidebarNext, chats, people, Key, ContactsMsg, NamesChange, AllContacts, IdentityChanged, Typing,
           Draw, Resize, AltC, ToggleArchivedView, AltP, AltS, CtrlK, SearchKey, Arrow, AltArrow, Enter,
           TabInChat, EscInChat
  <2>2. /\ Resorted(Filtered') \in Nat /\ Resorted(Filtered') < Len(Filtered')
        /\ Filtered'[Resorted(Filtered') + 1] = was
    BY ResortedFinds DEF WindowInv
  <2>3. sel' = Resorted(Filtered')
    <3>1. CASE ChatsMsg
      <4>1. PICK list \in {Filtered'} : EnsureVisible(Resorted(list), sideScroll)
        BY <3>1 DEF ChatsMsg
      <4>2. EnsureVisible(Resorted(Filtered'), sideScroll)
        BY <4>1
      <4>3. PICK n \in {Len(Filtered')} : sel' = IF n = 0 THEN 0 ELSE Smaller(Resorted(Filtered'), n - 1)
        BY <4>2 DEF EnsureVisible
      <4>4. PICK at \in Nat : at = Resorted(Filtered')
        BY <2>2
      <4>5. n \in Nat /\ at < n /\ sel' = IF n = 0 THEN 0 ELSE Smaller(at, n - 1)
        BY <2>2, <4>3, <4>4
      <4> QED BY <4>4, <4>5 DEF Smaller
    <3>2. CASE SendMoves
      BY <3>2 DEF SendMoves
    <3> QED BY <2>1, <3>1, <3>2
  <2>4. Highlighted' = IF sel' < Len(Filtered') THEN Filtered'[sel' + 1] ELSE NoChat
    BY DEF Highlighted
  <2> QED BY <2>2, <2>3, <2>4
<1> QED BY <1>1, WindowInvariant, RowsAreListed, PTL DEF SidebarSpec, HighlightSticks

=============================================================================
