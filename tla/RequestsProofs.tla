----------------------------- MODULE RequestsProofs -----------------------------
(* Proofs about the request handlers: nothing is done about a chat that was  *)
(* never allowed, and the archive follows WhatsApp, for any number of        *)
(* requests, messages and chats.                                             *)
EXTENDS Requests, TLAPS

-----------------------------------------------------------------------------
(* The requests: each is some way through the steps of its handler.          *)

Sends == {"send", "file", "react", "forward", "poll", "vote"}
Ops == Sends \cup {"typing", "edit", "delete", "event"}

\* What a handler does, step by step.
Steps ==
    {"connected", "gate", "client", "call", "store", "form", "file", "upload", "poll",
     "origin", "secret", "source", "media", "age", "reupload", "window", "read", "write", "tell", "drop"}

Plan(r) ==
    CASE r.op = "send" -> handleSendMessage
      [] r.op = "file" -> handleSendFile
      [] r.op = "react" -> handleReact
      [] r.op = "forward" -> handleForwardMessage
      [] r.op = "poll" -> handleSendPoll
      [] r.op = "vote" -> handleVotePoll
      [] r.op = "typing" -> handleTyping
      [] r.op = "edit" -> handleEditMessage
      [] r.op = "delete" -> handleDeleteMessage(r.id # old)
      [] r.op = "event" -> receiveEdit

\* How many steps are left when the whitelist is asked, and when WhatsApp is
\* called (for a received message, which WhatsApp is not asked to delete: at the end).
GateAt(r) ==
    CASE r.op \in {"send", "react", "poll"} -> 4
      [] r.op \in {"file", "vote"} -> 6
      [] r.op = "forward" -> 7
      [] r.op = "typing" -> 3
      [] r.op = "edit" -> 8
      [] r.op = "delete" -> IF r.id = old THEN 3 ELSE 5
      [] r.op = "event" -> 4
CallAt(r) ==
    CASE r.op \in Sends -> 2
      [] r.op = "typing" -> 1
      [] r.op \in {"edit", "event"} -> 4
      [] r.op = "delete" -> IF r.id = old THEN 1 ELSE 2

EndOf(todo, plan) ==
    /\ todo \in Seq(Steps) /\ Len(todo) <= Len(plan)
    /\ \A k \in 1 .. Len(todo) : todo[k] = plan[k + (Len(plan) - Len(todo))]

Early(r) == Len(r.todo) >= CallAt(r)

Shape(r) ==
    r = [op |-> r.op, todo |-> r.todo, chat |-> r.chat, id |-> r.id, body |-> r.body, from |-> r.from,
         client |-> r.client, stale |-> r.stale, slow |-> r.slow, seen |-> r.seen, told |-> r.told,
         status |-> r.status]

Target(r) ==
    CASE r.op \in Sends -> r.id \in Ids
      [] r.op = "typing" -> r.id = Nothing
      [] r.op \in {"edit", "event"} -> r.id \in Ids /\ \E txt \in Texts : r.body = Text(txt)
      [] r.op = "delete" -> r.id \in Ids \cup {old}

Made(r) ==
    /\ Shape(r)
    /\ r.op \in Ops /\ r.chat \in Chats /\ Target(r)
    /\ r.status \in Nat /\ (r.status = 0 <=> r.todo # <<>>)
    /\ EndOf(r.todo, Plan(r))

\* No step is taken for a chat that was never allowed, but those before the
\* whitelist is asked.
Gated(r) ==
    /\ allow[r.chat] => r.seen
    /\ r.seen \/ (~r.told /\ (r.todo # <<>> => Len(r.todo) >= GateAt(r)))

GateInv == \A s \in Slots : req[s] # Free => Made(req[s]) /\ Gated(req[s])
ReqInv == req = [s \in Slots |-> req[s]] /\ GateInv

-----------------------------------------------------------------------------
(* The archive and WhatsApp.                                                 *)

RowInv ==
    /\ row = [id \in Ids \cup {old} |-> row[id]]
    /\ \A id \in Ids : row[id] # Nothing =>
          wa[id] # Nothing /\ row[id] = [chat |-> row[id].chat, body |-> row[id].body]
WaInv ==
    /\ wa = [id \in Ids |-> wa[id]]
    /\ \A id \in Ids : wa[id] # Nothing =>
          /\ wa[id].gone \in BOOLEAN /\ wa[id].chat \in Chats
          /\ wa[id] = [chat |-> wa[id].chat, body |-> wa[id].body, gone |-> wa[id].gone]
ShownInv ==
    /\ shown = [id \in Ids |-> shown[id]]
    /\ \A id \in Ids : wa[id] = Nothing => shown[id] = Nothing

\* A request for something that is there already: it is there; what is stored was accepted.
Accepted(r) ==
    /\ r.op \in {"edit", "event", "delete"} /\ r.id # old => wa[r.id] # Nothing
    /\ r.op \in Sends /\ r.todo # <<>> /\ ~Early(r) => wa[r.id] # Nothing
AcceptedInv == \A s \in Slots : req[s] # Free => Accepted(req[s])

Matches(id) ==
    /\ row[id] # Nothing <=> wa[id] # Nothing /\ ~wa[id].gone
    /\ row[id] # Nothing => row[id].chat = wa[id].chat
Agree(id) ==
    /\ Matches(id)
    /\ row[id] # Nothing => row[id].body = wa[id].body
    /\ row[id] # Nothing /\ shown[id] # Nothing => row[id].body = Text(shown[id])

\* Where the one request about a message leaves the archive.
Before(r) ==
    /\ Agree(r.id)
    /\ r.op \in Sends => wa[r.id] = Nothing
    /\ r.op = "delete" => r.chat = wa[r.id].chat
After(r) ==
    /\ r.op \in Sends =>
         /\ row[r.id] = Nothing /\ shown[r.id] = Nothing
         /\ wa[r.id] = [chat |-> r.chat, body |-> r.body, gone |-> FALSE]
    /\ r.op = "delete" =>
         /\ wa[r.id] # Nothing /\ wa[r.id].gone
         /\ row[r.id] # Nothing => row[r.id].chat = r.chat
    /\ r.op \in {"edit", "event"} =>
         /\ Matches(r.id)
         /\ row[r.id] # Nothing => wa[r.id].body = r.body
         /\ row[r.id] # Nothing /\ Len(r.todo) = 1 => row[r.id].body = r.body
Phase(r) == IF Early(r) THEN Before(r) ELSE After(r)

Sure(id) ==
    /\ \A s, z \in Slots : ~Over(s) /\ ~Over(z) /\ req[s].id = id /\ req[z].id = id => s = z
    /\ \A s \in Slots : ~Over(s) /\ req[s].id = id => Phase(req[s])
    /\ ~Busy(id) => Agree(id)

RequestsInv ==
    /\ allow \in [Chats -> BOOLEAN] /\ ReqInv
    /\ RowInv /\ WaInv /\ ShownInv /\ AcceptedInv
    /\ sure \subseteq Ids /\ \A id \in sure : Sure(id)

-----------------------------------------------------------------------------
(* Records.                                                                  *)

\* A request nobody has worked on.
New(r, c) == Shape(r) /\ r.chat = c /\ r.status = 0 /\ ~r.told /\ (r.seen <=> allow[c])

LEMMA RequestShape ==
    ASSUME NEW op, NEW todo, NEW c, NEW id, NEW body
    PROVE  LET r == Request(op, todo, c, id, body) IN
           New(r, c) /\ r.op = op /\ r.todo = todo /\ r.id = id /\ r.body = body
  BY DEF Request, Shape, New

Records(V) ==
    [op : V, todo : V, chat : V, id : V, body : V, from : V, client : V,
     stale : V, slow : V, seen : V, told : V, status : V]

LEMMA ShapeIsRecord ==
    ASSUME NEW V, NEW r \in Records(V)
    PROVE  Shape(r)
  BY DEF Shape, Records

\* The values of a request's fields.
Values(r) ==
    {r.op, r.todo, r.chat, r.id, r.body, r.from, r.client, r.stale, r.slow, r.seen, r.told, r.status}

LEMMA RecordOfValues ==
    ASSUME NEW r, Shape(r), NEW v
    PROVE  r \in Records(Values(r) \cup {v})
  BY DEF Shape, Records, Values

\* One field of a request changes, the others stay.
LEMMA MadeShape == ASSUME NEW r, Made(r) PROVE Shape(r)
  BY DEF Made

LEMMA SetTodo ==
    ASSUME NEW r, Shape(r), NEW v
    PROVE  LET q == [r EXCEPT !.todo = v] IN
           /\ Shape(q) /\ q.op = r.op /\ q.todo = v /\ q.chat = r.chat /\ q.id = r.id /\ q.body = r.body
           /\ q.seen = r.seen /\ q.told = r.told /\ q.status = r.status
<1> DEFINE V == Values(r) \cup {v}
<1>1. r \in Records(V) /\ v \in V
  BY RecordOfValues
<1> HIDE DEF V
<1> QED
  BY <1>1, ShapeIsRecord DEF Records

LEMMA SetBody ==
    ASSUME NEW r, Shape(r), NEW v
    PROVE  LET q == [r EXCEPT !.body = v] IN
           /\ Shape(q) /\ q.op = r.op /\ q.todo = r.todo /\ q.chat = r.chat /\ q.id = r.id /\ q.body = v
           /\ q.seen = r.seen /\ q.told = r.told /\ q.status = r.status
<1> DEFINE V == Values(r) \cup {v}
<1>1. r \in Records(V) /\ v \in V
  BY RecordOfValues
<1> HIDE DEF V
<1> QED
  BY <1>1, ShapeIsRecord DEF Records

LEMMA SetFrom ==
    ASSUME NEW r, Shape(r), NEW v
    PROVE  LET q == [r EXCEPT !.from = v] IN
           /\ Shape(q) /\ q.op = r.op /\ q.todo = r.todo /\ q.chat = r.chat /\ q.id = r.id /\ q.body = r.body
           /\ q.seen = r.seen /\ q.told = r.told /\ q.status = r.status
<1> DEFINE V == Values(r) \cup {v}
<1>1. r \in Records(V) /\ v \in V
  BY RecordOfValues
<1> HIDE DEF V
<1> QED
  BY <1>1, ShapeIsRecord DEF Records

LEMMA SetClient ==
    ASSUME NEW r, Shape(r), NEW v
    PROVE  LET q == [r EXCEPT !.client = v] IN
           /\ Shape(q) /\ q.op = r.op /\ q.todo = r.todo /\ q.chat = r.chat /\ q.id = r.id /\ q.body = r.body
           /\ q.seen = r.seen /\ q.told = r.told /\ q.status = r.status
<1> DEFINE V == Values(r) \cup {v}
<1>1. r \in Records(V) /\ v \in V
  BY RecordOfValues
<1> HIDE DEF V
<1> QED
  BY <1>1, ShapeIsRecord DEF Records

LEMMA SetStale ==
    ASSUME NEW r, Shape(r), NEW v
    PROVE  LET q == [r EXCEPT !.stale = v] IN
           /\ Shape(q) /\ q.op = r.op /\ q.todo = r.todo /\ q.chat = r.chat /\ q.id = r.id /\ q.body = r.body
           /\ q.seen = r.seen /\ q.told = r.told /\ q.status = r.status
<1> DEFINE V == Values(r) \cup {v}
<1>1. r \in Records(V) /\ v \in V
  BY RecordOfValues
<1> HIDE DEF V
<1> QED
  BY <1>1, ShapeIsRecord DEF Records

LEMMA SetSlow ==
    ASSUME NEW r, Shape(r), NEW v
    PROVE  LET q == [r EXCEPT !.slow = v] IN
           /\ Shape(q) /\ q.op = r.op /\ q.todo = r.todo /\ q.chat = r.chat /\ q.id = r.id /\ q.body = r.body
           /\ q.seen = r.seen /\ q.told = r.told /\ q.status = r.status
<1> DEFINE V == Values(r) \cup {v}
<1>1. r \in Records(V) /\ v \in V
  BY RecordOfValues
<1> HIDE DEF V
<1> QED
  BY <1>1, ShapeIsRecord DEF Records

LEMMA SetSeen ==
    ASSUME NEW r, Shape(r), NEW v
    PROVE  LET q == [r EXCEPT !.seen = v] IN
           /\ Shape(q) /\ q.op = r.op /\ q.todo = r.todo /\ q.chat = r.chat /\ q.id = r.id /\ q.body = r.body
           /\ q.seen = v /\ q.told = r.told /\ q.status = r.status
<1> DEFINE V == Values(r) \cup {v}
<1>1. r \in Records(V) /\ v \in V
  BY RecordOfValues
<1> HIDE DEF V
<1> QED
  BY <1>1, ShapeIsRecord DEF Records

LEMMA SetTold ==
    ASSUME NEW r, Shape(r), NEW v
    PROVE  LET q == [r EXCEPT !.told = v] IN
           /\ Shape(q) /\ q.op = r.op /\ q.todo = r.todo /\ q.chat = r.chat /\ q.id = r.id /\ q.body = r.body
           /\ q.seen = r.seen /\ q.told = v /\ q.status = r.status
<1> DEFINE V == Values(r) \cup {v}
<1>1. r \in Records(V) /\ v \in V
  BY RecordOfValues
<1> HIDE DEF V
<1> QED
  BY <1>1, ShapeIsRecord DEF Records

LEMMA SetStatus ==
    ASSUME NEW r, Shape(r), NEW v
    PROVE  LET q == [r EXCEPT !.status = v] IN
           /\ Shape(q) /\ q.op = r.op /\ q.todo = r.todo /\ q.chat = r.chat /\ q.id = r.id /\ q.body = r.body
           /\ q.seen = r.seen /\ q.told = r.told /\ q.status = v
<1> DEFINE V == Values(r) \cup {v}
<1>1. r \in Records(V) /\ v \in V
  BY RecordOfValues
<1> HIDE DEF V
<1> QED
  BY <1>1, ShapeIsRecord DEF Records

LEMMA RowIsThere ==
    ASSUME NEW c, NEW b
    PROVE  LET m == [chat |-> c, body |-> b] IN m # Nothing /\ m.chat = c /\ m.body = b
  BY DEF Nothing

LEMMA MessageIsThere ==
    ASSUME NEW c, NEW b, NEW g
    PROVE  LET m == [chat |-> c, body |-> b, gone |-> g] IN
           m # Nothing /\ m.chat = c /\ m.body = b /\ m.gone = g
  BY DEF Nothing

LEMMA RequestIsNotFree ==
    ASSUME NEW r, Made(r)
    PROVE  r # Free
  BY DEF Made, Ops, Sends, Free
LEMMA FreeIsOver == Free.status # 0
  BY DEF Free
-----------------------------------------------------------------------------
(* How far a request has come says what it does next.                        *)

LEMMA EmptyIsEmpty ==
    ASSUME NEW q \in Seq(Steps)
    PROVE  q = <<>> <=> Len(q) = 0
  OBVIOUS

LEMMA NextStep ==
    ASSUME NEW todo, NEW plan \in Seq(Steps), EndOf(todo, plan), todo # <<>>
    PROVE  /\ Len(todo) \in 1 .. Len(plan) /\ Head(todo) = plan[1 + (Len(plan) - Len(todo))]
           /\ EndOf(Tail(todo), plan) /\ Len(Tail(todo)) = Len(todo) - 1
           /\ Tail(todo) # <<>> <=> Len(todo) # 1
<1>1. Len(todo) \in 1 .. Len(plan)
  BY EmptyIsEmpty DEF EndOf
<1>2. Head(todo) = plan[1 + (Len(plan) - Len(todo))]
  BY <1>1 DEF EndOf
<1>3. /\ Tail(todo) \in Seq(Steps) /\ Len(Tail(todo)) = Len(todo) - 1
      /\ \A k \in 1 .. Len(todo) - 1 : Tail(todo)[k] = todo[k + 1]
  BY <1>1 DEF EndOf
<1>4. ASSUME NEW k \in 1 .. Len(Tail(todo))
      PROVE  Tail(todo)[k] = plan[k + (Len(plan) - Len(Tail(todo)))]
  <2>1. k + 1 \in 1 .. Len(todo) /\ Tail(todo)[k] = todo[k + 1]
    BY <1>1, <1>3
  <2>2. todo[k + 1] = plan[(k + 1) + (Len(plan) - Len(todo))]
    BY <2>1 DEF EndOf
  <2>3. (k + 1) + (Len(plan) - Len(todo)) = k + (Len(plan) - Len(Tail(todo)))
    BY <1>1, <1>3
  <2> QED
    BY <2>1, <2>2, <2>3
<1>5. EndOf(Tail(todo), plan)
  BY <1>1, <1>3, <1>4 DEF EndOf
<1>6. Tail(todo) # <<>> <=> Len(todo) # 1
  <2>1. Tail(todo) = <<>> <=> Len(Tail(todo)) = 0
    BY <1>3, EmptyIsEmpty
  <2>2. Len(Tail(todo)) = 0 <=> Len(todo) = 1
    BY <1>1, <1>3
  <2> QED
    BY <2>1, <2>2
<1> QED
  BY <1>1, <1>2, <1>3, <1>5, <1>6

LEMMA NothingLeft ==
    ASSUME NEW plan \in Seq(Steps)
    PROVE  EndOf(<<>>, plan)
  BY DEF EndOf

LEMMA WholePlan ==
    ASSUME NEW plan \in Seq(Steps)
    PROVE  EndOf(plan, plan)
  BY DEF EndOf

LEMMA DeleteSent ==
    LET plan == handleDeleteMessage(TRUE) IN
    /\ plan \in Seq(Steps) /\ Len(plan) = 5
    /\ plan[1] = "gate" /\ plan[2] = "connected" /\ plan[3] = "client" /\ plan[4] = "call" /\ plan[5] = "drop"
<1>1. <<"gate", "connected">> \in Seq(Steps) /\ <<"client", "call">> \in Seq(Steps) /\ <<"drop">> \in Seq(Steps)
  BY DEF Steps
<1> QED
  BY <1>1 DEF handleDeleteMessage

LEMMA DeleteReceived ==
    LET plan == handleDeleteMessage(FALSE) IN
    /\ plan \in Seq(Steps) /\ Len(plan) = 3
    /\ plan[1] = "gate" /\ plan[2] = "connected" /\ plan[3] = "drop"
<1>1. <<"gate", "connected">> \in Seq(Steps) /\ <<>> \in Seq(Steps) /\ <<"drop">> \in Seq(Steps)
  BY DEF Steps
<1> QED
  BY <1>1 DEF handleDeleteMessage

\* What the next step and the number of steps left tell about a request.
Ahead(r, step, n) ==
    /\ step = "call" => /\ n = CallAt(r) /\ n < GateAt(r) /\ r.op # "event"
                        /\ r.op = "delete" => r.id # old
    /\ step = "gate" <=> n = GateAt(r)
    /\ step = "source" => r.op = "forward" /\ n = 6
    /\ step \in {"media", "reupload", "form"} => r.op \in Sends
    /\ step = "store" => r.op \in Sends /\ n = 1
    /\ step = "drop" => r.op = "delete" /\ n = 1
    /\ step = "read" => r.op \in {"edit", "event"} /\ n = 3
    /\ step = "write" => r.op \in {"edit", "event"} /\ n = 2
    /\ step = "tell" => r.op \in {"edit", "event"} /\ n = 1
    /\ step \notin {"call", "store", "drop", "read", "write", "tell"} => n > CallAt(r) /\ r.op # "event"

LEMMA PlansAreSteps ==
    ASSUME NEW r, r.op \in Ops
    PROVE  Plan(r) \in Seq(Steps)
<1>1. CASE r.op = "delete"
  BY <1>1, DeleteSent, DeleteReceived DEF Plan
<1>2. CASE r.op = "send"
  BY <1>2 DEF Plan, handleSendMessage, Steps
<1>3. CASE r.op = "react"
  BY <1>3 DEF Plan, handleReact, Steps
<1>4. CASE r.op = "poll"
  BY <1>4 DEF Plan, handleSendPoll, Steps
<1>5. CASE r.op = "file"
  BY <1>5 DEF Plan, handleSendFile, Steps
<1>6. CASE r.op = "vote"
  BY <1>6 DEF Plan, handleVotePoll, Steps
<1>7. CASE r.op = "forward"
  BY <1>7 DEF Plan, handleForwardMessage, Steps
<1>8. CASE r.op = "typing"
  BY <1>8 DEF Plan, handleTyping, Steps
<1>9. CASE r.op = "edit"
  BY <1>9 DEF Plan, handleEditMessage, Steps
<1>10. CASE r.op = "event"
  BY <1>10 DEF Plan, receiveEdit, Steps
<1> QED
  BY <1>1, <1>2, <1>3, <1>4, <1>5, <1>6, <1>7, <1>8, <1>9, <1>10 DEF Ops, Sends

\* The steps of each handler, counted from its end.
LEMMA AheadSend ==
    ASSUME NEW r, r.op = "send", NEW n \in 1 .. Len(Plan(r)), NEW step, step = Plan(r)[1 + (Len(Plan(r)) - n)]
    PROVE  Ahead(r, step, n)
<1>1. /\ Len(Plan(r)) = 5
      /\ Plan(r)[1] = "connected" /\ Plan(r)[2] = "gate" /\ Plan(r)[3] = "client" /\ Plan(r)[4] = "call"
      /\ Plan(r)[5] = "store"
  BY DEF Plan, handleSendMessage
<1>2. /\ n = 5 => step = "connected"
      /\ n = 4 => step = "gate"
      /\ n = 3 => step = "client"
      /\ n = 2 => step = "call"
      /\ n = 1 => step = "store"
  BY <1>1
<1>3. n \in 1 .. 5
  BY <1>1
<1>4. GateAt(r) = 4 /\ CallAt(r) = 2
  BY DEF GateAt, CallAt, Sends
<1> QED
  BY <1>2, <1>3, <1>4 DEF Ahead, Sends

LEMMA AheadReact ==
    ASSUME NEW r, r.op = "react", NEW n \in 1 .. Len(Plan(r)), NEW step, step = Plan(r)[1 + (Len(Plan(r)) - n)]
    PROVE  Ahead(r, step, n)
<1>1. /\ Len(Plan(r)) = 5
      /\ Plan(r)[1] = "connected" /\ Plan(r)[2] = "gate" /\ Plan(r)[3] = "client" /\ Plan(r)[4] = "call"
      /\ Plan(r)[5] = "store"
  BY DEF Plan, handleReact
<1>2. /\ n = 5 => step = "connected"
      /\ n = 4 => step = "gate"
      /\ n = 3 => step = "client"
      /\ n = 2 => step = "call"
      /\ n = 1 => step = "store"
  BY <1>1
<1>3. n \in 1 .. 5
  BY <1>1
<1>4. GateAt(r) = 4 /\ CallAt(r) = 2
  BY DEF GateAt, CallAt, Sends
<1> QED
  BY <1>2, <1>3, <1>4 DEF Ahead, Sends

LEMMA AheadPoll ==
    ASSUME NEW r, r.op = "poll", NEW n \in 1 .. Len(Plan(r)), NEW step, step = Plan(r)[1 + (Len(Plan(r)) - n)]
    PROVE  Ahead(r, step, n)
<1>1. /\ Len(Plan(r)) = 5
      /\ Plan(r)[1] = "connected" /\ Plan(r)[2] = "gate" /\ Plan(r)[3] = "form" /\ Plan(r)[4] = "call"
      /\ Plan(r)[5] = "store"
  BY DEF Plan, handleSendPoll
<1>2. /\ n = 5 => step = "connected"
      /\ n = 4 => step = "gate"
      /\ n = 3 => step = "form"
      /\ n = 2 => step = "call"
      /\ n = 1 => step = "store"
  BY <1>1
<1>3. n \in 1 .. 5
  BY <1>1
<1>4. GateAt(r) = 4 /\ CallAt(r) = 2
  BY DEF GateAt, CallAt, Sends
<1> QED
  BY <1>2, <1>3, <1>4 DEF Ahead, Sends

LEMMA AheadFile ==
    ASSUME NEW r, r.op = "file", NEW n \in 1 .. Len(Plan(r)), NEW step, step = Plan(r)[1 + (Len(Plan(r)) - n)]
    PROVE  Ahead(r, step, n)
<1>1. /\ Len(Plan(r)) = 7
      /\ Plan(r)[1] = "connected" /\ Plan(r)[2] = "gate" /\ Plan(r)[3] = "file" /\ Plan(r)[4] = "client"
      /\ Plan(r)[5] = "upload" /\ Plan(r)[6] = "call" /\ Plan(r)[7] = "store"
  BY DEF Plan, handleSendFile
<1>2. /\ n = 7 => step = "connected"
      /\ n = 6 => step = "gate"
      /\ n = 5 => step = "file"
      /\ n = 4 => step = "client"
      /\ n = 3 => step = "upload"
      /\ n = 2 => step = "call"
      /\ n = 1 => step = "store"
  BY <1>1
<1>3. n \in 1 .. 7
  BY <1>1
<1>4. GateAt(r) = 6 /\ CallAt(r) = 2
  BY DEF GateAt, CallAt, Sends
<1> QED
  BY <1>2, <1>3, <1>4 DEF Ahead, Sends

LEMMA AheadVote ==
    ASSUME NEW r, r.op = "vote", NEW n \in 1 .. Len(Plan(r)), NEW step, step = Plan(r)[1 + (Len(Plan(r)) - n)]
    PROVE  Ahead(r, step, n)
<1>1. /\ Len(Plan(r)) = 7
      /\ Plan(r)[1] = "connected" /\ Plan(r)[2] = "gate" /\ Plan(r)[3] = "poll" /\ Plan(r)[4] = "origin"
      /\ Plan(r)[5] = "secret" /\ Plan(r)[6] = "call" /\ Plan(r)[7] = "store"
  BY DEF Plan, handleVotePoll
<1>2. /\ n = 7 => step = "connected"
      /\ n = 6 => step = "gate"
      /\ n = 5 => step = "poll"
      /\ n = 4 => step = "origin"
      /\ n = 3 => step = "secret"
      /\ n = 2 => step = "call"
      /\ n = 1 => step = "store"
  BY <1>1
<1>3. n \in 1 .. 7
  BY <1>1
<1>4. GateAt(r) = 6 /\ CallAt(r) = 2
  BY DEF GateAt, CallAt, Sends
<1> QED
  BY <1>2, <1>3, <1>4 DEF Ahead, Sends

LEMMA AheadForward ==
    ASSUME NEW r, r.op = "forward", NEW n \in 1 .. Len(Plan(r)), NEW step, step = Plan(r)[1 + (Len(Plan(r)) - n)]
    PROVE  Ahead(r, step, n)
<1>1. /\ Len(Plan(r)) = 8
      /\ Plan(r)[1] = "connected" /\ Plan(r)[2] = "gate" /\ Plan(r)[3] = "source" /\ Plan(r)[4] = "media"
      /\ Plan(r)[5] = "age" /\ Plan(r)[6] = "reupload" /\ Plan(r)[7] = "call" /\ Plan(r)[8] = "store"
  BY DEF Plan, handleForwardMessage
<1>2. /\ n = 8 => step = "connected"
      /\ n = 7 => step = "gate"
      /\ n = 6 => step = "source"
      /\ n = 5 => step = "media"
      /\ n = 4 => step = "age"
      /\ n = 3 => step = "reupload"
      /\ n = 2 => step = "call"
      /\ n = 1 => step = "store"
  BY <1>1
<1>3. n \in 1 .. 8
  BY <1>1
<1>4. GateAt(r) = 7 /\ CallAt(r) = 2
  BY DEF GateAt, CallAt, Sends
<1> QED
  BY <1>2, <1>3, <1>4 DEF Ahead, Sends

LEMMA AheadTyping ==
    ASSUME NEW r, r.op = "typing", NEW n \in 1 .. Len(Plan(r)), NEW step, step = Plan(r)[1 + (Len(Plan(r)) - n)]
    PROVE  Ahead(r, step, n)
<1>1. /\ Len(Plan(r)) = 4
      /\ Plan(r)[1] = "connected" /\ Plan(r)[2] = "gate" /\ Plan(r)[3] = "client" /\ Plan(r)[4] = "call"
  BY DEF Plan, handleTyping
<1>2. /\ n = 4 => step = "connected"
      /\ n = 3 => step = "gate"
      /\ n = 2 => step = "client"
      /\ n = 1 => step = "call"
  BY <1>1
<1>3. n \in 1 .. 4
  BY <1>1
<1>4. GateAt(r) = 3 /\ CallAt(r) = 1
  BY DEF GateAt, CallAt, Sends
<1> QED
  BY <1>2, <1>3, <1>4 DEF Ahead, Sends

LEMMA AheadEdit ==
    ASSUME NEW r, r.op = "edit", NEW n \in 1 .. Len(Plan(r)), NEW step, step = Plan(r)[1 + (Len(Plan(r)) - n)]
    PROVE  Ahead(r, step, n)
<1>1. /\ Len(Plan(r)) = 8
      /\ Plan(r)[1] = "gate" /\ Plan(r)[2] = "connected" /\ Plan(r)[3] = "window" /\ Plan(r)[4] = "client"
      /\ Plan(r)[5] = "call" /\ Plan(r)[6] = "read" /\ Plan(r)[7] = "write" /\ Plan(r)[8] = "tell"
  BY DEF Plan, handleEditMessage
<1>2. /\ n = 8 => step = "gate"
      /\ n = 7 => step = "connected"
      /\ n = 6 => step = "window"
      /\ n = 5 => step = "client"
      /\ n = 4 => step = "call"
      /\ n = 3 => step = "read"
      /\ n = 2 => step = "write"
      /\ n = 1 => step = "tell"
  BY <1>1
<1>3. n \in 1 .. 8
  BY <1>1
<1>4. GateAt(r) = 8 /\ CallAt(r) = 4
  BY DEF GateAt, CallAt, Sends
<1> QED
  BY <1>2, <1>3, <1>4 DEF Ahead, Sends

LEMMA AheadEvent ==
    ASSUME NEW r, r.op = "event", NEW n \in 1 .. Len(Plan(r)), NEW step, step = Plan(r)[1 + (Len(Plan(r)) - n)]
    PROVE  Ahead(r, step, n)
<1>1. /\ Len(Plan(r)) = 3
      /\ Plan(r)[1] = "read" /\ Plan(r)[2] = "write" /\ Plan(r)[3] = "tell"
  BY DEF Plan, receiveEdit
<1>2. /\ n = 3 => step = "read"
      /\ n = 2 => step = "write"
      /\ n = 1 => step = "tell"
  BY <1>1
<1>3. n \in 1 .. 3
  BY <1>1
<1>4. GateAt(r) = 4 /\ CallAt(r) = 4
  BY DEF GateAt, CallAt, Sends
<1> QED
  BY <1>2, <1>3, <1>4 DEF Ahead, Sends

LEMMA AheadDeleteSent ==
    ASSUME NEW r, r.op = "delete", r.id # old, NEW n \in 1 .. Len(Plan(r)), NEW step, step = Plan(r)[1 + (Len(Plan(r)) - n)]
    PROVE  Ahead(r, step, n)
<1>1. /\ Len(Plan(r)) = 5
      /\ Plan(r)[1] = "gate" /\ Plan(r)[2] = "connected" /\ Plan(r)[3] = "client" /\ Plan(r)[4] = "call"
      /\ Plan(r)[5] = "drop"
  BY DeleteSent DEF Plan
<1>2. /\ n = 5 => step = "gate"
      /\ n = 4 => step = "connected"
      /\ n = 3 => step = "client"
      /\ n = 2 => step = "call"
      /\ n = 1 => step = "drop"
  BY <1>1
<1>3. n \in 1 .. 5
  BY <1>1
<1>4. GateAt(r) = 5 /\ CallAt(r) = 2
  BY DEF GateAt, CallAt, Sends
<1> QED
  BY <1>2, <1>3, <1>4 DEF Ahead, Sends

LEMMA AheadDeleteReceived ==
    ASSUME NEW r, r.op = "delete", r.id = old, NEW n \in 1 .. Len(Plan(r)), NEW step, step = Plan(r)[1 + (Len(Plan(r)) - n)]
    PROVE  Ahead(r, step, n)
<1>1. /\ Len(Plan(r)) = 3
      /\ Plan(r)[1] = "gate" /\ Plan(r)[2] = "connected" /\ Plan(r)[3] = "drop"
  BY DeleteReceived DEF Plan
<1>2. /\ n = 3 => step = "gate"
      /\ n = 2 => step = "connected"
      /\ n = 1 => step = "drop"
  BY <1>1
<1>3. n \in 1 .. 3
  BY <1>1
<1>4. GateAt(r) = 3 /\ CallAt(r) = 1
  BY DEF GateAt, CallAt, Sends
<1> QED
  BY <1>2, <1>3, <1>4 DEF Ahead, Sends

LEMMA StepsAhead ==
    ASSUME NEW r, Made(r), r.todo # <<>>
    PROVE  Ahead(r, Head(r.todo), Len(r.todo))
<1>1. Len(r.todo) \in 1 .. Len(Plan(r)) /\ Head(r.todo) = Plan(r)[1 + (Len(Plan(r)) - Len(r.todo))]
  BY PlansAreSteps, NextStep DEF Made
<1>2. CASE r.op = "send"
  BY <1>1, <1>2, AheadSend
<1>3. CASE r.op = "react"
  BY <1>1, <1>3, AheadReact
<1>4. CASE r.op = "poll"
  BY <1>1, <1>4, AheadPoll
<1>5. CASE r.op = "file"
  BY <1>1, <1>5, AheadFile
<1>6. CASE r.op = "vote"
  BY <1>1, <1>6, AheadVote
<1>7. CASE r.op = "forward"
  BY <1>1, <1>7, AheadForward
<1>8. CASE r.op = "typing"
  BY <1>1, <1>8, AheadTyping
<1>9. CASE r.op = "edit"
  BY <1>1, <1>9, AheadEdit
<1>10. CASE r.op = "event"
  BY <1>1, <1>10, AheadEvent
<1>11. CASE r.op = "delete" /\ r.id # old
  BY <1>1, <1>11, AheadDeleteSent
<1>12. CASE r.op = "delete" /\ r.id = old
  BY <1>1, <1>12, AheadDeleteReceived
<1> QED
  BY <1>2, <1>3, <1>4, <1>5, <1>6, <1>7, <1>8, <1>9, <1>10, <1>11, <1>12 DEF Made, Ops, Sends

-----------------------------------------------------------------------------
(* What becomes of a request.                                                *)

Same(r, q) == q.op = r.op /\ q.chat = r.chat /\ q.id = r.id

LEMMA SamePlan ==
    ASSUME NEW r, NEW q, Same(r, q)
    PROVE  Plan(q) = Plan(r) /\ GateAt(q) = GateAt(r) /\ CallAt(q) = CallAt(r)
  BY DEF Same, Plan, GateAt, CallAt

\* Fields that no plan depends on; only what is sent may still be made up.
LEMMA FieldKeeps ==
    ASSUME NEW r, Made(r), Gated(r), NEW q, Shape(q), Same(r, q),
           q.todo = r.todo, q.status = r.status, q.seen = r.seen,
           q.told = r.told \/ r.seen, q.body = r.body \/ r.op \in Sends
    PROVE  Made(q) /\ Gated(q)
<1>1. Made(q)
  <2>1. Target(q)
    BY DEF Made, Target, Same, Sends
  <2> QED
    BY <2>1, SamePlan DEF Made, Same
<1>2. Gated(q)
  BY SamePlan DEF Gated, Same
<1> QED
  BY <1>1, <1>2

LEMMA AnswerKeeps ==
    ASSUME NEW r, Made(r), Gated(r), NEW status \in Nat \ {0}
    PROVE  LET q == [r EXCEPT !.status = status, !.todo = <<>>] IN
           Made(q) /\ Gated(q) /\ Same(r, q) /\ q.status # 0
<1>1. PICK todo : todo = <<>>
  OBVIOUS
<1>2. PICK p : p = [r EXCEPT !.status = status]
  OBVIOUS
<1>3. PICK q : q = [p EXCEPT !.todo = todo]
  OBVIOUS
<1>4. q = [r EXCEPT !.status = status, !.todo = <<>>]
  BY <1>1, <1>2, <1>3
<1>5. /\ Shape(p) /\ p.op = r.op /\ p.chat = r.chat /\ p.id = r.id /\ p.body = r.body
      /\ p.seen = r.seen /\ p.told = r.told /\ p.status = status
  BY <1>2, SetStatus, MadeShape
<1>6. /\ Shape(q) /\ q.op = r.op /\ q.chat = r.chat /\ q.id = r.id /\ q.body = r.body
      /\ q.seen = r.seen /\ q.told = r.told /\ q.status = status /\ q.todo = todo
  BY <1>3, <1>5, SetTodo
<1>7. Same(r, q)
  BY <1>6 DEF Same
<1>8. Target(q)
  BY <1>6 DEF Target, Made
<1>9. EndOf(q.todo, Plan(q))
  BY <1>1, <1>6, <1>7, SamePlan, PlansAreSteps, NothingLeft DEF Made
<1>10. Made(q) /\ Gated(q) /\ q.status # 0
  BY <1>1, <1>6, <1>7, <1>8, <1>9 DEF Made, Gated
<1> QED
  BY <1>4, <1>7, <1>10, Zenon

LEMMA CallAtIsNat ==
    ASSUME NEW r, Made(r)
    PROVE  CallAt(r) \in Nat /\ Len(r.todo) \in Nat
  BY DEF CallAt, Made, Ops, Sends, EndOf

MayPass(r) == Head(r.todo) = "gate" => r.seen

LEMMA StepKeeps ==
    ASSUME NEW r, Made(r), Gated(r), r.todo # <<>>, MayPass(r)
    PROVE  LET q == [r EXCEPT !.todo = Tail(@), !.status = IF Len(r.todo) = 1 THEN 200 ELSE 0] IN
           /\ Made(q) /\ Gated(q) /\ Same(r, q) /\ q.body = r.body /\ q.told = r.told
           /\ Len(r.todo) \in Nat /\ Len(q.todo) = Len(r.todo) - 1
           /\ q.status # 0 <=> Len(r.todo) = 1
<1>1. PICK status : status = IF Len(r.todo) = 1 THEN 200 ELSE 0
  OBVIOUS
<1>2. PICK todo : todo = Tail(r.todo)
  OBVIOUS
<1>3. PICK p : p = [r EXCEPT !.todo = todo]
  OBVIOUS
<1>4. PICK q : q = [p EXCEPT !.status = status]
  OBVIOUS
<1>5. q = [r EXCEPT !.todo = Tail(@), !.status = IF Len(r.todo) = 1 THEN 200 ELSE 0]
  BY <1>1, <1>2, <1>3, <1>4
<1>6. /\ Shape(q) /\ q.op = r.op /\ q.chat = r.chat /\ q.id = r.id /\ q.body = r.body
      /\ q.seen = r.seen /\ q.told = r.told /\ q.status = status /\ q.todo = todo
  <2>1. /\ Shape(p) /\ p.op = r.op /\ p.chat = r.chat /\ p.id = r.id /\ p.body = r.body
        /\ p.seen = r.seen /\ p.told = r.told /\ p.todo = todo
    BY <1>3, SetTodo, MadeShape
  <2> QED
    BY <1>4, <2>1, SetStatus
<1>7. Same(r, q)
  BY <1>6 DEF Same
<1>8. Target(q)
  BY <1>6 DEF Target, Made
<1>9. /\ EndOf(q.todo, Plan(q)) /\ Len(r.todo) \in Nat /\ Len(q.todo) = Len(r.todo) - 1
      /\ q.todo # <<>> <=> Len(r.todo) # 1
  <2>1. EndOf(r.todo, Plan(r)) /\ Plan(r) \in Seq(Steps) /\ Plan(q) = Plan(r)
    BY <1>7, SamePlan, PlansAreSteps DEF Made
  <2> QED
    BY <1>2, <1>6, <2>1, NextStep
<1>10. Made(q)
  BY <1>1, <1>6, <1>7, <1>8, <1>9 DEF Made
<1>11. Gated(q)
  <2>1. Head(r.todo) = "gate" <=> Len(r.todo) = GateAt(r)
    BY StepsAhead DEF Ahead
  <2>2. GateAt(r) \in Nat
    BY DEF GateAt, Made, Ops, Sends
  <2>3. CASE r.seen
    BY <2>3, <1>6 DEF Gated
  <2>4. CASE ~r.seen
    BY <2>1, <2>2, <2>4, <1>6, <1>7, <1>9, SamePlan DEF Gated, MayPass
  <2> QED
    BY <2>3, <2>4
<1>12. q.status # 0 <=> Len(r.todo) = 1
  BY <1>1, <1>6
<1> QED
  BY <1>5, <1>6, <1>7, <1>9, <1>10, <1>11, <1>12, Zenon

-----------------------------------------------------------------------------
(* One request moves on.                                                     *)

Turn(s, q) == req' = [req EXCEPT ![s] = q]

LEMMA Turned ==
    ASSUME ReqInv, NEW s \in Slots, NEW q, Turn(s, q)
    PROVE  req'[s] = q /\ (\A z \in Slots \ {s} : req'[z] = req[z]) /\ req' = [z \in Slots |-> req'[z]]
  BY DEF Turn, ReqInv

LEMMA Working ==
    ASSUME ReqInv, NEW s \in Slots, ~Over(s)
    PROVE  /\ req[s] # Free /\ Made(req[s]) /\ Gated(req[s])
           /\ req[s].status = 0 /\ req[s].todo # <<>>
  BY FreeIsOver DEF ReqInv, GateInv, Over, Made

LEMMA GateTurn ==
    ASSUME ReqInv, NEW s \in Slots, NEW q, Turn(s, q), Made(q), Gated(q), allow' = allow
    PROVE  ReqInv'
<1>1. req'[s] = q /\ (\A z \in Slots \ {s} : req'[z] = req[z]) /\ req' = [z \in Slots |-> req'[z]]
  BY Turned
<1>2. ASSUME NEW z \in Slots, req'[z] # Free PROVE (Made(req[z]) /\ Gated(req[z]))'
  <2>1. CASE z = s
    BY <1>1, <2>1 DEF Gated
  <2>2. CASE z # s
    BY <1>1, <1>2, <2>2 DEF Gated, ReqInv, GateInv
  <2> QED
    BY <2>1, <2>2
<1> QED
  BY <1>1, <1>2 DEF ReqInv, GateInv

LEMMA AcceptedTurn ==
    ASSUME ReqInv, AcceptedInv, NEW s \in Slots, NEW q, Turn(s, q), Accepted(q)',
           \A id \in Ids : wa[id] # Nothing => wa'[id] # Nothing
    PROVE  AcceptedInv'
<1>1. req'[s] = q /\ \A z \in Slots \ {s} : req'[z] = req[z]
  BY Turned
<1>2. ASSUME NEW z \in Slots, req'[z] # Free PROVE Accepted(req[z])'
  <2>1. CASE z = s
    BY <1>1, <2>1 DEF Accepted
  <2>2. CASE z # s
    <3>1. req'[z] = req[z] /\ Accepted(req[z]) /\ Made(req[z])
      BY <1>1, <1>2, <2>2 DEF ReqInv, GateInv, AcceptedInv
    <3>2. (req[z].op \in {"edit", "event", "delete"} /\ req[z].id # old) \/ req[z].op \in Sends => req[z].id \in Ids
      BY <3>1 DEF Made, Target, Sends
    <3> QED
      BY <3>1, <3>2 DEF Accepted, Early, CallAt
  <2> QED
    BY <2>1, <2>2
<1> QED
  BY <1>1, <1>2 DEF AcceptedInv

\* The messages that the step is not about.
LEMMA OthersStaySure ==
    ASSUME ReqInv, NEW s \in Slots, NEW q, Turn(s, q),
           NEW id \in Ids, Sure(id), q.id # id, Over(s) \/ req[s].id # id,
           row'[id] = row[id], wa'[id] = wa[id], shown'[id] = shown[id]
    PROVE  Sure(id)'
<1>1. req'[s] = q /\ \A z \in Slots \ {s} : req'[z] = req[z]
  BY Turned
<1>2. \A z \in Slots : req'[z].id = id => z # s /\ req'[z] = req[z]
  BY <1>1
<1>3. \A z \in Slots : ~Over(z) /\ req[z].id = id => ~Over(z)' /\ req'[z] = req[z]
  BY <1>1 DEF Over
<1>4. ASSUME NEW z \in Slots, ~Over(z)', req'[z].id = id PROVE Phase(req[z])'
  <2>1. req'[z] = req[z] /\ Phase(req[z]) /\ req[z].id = id
    BY <1>2, <1>4 DEF Sure, Over
  <2>2. Agree(id) => Agree(id)'
    BY DEF Agree, Matches
  <2>3. Matches(id) => Matches(id)'
    BY DEF Matches
  <2>4. Before(req[z]) => Before(req[z])'
    BY <2>1, <2>2 DEF Before
  <2>5. After(req[z]) => After(req[z])'
    BY <2>1, <2>3 DEF After
  <2> QED
    BY <2>1, <2>4, <2>5 DEF Phase, Early, CallAt
<1>5. ~Busy(id)' => Agree(id)'
  <2>1. ~Busy(id)' => ~Busy(id)
    BY <1>3 DEF Busy
  <2> QED
    BY <2>1 DEF Sure, Agree, Matches
<1>6. \A y, z \in Slots : ~Over(y)' /\ ~Over(z)' /\ req'[y].id = id /\ req'[z].id = id => y = z
  BY <1>2 DEF Sure, Over
<1> QED
  BY <1>4, <1>5, <1>6 DEF Sure

\* The message that the step is about.
LEMMA OneStaysSure ==
    ASSUME ReqInv, NEW s \in Slots, ~Over(s), NEW q, Turn(s, q), q.id = req[s].id,
           NEW id, Sure(id), id = req[s].id,
           q.status # 0 => Agree(id)', q.status = 0 => Phase(q)'
    PROVE  Sure(id)'
<1>1. req'[s] = q /\ \A z \in Slots \ {s} : req'[z] = req[z]
  BY Turned
<1>2. \A z \in Slots : ~Over(z)' /\ req'[z].id = id => z = s
  BY <1>1 DEF Sure, Over
<1>3. ASSUME NEW z \in Slots, ~Over(z)', req'[z].id = id PROVE Phase(req[z])'
  <2>1. z = s /\ q.status = 0
    BY <1>1, <1>2, <1>3 DEF Over
  <2> QED
    BY <1>1, <2>1 DEF Phase, Early, Before, After
<1>4. ~Busy(id)' => q.status # 0
  BY <1>1 DEF Busy, Over
<1> QED
  BY <1>2, <1>3, <1>4 DEF Sure

\* A step of a request, and all it has to respect.
LEMMA TurnKeeps ==
    ASSUME RequestsInv, NEW s \in Slots, ~Over(s),
           NEW q, Turn(s, q), Made(q), Gated(q), Same(req[s], q), allow' = allow,
           RowInv', WaInv', ShownInv', Accepted(q)',
           \A id \in Ids : wa[id] # Nothing => wa'[id] # Nothing,
           \A id \in Ids \ {req[s].id} : row'[id] = row[id] /\ wa'[id] = wa[id] /\ shown'[id] = shown[id],
           sure' \subseteq sure,
           NEW one, one = req[s].id,
           one \in sure' => /\ q.status # 0 => Agree(one)'
                            /\ q.status = 0 => Phase(q)'
    PROVE  RequestsInv'
<1>1. ReqInv /\ AcceptedInv /\ sure \subseteq Ids /\ \A id \in sure : Sure(id)
  BY DEF RequestsInv
<1>2. ReqInv'
  BY <1>1, GateTurn
<1>3. AcceptedInv'
  BY <1>1, AcceptedTurn
<1>4. q.id = one
  BY DEF Same
<1>5. ASSUME NEW id \in sure' PROVE Sure(id)'
  <2>1. CASE id # one
    BY <1>1, <1>4, <1>5, <2>1, OthersStaySure
  <2>2. CASE id = one
    BY <1>1, <1>4, <1>5, <2>2, OneStaysSure
  <2> QED
    BY <2>1, <2>2
<1> QED
  BY <1>1, <1>2, <1>3, <1>5 DEF RequestsInv

-----------------------------------------------------------------------------
(* The steps that only look.                                                 *)

LEMMA QuietTurn ==
    ASSUME RequestsInv, NEW s \in Slots, ~Over(s), Early(req[s]),
           NEW q, Turn(s, q), Made(q), Gated(q), Same(req[s], q), q.status # 0 \/ Early(q),
           UNCHANGED <<world, data>>
    PROVE  RequestsInv'
<1>1. ReqInv /\ AcceptedInv /\ sure \subseteq Ids /\ \A id \in sure : Sure(id)
  BY DEF RequestsInv
<1>2. allow' = allow /\ row' = row /\ wa' = wa /\ shown' = shown /\ sure' = sure
  BY DEF world, data
<1>3. Accepted(q)'
  <2>1. Accepted(req[s])
    BY <1>1, Working DEF AcceptedInv
  <2> QED
    BY <1>2, <2>1 DEF Accepted, Same, Made, Sends, Early, CallAt
<1>4. PICK one : one = req[s].id
  OBVIOUS
<1>5. one \in sure => Agree(one)' /\ (q.status = 0 => Phase(q)')
  <2> SUFFICES ASSUME one \in sure PROVE Agree(one)' /\ (q.status = 0 => Phase(q)')
    OBVIOUS
  <2>1. Before(req[s])
    BY <1>1, <1>4 DEF Sure, Phase
  <2>2. Agree(one)' /\ Before(q)'
    BY <1>2, <1>4, <2>1 DEF Before, Agree, Matches, Same
  <2> QED
    BY <2>2 DEF Phase, Early, CallAt
<1>6. RowInv' /\ WaInv' /\ ShownInv'
  BY <1>2 DEF RequestsInv, RowInv, WaInv, ShownInv
<1> QED
  BY <1>2, <1>3, <1>4, <1>5, <1>6, TurnKeeps

\* What such a step may note down.
Noted(r, q) ==
    /\ Shape(q) /\ Same(r, q) /\ q.todo = r.todo /\ q.status = r.status
    /\ q.seen = r.seen /\ q.told = r.told
    /\ q.body = r.body \/ r.op \in Sends

QuietSteps == Steps \ {"call", "store", "drop", "read", "write", "tell"}

LEMMA QuietAnswer ==
    ASSUME RequestsInv, NEW s \in Slots, NEW step \in QuietSteps, At(s, step),
           NEW status \in Nat \ {0}, Answer(s, status), UNCHANGED <<world, data>>
    PROVE  RequestsInv'
<1>1. Made(req[s]) /\ Gated(req[s]) /\ ~Over(s) /\ req[s].todo # <<>> /\ Head(req[s].todo) = step
  BY Working DEF RequestsInv, At
<1>2. Early(req[s])
  BY <1>1, StepsAhead, CallAtIsNat DEF Ahead, QuietSteps, Early
<1>3. PICK q : q = [req[s] EXCEPT !.status = status, !.todo = <<>>]
  OBVIOUS
<1>4. Made(q) /\ Gated(q) /\ Same(req[s], q) /\ q.status # 0
  BY <1>1, <1>3, AnswerKeeps, Zenon
<1>5. Turn(s, q)
  BY <1>3 DEF Turn, Answer
<1> QED
  BY <1>1, <1>2, <1>4, <1>5, QuietTurn

LEMMA QuietStep ==
    ASSUME RequestsInv, NEW s \in Slots, NEW step \in QuietSteps, At(s, step),
           step = "gate" => allow[req[s].chat],
           NEW r, Noted(req[s], r), Proceed(s, r), UNCHANGED <<world, data>>
    PROVE  RequestsInv'
<1>1. Made(req[s]) /\ Gated(req[s]) /\ ~Over(s) /\ req[s].todo # <<>> /\ Head(req[s].todo) = step
  BY Working DEF RequestsInv, At
<1>2. Early(req[s]) /\ Len(req[s].todo) > CallAt(req[s])
  BY <1>1, StepsAhead, CallAtIsNat DEF Ahead, QuietSteps, Early
<1>3. Made(r) /\ Gated(r) /\ r.todo # <<>> /\ MayPass(r)
  BY <1>1, FieldKeeps DEF Noted, MayPass, Gated
<1>4. PICK q : q = [r EXCEPT !.todo = Tail(@), !.status = IF Len(r.todo) = 1 THEN 200 ELSE 0]
  OBVIOUS
<1>5. /\ Made(q) /\ Gated(q) /\ Same(r, q)
      /\ Len(r.todo) \in Nat /\ Len(q.todo) = Len(r.todo) - 1
  BY <1>3, <1>4, StepKeeps, Zenon
<1>6. Same(req[s], q) /\ Early(q)
  <2>1. Same(req[s], q)
    BY <1>5 DEF Same, Noted
  <2>2. CallAt(req[s]) \in Nat /\ CallAt(q) = CallAt(req[s])
    BY <1>1, <2>1, SamePlan DEF CallAt, Made, Ops, Sends
  <2> QED
    BY <1>2, <1>5, <2>1, <2>2 DEF Early, Noted
<1>7. Turn(s, q)
  BY <1>4 DEF Turn, Proceed
<1> QED
  BY <1>1, <1>2, <1>5, <1>6, <1>7, QuietTurn

LEMMA Reads ==
    ASSUME RequestsInv, NEW s \in Slots, NEW step \in QuietSteps, At(s, step)
    PROVE  /\ Noted(req[s], req[s]) /\ Made(req[s])
           /\ step \in {"media", "reupload", "form", "source"} => req[s].op \in Sends
<1>1. Made(req[s]) /\ ~Over(s) /\ req[s].todo # <<>> /\ Head(req[s].todo) = step
  BY Working DEF RequestsInv, At
<1> QED
  BY <1>1, StepsAhead DEF Ahead, Noted, Same, Made, Sends

LEMMA NoteClient ==
    ASSUME NEW r, Made(r), NEW v
    PROVE  Noted(r, [r EXCEPT !.client = v])
<1>1. PICK q : q = [r EXCEPT !.client = v]
  OBVIOUS
<1>2. Noted(r, q)
  BY <1>1, SetClient, MadeShape DEF Noted, Same
<1> QED
  BY <1>1, <1>2, Zenon

LEMMA NoteFrom ==
    ASSUME NEW r, Made(r), NEW v
    PROVE  Noted(r, [r EXCEPT !.from = v])
<1>1. PICK q : q = [r EXCEPT !.from = v]
  OBVIOUS
<1>2. Noted(r, q)
  BY <1>1, SetFrom, MadeShape DEF Noted, Same
<1> QED
  BY <1>1, <1>2, Zenon

LEMMA NoteStale ==
    ASSUME NEW r, Made(r), NEW v
    PROVE  Noted(r, [r EXCEPT !.stale = v])
<1>1. PICK q : q = [r EXCEPT !.stale = v]
  OBVIOUS
<1>2. Noted(r, q)
  BY <1>1, SetStale, MadeShape DEF Noted, Same
<1> QED
  BY <1>1, <1>2, Zenon

LEMMA NoteSlow ==
    ASSUME NEW r, Made(r), NEW v
    PROVE  Noted(r, [r EXCEPT !.slow = v])
<1>1. PICK q : q = [r EXCEPT !.slow = v]
  OBVIOUS
<1>2. Noted(r, q)
  BY <1>1, SetSlow, MadeShape DEF Noted, Same
<1> QED
  BY <1>1, <1>2, Zenon

LEMMA NoteBody ==
    ASSUME NEW r, Made(r), r.op \in Sends, NEW v
    PROVE  Noted(r, [r EXCEPT !.body = v])
<1>1. PICK q : q = [r EXCEPT !.body = v]
  OBVIOUS
<1>2. Noted(r, q)
  BY <1>1, SetBody, MadeShape DEF Noted, Same
<1> QED
  BY <1>1, <1>2, Zenon

LEMMA NoteNotes ==
    ASSUME NEW r, NEW p, NEW q, Noted(r, p), Noted(p, q)
    PROVE  Noted(r, q)
  BY DEF Noted, Same

LEMMA connectedClientKeeps ==
    ASSUME RequestsInv, NEW s \in Slots, connectedClient(s)
    PROVE  RequestsInv'
<1>1. "connected" \in QuietSteps /\ At(s, "connected") /\ UNCHANGED <<world, data>>
  BY DEF QuietSteps, Steps, connectedClient
<1>2. /\ Noted(req[s], req[s]) /\ Made(req[s])
      /\ "connected" \in {"media", "reupload", "form", "source"} => req[s].op \in Sends
  BY <1>1, Reads
<1>3. Answer(s, 409) => RequestsInv'
  BY <1>1, QuietAnswer
<1>4. Proceed(s, [req[s] EXCEPT !.client = client]) => RequestsInv'
  BY <1>1, <1>2, NoteClient, QuietStep
<1> QED
  BY <1>3, <1>4 DEF connectedClient

LEMMA getClientKeeps ==
    ASSUME RequestsInv, NEW s \in Slots, getClient(s)
    PROVE  RequestsInv'
<1>1. "client" \in QuietSteps /\ At(s, "client") /\ UNCHANGED <<world, data>>
  BY DEF QuietSteps, Steps, getClient
<1>2. /\ Noted(req[s], req[s]) /\ Made(req[s])
      /\ "client" \in {"media", "reupload", "form", "source"} => req[s].op \in Sends
  BY <1>1, Reads
<1>3. Answer(s, 409) => RequestsInv'
  BY <1>1, QuietAnswer
<1>4. Proceed(s, [req[s] EXCEPT !.client = client]) => RequestsInv'
  BY <1>1, <1>2, NoteClient, QuietStep
<1> QED
  BY <1>3, <1>4 DEF getClient

LEMMA isChatAllowedKeeps ==
    ASSUME RequestsInv, NEW s \in Slots, isChatAllowed(s)
    PROVE  RequestsInv'
<1>1. "gate" \in QuietSteps /\ At(s, "gate") /\ UNCHANGED <<world, data>>
  BY DEF QuietSteps, Steps, isChatAllowed
<1>2. /\ Noted(req[s], req[s]) /\ Made(req[s])
      /\ "gate" \in {"media", "reupload", "form", "source"} => req[s].op \in Sends
  BY <1>1, Reads
<1>3. Answer(s, 403) => RequestsInv'
  BY <1>1, QuietAnswer
<1>4. allow[req[s].chat] /\ Proceed(s, req[s]) => RequestsInv'
  BY <1>1, <1>2, QuietStep
<1> QED
  BY <1>3, <1>4 DEF isChatAllowed

LEMMA checkFileKeeps ==
    ASSUME RequestsInv, NEW s \in Slots, checkFile(s)
    PROVE  RequestsInv'
<1>1. "file" \in QuietSteps /\ At(s, "file") /\ UNCHANGED <<world, data>>
  BY DEF QuietSteps, Steps, checkFile
<1>2. /\ Noted(req[s], req[s]) /\ Made(req[s])
      /\ "file" \in {"media", "reupload", "form", "source"} => req[s].op \in Sends
  BY <1>1, Reads
<1>3. Answer(s, 400) => RequestsInv'
  BY <1>1, QuietAnswer
<1>4. Proceed(s, req[s]) => RequestsInv'
  BY <1>1, <1>2, QuietStep
<1> QED
  BY <1>3, <1>4 DEF checkFile

LEMMA uploadKeeps ==
    ASSUME RequestsInv, NEW s \in Slots, upload(s)
    PROVE  RequestsInv'
<1>1. "upload" \in QuietSteps /\ At(s, "upload") /\ UNCHANGED <<world, data>>
  BY DEF QuietSteps, Steps, upload
<1>2. /\ Noted(req[s], req[s]) /\ Made(req[s])
      /\ "upload" \in {"media", "reupload", "form", "source"} => req[s].op \in Sends
  BY <1>1, Reads
<1>3. Answer(s, 500) => RequestsInv'
  BY <1>1, QuietAnswer
<1>4. ASSUME NEW slow \in BOOLEAN, Proceed(s, [req[s] EXCEPT !.slow = slow]) PROVE RequestsInv'
  BY <1>1, <1>2, <1>4, NoteSlow, QuietStep
<1> QED
  BY <1>3, <1>4 DEF upload

\* A text needs neither media nor age.
LEMMA TextIsForwarded ==
    ASSUME RequestsInv, NEW s \in Slots, At(s, "source"), UNCHANGED <<world, data>>, NEW body,
           req' = [req EXCEPT ![s].body = body, ![s].todo = <<"call", "store">>]
    PROVE  RequestsInv'
<1>1. Made(req[s]) /\ Gated(req[s]) /\ ~Over(s) /\ req[s].todo # <<>> /\ Head(req[s].todo) = "source" /\ req[s].status = 0
  BY Working DEF RequestsInv, At
<1>2. req[s].op = "forward" /\ Len(req[s].todo) = 6
  BY <1>1, StepsAhead DEF Ahead
<1>3. PICK todo : todo = <<"call", "store">>
  OBVIOUS
<1>4. PICK p : p = [req[s] EXCEPT !.body = body]
  OBVIOUS
<1>5. PICK q : q = [p EXCEPT !.todo = todo]
  OBVIOUS
<1>6. Turn(s, q)
  BY <1>3, <1>4, <1>5 DEF Turn
<1>7. /\ Shape(p) /\ p.op = req[s].op /\ p.chat = req[s].chat /\ p.id = req[s].id
      /\ p.seen = req[s].seen /\ p.told = req[s].told /\ p.status = req[s].status
  BY <1>1, <1>4, SetBody, MadeShape
<1>8. /\ Shape(q) /\ q.op = req[s].op /\ q.chat = req[s].chat /\ q.id = req[s].id
      /\ q.seen = req[s].seen /\ q.told = req[s].told /\ q.status = req[s].status /\ q.todo = todo
  BY <1>5, <1>7, SetTodo
<1>9. Same(req[s], q)
  BY <1>8 DEF Same
<1>10. Plan(q) \in Seq(Steps) /\ Len(Plan(q)) = 8 /\ Plan(q)[7] = "call" /\ Plan(q)[8] = "store"
  BY <1>2, <1>8 DEF Plan, handleForwardMessage, Steps
<1>11. todo \in Seq(Steps) /\ Len(todo) = 2 /\ todo[1] = "call" /\ todo[2] = "store"
  BY <1>3 DEF Steps
<1>12. EndOf(q.todo, Plan(q))
  BY <1>8, <1>10, <1>11 DEF EndOf
<1>13. todo # <<>>
  BY <1>3
<1>14. Made(q)
  <2>1. Target(q)
    BY <1>1, <1>2, <1>8 DEF Made, Target, Sends
  <2> QED
    BY <1>1, <1>8, <1>12, <1>13, <2>1 DEF Made
<1>15. Gated(q)
  BY <1>1, <1>2, <1>8 DEF Gated, GateAt
<1>16. Early(req[s]) /\ Early(q)
  BY <1>2, <1>8, <1>11 DEF Early, CallAt, Sends
<1> QED
  BY <1>1, <1>6, <1>9, <1>14, <1>15, <1>16, QuietTurn

LEMMA resolveForwardKeeps ==
    ASSUME RequestsInv, NEW s \in Slots, resolveForward(s)
    PROVE  RequestsInv'
<1>1. "source" \in QuietSteps /\ At(s, "source") /\ UNCHANGED <<world, data>>
  BY DEF QuietSteps, Steps, resolveForward
<1>2. /\ Noted(req[s], req[s]) /\ Made(req[s])
      /\ "source" \in {"media", "reupload", "form", "source"} => req[s].op \in Sends
  BY <1>1, Reads
<1>3. Answer(s, 404) => RequestsInv'
  BY <1>1, QuietAnswer
<1>4. Answer(s, 400) => RequestsInv'
  BY <1>1, QuietAnswer
<1>5. ASSUME NEW src, req' = [req EXCEPT ![s].body = src.body, ![s].todo = <<"call", "store">>] PROVE RequestsInv'
  BY <1>1, <1>5, TextIsForwarded
<1>6. ASSUME NEW src, Proceed(s, [req[s] EXCEPT !.body = src.body]) PROVE RequestsInv'
  BY <1>1, <1>2, <1>6, NoteBody, QuietStep
<1> QED
  BY <1>3, <1>4, <1>5, <1>6 DEF resolveForward

LEMMA BuildForwardedMediaMessageKeeps ==
    ASSUME RequestsInv, NEW s \in Slots, BuildForwardedMediaMessage(s)
    PROVE  RequestsInv'
<1>1. "media" \in QuietSteps /\ At(s, "media") /\ UNCHANGED <<world, data>>
  BY DEF QuietSteps, Steps, BuildForwardedMediaMessage
<1>2. /\ Noted(req[s], req[s]) /\ Made(req[s])
      /\ "media" \in {"media", "reupload", "form", "source"} => req[s].op \in Sends
  BY <1>1, Reads
<1>3. Answer(s, 404) => RequestsInv'
  BY <1>1, QuietAnswer
<1>4. Answer(s, 400) => RequestsInv'
  BY <1>1, QuietAnswer
<1>5. Proceed(s, req[s]) => RequestsInv'
  BY <1>1, <1>2, QuietStep
<1> QED
  BY <1>3, <1>4, <1>5 DEF BuildForwardedMediaMessage

LEMMA MediaLinkStaleKeeps ==
    ASSUME RequestsInv, NEW s \in Slots, MediaLinkStale(s)
    PROVE  RequestsInv'
<1>1. "age" \in QuietSteps /\ At(s, "age") /\ UNCHANGED <<world, data>>
  BY DEF QuietSteps, Steps, MediaLinkStale
<1>2. /\ Noted(req[s], req[s]) /\ Made(req[s])
      /\ "age" \in {"media", "reupload", "form", "source"} => req[s].op \in Sends
  BY <1>1, Reads
<1>3. ASSUME NEW stale, Proceed(s, [req[s] EXCEPT !.stale = stale]) PROVE RequestsInv'
  BY <1>1, <1>2, <1>3, NoteStale, QuietStep
<1> QED
  BY <1>3 DEF MediaLinkStale

LEMMA reuploadForwardedMediaKeeps ==
    ASSUME RequestsInv, NEW s \in Slots, reuploadForwardedMedia(s)
    PROVE  RequestsInv'
<1>1. "reupload" \in QuietSteps /\ At(s, "reupload") /\ UNCHANGED <<world, data>>
  BY DEF QuietSteps, Steps, reuploadForwardedMedia
<1>2. /\ Noted(req[s], req[s]) /\ Made(req[s])
      /\ "reupload" \in {"media", "reupload", "form", "source"} => req[s].op \in Sends
  BY <1>1, Reads
<1>3. Answer(s, 409) => RequestsInv'
  BY <1>1, QuietAnswer
<1>4. Answer(s, 410) => RequestsInv'
  BY <1>1, QuietAnswer
<1>5. Answer(s, 500) => RequestsInv'
  BY <1>1, QuietAnswer
<1>6. Proceed(s, req[s]) => RequestsInv'
  BY <1>1, <1>2, QuietStep
<1>7. ASSUME NEW slow \in BOOLEAN, Proceed(s, [req[s] EXCEPT !.body.link = "fresh", !.slow = slow])
      PROVE  RequestsInv'
  <2>1. PICK body : body = [req[s].body EXCEPT !.link = "fresh"]
    OBVIOUS
  <2>2. PICK p : p = [req[s] EXCEPT !.body = body]
    OBVIOUS
  <2>3. PICK q : q = [p EXCEPT !.slow = slow]
    OBVIOUS
  <2>4. q = [req[s] EXCEPT !.body.link = "fresh", !.slow = slow]
    BY <2>1, <2>2, <2>3
  <2>5. Noted(req[s], p)
    BY <1>2, <2>2, NoteBody
  <2>6. Noted(p, q)
    <3>1. Shape(p)
      BY <2>5 DEF Noted
    <3> QED
      BY <2>3, <3>1, SetSlow DEF Noted, Same
  <2>7. Noted(req[s], q) /\ Proceed(s, q)
    BY <1>7, <2>4, <2>5, <2>6, NoteNotes, Zenon
  <2> QED
    BY <1>1, <2>7, QuietStep
<1>8. CASE ~req[s].stale
  BY <1>6, <1>8 DEF reuploadForwardedMedia
<1>9. CASE req[s].stale /\ client = 0
  BY <1>3, <1>9 DEF reuploadForwardedMedia
<1>10. CASE req[s].stale /\ client # 0
  <2>1. \/ \E slow \in BOOLEAN : Proceed(s, [req[s] EXCEPT !.body.link = "fresh", !.slow = slow])
        \/ \E status \in {410, 500} : Answer(s, status)
    BY <1>10, Zenon DEF reuploadForwardedMedia
  <2>2. CASE \E status \in {410, 500} : Answer(s, status)
    BY <2>2, <1>4, <1>5
  <2>3. CASE \E slow \in BOOLEAN : Proceed(s, [req[s] EXCEPT !.body.link = "fresh", !.slow = slow])
    BY <2>3, <1>7, Zenon
  <2> QED
    BY <2>1, <2>2, <2>3, Zenon
<1> QED
  BY <1>8, <1>9, <1>10

LEMMA resolvePollKeeps ==
    ASSUME RequestsInv, NEW s \in Slots, resolvePoll(s)
    PROVE  RequestsInv'
<1>1. "form" \in QuietSteps /\ At(s, "form") /\ UNCHANGED <<world, data>>
  BY DEF QuietSteps, Steps, resolvePoll
<1>2. /\ Noted(req[s], req[s]) /\ Made(req[s])
      /\ "form" \in {"media", "reupload", "form", "source"} => req[s].op \in Sends
  BY <1>1, Reads
<1>3. Answer(s, 400) => RequestsInv'
  BY <1>1, QuietAnswer
<1>4. ASSUME NEW limit, Proceed(s, [req[s] EXCEPT !.body = Poll(tidied(@.options), limit)]) PROVE RequestsInv'
  BY <1>1, <1>2, <1>4, NoteBody, QuietStep
<1> QED
  BY <1>3, <1>4 DEF resolvePoll

LEMMA resolvePollVoteKeeps ==
    ASSUME RequestsInv, NEW s \in Slots, resolvePollVote(s)
    PROVE  RequestsInv'
<1>1. "poll" \in QuietSteps /\ At(s, "poll") /\ UNCHANGED <<world, data>>
  BY DEF QuietSteps, Steps, resolvePollVote
<1>2. /\ Noted(req[s], req[s]) /\ Made(req[s])
      /\ "poll" \in {"media", "reupload", "form", "source"} => req[s].op \in Sends
  BY <1>1, Reads
<1>3. Answer(s, 404) => RequestsInv'
  BY <1>1, QuietAnswer
<1>4. Answer(s, 400) => RequestsInv'
  BY <1>1, QuietAnswer
<1>5. ASSUME NEW poll, Proceed(s, [req[s] EXCEPT !.from = poll.body]) PROVE RequestsInv'
  BY <1>1, <1>2, <1>5, NoteFrom, QuietStep
<1> QED
  BY <1>3, <1>4, <1>5 DEF resolvePollVote

LEMMA GetMessageOriginKeeps ==
    ASSUME RequestsInv, NEW s \in Slots, GetMessageOrigin(s)
    PROVE  RequestsInv'
<1>1. "origin" \in QuietSteps /\ At(s, "origin") /\ UNCHANGED <<world, data>>
  BY DEF QuietSteps, Steps, GetMessageOrigin
<1>2. /\ Noted(req[s], req[s]) /\ Made(req[s])
      /\ "origin" \in {"media", "reupload", "form", "source"} => req[s].op \in Sends
  BY <1>1, Reads
<1>3. Answer(s, 500) => RequestsInv'
  BY <1>1, QuietAnswer
<1>4. Proceed(s, req[s]) => RequestsInv'
  BY <1>1, <1>2, QuietStep
<1> QED
  BY <1>3, <1>4 DEF GetMessageOrigin

LEMMA buildPollVoteKeeps ==
    ASSUME RequestsInv, NEW s \in Slots, buildPollVote(s)
    PROVE  RequestsInv'
<1>1. "secret" \in QuietSteps /\ At(s, "secret") /\ UNCHANGED <<world, data>>
  BY DEF QuietSteps, Steps, buildPollVote
<1>2. /\ Noted(req[s], req[s]) /\ Made(req[s])
      /\ "secret" \in {"media", "reupload", "form", "source"} => req[s].op \in Sends
  BY <1>1, Reads
<1>3. Answer(s, 422) => RequestsInv'
  BY <1>1, QuietAnswer
<1>4. Answer(s, 500) => RequestsInv'
  BY <1>1, QuietAnswer
<1>5. Proceed(s, req[s]) => RequestsInv'
  BY <1>1, <1>2, QuietStep
<1> QED
  BY <1>3, <1>4, <1>5 DEF buildPollVote

LEMMA editWindowKeeps ==
    ASSUME RequestsInv, NEW s \in Slots, editWindow(s)
    PROVE  RequestsInv'
<1>1. "window" \in QuietSteps /\ At(s, "window") /\ UNCHANGED <<world, data>>
  BY DEF QuietSteps, Steps, editWindow
<1>2. /\ Noted(req[s], req[s]) /\ Made(req[s])
      /\ "window" \in {"media", "reupload", "form", "source"} => req[s].op \in Sends
  BY <1>1, Reads
<1>3. Answer(s, 404) => RequestsInv'
  BY <1>1, QuietAnswer
<1>4. Answer(s, 409) => RequestsInv'
  BY <1>1, QuietAnswer
<1>5. Proceed(s, req[s]) => RequestsInv'
  BY <1>1, <1>2, QuietStep
<1> QED
  BY <1>3, <1>4, <1>5 DEF editWindow

-----------------------------------------------------------------------------
(* The steps that change WhatsApp or the archive.                            *)

LEMMA OneMessageChanges ==
    ASSUME WaInv, ShownInv, NEW id \in Ids, NEW m, wa' = [wa EXCEPT ![id] = m], shown' = shown,
           m # Nothing, m.gone \in BOOLEAN, m.chat \in Chats,
           m = [chat |-> m.chat, body |-> m.body, gone |-> m.gone]
    PROVE  /\ WaInv' /\ ShownInv' /\ wa'[id] = m /\ \A z \in Ids \ {id} : wa'[z] = wa[z]
           /\ \A z \in Ids : wa[z] # Nothing => wa'[z] # Nothing
<1>1. wa' = [z \in Ids |-> wa'[z]] /\ wa'[id] = m /\ \A z \in Ids \ {id} : wa'[z] = wa[z]
  BY DEF WaInv
<1>2. \A z \in Ids : wa'[z] = m \/ (wa'[z] = wa[z] /\ z # id)
  BY <1>1
<1> QED
  BY <1>1, <1>2 DEF WaInv, ShownInv

LEMMA RowsStay ==
    ASSUME RowInv, row' = row, \A z \in Ids : wa[z] # Nothing => wa'[z] # Nothing
    PROVE  RowInv'
  BY DEF RowInv

\* A message that is there may be edited or revoked.
LEMMA MessageEdited ==
    ASSUME NEW m, m = [chat |-> m.chat, body |-> m.body, gone |-> m.gone], m.gone \in BOOLEAN, NEW b
    PROVE  [m EXCEPT !.body = b] = [chat |-> m.chat, body |-> b, gone |-> m.gone]
<1>1. PICK c, d : m.chat = c /\ m.body = d
  OBVIOUS
<1>2. PICK g \in BOOLEAN : m.gone = g
  OBVIOUS
<1>3. m = [chat |-> c, body |-> d, gone |-> g]
  BY <1>1, <1>2
<1> QED
  BY <1>1, <1>2, <1>3

LEMMA MessageRevoked ==
    ASSUME NEW m, m = [chat |-> m.chat, body |-> m.body, gone |-> m.gone], m.gone \in BOOLEAN
    PROVE  LET q == [m EXCEPT !.gone = TRUE] IN
           q = [chat |-> q.chat, body |-> q.body, gone |-> q.gone] /\ q.chat = m.chat /\ q.body = m.body /\ q.gone
<1>1. PICK V : V = {m.chat, m.body}
  OBVIOUS
<1>2. m \in [chat : V, body : V, gone : BOOLEAN]
  BY <1>1
<1>3. PICK q : q = [m EXCEPT !.gone = TRUE]
  OBVIOUS
<1>4. q \in [chat : V, body : V, gone : BOOLEAN] /\ q.chat = m.chat /\ q.body = m.body /\ q.gone
  BY <1>2, <1>3
<1>5. q = [chat |-> q.chat, body |-> q.body, gone |-> q.gone]
  BY <1>4
<1> QED
  BY <1>3, <1>4, <1>5, Zenon

\* What a call does at WhatsApp, and what it leaves of the agreement.
LEMMA CallTakesEffect ==
    ASSUME RequestsInv, NEW r, Made(r), Accepted(r), r.todo # <<>>, Head(r.todo) = "call",
           wa' = Effect(r), row' = row, shown' = shown
    PROVE  /\ RowInv' /\ WaInv' /\ ShownInv'
           /\ \A id \in Ids : wa[id] # Nothing => wa'[id] # Nothing
           /\ \A id \in Ids \ {r.id} : wa'[id] = wa[id]
           /\ r.id \in Ids => wa'[r.id] # Nothing
           /\ r.id \in Ids /\ Before(r) =>
                /\ r.op \in Sends =>
                     /\ row'[r.id] = Nothing /\ shown'[r.id] = Nothing
                     /\ wa'[r.id] = [chat |-> r.chat, body |-> r.body, gone |-> FALSE]
                /\ r.op = "delete" =>
                     /\ wa'[r.id] # Nothing /\ wa'[r.id].gone
                     /\ row'[r.id] # Nothing => row'[r.id].chat = r.chat
                /\ r.op = "edit" =>
                     /\ row'[r.id] # Nothing <=> ~wa'[r.id].gone
                     /\ row'[r.id] # Nothing => row'[r.id].chat = wa'[r.id].chat /\ wa'[r.id].body = r.body
<1>1. RowInv /\ WaInv /\ ShownInv
  BY DEF RequestsInv
<1>2. r.op \in Sends \cup {"typing", "delete", "edit"} /\ (r.op = "delete" => r.id # old)
  BY StepsAhead DEF Ahead, Made, Ops
<1>3. Nothing \notin Ids
  BY RequestsAssumption
<1>4. CASE r.op = "typing"
  <2>1. wa' = wa /\ r.id \notin Ids
    BY <1>3, <1>4 DEF Effect, Made, Target, Sends
  <2> QED
    BY <1>1, <1>4, <2>1 DEF RowInv, WaInv, ShownInv, Sends
<1>5. CASE r.op \in Sends
  <2>1. r.id \in Ids /\ r.chat \in Chats
    BY <1>5 DEF Made, Target, Sends
  <2>2. PICK m : m = [chat |-> r.chat, body |-> r.body, gone |-> FALSE]
    OBVIOUS
  <2>3. m # Nothing /\ m.chat = r.chat /\ m.body = r.body /\ m.gone = FALSE
    BY <2>2, MessageIsThere
  <2>4. wa' = [wa EXCEPT ![r.id] = m]
    BY <1>5, <2>2 DEF Effect, Sends
  <2>5. /\ WaInv' /\ ShownInv' /\ wa'[r.id] = m /\ \A z \in Ids \ {r.id} : wa'[z] = wa[z]
        /\ \A z \in Ids : wa[z] # Nothing => wa'[z] # Nothing
    <3>1. WaInv /\ ShownInv /\ shown' = shown /\ m # Nothing
      BY <1>1, <2>1, <2>2, <2>3, <2>4
    <3>2. m.gone \in BOOLEAN /\ m.chat \in Chats /\ m = [chat |-> m.chat, body |-> m.body, gone |-> m.gone]
      BY <1>1, <2>1, <2>2, <2>3, <2>4
    <3> QED
      BY <2>1, <2>4, <3>1, <3>2, OneMessageChanges
  <2>6. RowInv'
    BY <1>1, <2>5, RowsStay
  <2>7. Before(r) => row[r.id] = Nothing /\ shown[r.id] = Nothing
    BY <1>1, <1>5, <2>1 DEF Before, Agree, Matches, ShownInv
  <2> QED
    BY <1>5, <2>1, <2>2, <2>3, <2>5, <2>6, <2>7 DEF Sends
<1>6. CASE r.op = "delete"
  <2>1. r.id \in Ids /\ wa[r.id] # Nothing
    BY <1>2, <1>6 DEF Made, Target, Accepted, Sends
  <2>2. PICK m : m = [wa[r.id] EXCEPT !.gone = TRUE]
    OBVIOUS
  <2>3. PICK old_m : old_m = wa[r.id]
    OBVIOUS
  <2>4. old_m.gone \in BOOLEAN /\ old_m.chat \in Chats
        /\ old_m = [chat |-> old_m.chat, body |-> old_m.body, gone |-> old_m.gone]
    BY <1>1, <2>1, <2>3 DEF WaInv
  <2>5. m = [chat |-> m.chat, body |-> m.body, gone |-> m.gone] /\ m.chat = old_m.chat /\ m.gone
    BY <2>2, <2>3, <2>4, MessageRevoked, Zenon
  <2>6. m # Nothing /\ m.gone \in BOOLEAN
    <3>1. m.gone \in BOOLEAN
      BY <2>2, <2>3, <2>4
    <3> QED
      BY <2>5, <3>1, MessageIsThere
  <2>7. wa' = [wa EXCEPT ![r.id] = m]
    BY <1>6, <2>2 DEF Effect
  <2>8. /\ WaInv' /\ ShownInv' /\ wa'[r.id] = m /\ \A z \in Ids \ {r.id} : wa'[z] = wa[z]
        /\ \A z \in Ids : wa[z] # Nothing => wa'[z] # Nothing
    <3>1. WaInv /\ ShownInv /\ shown' = shown /\ m # Nothing
      BY <1>1, <2>1, <2>4, <2>5, <2>6, <2>7
    <3>2. m.gone \in BOOLEAN /\ m.chat \in Chats /\ m = [chat |-> m.chat, body |-> m.body, gone |-> m.gone]
      BY <1>1, <2>1, <2>4, <2>5, <2>6, <2>7
    <3> QED
      BY <2>1, <2>7, <3>1, <3>2, OneMessageChanges
  <2>9. RowInv'
    BY <1>1, <2>8, RowsStay
  <2>10. Before(r) => (row[r.id] # Nothing => row[r.id].chat = r.chat)
    BY <1>6, <2>1 DEF Before, Agree, Matches
  <2> QED
    BY <1>6, <2>1, <2>5, <2>6, <2>8, <2>9, <2>10 DEF Sends
<1>7. CASE r.op = "edit"
  <2>1. r.id \in Ids /\ wa[r.id] # Nothing
    BY <1>7, RequestsAssumption DEF Made, Target, Accepted, Sends
  <2>2. PICK m : m = IF wa[r.id].gone THEN wa[r.id] ELSE [wa[r.id] EXCEPT !.body = r.body]
    OBVIOUS
  <2>3. PICK old_m : old_m = wa[r.id]
    OBVIOUS
  <2>4. old_m.gone \in BOOLEAN /\ old_m.chat \in Chats
        /\ old_m = [chat |-> old_m.chat, body |-> old_m.body, gone |-> old_m.gone]
    BY <1>1, <2>1, <2>3 DEF WaInv
  <2>5. PICK b : m = [chat |-> old_m.chat, body |-> b, gone |-> old_m.gone]
                 /\ (~old_m.gone => b = r.body)
    <3>1. CASE old_m.gone
      BY <2>2, <2>3, <2>4, <3>1
    <3>2. CASE ~old_m.gone
      BY <2>2, <2>3, <2>4, <3>2, MessageEdited
    <3> QED
      BY <3>1, <3>2
  <2>6. m # Nothing /\ m.chat = old_m.chat /\ m.body = b /\ m.gone = old_m.gone
    BY <2>5, MessageIsThere
  <2>7. wa' = [wa EXCEPT ![r.id] = m]
    <3>1. CASE wa[r.id].gone
      BY <1>1, <1>7, <2>1, <2>2, <3>1 DEF Effect, WaInv
    <3>2. CASE ~wa[r.id].gone
      BY <1>7, <2>2, <3>2 DEF Effect
    <3> QED
      BY <3>1, <3>2
  <2>8. /\ WaInv' /\ ShownInv' /\ wa'[r.id] = m /\ \A z \in Ids \ {r.id} : wa'[z] = wa[z]
        /\ \A z \in Ids : wa[z] # Nothing => wa'[z] # Nothing
    <3>1. WaInv /\ ShownInv /\ shown' = shown /\ m # Nothing
      BY <1>1, <2>1, <2>4, <2>5, <2>6, <2>7
    <3>2. m.gone \in BOOLEAN /\ m.chat \in Chats /\ m = [chat |-> m.chat, body |-> m.body, gone |-> m.gone]
      BY <1>1, <2>1, <2>4, <2>5, <2>6, <2>7
    <3> QED
      BY <2>1, <2>7, <3>1, <3>2, OneMessageChanges
  <2>9. RowInv'
    BY <1>1, <2>8, RowsStay
  <2>10. Before(r) => (row[r.id] # Nothing <=> ~old_m.gone) /\ (row[r.id] # Nothing => row[r.id].chat = old_m.chat)
    BY <2>1, <2>3 DEF Before, Agree, Matches
  <2>11. Before(r) => /\ row'[r.id] # Nothing <=> ~wa'[r.id].gone
                      /\ row'[r.id] # Nothing => row'[r.id].chat = wa'[r.id].chat /\ wa'[r.id].body = r.body
    BY <2>5, <2>6, <2>8, <2>10
  <2> QED
    BY <1>7, <2>1, <2>6, <2>8, <2>9, <2>11 DEF Sends
<1> QED
  BY <1>2, <1>4, <1>5, <1>6, <1>7

LEMMA Told ==
    ASSUME NEW r, Made(r), Gated(r), r.todo # <<>>, Head(r.todo) = "call"
    PROVE  LET p == [r EXCEPT !.told = TRUE] IN
           /\ Made(p) /\ Gated(p) /\ Same(r, p) /\ p.todo = r.todo /\ p.body = r.body
<1>1. PICK v : v = TRUE
  OBVIOUS
<1>2. PICK p : p = [r EXCEPT !.told = v]
  OBVIOUS
<1>3. /\ Shape(p) /\ p.op = r.op /\ p.todo = r.todo /\ p.chat = r.chat /\ p.id = r.id /\ p.body = r.body
      /\ p.seen = r.seen /\ p.status = r.status
  <2>1. Shape(r)
    BY MadeShape
  <2> QED
    BY <1>2, <2>1, SetTold, SMTT(40)
<1>4. r.seen
  <2>1. Len(r.todo) < GateAt(r)
    BY StepsAhead DEF Ahead
  <2>2. GateAt(r) \in Nat /\ Len(r.todo) \in Nat
    BY CallAtIsNat DEF GateAt, Made, Ops, Sends
  <2> QED
    BY <2>1, <2>2 DEF Gated
<1>5. Same(r, p)
  BY <1>3 DEF Same
<1>6. Made(p) /\ Gated(p)
  BY <1>3, <1>4, <1>5, FieldKeeps
<1>7. p = [r EXCEPT !.told = TRUE]
  BY <1>1, <1>2
<1> QED
  BY <1>3, <1>5, <1>6, <1>7

LEMMA CallStep ==
    ASSUME RequestsInv, NEW s \in Slots, At(s, "call")
    PROVE  LET r == req[s] IN
           /\ ~Over(s) /\ Made(r) /\ Gated(r) /\ Accepted(r) /\ r.todo # <<>> /\ Head(r.todo) = "call"
           /\ Early(r) /\ r.op # "event" /\ Len(r.todo) = CallAt(r)
           /\ r.id \in sure => r.id \in Ids /\ Before(r) /\ r.op \in Sends \cup {"delete", "edit"}
<1>1. /\ ~Over(s) /\ Made(req[s]) /\ Gated(req[s]) /\ req[s].todo # <<>> /\ Head(req[s].todo) = "call"
      /\ Accepted(req[s])
  BY Working DEF RequestsInv, At, AcceptedInv
<1>2. Len(req[s].todo) = CallAt(req[s]) /\ req[s].op # "event" /\ Early(req[s])
  BY <1>1, StepsAhead, CallAtIsNat DEF Ahead, Early
<1>3. req[s].id \in sure => req[s].id \in Ids /\ Before(req[s])
  BY <1>1, <1>2 DEF RequestsInv, Sure, Phase
<1>4. req[s].id \in Ids => req[s].op \in Sends \cup {"delete", "edit"}
  BY <1>1, <1>2, RequestsAssumption DEF Made, Target, Ops
<1> QED
  BY <1>1, <1>2, <1>3, <1>4

\* The call is carried out and answered.
LEMMA CallAnswered ==
    ASSUME RequestsInv, NEW s \in Slots, At(s, "call"), wa' = Effect(req[s]), sure' = sure,
           Proceed(s, [req[s] EXCEPT !.told = TRUE]), UNCHANGED <<world, row, shown>>
    PROVE  RequestsInv'
<1> DEFINE r == req[s]
<1>0. PICK one : one = r.id
  OBVIOUS
<1>1. /\ ~Over(s) /\ Made(r) /\ Gated(r) /\ Accepted(r) /\ r.todo # <<>> /\ Head(r.todo) = "call"
      /\ Early(r) /\ r.op # "event" /\ Len(r.todo) = CallAt(r)
      /\ r.id \in sure => r.id \in Ids /\ Before(r) /\ r.op \in Sends \cup {"delete", "edit"}
  BY CallStep
<1>2. allow' = allow /\ row' = row /\ shown' = shown
  BY DEF world
<1>3. PICK p : p = [r EXCEPT !.told = TRUE]
  OBVIOUS
<1>4. /\ Made(p) /\ Gated(p) /\ Same(r, p) /\ p.todo = r.todo /\ p.body = r.body
  BY <1>1, <1>3, Told
<1>5. PICK q : q = [p EXCEPT !.todo = Tail(@), !.status = IF Len(p.todo) = 1 THEN 200 ELSE 0]
  OBVIOUS
<1>6. Turn(s, q)
  BY <1>3, <1>5 DEF Turn, Proceed
<1>7. p.todo # <<>> /\ MayPass(p)
  BY <1>1, <1>4 DEF MayPass
<1>8. /\ Made(q) /\ Gated(q) /\ Same(p, q) /\ q.body = p.body
      /\ Len(p.todo) \in Nat /\ Len(q.todo) = Len(p.todo) - 1 /\ (q.status # 0 <=> Len(p.todo) = 1)
  BY <1>4, <1>5, <1>7, StepKeeps, Zenon
<1>9. Same(r, q) /\ CallAt(q) = CallAt(r) /\ q.body = r.body
  BY <1>4, <1>8, SamePlan DEF Same
<1>10. Len(q.todo) = CallAt(r) - 1 /\ CallAt(r) \in Nat /\ ~Early(q) /\ (q.status # 0 <=> CallAt(r) = 1)
  <2>1. CallAt(r) \in Nat /\ Len(p.todo) = CallAt(r)
    BY <1>1, <1>4, CallAtIsNat
  <2>2. Len(q.todo) = CallAt(r) - 1 /\ (q.status # 0 <=> CallAt(r) = 1)
    BY <1>8, <2>1
  <2> QED
    BY <1>9, <2>1, <2>2 DEF Early
<1> HIDE DEF r
<1>11. /\ RowInv' /\ WaInv' /\ ShownInv'
       /\ \A id \in Ids : wa[id] # Nothing => wa'[id] # Nothing
       /\ \A id \in Ids \ {r.id} : wa'[id] = wa[id]
       /\ r.id \in Ids => wa'[r.id] # Nothing
  BY <1>1, <1>2, CallTakesEffect DEF r
<1>12. Accepted(q)'
  BY <1>1, <1>9, <1>11 DEF Accepted, Same, Made, Target, Sends
<1>13. one \in sure' => (q.status # 0 => Agree(one)') /\ (q.status = 0 => Phase(q)')
  <2> SUFFICES ASSUME one \in sure PROVE (q.status # 0 => Agree(one)') /\ (q.status = 0 => Phase(q)')
    OBVIOUS
  <2>1. r.id \in Ids /\ Before(r) /\ r.op \in Sends \cup {"delete", "edit"} /\ q.id = r.id /\ q.op = r.op /\ q.chat = r.chat
    BY <1>0, <1>1, <1>9 DEF Same
  <2>2. q.status = 0
    BY <1>1, <1>10, <2>1, RequestsAssumption DEF CallAt, Sends
  <2>3. /\ r.op \in Sends =>
                     /\ row'[r.id] = Nothing /\ shown'[r.id] = Nothing
                     /\ wa'[r.id] = [chat |-> r.chat, body |-> r.body, gone |-> FALSE]
        /\ r.op = "delete" =>
                     /\ wa'[r.id] # Nothing /\ wa'[r.id].gone
                     /\ row'[r.id] # Nothing => row'[r.id].chat = r.chat
        /\ r.op = "edit" =>
                     /\ row'[r.id] # Nothing <=> ~wa'[r.id].gone
                     /\ row'[r.id] # Nothing => row'[r.id].chat = wa'[r.id].chat /\ wa'[r.id].body = r.body
    BY <1>1, <1>2, <2>1, CallTakesEffect DEF r
  <2>4. r.op = "edit" => Len(q.todo) = 3
    BY <1>10 DEF CallAt, Sends
  <2>5. After(q)'
    BY <1>9, <1>11, <2>1, <2>3, <2>4 DEF After, Matches, Sends
  <2> QED
    BY <1>10, <2>2, <2>5 DEF Phase, Early, CallAt
<1> QED
  BY <1>0, <1>1, <1>2, <1>6, <1>8, <1>9, <1>11, <1>12, <1>13, TurnKeeps DEF r

\* What the request has done, and no answer of it.
LEMMA NoAnswer ==
    ASSUME NEW r, Made(r), Gated(r), r.todo # <<>>, Head(r.todo) = "call",
           NEW status \in Nat \ {0}
    PROVE  LET q == [r EXCEPT !.told = TRUE, !.status = status, !.todo = <<>>] IN
           Made(q) /\ Gated(q) /\ Same(r, q) /\ q.status # 0
<1>1. PICK p : p = [r EXCEPT !.told = TRUE]
  OBVIOUS
<1>2. Made(p) /\ Gated(p) /\ Same(r, p)
  BY <1>1, Told
<1>3. PICK q : q = [p EXCEPT !.status = status, !.todo = <<>>]
  OBVIOUS
<1>4. Made(q) /\ Gated(q) /\ Same(p, q) /\ q.status # 0
  BY <1>2, <1>3, AnswerKeeps, Zenon
<1>5. Same(r, q)
  BY <1>2, <1>4 DEF Same
<1>6. q = [r EXCEPT !.told = TRUE, !.status = status, !.todo = <<>>]
  BY <1>1, <1>3
<1> QED
  BY <1>4, <1>5, <1>6, Zenon

\* The call is carried out, and nobody hears of it.
LEMMA CallUnanswered ==
    ASSUME RequestsInv, NEW s \in Slots, At(s, "call"), wa' = Effect(req[s]), sure' = sure \ {req[s].id},
           req' = [req EXCEPT ![s] = [req[s] EXCEPT !.told = TRUE, !.status = 500, !.todo = <<>>]],
           UNCHANGED <<world, row, shown>>
    PROVE  RequestsInv'
<1>r. PICK r : r = req[s]
  OBVIOUS
<1>0. PICK one : one = r.id
  OBVIOUS
<1>1. /\ ~Over(s) /\ Made(r) /\ Gated(r) /\ Accepted(r) /\ r.todo # <<>> /\ Head(r.todo) = "call"
  BY <1>r, CallStep
<1>2. allow' = allow /\ row' = row /\ shown' = shown
  BY DEF world
<1>s. PICK status \in Nat \ {0} : status = 500
  OBVIOUS
<1>3. PICK q : q = [r EXCEPT !.told = TRUE, !.status = status, !.todo = <<>>]
  OBVIOUS
<1>4. Made(q) /\ Gated(q) /\ Same(r, q) /\ q.status # 0
  BY <1>1, <1>3, NoAnswer, Zenon
<1>5. Turn(s, q)
  BY <1>r, <1>s, <1>3 DEF Turn
<1>6. /\ RowInv' /\ WaInv' /\ ShownInv'
      /\ \A id \in Ids : wa[id] # Nothing => wa'[id] # Nothing
      /\ \A id \in Ids \ {r.id} : wa'[id] = wa[id]
      /\ r.id \in Ids => wa'[r.id] # Nothing
  BY <1>r, <1>1, <1>2, CallTakesEffect
<1>7. Accepted(q)'
  BY <1>1, <1>4, <1>6 DEF Accepted, Same, Made, Target, Sends
<1>8. one \notin sure' /\ sure' \subseteq sure
  BY <1>r, <1>0
<1> QED
  BY <1>r, <1>0, <1>1, <1>2, <1>4, <1>5, <1>6, <1>7, <1>8, TurnKeeps

\* It is not carried out.
LEMMA CallFails ==
    ASSUME RequestsInv, NEW s \in Slots, At(s, "call"), NEW status \in Nat \ {0}, Answer(s, status),
           wa' = wa, sure' = sure, UNCHANGED <<world, row, shown>>
    PROVE  RequestsInv'
<1>1. /\ ~Over(s) /\ Made(req[s]) /\ Gated(req[s]) /\ Early(req[s])
  BY CallStep
<1>2. PICK q : q = [req[s] EXCEPT !.status = status, !.todo = <<>>]
  OBVIOUS
<1>3. Made(q) /\ Gated(q) /\ Same(req[s], q) /\ q.status # 0
  BY <1>1, <1>2, AnswerKeeps, Zenon
<1>4. Turn(s, q)
  BY <1>2 DEF Turn, Answer
<1>5. UNCHANGED <<world, data>>
  BY DEF data
<1> QED
  BY <1>1, <1>3, <1>4, <1>5, QuietTurn

LEMMA callKeeps ==
    ASSUME RequestsInv, NEW s \in Slots, call(s)
    PROVE  RequestsInv'
<1>1. At(s, "call") /\ UNCHANGED <<world, row, shown>>
  BY DEF call
<1>2. CASE wa' = Effect(req[s]) /\ sure' = sure /\ Proceed(s, [req[s] EXCEPT !.told = TRUE])
  BY <1>1, <1>2, CallAnswered
<1>3. CASE /\ wa' = Effect(req[s]) /\ sure' = sure \ {req[s].id}
           /\ req' = [req EXCEPT ![s] = [req[s] EXCEPT !.told = TRUE, !.status = 500, !.todo = <<>>]]
  BY <1>1, <1>3, CallUnanswered
<1>4. CASE wa' = wa /\ sure' = sure /\ Answer(s, IF req[s].op = "typing" THEN 200 ELSE 500)
  BY <1>1, <1>4, CallFails
<1> QED
  BY <1>2, <1>3, <1>4, Zenon DEF call

\* A step that does not only look, and goes on.
LEMMA DataStep ==
    ASSUME RequestsInv, NEW s \in Slots, NEW step \in {"store", "drop", "read", "write", "tell"}, At(s, step),
           Proceed(s, req[s])
    PROVE  LET r == req[s] IN
           \E q : /\ Turn(s, q) /\ Made(q) /\ Gated(q) /\ Same(r, q) /\ q.body = r.body
                  /\ Len(q.todo) = Len(r.todo) - 1 /\ (q.status # 0 <=> Len(r.todo) = 1)
<1>1. /\ Made(req[s]) /\ Gated(req[s]) /\ req[s].todo # <<>> /\ MayPass(req[s])
  BY Working DEF RequestsInv, At, MayPass
<1>2. PICK q : q = [req[s] EXCEPT !.todo = Tail(@), !.status = IF Len(req[s].todo) = 1 THEN 200 ELSE 0]
  OBVIOUS
<1>3. /\ Made(q) /\ Gated(q) /\ Same(req[s], q) /\ q.body = req[s].body
      /\ Len(q.todo) = Len(req[s].todo) - 1 /\ (q.status # 0 <=> Len(req[s].todo) = 1)
  BY <1>1, <1>2, StepKeeps, ZenonT(40)
<1>4. Turn(s, q)
  BY <1>2 DEF Turn, Proceed
<1> QED
  BY <1>3, <1>4

LEMMA DataAnswer ==
    ASSUME RequestsInv, NEW s \in Slots, ~Over(s), NEW status \in Nat \ {0}, Answer(s, status)
    PROVE  \E q : /\ Turn(s, q) /\ Made(q) /\ Gated(q) /\ Same(req[s], q) /\ q.status # 0
<1>1. /\ Made(req[s]) /\ Gated(req[s])
  BY Working DEF RequestsInv
<1>2. PICK q : q = [req[s] EXCEPT !.status = status, !.todo = <<>>]
  OBVIOUS
<1>3. /\ Made(q) /\ Gated(q) /\ Same(req[s], q) /\ q.status # 0
  BY <1>1, <1>2, AnswerKeeps, Zenon
<1>4. Turn(s, q)
  BY <1>2 DEF Turn, Answer
<1> QED
  BY <1>3, <1>4

LEMMA DataNext ==
    ASSUME RequestsInv, NEW s \in Slots, NEW step \in {"store", "drop", "read", "write", "tell"}, At(s, step),
           NEW r, r = req[s]
    PROVE  /\ ~Over(s) /\ Made(r) /\ Gated(r) /\ Accepted(r)
           /\ step = "store" => r.op \in Sends /\ Len(r.todo) = 1
           /\ step = "drop" => r.op = "delete" /\ Len(r.todo) = 1
           /\ step = "read" => r.op \in {"edit", "event"} /\ Len(r.todo) = 3
           /\ step = "write" => r.op \in {"edit", "event"} /\ Len(r.todo) = 2
           /\ step = "tell" => r.op \in {"edit", "event"} /\ Len(r.todo) = 1
           /\ r.op \in {"edit", "event"} => r.id \in Ids /\ wa[r.id] # Nothing
           /\ r.op \in Sends => r.id \in Ids /\ wa[r.id] # Nothing
           /\ r.id \in sure => r.id \in Ids /\ After(r)
<1>1. /\ ~Over(s) /\ Made(r) /\ Gated(r) /\ r.todo # <<>> /\ Head(r.todo) = step /\ Accepted(r)
  BY Working DEF RequestsInv, At, AcceptedInv
<1>2. /\ step = "store" => r.op \in Sends /\ Len(r.todo) = 1
      /\ step = "drop" => r.op = "delete" /\ Len(r.todo) = 1
      /\ step = "read" => r.op \in {"edit", "event"} /\ Len(r.todo) = 3
      /\ step = "write" => r.op \in {"edit", "event"} /\ Len(r.todo) = 2
      /\ step = "tell" => r.op \in {"edit", "event"} /\ Len(r.todo) = 1
  BY <1>1, StepsAhead DEF Ahead
<1>3. r.op \in {"edit", "event"} => r.id \in Ids /\ wa[r.id] # Nothing
  BY <1>1, RequestsAssumption DEF Made, Target, Accepted, Sends
<1>4. r.id \in Ids => ~Early(r)
  <2>1. \/ r.op \in Sends \cup {"delete"} /\ Len(r.todo) = 1
        \/ r.op \in {"edit", "event"} /\ Len(r.todo) \in 1 .. 3
    BY <1>2
  <2>2. CASE r.op \in Sends \cup {"delete"} /\ Len(r.todo) = 1
    BY <2>2, RequestsAssumption DEF Early, CallAt, Sends
  <2>3. CASE r.op \in {"edit", "event"} /\ Len(r.todo) \in 1 .. 3
    <3>1. CallAt(r) = 4
      BY <2>3 DEF CallAt, Sends
    <3>2. PICK n \in 1 .. 3 : n = Len(r.todo)
      BY <2>3
    <3>3. ~(n >= 4)
      OBVIOUS
    <3> QED
      BY <3>1, <3>2, <3>3 DEF Early
  <2> QED
    BY <2>1, <2>2, <2>3
<1>5. r.op \in Sends => r.id \in Ids /\ wa[r.id] # Nothing
  BY <1>1, <1>4 DEF Made, Target, Accepted, Sends
<1>6. r.id \in sure => r.id \in Ids /\ After(r)
  BY <1>1, <1>4 DEF RequestsInv, Sure, Phase
<1> QED
  BY <1>1, <1>2, <1>3, <1>5, <1>6

LEMMA RowSet ==
    ASSUME RowInv, NEW id \in Ids \cup {old}, NEW m, row' = [row EXCEPT ![id] = m], wa' = wa,
           id \in Ids /\ m # Nothing => wa[id] # Nothing /\ m = [chat |-> m.chat, body |-> m.body]
    PROVE  RowInv' /\ row'[id] = m /\ \A z \in (Ids \cup {old}) \ {id} : row'[z] = row[z]
<1>1. row' = [z \in Ids \cup {old} |-> row'[z]] /\ row'[id] = m /\ \A z \in (Ids \cup {old}) \ {id} : row'[z] = row[z]
  BY DEF RowInv
<1> QED
  BY <1>1 DEF RowInv

LEMMA upsertMessageKeeps ==
    ASSUME RequestsInv, NEW s \in Slots, upsertMessage(s)
    PROVE  RequestsInv'
<1>1. PICK r : r = req[s]
  OBVIOUS
<1>2. At(s, "store") /\ Proceed(s, req[s]) /\ allow' = allow /\ wa' = wa /\ shown' = shown
  BY DEF upsertMessage, world
<1>3. /\ ~Over(s) /\ Accepted(r) /\ r.op \in Sends /\ Len(r.todo) = 1 /\ r.id \in Ids /\ wa[r.id] # Nothing
      /\ r.id \in sure => After(r)
  BY <1>1, <1>2, DataNext
<1>4. PICK q : Turn(s, q) /\ Made(q) /\ Gated(q) /\ Same(r, q) /\ q.status # 0
  BY <1>1, <1>2, <1>3, DataStep
<1>5. RowInv /\ WaInv /\ ShownInv
  BY DEF RequestsInv
<1>6. WaInv' /\ ShownInv' /\ Accepted(q)'
  BY <1>2, <1>3, <1>4, <1>5 DEF WaInv, ShownInv, Accepted, Same, Sends
<1>7. PICK one : one = r.id
  OBVIOUS
<1>8. CASE row' = [row EXCEPT ![r.id] = [chat |-> r.chat, body |-> r.body]] /\ sure' = sure
  <2>1. PICK m : m = [chat |-> r.chat, body |-> r.body]
    OBVIOUS
  <2>2. m # Nothing /\ m.chat = r.chat /\ m.body = r.body
    BY <2>1, RowIsThere
  <2>3. RowInv' /\ row'[r.id] = m /\ \A z \in (Ids \cup {old}) \ {r.id} : row'[z] = row[z]
    <3>1. row' = [row EXCEPT ![r.id] = m] /\ m = [chat |-> m.chat, body |-> m.body]
      BY <1>8, <2>1, <2>2
    <3> QED
      BY <1>2, <1>3, <1>5, <2>2, <3>1, RowSet
  <2>4. one \in sure' => Agree(one)'
    <3> SUFFICES ASSUME one \in sure PROVE Agree(one)'
      BY <1>8
    <3>1. PICK w : w = [chat |-> r.chat, body |-> r.body, gone |-> FALSE]
      OBVIOUS
    <3>2. w # Nothing /\ w.chat = r.chat /\ w.body = r.body /\ w.gone = FALSE
      BY <3>1, MessageIsThere
    <3>3. wa'[one] = w /\ shown'[one] = Nothing /\ row'[one] = m
      BY <1>2, <1>3, <1>7, <2>3, <3>1 DEF After
    <3> QED
      BY <2>2, <3>2, <3>3 DEF Agree, Matches
  <2> QED
    BY <1>1, <1>2, <1>3, <1>4, <1>6, <1>7, <1>8, <2>3, <2>4, TurnKeeps
<1>9. CASE row' = row /\ sure' = sure \ {r.id}
  <2>1. RowInv'
    BY <1>2, <1>5, <1>9, RowsStay
  <2> QED
    BY <1>1, <1>2, <1>3, <1>4, <1>6, <1>7, <1>9, <2>1, TurnKeeps
<1> QED
  BY <1>1, <1>8, <1>9 DEF upsertMessage

LEMMA deleteMessageFromDBKeeps ==
    ASSUME RequestsInv, NEW s \in Slots, deleteMessageFromDB(s)
    PROVE  RequestsInv'
<1>1. PICK r : r = req[s]
  OBVIOUS
<1>2. At(s, "drop") /\ allow' = allow /\ wa' = wa /\ shown' = shown
  BY DEF deleteMessageFromDB, world
<1>3. /\ ~Over(s) /\ Accepted(r) /\ Made(r) /\ r.op = "delete" /\ Len(r.todo) = 1
      /\ r.id \in sure => r.id \in Ids /\ After(r)
  BY <1>1, <1>2, DataNext
<1>4. r.id \in Ids \cup {old}
  BY <1>3 DEF Made, Target, Sends
<1>5. RowInv /\ WaInv /\ ShownInv
  BY DEF RequestsInv
<1>6. PICK one : one = r.id
  OBVIOUS
<1>7. CASE /\ row' = IF row[r.id] # Nothing /\ row[r.id].chat = r.chat THEN [row EXCEPT ![r.id] = Nothing] ELSE row
           /\ Proceed(s, req[s]) /\ sure' = sure
  <2>1. PICK q : Turn(s, q) /\ Made(q) /\ Gated(q) /\ Same(r, q) /\ q.status # 0
    BY <1>1, <1>2, <1>3, <1>7, DataStep
  <2>2. WaInv' /\ ShownInv' /\ Accepted(q)'
    BY <1>2, <1>3, <1>5, <2>1 DEF WaInv, ShownInv, Accepted, Same, Sends
  <2>3. RowInv' /\ \A z \in (Ids \cup {old}) \ {r.id} : row'[z] = row[z]
    <3>1. CASE row' = row
      BY <1>2, <1>5, <3>1, RowsStay
    <3>2. CASE row' = [row EXCEPT ![r.id] = Nothing]
      BY <1>2, <1>4, <1>5, <3>2, RowSet
    <3> QED
      BY <1>7, <3>1, <3>2
  <2>4. one \in sure' => Agree(one)'
    <3> SUFFICES ASSUME one \in sure PROVE Agree(one)'
      BY <1>7
    <3>1. /\ one \in Ids /\ wa[one] # Nothing /\ wa[one].gone
          /\ row[one] # Nothing => row[one].chat = r.chat
      BY <1>3, <1>6 DEF After, Sends
    <3>2. row'[one] = Nothing
      BY <1>4, <1>5, <1>6, <1>7, <3>1 DEF RowInv
    <3> QED
      BY <1>2, <3>1, <3>2 DEF Agree, Matches
  <2> QED
    BY <1>1, <1>2, <1>3, <1>6, <1>7, <2>1, <2>2, <2>3, <2>4, TurnKeeps
<1>8. CASE row' = row /\ Answer(s, 500) /\ sure' = sure \ {r.id}
  <2>1. PICK q : Turn(s, q) /\ Made(q) /\ Gated(q) /\ Same(r, q) /\ q.status # 0
    BY <1>1, <1>3, <1>8, DataAnswer
  <2>2. WaInv' /\ ShownInv' /\ Accepted(q)'
    BY <1>2, <1>3, <1>5, <2>1 DEF WaInv, ShownInv, Accepted, Same, Sends
  <2>3. RowInv'
    BY <1>2, <1>5, <1>8, RowsStay
  <2> QED
    BY <1>1, <1>2, <1>3, <1>6, <1>8, <2>1, <2>2, <2>3, TurnKeeps
<1> QED
  BY <1>1, <1>7, <1>8 DEF deleteMessageFromDB

LEMMA editMessageInDBKeeps ==
    ASSUME RequestsInv, NEW s \in Slots, editMessageInDB(s)
    PROVE  RequestsInv'
<1>1. PICK r : r = req[s]
  OBVIOUS
<1>2. At(s, "read") /\ allow' = allow /\ row' = row /\ wa' = wa /\ shown' = shown /\ sure' = sure
  BY DEF editMessageInDB, world, data
<1>3. /\ ~Over(s) /\ Accepted(r) /\ r.op \in {"edit", "event"} /\ Len(r.todo) = 3 /\ r.id \in Ids /\ wa[r.id] # Nothing
      /\ r.id \in sure => After(r)
  BY <1>1, <1>2, DataNext
<1>4. RowInv' /\ WaInv' /\ ShownInv'
  BY <1>2 DEF RequestsInv, RowInv, WaInv, ShownInv
<1>5. PICK one : one = r.id
  OBVIOUS
<1>6. one \in sure => /\ Matches(one)' /\ (row[one] # Nothing => wa'[one].body = r.body)
  BY <1>2, <1>3, <1>5 DEF After, Matches
<1>7. CASE row[r.id] = Nothing /\ Answer(s, 200)
  <2>1. PICK q : Turn(s, q) /\ Made(q) /\ Gated(q) /\ Same(r, q) /\ q.status # 0
    BY <1>1, <1>3, <1>7, DataAnswer
  <2>2. Accepted(q)'
    BY <1>2, <1>3, <2>1 DEF Accepted, Same, Sends
  <2>3. one \in sure' => Agree(one)'
    BY <1>2, <1>5, <1>6, <1>7 DEF Agree
  <2> QED
    BY <1>1, <1>2, <1>3, <1>4, <1>5, <2>1, <2>2, <2>3, TurnKeeps
<1>8. CASE Proceed(s, req[s])
  <2>1. PICK q : /\ Turn(s, q) /\ Made(q) /\ Gated(q) /\ Same(r, q) /\ q.body = r.body
                 /\ Len(q.todo) = Len(r.todo) - 1 /\ (q.status # 0 <=> Len(r.todo) = 1)
    BY <1>1, <1>2, <1>8, DataStep
  <2>2. Len(q.todo) = 2 /\ q.status = 0 /\ ~Early(q)
    BY <1>3, <2>1 DEF Early, CallAt, Same, Sends
  <2>3. Accepted(q)'
    BY <1>2, <1>3, <2>1 DEF Accepted, Same, Sends
  <2>4. one \in sure' => After(q)'
    BY <1>2, <1>3, <1>5, <1>6, <2>1, <2>2 DEF After, Same, Sends, Matches
  <2>5. one \in sure' => Phase(q)'
    BY <2>2, <2>4 DEF Phase, Early, CallAt
  <2> QED
    BY <1>1, <1>2, <1>3, <1>4, <1>5, <2>1, <2>2, <2>3, <2>5, TurnKeeps
<1> QED
  BY <1>1, <1>7, <1>8 DEF editMessageInDB

LEMMA RowEdited ==
    ASSUME NEW m, m = [chat |-> m.chat, body |-> m.body], NEW b
    PROVE  [m EXCEPT !.body = b] = [chat |-> m.chat, body |-> b]
<1>1. PICK c, d : m.chat = c /\ m.body = d
  OBVIOUS
<1> QED
  BY <1>1

LEMMA updateRowKeeps ==
    ASSUME RequestsInv, NEW s \in Slots, updateRow(s)
    PROVE  RequestsInv'
<1>1. PICK r : r = req[s]
  OBVIOUS
<1>2. At(s, "write") /\ Proceed(s, req[s]) /\ allow' = allow /\ wa' = wa /\ shown' = shown /\ sure' = sure
  BY DEF updateRow, world
<1>3. /\ ~Over(s) /\ Accepted(r) /\ r.op \in {"edit", "event"} /\ Len(r.todo) = 2 /\ r.id \in Ids /\ wa[r.id] # Nothing
      /\ r.id \in sure => After(r)
  BY <1>1, <1>2, DataNext
<1>4. RowInv /\ WaInv /\ ShownInv
  BY DEF RequestsInv
<1>5. PICK one : one = r.id
  OBVIOUS
<1>6. PICK q : /\ Turn(s, q) /\ Made(q) /\ Gated(q) /\ Same(r, q) /\ q.body = r.body
               /\ Len(q.todo) = Len(r.todo) - 1 /\ (q.status # 0 <=> Len(r.todo) = 1)
  BY <1>1, <1>2, DataStep
<1>7. Len(q.todo) = 1 /\ q.status = 0 /\ ~Early(q)
  BY <1>3, <1>6 DEF Early, CallAt, Same, Sends
<1>8. WaInv' /\ ShownInv' /\ Accepted(q)'
  BY <1>2, <1>3, <1>4, <1>6 DEF WaInv, ShownInv, Accepted, Same, Sends
<1>9. one \in sure => Matches(one) /\ (row[one] # Nothing => wa[one].body = r.body)
  BY <1>3, <1>5 DEF After, Sends
<1>10. /\ RowInv' /\ \A z \in (Ids \cup {old}) \ {r.id} : row'[z] = row[z]
       /\ row'[one] # Nothing <=> row[one] # Nothing
       /\ row[one] # Nothing => row'[one].chat = row[one].chat /\ row'[one].body = r.body
  <2>1. CASE row[r.id] = Nothing
    <3>1. row' = row
      BY <1>1, <2>1 DEF updateRow
    <3> QED
      BY <1>2, <1>4, <1>5, <2>1, <3>1, RowsStay
  <2>2. CASE row[r.id] # Nothing
    <3>1. row[r.id] = [chat |-> row[r.id].chat, body |-> row[r.id].body]
      BY <1>3, <1>4, <2>2 DEF RowInv
    <3>2. PICK m0 : m0 = row[r.id]
      OBVIOUS
    <3>3. PICK b : b = r.body
      OBVIOUS
    <3>4. PICK m : m = [m0 EXCEPT !.body = b]
      OBVIOUS
    <3>5. m = [chat |-> m0.chat, body |-> b]
      BY <3>1, <3>2, <3>4, RowEdited
    <3>6. m # Nothing /\ m.chat = m0.chat /\ m.body = b
      BY <3>5, RowIsThere
    <3>7. row' = [row EXCEPT ![r.id] = m]
      BY <1>1, <2>2, <3>2, <3>3, <3>4 DEF updateRow
    <3>8. m = [chat |-> m.chat, body |-> m.body]
      BY <3>5, <3>6
    <3>9. RowInv' /\ row'[r.id] = m /\ \A z \in (Ids \cup {old}) \ {r.id} : row'[z] = row[z]
      BY <1>2, <1>3, <1>4, <3>6, <3>7, <3>8, RowSet
    <3> QED
      BY <1>5, <2>2, <3>2, <3>3, <3>6, <3>9
  <2> QED
    BY <2>1, <2>2
<1>11. one \in sure' => After(q)'
  <2> SUFFICES ASSUME one \in sure PROVE After(q)'
    BY <1>2
  <2>1. Matches(one)' /\ (row'[one] # Nothing => wa'[one].body = r.body /\ row'[one].body = r.body)
    BY <1>2, <1>9, <1>10 DEF Matches
  <2>2. q.id = one /\ q.op = r.op
    BY <1>5, <1>6 DEF Same
  <2> QED
    BY <1>3, <1>6, <2>1, <2>2 DEF After, Sends, Matches
<1>12. one \in sure' => Phase(q)'
  BY <1>7, <1>11 DEF Phase, Early, CallAt
<1> QED
  BY <1>1, <1>2, <1>3, <1>5, <1>6, <1>7, <1>8, <1>10, <1>12, TurnKeeps

LEMMA tellEditedKeeps ==
    ASSUME RequestsInv, NEW s \in Slots, tellEdited(s)
    PROVE  RequestsInv'
<1>1. PICK r : r = req[s]
  OBVIOUS
<1>2. /\ At(s, "tell") /\ Proceed(s, req[s]) /\ allow' = allow /\ row' = row /\ wa' = wa /\ sure' = sure
      /\ shown' = [shown EXCEPT ![r.id] = r.body.text]
  BY <1>1 DEF tellEdited, world
<1>3. /\ ~Over(s) /\ Accepted(r) /\ Made(r) /\ r.op \in {"edit", "event"} /\ Len(r.todo) = 1 /\ r.id \in Ids
      /\ wa[r.id] # Nothing
      /\ r.id \in sure => After(r)
  BY <1>1, <1>2, DataNext
<1>4. RowInv /\ WaInv /\ ShownInv
  BY DEF RequestsInv
<1>5. PICK one : one = r.id
  OBVIOUS
<1>6. PICK q : Turn(s, q) /\ Made(q) /\ Gated(q) /\ Same(r, q) /\ q.status # 0
  BY <1>1, <1>2, <1>3, DataStep
<1>7. shown' = [z \in Ids |-> shown'[z]] /\ shown'[r.id] = r.body.text /\ \A z \in Ids \ {r.id} : shown'[z] = shown[z]
  BY <1>2, <1>3, <1>4 DEF ShownInv
<1>8. ShownInv'
  BY <1>2, <1>3, <1>4, <1>7 DEF ShownInv
<1>9. RowInv' /\ WaInv' /\ Accepted(q)'
  BY <1>2, <1>3, <1>4, <1>6 DEF RowInv, WaInv, Accepted, Same, Sends
<1>10. r.body = Text(r.body.text)
  <2>1. \E txt \in Texts : r.body = Text(txt)
    BY <1>3 DEF Made, Target, Sends
  <2> QED
    BY <2>1 DEF Text
<1>11. one \in sure => Matches(one) /\ (row[one] # Nothing => wa[one].body = r.body /\ row[one].body = r.body)
  BY <1>3, <1>5 DEF After, Sends
<1>12. one \in sure' => Agree(one)'
  BY <1>2, <1>5, <1>7, <1>10, <1>11 DEF Agree, Matches
<1> QED
  BY <1>1, <1>2, <1>3, <1>5, <1>6, <1>7, <1>8, <1>9, <1>12, TurnKeeps

-----------------------------------------------------------------------------
(* New requests.                                                             *)

LEMMA BeginKeeps ==
    ASSUME RequestsInv, NEW s \in Slots, NEW r, Begin(s, r), Made(r), Gated(r), r.status = 0, allow' = allow,
           RowInv', WaInv', ShownInv', Accepted(r)',
           \A id \in Ids : wa[id] # Nothing => wa'[id] # Nothing,
           NEW one, one = r.id,
           \A id \in Ids \ {one} : row'[id] = row[id] /\ wa'[id] = wa[id] /\ shown'[id] = shown[id],
           one \in sure /\ ~Busy(one) => Phase(r)'
    PROVE  RequestsInv'
<1>1. ReqInv /\ AcceptedInv /\ sure \subseteq Ids /\ (\A id \in sure : Sure(id)) /\ allow \in [Chats -> BOOLEAN]
  BY DEF RequestsInv
<1>2. Over(s) /\ Turn(s, r) /\ sure' = IF Busy(one) THEN sure \ {one} ELSE sure
  BY DEF Begin, Turn
<1>3. ReqInv' /\ AcceptedInv'
  BY <1>1, <1>2, GateTurn, AcceptedTurn
<1>4. ASSUME NEW id \in sure' PROVE Sure(id)'
  <2>1. CASE id # one
    BY <1>1, <1>2, <1>4, <2>1, OthersStaySure
  <2>2. CASE id = one
    <3>1. ~Busy(one) /\ one \in sure
      BY <1>2, <1>4, <2>2
    <3>2. req'[s] = r /\ \A z \in Slots \ {s} : req'[z] = req[z]
      BY <1>1, <1>2, Turned
    <3>3. \A z \in Slots : ~Over(z)' /\ req'[z].id = one => z = s
      BY <3>1, <3>2 DEF Busy, Over
    <3>4. Phase(r)' => Phase(req[s])'
      BY <3>2 DEF Phase, Early, Before, After
    <3>5. Busy(one)'
      BY <3>2 DEF Busy, Over
    <3> QED
      BY <2>2, <3>1, <3>3, <3>4, <3>5 DEF Sure
  <2> QED
    BY <2>1, <2>2
<1> QED
  BY <1>1, <1>2, <1>3, <1>4 DEF RequestsInv

\* What each handler begins with.
LEMMA RequestMade ==
    ASSUME NEW r, NEW c \in Chats, New(r, c), r.op \in Ops, Target(r), r.todo = Plan(r),
           r.todo # <<>>, Len(r.todo) >= GateAt(r)
    PROVE  Made(r) /\ Gated(r) /\ r.chat = c /\ r.status = 0
<1>1. EndOf(r.todo, Plan(r))
  BY PlansAreSteps, WholePlan
<1> QED
  BY <1>1 DEF Made, Gated, New

LEMMA NewFrom ==
    ASSUME NEW r, NEW c, New(r, c), NEW v
    PROVE  LET q == [r EXCEPT !.from = v] IN
           New(q, c) /\ q.op = r.op /\ q.todo = r.todo /\ q.id = r.id
<1>1. PICK q : q = [r EXCEPT !.from = v]
  OBVIOUS
<1>2. Shape(r)
  BY DEF New
<1>3. /\ Shape(q) /\ q.op = r.op /\ q.todo = r.todo /\ q.chat = r.chat /\ q.id = r.id
      /\ q.seen = r.seen /\ q.told = r.told /\ q.status = r.status
  BY <1>1, <1>2, SetFrom
<1>4. New(q, c)
  BY <1>3 DEF New
<1> QED
  BY <1>1, <1>3, <1>4, Zenon

\* A request to send something, or a report of typing.
LEMMA Asked ==
    ASSUME RequestsInv, NEW c \in Chats, NEW id \in Ids, NEW r \in Asks(c, id)
    PROVE  /\ Made(r) /\ Gated(r) /\ r.status = 0 /\ Early(r)
           /\ (r.op \in Sends /\ r.id = id) \/ (r.op = "typing" /\ r.id = Nothing)
<1>2. ASSUME NEW p, NEW op, NEW todo, NEW body, p = Request(op, todo, c, id, body)
      PROVE  New(p, c) /\ p.op = op /\ p.todo = todo /\ p.id = id /\ p.body = body
  BY <1>2, RequestShape
<1>3. ASSUME NEW p, New(p, c), p.op \in Sends, p.id = id, p.todo = Plan(p), p.todo # <<>>, Len(p.todo) >= GateAt(p), Len(p.todo) >= 2
      PROVE  Made(p) /\ Gated(p) /\ p.status = 0 /\ Early(p) /\ p.op \in Sends /\ p.id = id
  <2>1. Target(p) /\ p.op \in Ops
    BY <1>3 DEF Target, Ops, Sends
  <2>2. Early(p)
    BY <1>3 DEF Early, CallAt, Sends
  <2> QED
    BY <1>3, <2>1, <2>2, RequestMade
<1>4. CASE \E txt \in Texts : r = Request("send", handleSendMessage, c, id, Text(txt))
  <2>1. PICK body : r = Request("send", handleSendMessage, c, id, body)
    BY <1>4
  <2>2. New(r, c) /\ r.op = "send" /\ r.todo = handleSendMessage /\ r.id = id
    BY <1>2, <2>1
  <2>3. r.todo = Plan(r) /\ r.todo # <<>> /\ Len(r.todo) >= GateAt(r) /\ Len(r.todo) >= 2
    <3>1. r.todo = Plan(r) /\ r.todo # <<>> /\ Len(r.todo) = 5 /\ GateAt(r) = 4
      BY <2>2 DEF Plan, GateAt, handleSendMessage
    <3> QED
      BY <3>1
  <2> QED
    BY <1>3, <2>2, <2>3 DEF Sends
<1>5. CASE \E f \in Files : r = Request("file", handleSendFile, c, id, Media(f, "fresh"))
  <2>1. PICK body : r = Request("file", handleSendFile, c, id, body)
    BY <1>5
  <2>2. New(r, c) /\ r.op = "file" /\ r.todo = handleSendFile /\ r.id = id
    BY <1>2, <2>1
  <2>3. r.todo = Plan(r) /\ r.todo # <<>> /\ Len(r.todo) >= GateAt(r) /\ Len(r.todo) >= 2
    <3>1. r.todo = Plan(r) /\ r.todo # <<>> /\ Len(r.todo) = 7 /\ GateAt(r) = 6
      BY <2>2 DEF Plan, GateAt, handleSendFile
    <3> QED
      BY <3>1
  <2> QED
    BY <1>3, <2>2, <2>3 DEF Sends
<1>6. CASE r = Request("react", handleReact, c, id, Reaction(old))
  <2>1. PICK body : r = Request("react", handleReact, c, id, body)
    BY <1>6
  <2>2. New(r, c) /\ r.op = "react" /\ r.todo = handleReact /\ r.id = id
    BY <1>2, <2>1
  <2>3. r.todo = Plan(r) /\ r.todo # <<>> /\ Len(r.todo) >= GateAt(r) /\ Len(r.todo) >= 2
    <3>1. r.todo = Plan(r) /\ r.todo # <<>> /\ Len(r.todo) = 5 /\ GateAt(r) = 4
      BY <2>2 DEF Plan, GateAt, handleReact
    <3> QED
      BY <3>1
  <2> QED
    BY <1>3, <2>2, <2>3 DEF Sends
<1>7. CASE \E form \in Forms : r = Request("poll", handleSendPoll, c, id, Poll(form, 1))
  <2>1. PICK body : r = Request("poll", handleSendPoll, c, id, body)
    BY <1>7
  <2>2. New(r, c) /\ r.op = "poll" /\ r.todo = handleSendPoll /\ r.id = id
    BY <1>2, <2>1
  <2>3. r.todo = Plan(r) /\ r.todo # <<>> /\ Len(r.todo) >= GateAt(r) /\ Len(r.todo) >= 2
    <3>1. r.todo = Plan(r) /\ r.todo # <<>> /\ Len(r.todo) = 5 /\ GateAt(r) = 4
      BY <2>2 DEF Plan, GateAt, handleSendPoll
    <3> QED
      BY <3>1
  <2> QED
    BY <1>3, <2>2, <2>3 DEF Sends
<1>8. CASE \E b \in Ballots : r = Request("vote", handleVotePoll, c, id, Vote(old, b))
  <2>1. PICK body : r = Request("vote", handleVotePoll, c, id, body)
    BY <1>8
  <2>2. New(r, c) /\ r.op = "vote" /\ r.todo = handleVotePoll /\ r.id = id
    BY <1>2, <2>1
  <2>3. r.todo = Plan(r) /\ r.todo # <<>> /\ Len(r.todo) >= GateAt(r) /\ Len(r.todo) >= 2
    <3>1. r.todo = Plan(r) /\ r.todo # <<>> /\ Len(r.todo) = 7 /\ GateAt(r) = 6
      BY <2>2 DEF Plan, GateAt, handleVotePoll
    <3> QED
      BY <3>1
  <2> QED
    BY <1>3, <2>2, <2>3 DEF Sends
<1>9. CASE r = [Request("forward", handleForwardMessage, c, id, Nothing) EXCEPT !.from = old]
  <2>1. PICK p : p = Request("forward", handleForwardMessage, c, id, Nothing)
    OBVIOUS
  <2>2. New(p, c) /\ p.op = "forward" /\ p.todo = handleForwardMessage /\ p.id = id
    BY <1>2, <2>1
  <2>3. r = [p EXCEPT !.from = old]
    BY <1>9, <2>1
  <2>4. New(r, c) /\ r.op = "forward" /\ r.todo = handleForwardMessage /\ r.id = id
    BY <2>2, <2>3, NewFrom, Zenon
  <2>5. r.todo = Plan(r) /\ r.todo # <<>> /\ Len(r.todo) >= GateAt(r) /\ Len(r.todo) >= 2
    <3>1. r.todo = Plan(r) /\ r.todo # <<>> /\ Len(r.todo) = 8 /\ GateAt(r) = 7
      BY <2>4 DEF Plan, GateAt, handleForwardMessage
    <3> QED
      BY <3>1
  <2> QED
    BY <1>3, <2>4, <2>5 DEF Sends
<1>10. CASE r = Request("typing", handleTyping, c, Nothing, Nothing)
  <2>1. New(r, c) /\ r.op = "typing" /\ r.todo = handleTyping /\ r.id = Nothing
    BY <1>10, RequestShape
  <2>2. r.todo = Plan(r) /\ r.todo # <<>> /\ Len(r.todo) >= GateAt(r) /\ Len(r.todo) >= CallAt(r)
    <3>1. r.todo = Plan(r) /\ r.todo # <<>> /\ Len(r.todo) = 4 /\ GateAt(r) = 3 /\ CallAt(r) = 1
      BY <2>1 DEF Plan, GateAt, CallAt, handleTyping, Sends
    <3> QED
      BY <3>1
  <2>3. Target(r) /\ r.op \in Ops
    BY <2>1 DEF Target, Ops, Sends
  <2> QED
    BY <2>1, <2>2, <2>3, RequestMade DEF Early
<1> QED
  BY <1>4, <1>5, <1>6, <1>7, <1>8, <1>9, <1>10, Zenon DEF Asks

\* A request about a message that is there.
LEMMA AskedAbout ==
    ASSUME RequestsInv, NEW id \in Ids, wa[id] # Nothing, NEW r \in AsksAbout(id)
    PROVE  /\ Made(r) /\ Gated(r) /\ r.status = 0 /\ Early(r)
           /\ r.op \in {"edit", "delete"} /\ r.id = id /\ r.chat = wa[id].chat
<1>1. PICK c \in Chats : c = wa[id].chat
  BY DEF RequestsInv, WaInv
<1>3. CASE \E txt \in Texts : r = Request("edit", handleEditMessage, wa[id].chat, id, Text(txt))
  <2>1. PICK txt \in Texts : r = Request("edit", handleEditMessage, c, id, Text(txt))
    BY <1>1, <1>3
  <2>2. New(r, c) /\ r.op = "edit" /\ r.todo = handleEditMessage /\ r.id = id /\ r.body = Text(txt)
    BY <2>1, RequestShape
  <2>3. r.todo = Plan(r) /\ r.todo # <<>> /\ Len(r.todo) >= GateAt(r) /\ Len(r.todo) >= CallAt(r)
    <3>1. r.todo = Plan(r) /\ r.todo # <<>> /\ Len(r.todo) = 8 /\ GateAt(r) = 8 /\ CallAt(r) = 4
      BY <2>2 DEF Plan, GateAt, CallAt, handleEditMessage, Sends
    <3> QED
      BY <3>1
  <2>4. Target(r) /\ r.op \in Ops
    BY <2>2 DEF Target, Ops, Sends
  <2> QED
    BY <1>1, <2>2, <2>3, <2>4, RequestMade DEF Early
<1>4. CASE r = Request("delete", handleDeleteMessage(TRUE), wa[id].chat, id, Nothing)
  <2>1. PICK plan : plan = handleDeleteMessage(TRUE)
    OBVIOUS
  <2>2. New(r, c) /\ r.op = "delete" /\ r.todo = plan /\ r.id = id
    <3>1. r = Request("delete", plan, c, id, Nothing)
      BY <1>1, <1>4, <2>1, Zenon
    <3> QED
      BY <3>1, RequestShape
  <2>3. id # old
    BY RequestsAssumption
  <2>4. Plan(r) = plan /\ GateAt(r) = 5 /\ CallAt(r) = 2
    BY <2>1, <2>2, <2>3 DEF Plan, GateAt, CallAt, Sends
  <2>5. plan \in Seq(Steps) /\ Len(plan) = 5 /\ plan # <<>>
    <3>1. plan \in Seq(Steps) /\ Len(plan) = 5
      BY <2>1, DeleteSent
    <3> QED
      BY <3>1, EmptyIsEmpty
  <2>6. Target(r) /\ r.op \in Ops
    BY <2>2 DEF Target, Ops, Sends
  <2>7. Len(r.todo) >= GateAt(r) /\ Len(r.todo) >= CallAt(r)
    BY <2>2, <2>4, <2>5
  <2> QED
    BY <1>1, <2>2, <2>4, <2>5, <2>6, <2>7, RequestMade DEF Early
<1> QED
  BY <1>3, <1>4, Zenon DEF AsksAbout

ReceivedPlan(plan) == plan = handleDeleteMessage(FALSE)

LEMMA DeleteOld ==
    ASSUME RequestsInv, NEW c \in Chats, NEW plan, ReceivedPlan(plan)
    PROVE  LET r == Request("delete", plan, c, old, Nothing) IN
           Made(r) /\ Gated(r) /\ r.status = 0 /\ r.op = "delete" /\ r.id = old
<1>1. PICK r : r = Request("delete", plan, c, old, Nothing)
  OBVIOUS
<1>2. plan \in Seq(Steps) /\ Len(plan) = 3 /\ plan # <<>>
  <2>1. plan \in Seq(Steps) /\ Len(plan) = 3
    BY DeleteReceived DEF ReceivedPlan
  <2> QED
    BY <2>1, EmptyIsEmpty
<1>3. New(r, c) /\ r.op = "delete" /\ r.todo = plan /\ r.id = old
  BY <1>1, RequestShape
<1>4. Plan(r) = plan
  BY <1>3 DEF Plan, Sends, ReceivedPlan
<1>5. GateAt(r) = 3
  BY <1>3 DEF GateAt, Sends
<1>6. Target(r) /\ r.op \in Ops
  BY <1>3 DEF Target, Ops, Sends
<1>7. Len(r.todo) >= GateAt(r)
  <2>1. Len(r.todo) = 3
    BY <1>2, <1>3
  <2> QED
    BY <1>5, <2>1
<1>8. Made(r) /\ Gated(r) /\ r.status = 0 /\ r.op = "delete" /\ r.id = old
  BY <1>2, <1>3, <1>4, <1>6, <1>7, RequestMade
<1> QED
  BY <1>1, <1>8, Zenon

LEMMA AskKeeps ==
    ASSUME RequestsInv, NEW s \in Slots, Ask(s)
    PROVE  RequestsInv'
<1>1. allow' = allow /\ row' = row /\ wa' = wa /\ shown' = shown
  BY DEF Ask
<1>2. RowInv /\ WaInv /\ ShownInv /\ sure \subseteq Ids /\ \A id \in sure : Sure(id)
  BY DEF RequestsInv
<1>3. RowInv' /\ WaInv' /\ ShownInv'
  BY <1>1, <1>2 DEF RowInv, WaInv, ShownInv
<1>4. ASSUME NEW c \in Chats, NEW id \in Ids, wa[id] = Nothing, ~Busy(id), NEW r \in Asks(c, id), Begin(s, r)
      PROVE  RequestsInv'
  <2>1. /\ Made(r) /\ Gated(r) /\ r.status = 0 /\ Early(r)
        /\ (r.op \in Sends /\ r.id = id) \/ (r.op = "typing" /\ r.id = Nothing)
    BY <1>4, Asked
  <2>2. PICK one : one = r.id
    OBVIOUS
  <2>3. Accepted(r)'
    BY <2>1 DEF Accepted, Sends, Early, CallAt
  <2>4. one \in sure => Phase(r)'
    <3> SUFFICES ASSUME one \in sure PROVE Phase(r)'
      OBVIOUS
    <3>1. one = id /\ r.id = id /\ r.op \in Sends
      BY <1>2, <2>1, <2>2, RequestsAssumption
    <3>2. Agree(id)
      BY <1>2, <1>4, <3>1 DEF Sure
    <3>3. Before(r)'
      BY <1>1, <1>4, <3>1, <3>2 DEF Before, Agree, Matches, Sends
    <3> QED
      BY <2>1, <3>3 DEF Phase, Early, CallAt
  <2> QED
    BY <1>1, <1>3, <1>4, <2>1, <2>2, <2>3, <2>4, BeginKeeps
<1>5. ASSUME NEW id \in Ids, wa[id] # Nothing, NEW r \in AsksAbout(id), Begin(s, r)
      PROVE  RequestsInv'
  <2>1. /\ Made(r) /\ Gated(r) /\ r.status = 0 /\ Early(r)
        /\ r.op \in {"edit", "delete"} /\ r.id = id /\ r.chat = wa[id].chat
    BY <1>5, AskedAbout
  <2>2. Accepted(r)'
    BY <1>1, <1>5, <2>1 DEF Accepted, Sends
  <2>3. id \in sure /\ ~Busy(id) => Phase(r)'
    <3> SUFFICES ASSUME id \in sure, ~Busy(id) PROVE Phase(r)'
      OBVIOUS
    <3>1. Agree(id)
      BY <1>2 DEF Sure
    <3>2. Before(r)'
      BY <1>1, <2>1, <3>1 DEF Before, Agree, Matches, Sends
    <3> QED
      BY <2>1, <3>2 DEF Phase, Early, CallAt
  <2> QED
    BY <1>1, <1>3, <1>5, <2>1, <2>2, <2>3, BeginKeeps
<1>6. ASSUME NEW c \in Chats, Begin(s, Request("delete", handleDeleteMessage(FALSE), c, old, Nothing))
      PROVE  RequestsInv'
  <2>1. PICK plan : ReceivedPlan(plan)
    BY DEF ReceivedPlan
  <2>2. PICK r : r = Request("delete", plan, c, old, Nothing)
    OBVIOUS
  <2>3. Made(r) /\ Gated(r) /\ r.status = 0 /\ r.op = "delete" /\ r.id = old
    BY <2>1, <2>2, DeleteOld, Zenon
  <2>4. Begin(s, r)
    BY <1>6, <2>1, <2>2, Zenon DEF ReceivedPlan
  <2>5. Accepted(r)'
    BY <2>3 DEF Accepted, Sends
  <2>6. old \notin sure
    BY <1>2, RequestsAssumption
  <2> QED
    BY <1>1, <1>3, <2>3, <2>4, <2>5, <2>6, BeginKeeps
<1> QED
  BY <1>4, <1>5, <1>6, Zenon DEF Ask

LEMMA phoneEditKeeps ==
    ASSUME RequestsInv, NEW s \in Slots, phoneEdit(s)
    PROVE  RequestsInv'
<1>1. allow' = allow /\ row' = row /\ shown' = shown
  BY DEF phoneEdit
<1>2. RowInv /\ WaInv /\ ShownInv /\ sure \subseteq Ids /\ \A id \in sure : Sure(id)
  BY DEF RequestsInv
<1>3. PICK id \in Ids, txt \in Texts :
         /\ wa[id] # Nothing /\ ~wa[id].gone
         /\ wa' = [wa EXCEPT ![id].body = Text(txt)]
         /\ Begin(s, [Request("event", receiveEdit, wa[id].chat, id, Text(txt)) EXCEPT !.seen = TRUE])
  BY DEF phoneEdit
<1>4. PICK m0 : m0 = wa[id]
  OBVIOUS
<1>5. m0.gone \in BOOLEAN /\ m0.chat \in Chats /\ m0 = [chat |-> m0.chat, body |-> m0.body, gone |-> m0.gone]
  BY <1>2, <1>3, <1>4 DEF WaInv
<1>6. PICK b : b = Text(txt)
  OBVIOUS
<1>7. PICK m : m = [m0 EXCEPT !.body = b]
  OBVIOUS
<1>8. m = [chat |-> m0.chat, body |-> b, gone |-> m0.gone]
  BY <1>5, <1>7, MessageEdited
<1>9. m # Nothing /\ m.chat = m0.chat /\ m.body = b /\ m.gone = m0.gone
  BY <1>8, MessageIsThere
<1>10. wa' = [wa EXCEPT ![id] = m]
  BY <1>3, <1>4, <1>6, <1>7
<1>11. m = [chat |-> m.chat, body |-> m.body, gone |-> m.gone]
  BY <1>8, <1>9
<1>12. /\ WaInv' /\ ShownInv' /\ wa'[id] = m /\ \A z \in Ids \ {id} : wa'[z] = wa[z]
       /\ \A z \in Ids : wa[z] # Nothing => wa'[z] # Nothing
  BY <1>1, <1>2, <1>5, <1>9, <1>10, <1>11, OneMessageChanges
<1>13. RowInv'
  BY <1>1, <1>2, <1>12, RowsStay
<1>14. PICK p : p = Request("event", receiveEdit, m0.chat, id, b)
  OBVIOUS
<1>15. New(p, m0.chat) /\ p.op = "event" /\ p.todo = receiveEdit /\ p.id = id /\ p.body = b
  BY <1>14, RequestShape
<1>16. PICK v : v = TRUE
  OBVIOUS
<1>17. PICK r : r = [p EXCEPT !.seen = v]
  OBVIOUS
<1>18. /\ Shape(r) /\ r.op = "event" /\ r.todo = receiveEdit /\ r.chat = m0.chat /\ r.id = id /\ r.body = b
       /\ r.seen = v /\ r.told = p.told /\ r.status = 0
  BY <1>15, <1>17, SetSeen DEF New
<1>19. r = [Request("event", receiveEdit, wa[id].chat, id, Text(txt)) EXCEPT !.seen = TRUE]
  BY <1>4, <1>6, <1>14, <1>16, <1>17
<1>20. Begin(s, r)
  BY <1>3, <1>19, Zenon
<1>21. r.todo = Plan(r) /\ Len(r.todo) = 3 /\ CallAt(r) = 4 /\ r.todo # <<>>
  BY <1>18 DEF Plan, CallAt, receiveEdit, Sends
<1>22. Target(r) /\ r.op \in Ops
  BY <1>6, <1>18 DEF Target, Ops, Sends
<1>23. Made(r)
  <2>1. EndOf(r.todo, Plan(r))
    BY <1>21, <1>22, PlansAreSteps, WholePlan
  <2> QED
    BY <1>5, <1>18, <1>21, <1>22, <2>1 DEF Made
<1>24. Gated(r)
  BY <1>16, <1>18 DEF Gated
<1>25. Accepted(r)'
  BY <1>9, <1>12, <1>18 DEF Accepted, Sends
<1>26. id \in sure /\ ~Busy(id) => Phase(r)'
  <2> SUFFICES ASSUME id \in sure, ~Busy(id) PROVE Phase(r)'
    OBVIOUS
  <2>1. Matches(id)
    BY <1>2 DEF Sure, Agree
  <2>4. Matches(id)' /\ wa'[id].body = b
    BY <1>1, <1>3, <1>4, <1>9, <1>12, <2>1 DEF Matches
  <2>5. Len(r.todo) # 1
    BY <1>21
  <2>2. After(r)'
    BY <1>18, <2>4, <2>5 DEF After, Sends, Matches
  <2>3. ~Early(r)
    BY <1>21 DEF Early
  <2> QED
    BY <2>2, <2>3 DEF Phase, Early, CallAt
<1> QED
  BY <1>1, <1>12, <1>13, <1>18, <1>20, <1>23, <1>24, <1>25, <1>26, BeginKeeps

-----------------------------------------------------------------------------
(* What happens meanwhile.                                                   *)

LEMMA setWhitelistKeeps ==
    ASSUME RequestsInv, NEW c \in Chats, setWhitelist(c)
    PROVE  RequestsInv'
<1>1. /\ allow' = [allow EXCEPT ![c] = ~@] /\ row' = row /\ wa' = wa /\ shown' = shown /\ sure' = sure
      /\ req' = [s \in Slots |->
                   IF req[s] # Free /\ req[s].chat = c THEN [req[s] EXCEPT !.seen = TRUE] ELSE req[s]]
  BY DEF setWhitelist, data
<1>2. /\ allow \in [Chats -> BOOLEAN] /\ GateInv /\ AcceptedInv /\ sure \subseteq Ids /\ \A id \in sure : Sure(id)
      /\ RowInv' /\ WaInv' /\ ShownInv'
  BY <1>1 DEF RequestsInv, ReqInv, RowInv, WaInv, ShownInv
<1>3. allow' \in [Chats -> BOOLEAN] /\ \A d \in Chats \ {c} : allow'[d] = allow[d]
  BY <1>1, <1>2
<1>4. ASSUME NEW s \in Slots, req[s] # Free
      PROVE  /\ Made(req'[s]) /\ Same(req[s], req'[s]) /\ req'[s].body = req[s].body /\ req'[s].todo = req[s].todo
             /\ req'[s].status = req[s].status /\ Gated(req[s])' /\ req'[s] # Free
  <2>1. Made(req[s]) /\ Gated(req[s])
    BY <1>2, <1>4 DEF GateInv
  <2>2. CASE req[s].chat # c
    <3>1. req'[s] = req[s] /\ allow'[req[s].chat] = allow[req[s].chat]
      BY <1>1, <1>3, <2>1, <2>2 DEF Made
    <3> QED
      BY <1>4, <2>1, <3>1 DEF Gated, Same
  <2>3. CASE req[s].chat = c
    <3>1. PICK v : v = TRUE
      OBVIOUS
    <3>2. PICK r : r = req[s]
      OBVIOUS
    <3>3. PICK q : q = [r EXCEPT !.seen = v]
      OBVIOUS
    <3>4. /\ Shape(q) /\ q.op = r.op /\ q.todo = r.todo /\ q.chat = r.chat /\ q.id = r.id /\ q.body = r.body
          /\ q.seen = v /\ q.told = r.told /\ q.status = r.status
      <4>1. Shape(r)
        BY <2>1, <3>2 DEF Made
      <4> QED
        BY <3>3, <4>1, SetSeen
    <3>5. req'[s] = q
      BY <1>1, <1>4, <2>3, <3>1, <3>2, <3>3
    <3>6. Same(r, q)
      BY <3>4 DEF Same
    <3>7. Made(q)
      <4>1. Target(q)
        BY <2>1, <3>2, <3>4 DEF Made, Target, Sends
      <4> QED
        BY <2>1, <3>2, <3>4, <3>6, <4>1, SamePlan DEF Made
    <3>8. q.seen
      BY <3>1, <3>4
    <3>9. Gated(req[s])'
      BY <3>5, <3>8 DEF Gated
    <3>10. q # Free
      BY <3>7, RequestIsNotFree
    <3> QED
      BY <3>2, <3>4, <3>5, <3>6, <3>7, <3>9, <3>10
  <2> QED
    BY <2>2, <2>3
<1>5. \A s \in Slots : req[s] = Free => req'[s] = Free
  BY <1>1
<1>6. ReqInv'
  <2>1. req' = [s \in Slots |-> req'[s]]
    BY <1>1
  <2> QED
    BY <1>4, <1>5, <2>1 DEF ReqInv, GateInv
<1>7. AcceptedInv'
  BY <1>1, <1>2, <1>4, <1>5 DEF AcceptedInv, Accepted, Same, Early, CallAt
<1>8. \A s \in Slots : /\ Over(s)' <=> Over(s)
                       /\ ~Over(s) => /\ req'[s].op = req[s].op /\ req'[s].chat = req[s].chat /\ req'[s].id = req[s].id
                                      /\ req'[s].body = req[s].body /\ req'[s].todo = req[s].todo
  BY <1>4, <1>5, FreeIsOver DEF Over, Same
<1>9. ASSUME NEW id \in sure PROVE Sure(id)'
  <2>1. Sure(id)
    BY <1>2
  <2>2. Busy(id)' <=> Busy(id)
    BY <1>8 DEF Busy
  <2>3. Agree(id) <=> Agree(id)'
    BY <1>1 DEF Agree, Matches
  <2>4. ASSUME NEW s \in Slots, ~Over(s), req[s].id = id PROVE Phase(req[s])'
    <3>1. Phase(req[s])
      BY <2>1, <2>4 DEF Sure
    <3>2. Early(req[s])' <=> Early(req[s])
      BY <1>8, <2>4 DEF Early, CallAt
    <3>3. Before(req[s]) => Before(req[s])'
      BY <1>1, <1>8, <2>4 DEF Before, Agree, Matches
    <3>4. After(req[s]) => After(req[s])'
      BY <1>1, <1>8, <2>4 DEF After, Matches
    <3> QED
      BY <3>1, <3>2, <3>3, <3>4 DEF Phase
  <2> QED
    BY <1>8, <2>1, <2>2, <2>3, <2>4 DEF Sure
<1> QED
  BY <1>1, <1>2, <1>3, <1>6, <1>7, <1>9 DEF RequestsInv

LEMMA NothingMoves ==
    ASSUME RequestsInv, UNCHANGED <<allow, row, wa, shown, req, sure>>
    PROVE  RequestsInv'
<1>1. ReqInv' /\ RowInv' /\ WaInv' /\ ShownInv' /\ AcceptedInv'
  BY DEF RequestsInv, ReqInv, GateInv, Gated, RowInv, WaInv, ShownInv, AcceptedInv, Accepted
<1>2. ASSUME NEW id \in sure PROVE Sure(id)'
  <2>1. Sure(id)
    BY DEF RequestsInv
  <2>2. Agree(id)' <=> Agree(id)
    BY DEF Agree, Matches
  <2>3. ASSUME NEW s \in Slots PROVE Phase(req[s])' <=> Phase(req[s])
    BY DEF Phase, Before, After, Agree, Matches, Early, CallAt
  <2> QED
    BY <2>1, <2>2, <2>3 DEF Sure, Busy, Over
<1> QED
  BY <1>1, <1>2 DEF RequestsInv

LEMMA logoutKeeps ==
    ASSUME RequestsInv, logout
    PROVE  RequestsInv'
<1>1. row' = [id \in DOMAIN row |-> Nothing] /\ sure' = {} /\ UNCHANGED <<allow, wa, shown, req>>
  BY DEF logout
<1>2. ReqInv' /\ WaInv' /\ ShownInv' /\ AcceptedInv'
  BY <1>1 DEF RequestsInv, ReqInv, GateInv, Gated, WaInv, ShownInv, AcceptedInv, Accepted
<1>3. RowInv'
  BY <1>1 DEF RequestsInv, RowInv
<1> QED
  BY <1>1, <1>2, <1>3 DEF RequestsInv

LEMMA RequestsStart == Init => RequestsInv
<1> SUFFICES ASSUME Init PROVE RequestsInv
  OBVIOUS
<1>1. allow \in [Chats -> BOOLEAN] /\ shown = [id \in Ids |-> Nothing] /\ req = [s \in Slots |-> Free] /\ sure = Ids
  BY DEF Init
<1>2. PICK b \in OldBodies, sent \in SUBSET Ids, txt \in Texts :
         /\ row = [id \in Ids \cup {old} |->
                     CASE id = old -> [chat |-> home, body |-> b]
                       [] id \in sent -> [chat |-> home, body |-> Text(txt)]
                       [] id \in Ids \ sent -> Nothing]
         /\ wa = [id \in Ids |-> IF id \in sent THEN [chat |-> home, body |-> Text(txt), gone |-> FALSE] ELSE Nothing]
  BY DEF Init
<1>3. PICK body : body = Text(txt)
  OBVIOUS
<1>4. PICK m : m = [chat |-> home, body |-> body]
  OBVIOUS
<1>5. PICK w : w = [chat |-> home, body |-> body, gone |-> FALSE]
  OBVIOUS
<1>6. /\ m # Nothing /\ m.chat = home /\ m.body = body
      /\ w # Nothing /\ w.chat = home /\ w.body = body /\ w.gone = FALSE
  BY <1>4, <1>5, RowIsThere, MessageIsThere
<1>7. row = [id \in Ids \cup {old} |-> row[id]] /\ wa = [id \in Ids |-> wa[id]]
  BY <1>2
<1>8. ASSUME NEW id \in Ids
      PROVE  (id \in sent => row[id] = m /\ wa[id] = w) /\ (id \notin sent => row[id] = Nothing /\ wa[id] = Nothing)
  <2>1. id # old
    BY RequestsAssumption
  <2>2. CASE id \in sent
    BY <1>2, <1>3, <1>4, <1>5, <2>1, <2>2
  <2>3. CASE id \notin sent
    BY <1>2, <2>1, <2>3
  <2> QED
    BY <2>2, <2>3
<1>9. RowInv
  BY <1>4, <1>6, <1>7, <1>8 DEF RowInv
<1>10. WaInv
  BY <1>5, <1>6, <1>7, <1>8, RequestsAssumption DEF WaInv
<1>11. ShownInv
  BY <1>1 DEF ShownInv
<1>12. ReqInv /\ AcceptedInv
  BY <1>1 DEF ReqInv, GateInv, AcceptedInv
<1>13. ASSUME NEW id \in Ids PROVE Sure(id)
  <2>1. \A s \in Slots : Over(s)
    BY <1>1, FreeIsOver DEF Over
  <2>2. shown[id] = Nothing
    BY <1>1
  <2>3. Agree(id)
    BY <1>6, <1>8, <2>2 DEF Agree, Matches
  <2> QED
    BY <2>1, <2>3 DEF Sure
<1> QED
  BY <1>1, <1>9, <1>10, <1>11, <1>12, <1>13 DEF RequestsInv

LEMMA RequestsStep == RequestsInv /\ [Next]_vars => RequestsInv'
<1> SUFFICES ASSUME RequestsInv, [Next]_vars PROVE RequestsInv'
  OBVIOUS
<1>1. CASE UNCHANGED vars
  BY <1>1, NothingMoves DEF vars
<1>2. ASSUME NEW s \in Slots, Step(s) PROVE RequestsInv'
  BY <1>2, connectedClientKeeps, getClientKeeps, isChatAllowedKeeps, checkFileKeeps, uploadKeeps,
     resolveForwardKeeps, BuildForwardedMediaMessageKeeps, MediaLinkStaleKeeps, reuploadForwardedMediaKeeps,
     resolvePollKeeps, resolvePollVoteKeeps, GetMessageOriginKeeps, buildPollVoteKeeps, editWindowKeeps,
     callKeeps, upsertMessageKeeps, deleteMessageFromDBKeeps, editMessageInDBKeeps, updateRowKeeps,
     tellEditedKeeps DEF Step
<1>3. CASE connection
  BY <1>3, NothingMoves DEF connection, data
<1> QED
  BY <1>1, <1>2, <1>3, AskKeeps, phoneEditKeeps, setWhitelistKeeps, logoutKeeps DEF Next

\* The invariant that carries both properties: how far each request has
\* come, and what it left of the archive and of WhatsApp.
THEOREM AlwaysConsistent == Spec => []RequestsInv
  BY RequestsStart, RequestsStep, PTL DEF Spec

-----------------------------------------------------------------------------
(* The properties.                                                           *)

\* What a handler made WhatsApp do, it did for a chat that was allowed at
\* some moment since the request came, whatever the handlers and the
\* whitelist did at the same time.
THEOREM DeniedStaysUntouched == Spec => []DeniedIsUntouched
<1>1. RequestsInv => DeniedIsUntouched
  BY DEF RequestsInv, ReqInv, GateInv, Gated, DeniedIsUntouched
<1> QED
  BY <1>1, AlwaysConsistent, PTL

\* The archive holds nothing that WhatsApp never accepted; about a message on
\* which no two requests overlapped and no answer was lost, the archive,
\* WhatsApp and the last message:edited agree.
THEOREM ArchiveFollowsWhatsApp == Spec => []ArchiveAgrees
<1>1. RequestsInv => ArchiveAgrees
  <2> SUFFICES ASSUME RequestsInv PROVE ArchiveAgrees
    OBVIOUS
  <2>1. \A id \in Ids : row[id] # Nothing => wa[id] # Nothing
    BY DEF RequestsInv, RowInv
  <2>2. ASSUME NEW id \in sure, ~Busy(id) PROVE Agree(id)
    BY <2>2 DEF RequestsInv, Sure
  <2> QED
    BY <2>1, <2>2 DEF ArchiveAgrees, Agree, Matches
<1> QED
  BY <1>1, AlwaysConsistent, PTL

====
