------------------------------ MODULE Whitelist ------------------------------
(***************************************************************************)
(* What the whitelist promises to whoever asks to send: who may be written *)
(* to, how that changes, and that a request is let through only if its     *)
(* chat was allowed at some moment since it was made.                      *)
(*                                                                         *)
(* Rows, the default, the lid migration, logout and crashes are the        *)
(* business of Permissions, which implements this.                         *)
(***************************************************************************)
CONSTANTS
    Phones,     \* who can be written to: phone numbers and lids
    Requests    \* requests to send that may be under way at once

VARIABLES
    allow,      \* who may be written to
    default,    \* whether someone without a decision may be
    moving,     \* a decision on its way from a lid to its phone number
    ask         \* each request: idle, or its phone, whether that was allowed since, and the answer

vars == <<allow, default, moving, ask>>

Idle == [state |-> "idle"]
Open(p, seen) == [state |-> "open", phone |-> p, seen |-> seen]
Passed(p) == [state |-> "passed", phone |-> p]

\* An open request remembers that its phone was allowed meanwhile.
Witness(now) ==
    [r \in Requests |->
        IF ask[r].state = "open" THEN [ask[r] EXCEPT !.seen = @ \/ now[ask[r].phone]] ELSE ask[r]]

Becomes(now) ==
    /\ allow' = now
    /\ ask' = Witness(now)

Init ==
    /\ allow = [p \in Phones |-> FALSE] /\ default = FALSE
    /\ moving = {}
    /\ ask = [r \in Requests |-> Idle]

-----------------------------------------------------------------------------

\* The user decides about one phone, or about all of them.
Decide(p, b) == Becomes([allow EXCEPT ![p] = b]) /\ UNCHANGED <<default, moving>>

DecideAll(b) ==
    /\ Becomes([p \in Phones |-> b])
    /\ default' = b
    /\ UNCHANGED moving

\* A phone becomes known: from now on it needs a decision of its own.
Newcomer(p) == Becomes([allow EXCEPT ![p] = FALSE]) /\ UNCHANGED <<default, moving>>

\* A lid's decision is picked up, put on its phone number, and dropped from the lid.
PickUp(p) ==
    /\ moving = {}
    /\ moving' = {allow[p]}
    /\ UNCHANGED <<allow, default, ask>>

PutDown(p) ==
    /\ \E b \in moving : Becomes([allow EXCEPT ![p] = b])
    /\ UNCHANGED <<default, moving>>

LetGo(p) ==
    /\ Becomes([allow EXCEPT ![p] = default])
    /\ moving' = {}
    /\ UNCHANGED default

\* A logout that could not read everything: some decisions are lost, or the
\* default, and the default is what is left for the others.
Lapse(lost, def) ==
    /\ def => default
    /\ Becomes([p \in Phones |-> IF p \in lost THEN def ELSE allow[p]])
    /\ default' = def
    /\ UNCHANGED moving

-----------------------------------------------------------------------------

Ask(r, p) ==
    /\ ask[r] = Idle
    /\ ask' = [ask EXCEPT ![r] = Open(p, allow[p])]
    /\ UNCHANGED <<allow, default, moving>>

Pass(r) ==
    /\ ask[r].state = "open" /\ ask[r].seen
    /\ ask' = [ask EXCEPT ![r] = Passed(ask[r].phone)]
    /\ UNCHANGED <<allow, default, moving>>

\* Refused, failed or sent.
Answer(r) ==
    /\ ask[r] # Idle
    /\ ask' = [ask EXCEPT ![r] = Idle]
    /\ UNCHANGED <<allow, default, moving>>

\* The process stops: requests and a decision on its way are gone.
Stop ==
    /\ ask' = [r \in Requests |-> Idle]
    /\ moving' = {}
    /\ \/ UNCHANGED <<allow, default>>
       \/ allow' = [p \in Phones |-> FALSE] /\ default' = FALSE   \* in the middle of a logout

Next ==
    \/ \E p \in Phones, b \in BOOLEAN : Decide(p, b)
    \/ \E b \in BOOLEAN : DecideAll(b)
    \/ \E p \in Phones : Newcomer(p) \/ PickUp(p) \/ PutDown(p) \/ LetGo(p)
    \/ \E lost \in SUBSET Phones, def \in BOOLEAN : Lapse(lost, def)
    \/ Stop
    \/ \E r \in Requests, p \in Phones : Ask(r, p)
    \/ \E r \in Requests : Pass(r) \/ Answer(r)

Spec == Init /\ [][Next]_vars

=============================================================================
