------------------------------ MODULE ChatState ------------------------------
(***************************************************************************)
(* The chat list of the backend: App.state.Chats in memory, its copy in    *)
(* table chats, and everything that changes either: live messages, history *)
(* sync, reading a chat, the contact sync, the persist worker, eviction,   *)
(* logout and restart.                                                     *)
(*                                                                         *)
(* A critical section of App.mu, or one SQLite transaction, is one atomic  *)
(* step.  A chat is the two numbers the code guards: the newest timestamp  *)
(* and the unread count; names are left out.  Failing statements are not   *)
(* modelled, and of table messages only the keys are kept.                 *)
(***************************************************************************)
EXTENDS Naturals, FiniteSets, FiniteSetsExt

CONSTANTS
    Chats,       \* chat ids
    PhoneOf,     \* the chats known by a lid, each with its phone-number chat
    Msgs,        \* messages
    RawChat,     \* the chat id WhatsApp puts on each message
    Ts,          \* the timestamp of each message
    NoChat,      \* no entry under this id
    MaxChats,    \* maxChatCaps
    MaxUnread,   \* bound: unread counts
    MaxStarts,   \* bound: process starts and logouts
    MaxJobs,     \* bound: history sync chunks and recanonicalizations together
    MaxDeletes,  \* bound: messages deleted
    Own          \* the messages with from_me = 1

Lids == DOMAIN PhoneOf
MaxTs == Max({Ts[m] : m \in Msgs})
Chat == [ts : 0 .. MaxTs, unread : 0 .. MaxUnread]
Empty == [ts |-> 0, unread |-> 0]
Snapshots == [Chats -> Chat \cup {NoChat}]
Rows == Chats \X Msgs

\* Who calls persistState: the worker, and one other at a time, which is a request, the
\* event handler or the end of a history sync.
Persisters == {"worker", "caller"}
Asleep == [pc |-> "none"]
Due == [pc |-> "due"]
Holding(chats) == [pc |-> "commit", snapshot |-> chats]

ASSUME ChatAssumption ==
    /\ IsFiniteSet(Chats)
    /\ Lids \subseteq Chats
    /\ PhoneOf \in [Lids -> Chats \ Lids]
    /\ IsFiniteSet(Msgs) /\ Msgs # {}
    /\ RawChat \in [Msgs -> Chats]
    /\ Ts \in [Msgs -> Nat \ {0}]
    /\ Own \subseteq Msgs
    /\ NoChat \notin Chat
    /\ MaxChats \in Nat /\ MaxUnread \in Nat /\ MaxStarts \in Nat /\ MaxJobs \in Nat
    /\ MaxDeletes \in Nat

VARIABLES
    chats,       \* App.state.Chats
    saved,       \* table chats
    stored,      \* keys of table messages: <<chat_id, message>>
    dirty,       \* persistDirty
    save,        \* where each caller of persistState is
    confirming,  \* chats read here whose MarkRead call has not returned
    history,     \* applyHistorySync: its phase and its chunk
    recanon,     \* handleSyncContacts and recanonicalizeState: phase and copy
    resolved,    \* the lids whose phone number is known
    phase,       \* of the process: load, up, and the steps of a logout
    starts, jobs, deletes,   \* counted against their bounds
    handed,      \* history: received messages WhatsApp has handed over
    recountable, \* history: chats with a counted message that is not, or no longer, stored
    lost,        \* history: chats that eviction or an older copy has set back
    missed       \* history: chats whose newest change no save is going to write

dbVars == <<saved, stored>>
ghosts == <<handed, recountable, lost, missed>>
counters == <<starts, jobs, deletes>>
vars == <<chats, saved, stored, dirty, save, confirming, history, recanon, resolved,
          phase, starts, jobs, deletes, handed, recountable, lost, missed>>

-----------------------------------------------------------------------------

canonicalizeChatID(c) == IF c \in resolved THEN PhoneOf[c] ELSE c

Ids(c) == {c} \cup {l \in Lids : PhoneOf[l] = c}

\* A map read yields the zero Chat for a missing key.
Entry(s, c) == IF s[c] = NoChat THEN Empty ELSE s[c]

\* What merging entries one by one (mergeChat) comes to: the larger of each number.
MergedChat(entries) == [ts     |-> Max({e.ts : e \in entries}),
                        unread |-> Max({e.unread : e \in entries})]
mergeChat(dst, src) == MergedChat({dst, src})

\* The chat a stored message belongs to, under its id or its canonical one, shows it.
Listed(r) == \E c \in {r[1], canonicalizeChatID(r[1])} :
                chats[c] # NoChat /\ chats[c].ts >= Ts[r[2]]
Newest(c) == Max({0} \cup {Ts[r[2]] : r \in {x \in stored : x[1] = c}})
SetBack(c) == chats'[c] = NoChat \/ (chats[c] # NoChat /\ chats'[c].ts < chats[c].ts)

historySyncing == history.pc # "idle"
shuttingDown == phase \in {"closing", "wiped"}

Init ==
    /\ chats = [c \in Chats |-> NoChat]
    /\ saved = chats
    /\ stored = {}
    /\ dirty = FALSE
    /\ save = [p \in Persisters |-> Asleep]
    /\ confirming = {}
    /\ history = [pc |-> "idle", chunk |-> {}]
    /\ recanon = [pc |-> "idle", copy |-> chats]
    /\ resolved = {}
    /\ phase = "up"
    /\ starts = 1 /\ jobs = 0 /\ deletes = 0
    /\ handed = {} /\ recountable = {} /\ lost = {} /\ missed = {}

-----------------------------------------------------------------------------
(* Live messages and deletions. *)

\* Mutant: rows of a history sync are counted like live messages.
CountsHistory(c, ms) ==
    LET old == Entry(chats, c)
        new == {m \in ms \ Own : <<c, m>> \notin stored}
    IN [ts     |-> Max({old.ts} \cup {Ts[m] : m \in ms}),
        unread |-> old.unread + Cardinality(new)]

\* What upsertMessageTx makes of chat c when it stores the messages ms there.
upsertMessageTx(c, ms) ==
    LET old == Entry(chats, c)
        new == {m \in ms \ Own : <<c, m>> \notin stored}
    IN [ts     |-> Max({old.ts} \cup {Ts[m] : m \in ms}),
        unread |-> IF historySyncing THEN old.unread ELSE old.unread + Cardinality(new)]

\* upsertMessage, for a live message or one just sent: one transaction, the chat list is
\* changed inside it.
ReceiveMessage(m) ==
    LET c == canonicalizeChatID(RawChat[m])
    IN /\ phase = "up"
       /\ Entry(chats, c).unread < MaxUnread
       /\ stored' = stored \cup {<<c, m>>}
       /\ chats' = [chats EXCEPT ![c] = upsertMessageTx(c, {m})]
       /\ dirty' = (dirty \/ ~historySyncing)
       /\ handed' = IF m \in Own THEN handed ELSE handed \cup {<<c, m>>}
       /\ missed' = IF historySyncing /\ chats' # chats THEN missed \cup {c} ELSE missed
       /\ UNCHANGED <<saved, save, confirming, history, recanon, resolved, phase, counters,
                      recountable, lost>>

\* A request; it saves at once.
handleDeleteMessage(r) ==
    /\ phase = "up"
    /\ save["caller"] = Asleep
    /\ deletes < MaxDeletes
    /\ deletes' = deletes + 1
    /\ r \in stored
    /\ stored' = stored \ {r}
    /\ save' = [save EXCEPT !["caller"] = Due]
    /\ recountable' = recountable \cup {r[1]}
    /\ UNCHANGED <<chats, saved, dirty, confirming, history, recanon, resolved, phase,
                   starts, jobs, handed, lost, missed>>

-----------------------------------------------------------------------------
(* Reading a chat. *)

\* markChatReadInState; c is known to exist and to have unread messages.
markChatReadInState(c) ==
    /\ chats[c] # NoChat /\ chats[c].unread > 0
    /\ chats' = [chats EXCEPT ![c].unread = 0]

\* Memory is zeroed at once, table chats when WhatsApp has been told.
handleMarkRead(c) ==
    /\ phase = "up"
    /\ c = canonicalizeChatID(c)
    /\ markChatReadInState(c)
    /\ confirming' = confirming \cup {c}
    /\ UNCHANGED <<dbVars, dirty, save, history, recanon, resolved, phase, counters, ghosts>>

MarkReadReturns(c) ==
    /\ c \in confirming
    /\ save["caller"] = Asleep
    /\ confirming' = confirming \ {c}
    /\ save' = [save EXCEPT !["caller"] = Due]
    /\ UNCHANGED <<chats, dbVars, dirty, history, recanon, resolved, phase, counters, ghosts>>

\* A read-self receipt or MarkChatAsRead: the chat was read on another device.
ReadElsewhere(c) ==
    /\ phase = "up"
    /\ save["caller"] = Asleep
    /\ c = canonicalizeChatID(c)
    /\ markChatReadInState(c)
    /\ save' = [save EXCEPT !["caller"] = Due]
    /\ UNCHANGED <<dbVars, dirty, confirming, history, recanon, resolved, phase, counters,
                   ghosts>>

-----------------------------------------------------------------------------
(* persistState and its worker. *)

PersistTick ==
    /\ dirty
    /\ phase # "load"
    /\ save["worker"] = Asleep
    /\ dirty' = FALSE
    /\ save' = [save EXCEPT !["worker"] = Due]
    /\ UNCHANGED <<chats, dbVars, confirming, history, recanon, resolved, phase, counters,
                   ghosts>>

\* dbLifecycleMu is held for reading from here to the commit.
PersistSnapshot(p) ==
    /\ save[p] = Due
    /\ save' = [save EXCEPT ![p] = IF shuttingDown THEN Asleep ELSE Holding(chats)]
    /\ missed' = IF shuttingDown THEN missed ELSE {}
    /\ UNCHANGED <<chats, dbVars, dirty, confirming, history, recanon, resolved, phase,
                   counters, handed, recountable, lost>>

\* INSERT OR REPLACE for every chat of the snapshot; no row is ever deleted.
Overlay(table, snapshot) ==
    [c \in Chats |-> IF snapshot[c] # NoChat THEN snapshot[c] ELSE table[c]]

\* The chats another save has written from a later snapshot.
Overtaken(p) == {c \in Chats : /\ save[p].snapshot[c] # NoChat
                              /\ Entry(saved, c).ts > save[p].snapshot[c].ts}

\* Mutant: the flag is cleared when the write is done, not before the snapshot.
PersistCommitClears(p) ==
    /\ save[p].pc = "commit"
    /\ saved' = Overlay(saved, save[p].snapshot)
    /\ save' = [save EXCEPT ![p] = Asleep]
    /\ dirty' = FALSE
    /\ missed' = missed \cup Overtaken(p)
    /\ UNCHANGED <<chats, stored, confirming, history, recanon, resolved, phase, counters,
                   handed, recountable, lost>>

PersistCommit(p) ==
    /\ save[p].pc = "commit"
    /\ saved' = Overlay(saved, save[p].snapshot)
    /\ save' = [save EXCEPT ![p] = Asleep]
    /\ missed' = missed \cup Overtaken(p)
    /\ UNCHANGED <<chats, stored, dirty, confirming, history, recanon, resolved, phase,
                   counters, handed, recountable, lost>>

-----------------------------------------------------------------------------
(* applyHistorySync, on its own goroutine, holding dbLifecycleMu for reading. *)

\* syncPushnamesAndConversations: unread is what the phone counts among the chunk's
\* messages of the chat.
HistoryMetadata(chunk) ==
    LET in(c)    == {m \in chunk : canonicalizeChatID(RawChat[m]) = c}
        convs    == {c \in Chats : in(c) # {}}
    IN /\ phase = "up"
       /\ history.pc = "idle"
       /\ jobs < MaxJobs
       /\ jobs' = jobs + 1
       /\ \E unread \in [convs -> 0 .. MaxUnread] :
             /\ \A c \in convs : unread[c] <= Cardinality(in(c) \ Own)
             /\ chats' = [c \in Chats |->
                   IF c \in convs
                   THEN mergeChat(Entry(chats, c), [ts     |-> Max({Ts[m] : m \in in(c)}),
                                                    unread |-> unread[c]])
                   ELSE chats[c]]
       /\ history' = [pc |-> "insert", chunk |-> chunk]
       /\ handed' = handed \cup {<<canonicalizeChatID(RawChat[m]), m>> : m \in chunk \ Own}
       /\ UNCHANGED <<dbVars, dirty, save, confirming, recanon, resolved, phase, starts,
                      deletes, recountable, lost, missed>>

\* insertHistoryMessages and the commit: upsertMessageTx for every message.
insertHistoryMessages ==
    LET in(c) == {m \in history.chunk : canonicalizeChatID(RawChat[m]) = c}
    IN /\ history.pc = "insert"
       /\ stored' = stored \cup {<<canonicalizeChatID(RawChat[m]), m>> : m \in history.chunk}
       /\ chats' = [c \in Chats |->
             IF in(c) = {} THEN chats[c] ELSE upsertMessageTx(c, in(c))]
       /\ handed' = handed \cup
             {<<canonicalizeChatID(RawChat[m]), m>> : m \in history.chunk \ Own}
       /\ history' = [history EXCEPT !.pc = "reconcile"]
       /\ UNCHANGED <<saved, dirty, save, confirming, recanon, resolved, phase, counters,
                      recountable, lost, missed>>

\* Chats under a lid move to the phone number; the chunk is saved when it had any.
reconcileLIDChats ==
    LET merged == {c \in resolved : chats[c] # NoChat}
        into(c) == {chats[d] : d \in {l \in merged : PhoneOf[l] = c}}
    IN /\ history.pc = "reconcile"
       /\ save["caller"] = Asleep
       /\ chats' = [c \in Chats |->
             IF c \in merged THEN NoChat
             ELSE IF into(c) = {} THEN chats[c]
             ELSE MergedChat({Entry(chats, c)} \cup into(c))]
       /\ history' = [history EXCEPT !.pc = "persist"]
       /\ save' = IF history.chunk = {} THEN save ELSE [save EXCEPT !["caller"] = Due]
       /\ missed' = IF history.chunk = {} THEN missed \cup {PhoneOf[c] : c \in merged}
                       ELSE missed
       /\ UNCHANGED <<dbVars, dirty, confirming, recanon, resolved, phase, counters, handed,
                      recountable, lost>>

HistoryEnd ==
    /\ history.pc = "persist"
    /\ save["caller"] = Asleep
    /\ history' = [pc |-> "idle", chunk |-> {}]
    /\ UNCHANGED <<chats, dbVars, dirty, save, confirming, recanon, resolved, phase, counters,
                   ghosts>>

\* whatsmeow learns which phone number a lid stands for (getPNForLID).
LearnLID(c) ==
    /\ c \notin resolved
    /\ resolved' = resolved \cup {c}
    /\ UNCHANGED <<chats, dbVars, dirty, save, confirming, history, recanon, phase, counters,
                   ghosts>>

-----------------------------------------------------------------------------
(* handleSyncContacts, and recanonicalizeState, which startSession calls too. *)

\* Outside the transaction nothing looks at shuttingDown.
SyncContactsWipe ==
    /\ phase = "up"
    /\ recanon.pc = "idle" /\ save["caller"] = Asleep
    /\ jobs < MaxJobs
    /\ jobs' = jobs + 1
    /\ saved' = [c \in Chats |-> IF saved[c] # NoChat /\ saved[c].ts = 0 THEN NoChat ELSE saved[c]]
    /\ recanon' = [recanon EXCEPT !.pc = "wiped"]
    /\ UNCHANGED <<chats, stored, dirty, save, confirming, history, resolved, phase, starts,
                   deletes, ghosts>>

\* Every contact with a name gets a chat.
SyncContactsRebuild(contacts) ==
    /\ recanon.pc = "wiped"
    /\ chats' = [c \in Chats |->
          IF chats[c] # NoChat /\ chats[c].ts > 0 THEN chats[c]
          ELSE IF c \in contacts THEN Empty ELSE NoChat]
    /\ recanon' = [recanon EXCEPT !.pc = IF contacts = {} THEN "idle" ELSE "due"]
    /\ UNCHANGED <<dbVars, dirty, save, confirming, history, resolved, phase, counters, ghosts>>

\* The goroutine of startSession, once connected.
Connected ==
    /\ phase = "up"
    /\ recanon.pc = "idle" /\ save["caller"] = Asleep
    /\ jobs < MaxJobs
    /\ jobs' = jobs + 1
    /\ recanon' = [recanon EXCEPT !.pc = "due"]
    /\ UNCHANGED <<chats, dbVars, dirty, save, confirming, history, resolved, phase, starts,
                   deletes, ghosts>>

RecanonCopy ==
    /\ recanon.pc = "due"
    /\ recanon' = [pc |-> "copied", copy |-> chats]
    /\ UNCHANGED <<chats, dbVars, dirty, save, confirming, history, resolved, phase, counters,
                   ghosts>>

\* migrateStateCanonicalIDs on the copy, which then replaces the chat list.
RecanonReplace ==
    LET copy    == recanon.copy
        from(c) == {copy[d] : d \in {e \in Chats : copy[e] # NoChat /\ canonicalizeChatID(e) = c}}
    IN /\ recanon.pc = "copied"
       /\ save["caller"] = Asleep
       /\ chats' = [c \in Chats |->
             IF from(c) = {} THEN NoChat ELSE MergedChat(from(c))]
       /\ recanon' = [pc |-> "idle", copy |-> [c \in Chats |-> NoChat]]
       /\ save' = [save EXCEPT !["caller"] = Due]
       /\ lost' = lost \cup {c \in Chats : chats # copy /\ SetBack(c)}
       /\ UNCHANGED <<dbVars, dirty, confirming, history, resolved, phase, counters, handed,
                      recountable, missed>>

-----------------------------------------------------------------------------
(* Eviction, logout, crash and restart. *)

cappedEvict(c) ==
    /\ phase # "load"
    /\ chats[c] # NoChat
    /\ Cardinality({d \in Chats : chats[d] # NoChat}) > MaxChats
    /\ chats' = [chats EXCEPT ![c] = NoChat]
    /\ lost' = lost \cup {c}
    /\ UNCHANGED <<dbVars, dirty, save, confirming, history, recanon, resolved, phase,
                   counters, handed, recountable, missed>>

\* dbLifecycleMu.Lock waits for every snapshot to commit and for a history sync.
handleLogout ==
    /\ phase = "up"
    /\ starts < MaxStarts
    /\ history.pc = "idle"
    /\ \A p \in Persisters : save[p].pc # "commit"
    /\ starts' = starts + 1
    /\ phase' = "closing"
    /\ UNCHANGED <<chats, dbVars, dirty, save, confirming, history, recanon, resolved, jobs,
                   deletes, ghosts>>

resetRuntimeState ==
    /\ phase = "closing"
    /\ chats' = [c \in Chats |-> NoChat]
    /\ phase' = "wiped"
    /\ UNCHANGED <<dbVars, dirty, save, confirming, history, recanon, resolved, counters,
                   ghosts>>

teardownAndReinitStorage ==
    /\ phase = "wiped"
    /\ saved' = [c \in Chats |-> NoChat]
    /\ stored' = {}
    /\ phase' = "out"
    /\ lost' = {}
    /\ handed' = {}
    /\ recountable' = {c \in Chats : chats[c] # NoChat \/ recanon.copy[c] # NoChat}
    /\ missed' = {c \in Chats : chats[c] # NoChat}
    /\ UNCHANGED <<chats, dirty, save, confirming, history, recanon, resolved, counters>>

Login ==
    /\ phase = "out"
    /\ phase' = "up"
    /\ UNCHANGED <<chats, dbVars, dirty, save, confirming, history, recanon, resolved,
                   counters, ghosts>>

Crash ==
    /\ phase # "load"
    /\ starts < MaxStarts
    /\ starts' = starts + 1
    /\ chats' = [c \in Chats |-> NoChat]
    /\ dirty' = FALSE
    /\ save' = [p \in Persisters |-> Asleep]
    /\ confirming' = {}
    /\ history' = [pc |-> "idle", chunk |-> {}]
    /\ recanon' = [pc |-> "idle", copy |-> [c \in Chats |-> NoChat]]
    /\ phase' = "load"
    /\ lost' = {}
    /\ missed' = {}
    /\ recountable' = IF history.pc = "insert"
                      THEN recountable \cup {canonicalizeChatID(RawChat[m]) : m \in history.chunk}
                      ELSE recountable
    /\ UNCHANGED <<dbVars, resolved, jobs, deletes, handed>>

\* Mutant: the chat list is taken from table chats as it is.
LoadWithoutReconcile ==
    /\ phase = "load"
    /\ chats' = [c \in Chats |->
          IF saved[c] # NoChat /\ saved[c] # Empty THEN saved[c] ELSE NoChat]
    /\ phase' = "up"
    /\ UNCHANGED <<dbVars, dirty, save, confirming, history, recanon, resolved, counters,
                   ghosts>>

\* purgeEmptyPhantomChats, loadChatsFromDB, and reconcileChatTimestampsFromDB with
\* its own save, before anything else runs.
loadState ==
    LET phantom(c) == saved[c] = Empty /\ \A r \in stored : r[1] # c
        rows   == [c \in Chats |-> IF phantom(c) THEN NoChat ELSE saved[c]]
        loaded == [c \in Chats |-> IF rows[c] = Empty THEN NoChat ELSE rows[c]]
    IN /\ phase = "load"
       /\ chats' = [c \in Chats |->
             IF Newest(c) > Entry(loaded, c).ts
             THEN [Entry(loaded, c) EXCEPT !.ts = Newest(c)] ELSE loaded[c]]
       /\ saved' = IF chats' = loaded THEN rows ELSE Overlay(rows, chats')
       /\ phase' = "up"
       /\ UNCHANGED <<stored, dirty, save, confirming, history, recanon, resolved, counters,
                      ghosts>>

-----------------------------------------------------------------------------

Persist == PersistTick \/ \E p \in Persisters : PersistSnapshot(p) \/ PersistCommit(p)

HistoryStep == insertHistoryMessages \/ reconcileLIDChats \/ HistoryEnd

Next ==
    \/ \E m \in Msgs : ReceiveMessage(m)
    \/ \E r \in Rows : handleDeleteMessage(r)
    \/ \E c \in Chats : handleMarkRead(c)
    \/ \E c \in Chats : MarkReadReturns(c)
    \/ \E c \in Chats : ReadElsewhere(c)
    \/ Persist
    \/ \E chunk \in SUBSET Msgs : HistoryMetadata(chunk)
    \/ HistoryStep
    \/ \E c \in Lids : LearnLID(c)
    \/ SyncContactsWipe
    \/ \E contacts \in SUBSET Chats : SyncContactsRebuild(contacts)
    \/ Connected
    \/ RecanonCopy
    \/ RecanonReplace
    \/ \E c \in Chats : cappedEvict(c)
    \/ handleLogout
    \/ resetRuntimeState
    \/ teardownAndReinitStorage
    \/ Login
    \/ Crash
    \/ loadState

\* The worker's ticker and the commits go on; nothing obliges a message to arrive.
Fairness ==
    /\ WF_vars(PersistTick)
    /\ \A p \in Persisters : WF_vars(PersistSnapshot(p)) /\ WF_vars(PersistCommit(p))
    /\ WF_vars(HistoryStep)

Spec == Init /\ [][Next]_vars /\ Fairness

-----------------------------------------------------------------------------
(* Properties. *)

\* The maps of PersistedState, the rows of table chats and the locals of the callers
\* of persistState keep their types.
TypeOK ==
    /\ chats \in Snapshots
    /\ saved \in Snapshots
    /\ stored \subseteq Rows
    /\ dirty \in BOOLEAN
    /\ save \in [Persisters -> {Asleep, Due} \cup [pc : {"commit"}, snapshot : Snapshots]]
    /\ confirming \subseteq Chats
    /\ history \in [pc : {"idle", "insert", "reconcile", "persist"}, chunk : SUBSET Msgs]
    /\ recanon \in [pc : {"idle", "wiped", "due", "copied"}, copy : Snapshots]
    /\ resolved \subseteq Lids
    /\ phase \in {"load", "up", "closing", "wiped", "out"}
    /\ starts \in Nat /\ jobs \in Nat /\ deletes \in Nat
    /\ handed \subseteq Rows
    /\ recountable \subseteq Chats /\ lost \subseteq Chats /\ missed \subseteq Chats

\* Redelivery, history sync, merges, stale saves and restarts never make a chat count
\* a message twice (main_test.go:293 and 352): it has at most as many unread messages
\* as WhatsApp has handed over under its ids.  Only a message that was deleted, or that
\* a crash cut out of a history sync after its metadata, can be counted again.
NoDoubleCount ==
    \A c \in Chats :
       chats[c] # NoChat /\ Ids(c) \cap recountable = {} =>
          chats[c].unread <= Cardinality({r \in handed : r[1] \in Ids(c)})

\* Every stored message belongs to a chat of the list that is at least as recent, after
\* any restart, merge or overtaken save; what eviction or recanonicalizeState has set
\* back comes back with the next start.
MessagesAreListed ==
    phase = "up" => \A r \in stored : Listed(r) \/ r[1] \in lost \/ canonicalizeChatID(r[1]) \in lost

\* A new message moves its chat in table chats, whatever the persist worker was doing
\* when it set persistDirty, unless the process ends or the chat is set back or merged.
\* Three races can miss it: the message comes while a history sync suppresses the flag,
\* a save with an older snapshot commits after a newer one, or the chat list outlives
\* a logout.
TimestampsGetSaved ==
    \A c \in Chats : \A t \in 1 .. MaxTs :
       [](phase = "up" /\ chats[c] # NoChat /\ chats[c].ts >= t
             => <>(\/ saved[c] # NoChat /\ saved[c].ts >= t
                   \/ phase # "up" \/ c \in missed
                   \/ chats[c] = NoChat \/ chats[c].ts < t))

\* Not kept by the code (README, "Disagreements"):
\* backend/messages.go:1060: "persistState is called after the API calls complete so
\* we don't flush the zeroed unread count before WhatsApp confirms it".  The save of the
\* worker, due for another message, does not wait for that.
ReadSavedAfterConfirmation ==
    [][\A c \in confirming :
          /\ save["worker"].pc = "commit" /\ save'["worker"] = Asleep
          /\ save["caller"] = Asleep
          /\ saved[c] # NoChat /\ saved[c].unread > 0 /\ saved'[c] # NoChat
          => saved'[c].unread > 0]_vars

\* Not kept by the code (README, "Disagreements"):
\* backend/server.go:716: "Logout wipes all in-memory state and storage, so the next QR
\* login is a first login again".
LogoutWipesChats == phase = "out" => \A c \in Chats : chats[c] = NoChat

=============================================================================
