----------------------------- MODULE ChatFlags -----------------------------
(* Pinned and archived chats: flags that belong to WhatsApp.

   The tables chat_pins and chat_archives cache WhatsApp's app state, which
   the phone changes too (backend/pins.go, backend/archive.go,
   store/chatflags.go).  Three goroutines write them: whatsmeow's, with the
   events of the phone (events.go); the handler of POST /chats/pin or
   /chats/archive after SendAppState; and the one resync of the process, which
   downloads everything and prunes what it was not told of.  The list the TUI
   shows is a copy again: each "chats:loaded" starts a GET /chats whose answer
   replaces it, and nothing orders the answers.

   A chat id stands for its canonical form (canonicalizeChatID is modelled in
   ChatState).  WhatsApp itself is external.                                *)
EXTENDS Naturals, Sequences, FiniteSets

CONSTANTS
    Chats,      \* ids of chats
    MaxPhone,   \* bound: changes made on the phone
    MaxUser,    \* bound: requests of the user, to pin or archive
    MaxOnline,  \* bound: connections to WhatsApp
    MaxStarts,  \* bound: processes of the backend, the first included
    MaxGets     \* bound: GET /chats under way at once

ASSUME ChatFlagsAssumption ==
    {MaxPhone, MaxUser, MaxOnline, MaxStarts, MaxGets}
        \subseteq Nat

VARIABLES
    phone,      \* WhatsApp's app state
    table,      \* the tables chat_pins and chat_archives
    pushed,     \* app state events not delivered yet, oldest first
    job,        \* what the event and the request goroutine are doing
    resync,     \* the resync goroutine, with pinSeen and archiveSeen
    online, flagsResynced,
    synced,     \* the resync of this process succeeded
    late,       \* chats written after the last event that could correct them
    notices,    \* "chats:loaded" broadcast, not handled by the TUI
    gets,       \* GET /chats under way, oldest first
    list,       \* the flags of x.chats in the TUI
    outrun,     \* the list is an older answer than one it has shown before
    silent,     \* a resync failed after it had pruned the pins
    left        \* the bounds

tableVars == <<table, notices, late>>
listVars == <<gets, list, outrun>>
flagsVars == <<phone, pushed, job, resync, online, flagsResynced, synced, silent,
          left, tableVars, listVars>>

Flags == [pins : SUBSET Chats, archives : SUBSET Chats]
NoFlags == [pins |-> {}, archives |-> {}]
NoJob == [step |-> "idle"]
Change == [kind : {"pin", "archive"}, chat : Chats, on : BOOLEAN]

\* The set with the chat added or removed (setFlag).
Put(S, chat, on) == IF on THEN S \cup {chat} ELSE S \ {chat}

\* What WhatsApp makes of a change: an archived chat is no longer pinned.
After(flags, e) ==
    IF e.kind = "pin" THEN [flags EXCEPT !.pins = Put(@, e.chat, e.on)]
    ELSE [pins |-> IF e.on THEN flags.pins \ {e.chat} ELSE flags.pins,
          archives |-> Put(flags.archives, e.chat, e.on)]

\* Pinned in the list means pinned and not archived (handleChats).
Shown(flags) == [flags EXCEPT !.pins = @ \ flags.archives]

\* A sequence without its i-th element, the elements before it outrun.
Answered(s, i) ==
    [j \in 1..Len(s) - 1 |-> IF j < i THEN [s[j] EXCEPT !.passed = TRUE]
                             ELSE s[j + 1]]

-----------------------------------------------------------------------------
FlagsInit ==
    /\ phone \in {f \in Flags : f.pins \cap f.archives = {}}
    /\ table \in {NoFlags, [NoFlags EXCEPT !.pins = Chats]}
    /\ list = Shown(table)
    /\ pushed = <<>> /\ gets = <<>> /\ notices = 0
    /\ job = [g \in {"event", "request"} |-> NoJob] /\ resync = NoJob
    /\ online = FALSE /\ flagsResynced = FALSE /\ synced = FALSE
    /\ late = {} /\ outrun = FALSE /\ silent = FALSE
    /\ left = [phone |-> MaxPhone, user |-> MaxUser, connects |-> MaxOnline, starts |-> MaxStarts - 1]

\* The user pins, unpins, archives or unarchives on the phone, or a new
\* message brings a chat back from the archive.
PhoneChanges ==
    /\ left.phone > 0 /\ left' = [left EXCEPT !.phone = @ - 1]
    /\ \E e \in Change :
         /\ phone' = After(phone, e) /\ phone' # phone
         /\ e.kind = "pin" => e.chat \notin phone.archives
         /\ pushed' = Append(pushed, e)
    /\ UNCHANGED <<job, resync, online, flagsResynced, synced, silent,
                   tableVars, listVars>>

-----------------------------------------------------------------------------
(* applyPin and applyArchive, by the goroutine that calls them.              *)

\* An event that will write the flag is queued.
Awaited(field, chat) ==
    \E i \in DOMAIN pushed :
      /\ pushed[i].chat = chat
      /\ IF pushed[i].kind = "pin" THEN field = "pins"
         ELSE field = "archives" \/ pushed[i].on

\* Chats left with another flag than the phone's, and no event to correct it.
Astray(field, flags) ==
    {c \in Chats : /\ (c \in flags[field]) # (c \in phone[field])
                   /\ ~Awaited(field, c)}

\* One write of a flag (setFlag).
Write(field, chat, on) ==
    /\ table' = [table EXCEPT ![field] = Put(@, chat, on)]
    /\ late' = late \cup ({chat} \cap Astray(field, table'))

\* applyPin writes once; applyArchive writes the archive, and unpins the chat
\* in a second statement.  The last write ends in "chats:loaded" when a row
\* has changed: the broadcast only asks for another GET, so that it may be
\* taken together with the write.
Apply(g) ==
    LET e == job[g].change IN
    /\ job[g].step = "apply"
    /\ Write(IF e.kind = "pin" THEN "pins" ELSE "archives", e.chat, e.on)
    /\ IF e.kind = "archive" /\ e.on
       THEN /\ job' = [job EXCEPT ![g] = [step |-> "unpin", change |-> e,
                                          changed |-> table' # table]]
            /\ UNCHANGED notices
       ELSE /\ job' = [job EXCEPT ![g] = NoJob]
            /\ notices' = IF table' # table THEN notices + 1 ELSE notices
    /\ UNCHANGED <<phone, pushed, resync, online, flagsResynced, synced,
                   silent, listVars, left>>

Unpin(g) ==
    /\ job[g].step = "unpin"
    /\ Write("pins", job[g].change.chat, FALSE)
    /\ notices' = IF job[g].changed \/ table' # table THEN notices + 1
                  ELSE notices
    /\ job' = [job EXCEPT ![g] = NoJob]
    /\ UNCHANGED <<phone, pushed, resync, online, flagsResynced, synced,
                   silent, listVars, left>>

\* whatsmeow delivers one app state event after another; while a full
\* download holds its app state lock none is delivered.
Deliver ==
    /\ online /\ pushed # <<>> /\ job["event"] = NoJob
    /\ resync.step # "fetch"
    /\ job' = [job EXCEPT !["event"] =
                 [step |-> "apply", change |-> Head(pushed)]]
    /\ pushed' = Tail(pushed)
    /\ UNCHANGED <<phone, resync, online, flagsResynced, synced, silent,
                   tableVars, listVars, left>>

\* /pin and /archive of the TUI ask for what its list does not show yet.
togglePin(e) == e.kind = "pin" /\ e.chat \notin list.archives /\ e.on # (e.chat \in list.pins)
archiveChat(e) == e.kind = "archive" /\ e.on # (e.chat \in list.archives)

\* handlePinChat, handleArchiveChat: the change goes to WhatsApp, whose echo
\* is queued like a change of the phone, and is applied after that as well; a
\* failed SendAppState changes nothing.
Send ==
    /\ online /\ job["request"] = NoJob
    /\ left.user > 0 /\ left' = [left EXCEPT !.user = @ - 1]
    /\ \E e \in Change :
         /\ togglePin(e) \/ archiveChat(e)
         /\ phone' = After(phone, e)
         /\ pushed' = Append(pushed, e)
         /\ job' = [job EXCEPT !["request"] = [step |-> "apply", change |-> e]]
    /\ UNCHANGED <<resync, online, flagsResynced, synced, silent,
                   tableVars, listVars>>

-----------------------------------------------------------------------------
(* resyncChatFlags, once per process.                                        *)

\* events.Connected: a goroutine resyncs the flags the first time
\* (resyncChatFlagsOnce), and the TUI refetches.
Connect ==
    /\ ~online /\ online' = TRUE
    /\ left.connects > 0 /\ left' = [left EXCEPT !.connects = @ - 1]
    /\ flagsResynced' = TRUE
    /\ resync' = IF flagsResynced THEN resync
                 ELSE [step |-> "start"]
    /\ notices' = notices + 1
    /\ UNCHANGED <<phone, table, late, pushed, job, synced, silent, listVars>>

\* FetchAppState takes WhatsApp's flags of this moment; the events of changes
\* before it are superseded.
Fetch ==
    /\ resync.step = "start" /\ online
    /\ resync' = [step |-> "fetch", todo |-> phone, seen |-> NoFlags,
                  changed |-> FALSE]
    /\ pushed' = <<>>
    /\ UNCHANGED <<phone, job, online, flagsResynced, synced, silent,
                   tableVars, listVars, left>>

\* The full download replays the flags of the phone at that moment as events
\* with FromFullSync, which are written and collected in pinSeen, archiveSeen.
Replay ==
    /\ resync.step = "fetch"
    /\ \E field \in {"pins", "archives"} : \E c \in resync.todo[field] :
         /\ resync' = [resync EXCEPT !.todo[field] = @ \ {c},
                                     !.seen[field] = @ \cup {c}]
         /\ Write(field, c, TRUE)
    /\ notices' = IF table' # table THEN notices + 1 ELSE notices
    /\ UNCHANGED <<phone, pushed, job, online, flagsResynced, synced, silent,
                   listVars, left>>

\* The download ends.  After a failure nothing is dropped, and flagsResynced
\* stays: the next one is that of the next process.
Fetched ==
    \/ /\ resync.step = "fetch" /\ resync.todo = NoFlags
       /\ resync' = [resync EXCEPT !.step = "pins"]
       /\ UNCHANGED <<phone, pushed, job, online, flagsResynced, synced,
                      silent, tableVars, listVars, left>>
    \/ /\ resync.step \in {"start", "fetch"}
       /\ resync' = NoJob
       /\ UNCHANGED <<phone, pushed, job, online, flagsResynced, synced,
                      silent, tableVars, listVars, left>>
    /\ UNCHANGED <<phone, pushed, job, online, flagsResynced, synced, silent,
                   tableVars, listVars, left>>

\* Mutant: the download is not followed by a pruning.
KeepAll(field) == UNCHANGED <<table, late>>

\* keepOnlyFlags: what the download did not name is removed.
KeepOnly(field) ==
    /\ table' = [table EXCEPT ![field] = @ \cap resync.seen[field]]
    /\ late' = late \cup ((table[field] \ table'[field])
                           \cap Astray(field, table'))

PrunePins ==
    /\ resync.step = "pins"
    /\ KeepOnly("pins")
    /\ resync' = [resync EXCEPT !.step = "archives", !.changed = table' # table]
    /\ UNCHANGED <<phone, pushed, job, online, flagsResynced, synced, silent,
                   notices, listVars, left>>

\* The archives are pruned, or the database fails: then nobody is told of the
\* pins that are gone already.
PruneArchives ==
    /\ resync.step = "archives" /\ resync' = NoJob
    /\ \/ /\ KeepOnly("archives")
          /\ notices' = IF resync.changed \/ table' # table THEN notices + 1
                        ELSE notices
          /\ synced' = TRUE /\ UNCHANGED silent
       \/ /\ silent' = (silent \/ resync.changed)
          /\ UNCHANGED <<tableVars, synced>>
    /\ UNCHANGED <<phone, pushed, job, online, flagsResynced, listVars, left>>

Disconnect ==
    /\ online /\ online' = FALSE /\ left.connects > 0
    /\ UNCHANGED <<phone, pushed, job, resync, flagsResynced, synced, silent,
                   tableVars, listVars, left>>

\* The backend dies and is started again: the tables stay, goroutines and
\* memory go.
RestartBackend ==
    /\ left.starts > 0 /\ left.connects > 0
    /\ left' = [left EXCEPT !.starts = @ - 1]
    /\ online' = FALSE /\ flagsResynced' = FALSE /\ synced' = FALSE
    /\ job' = [g \in DOMAIN job |-> NoJob] /\ resync' = NoJob
    /\ silent' = FALSE
    /\ notices' = 0 /\ gets' = <<>> /\ outrun' = FALSE /\ late' = {}
    /\ UNCHANGED <<phone, table, pushed, list>>

-----------------------------------------------------------------------------
(* GET /chats in the TUI's goroutines.                                       *)

\* Mutant: a notice is dropped while a GET is under way.
AskUnlessAsking ==
    /\ notices > 0 /\ notices' = notices - 1
    /\ gets' = IF gets # <<>> THEN gets
               ELSE <<[pins |-> table.pins, archives |-> {},
                       read |-> FALSE, passed |-> FALSE]>>
    /\ UNCHANGED <<phone, table, late, pushed, job, resync, online,
                   flagsResynced, synced, silent, list, outrun, left>>

\* What the two queries of handleChats read.
pinnedChats == table.pins
archivedChats == table.archives

\* The TUI handles "chats:loaded" and starts a GET beside those under way;
\* handleChats reads the pins, and later the archives.
Ask ==
    /\ notices > 0 /\ notices' = notices - 1
    /\ Len(gets) < MaxGets
    /\ gets' = Append(gets, [pins |-> pinnedChats, archives |-> {},
                             read |-> FALSE, passed |-> FALSE])
    /\ UNCHANGED <<phone, table, late, pushed, job, resync, online,
                   flagsResynced, synced, silent, list, outrun, left>>

ReadArchives ==
    /\ \E i \in DOMAIN gets :
         /\ ~gets[i].read
         /\ gets' = [gets EXCEPT ![i].read = TRUE,
                                 ![i].archives = archivedChats]
    /\ UNCHANGED <<phone, pushed, job, resync, online, flagsResynced, synced,
                   silent, tableVars, list, outrun, left>>

\* An answer replaces the list (chatsMsg), whatever was asked after it.
Answer ==
    /\ \E i \in DOMAIN gets :
         /\ gets[i].read
         /\ list' = Shown([pins |-> gets[i].pins,
                           archives |-> gets[i].archives])
         /\ gets' = Answered(gets, i)
         /\ outrun' = gets[i].passed
    /\ UNCHANGED <<phone, pushed, job, resync, online, flagsResynced, synced,
                   silent, tableVars, left>>

-----------------------------------------------------------------------------
FlagsNext ==
    \/ PhoneChanges \/ Deliver \/ Send
    \/ \E g \in DOMAIN job : Apply(g) \/ Unpin(g)
    \/ Connect \/ Fetch \/ Replay \/ Fetched \/ PrunePins \/ PruneArchives
    \/ Disconnect \/ RestartBackend
    \/ Ask \/ ReadArchives \/ Answer

FlagsSpec == FlagsInit /\ [][FlagsNext]_flagsVars

-----------------------------------------------------------------------------
(* Properties.                                                               *)

\* The types of the state.
FlagsTypeOK ==
    /\ {phone, table, list} \subseteq Flags
    /\ pushed \in Seq(Change) /\ notices \in Nat
    /\ \A g \in DOMAIN job : job[g].step \in {"idle", "apply", "unpin"}
    /\ resync.step \in {"idle", "start", "fetch", "pins", "archives"}
    /\ late \subseteq Chats
    /\ {online, flagsResynced, synced, outrun, silent} \subseteq BOOLEAN

\* Once the first resync has succeeded and nothing is under way, both tables
\* say of a chat what the phone says, whatever the backend had missed while
\* it was down or lost in a crash between two writes - unless the handler or
\* the pruning wrote the chat after the last event about it.
FlagsFollowPhone ==
    /\ synced /\ pushed = <<>> /\ resync = NoJob
    /\ \A g \in DOMAIN job : job[g] = NoJob
    => \A c \in Chats \ late : \A field \in {"pins", "archives"} :
         c \in table[field] <=> c \in phone[field]

\* When the goroutines have told the TUI and every GET /chats is answered, in
\* order, the list shows the flags of the tables: a GET that reads between the
\* two writes of an archive, or between the two prunings, is followed by
\* another.  A resync that fails half way is the exception.
ListFollowsFlags ==
    /\ flagsResynced /\ notices = 0 /\ gets = <<>> /\ ~outrun /\ ~silent
    /\ \A g \in DOMAIN job : job[g].step \in {"idle", "apply"}
    /\ resync.step # "archives"
    => list = Shown(table)

\* Not kept by the code (README, "Disagreements"):
\* The resync "drops any local pin or archive the phone no longer has"
\* (pins.go:70): a pin it drops is not one the phone has, or the event that
\* brings it back is still to come.
DropsOnlyStale ==
    [][resync.step = "pins" /\ resync'.step = "archives"
       => (table.pins \ table'.pins) \cap Astray("pins", table') = {}]_flagsVars
=============================================================================
