# WhatZap: verification project

WhatZap is a terminal client for WhatsApp. It is two programs: a **backend**
(`src/internal/backend`, Go, one process) that holds the WhatsApp session through the
library *whatsmeow*, keeps an archive in SQLite and serves HTTP and a WebSocket on
localhost; and a **TUI** (`src/internal/tui`, Bubble Tea, any number of them) that talks
to it. This directory holds TLA+ models of the parts whose correctness depends on the
order in which things happen, the TLC runs that check them, and proofs for TLAPS.

Paths are relative to the repository; `backend/…`, `store/…`, `tui/…` abbreviate
`src/internal/backend/…` and so on.

1. [Inventory](#1-inventory)
2. [Modules](#2-modules)
3. [Runs](#3-runs)
4. [Disagreements](#4-disagreements)
5. [Proofs](#5-proofs)
6. [Not modelled, and why](#6-not-modelled-and-why)
7. [Plan](#7-plan)
8. [Running it](#8-running-it)

---

## 1. Inventory

| Component | State | Operations | Hard behaviour | What makes it correct |
|---|---|---|---|---|
| **Message archive** (`store/messages.go`, `backend/messages.go`) | tables `messages`, `messages_fts`, `fts_backfill_meta` | upsert (live, history, own), receipts, edit, delete, the resumable backfill of the index, purges at start | one edit is four statements without a transaction; the backfill reads a page and inserts it later; crashes between statements | a hit is a stored message with its present text; no stored text is unsearchable for good; receipts only rise |
| **Chat list** (`backend/state.go`, `backend/contacts.go`, `store/chats.go`) | `App.state.Chats`, table `chats`, `persistDirty` | live message, history sync, mark read, contact sync, recanonicalization, persist worker, eviction, logout, load | copies taken under the lock and used after it; two saves with snapshots of different age; a flag suppressed by history sync | nothing is counted twice; what is stored is listed; what changed is saved |
| **Session** (`backend/server.go`, `backend/events.go`) | `started`, `connected`, `connState`, `lastQR`, whatsmeow's client and device | `/start`, Connect, QR codes, connection events, logout, shutdown | Connect and the QR channel run in goroutines; events arrive in between | one Connect at a time; a state that makes `/start` wait has something to wait for |
| **WebSocket hub** (`backend/server.go`, `backend/types.go`) | `wsClients`, a queue per client, the snapshot for a late joiner | register, snapshot, broadcast, write, remove | state changes and their broadcasts are separate steps; bounded queues drop | a TUI learns of a session that is up, whenever it joins |
| **Permissions** (`backend/contacts.go`, `backend/state.go`, `backend/server.go`) | tables `chat_permissions`, `whitelist_default`; `lidCache`, the migration's queue | decide about one or all, rename, insert on first message, move from lid to phone number, backup and restore over a logout, the check of a send | the check is two queries, the migration three statements, the record of a newcomer a goroutine per message; logout wipes the disk while the only copy is in memory | a request passes only if its chat was allowed since it was made; a logout keeps the whitelist; the user's names stay |
| **Request handlers** (`backend/messages.go`, `forward.go`, `poll.go`, `pollvote.go`, `media.go`) | none of their own | send, file, reaction, typing, forward, poll, vote, edit, delete | checks and calls of WhatsApp in a fixed order, while the connection, the whitelist, the message or the account changes; calls whose answer is lost | nothing is done to a chat that was not allowed; archive and WhatsApp agree; each request is answered |
| **Pins and archived chats** (`backend/pins.go`, `backend/archive.go`, `store/chatflags.go`, `tui/pin.go`, `tui/archive.go`) | two tables of ids, `flagsResynced`; the TUI's list | app-state events, one resync with "keep only", requests, `GET /chats` | three goroutines write the tables; a resync prunes by an old download; answers overtake each other | tables and list follow the phone |
| **Session token, presence** (`backend/server.go`, `backend/presence.go`, `tui/main.go`, `tui/api.go`) | the file, `apiToken`, `sessionPID`; `showOnline` | launch, spawn, probe, register, restart, quit; grace period, rotation; presence | file and memory are written one after the other; processes end at any point; a presence is sent after the lock is released | a replaced token opens nothing; the next TUI gets in; nobody is shown online against the setting |
| **TUI connection** (`tui/ws_event.go`, `tui/update.go`, `tui/api.go`) | `x.ws`, `x.wsCh`, `wsDisconnected`, `status`, `sessionReady` | open, read, lose, reopen, the keys of the start-up screen | commands are goroutines whose messages carry no identity | one socket, events in order, never gives up |
| **TUI message list** (`tui/update.go`, `tui/composer.go`, `tui/ws_event.go`, `tui/sidebar.go`, `tui/cachebound.go`) | `x.msgs`, placeholders, `loadingOlder` | open, older page, window around a hit, send, echo, receipt, eviction | pages, events and answers come in any order, under one id or two | every message once; no text lost; no holes |
| **TUI composer** (`tui/input.go`, `tui/input_modes.go`, `tui/composer.go`, `tui/commands.go`) | text, drafts, quote, edit, attachment, pick modes, the armed send | typing, paste, Enter, picks, emoji, files, clipboard, permission commands, moving between chats | Enter sends 140 ms later; a clipboard read or an answer comes when another chat is open | text stays in its chat and is not lost; a locked chat gets nothing; a paste is one message |
| **TUI polls** (`tui/poll.go`, `tui/poll_vote_ui.go`, `tui/poll_votes.go`) | the form, the vote panel, votes counted out of the list | make, send, vote, withdraw, count, explain | the rules exist twice; the panel is a copy; answers cross | what is sent is taken; a card counts everybody's latest vote |
| **TUI sidebar** (`tui/sidebar.go`, `tui/archive.go`, `tui/identity.go`) | tab, search, highlight, window, the cached people | keys, answers that re-sort, invalidation | the highlight is an index into a list that moves | it stays on its chat and in the window; the cache is fresh |
| **TUI panels** (`tui/pickers.go`, `tui/picker/`, `tui/confirm_dialog.go`) | eight panels, the configuration in memory and on disk | open, move, preview, choose, close, save | panels pile up; a save in the middle of a preview | every item can be reached; a preview leaves no trace |
| **Locks of the backend** | `dbLifecycleMu`, the one SQLite connection, `App.mu` | every handler | lock order across three resources | no deadlock |
| **Message conversion** (`internal/whatsapp`) | none | payload → row | – | pure functions |
| **Rendering, themes, sound, image art; logs; commands, scripts** | – | – | – | functions of the rest, or observers |

How they interact. whatsmeow's event handler (`bindEvents`) and the HTTP handlers are
goroutines of the backend. Both change memory under `App.mu` and the database through a
single SQLite connection, so that a statement or a transaction is atomic, and the
sequence of two is not. The persist worker copies memory to the database every few
seconds. Whatever changes is broadcast to the TUIs after the lock is released; a TUI that
joins late is sent a snapshot. The TUI's `Update` is single-threaded, but everything it
waits for (dialling, reading the socket, a POST, a timer) is a goroutine that sends it a
message.

The hazards, each at its line and with the properties aimed at it, are in `PROJECT.json`.

---

## 2. Modules

| Module | What it models |
|---|---|
| `MessageStore` | the archive: every writer of `messages` and `messages_fts`, crashes, logout |
| `ChatState` | the chat list in memory and in table `chats` |
| `Session` | the session of one whatsmeow client, and the WebSocket hub |
| `Whitelist` | abstract: who may be written to, and what a request that passes can rely on |
| `Permissions` | the tables, goroutines and logout that implement `Whitelist` |
| `Requests` | the request handlers as programs of checks and calls |
| `ChatFlags` | pins and archived chats: phone, tables, resync, the TUI's list |
| `TuiLink` | the TUI's end of the WebSocket and its start-up screen |
| `TuiSession` | TUI processes, the backend they share, the token, the presence |
| `TuiMessages` | the list of messages of one chat, its pages, sends and events |
| `TuiPolls` | the poll form, the vote panel and the card |
| `TuiScreen` | three variables that the next two share: the open chat, the mode, the focus |
| `TuiComposer` | what the user does to write to a chat |
| `TuiSidebar` | the list at the left |
| `TuiPanels` | the panels over the screen, and the pure layouts the arrow keys move in |
| `Lists` | what is left of a list when a loop keeps some of its items, in two forms |
| `BackendProofs` (of `Session`, `MessageStore`, `ChatFlags`), `ChatStateProofs`, `PermissionsProofs`, `RequestsProofs`, `TuiShellProofs` (of `TuiLink`, `TuiSession`, `TuiSidebar`), `TuiMessagesProofs`, `TuiInputProofs` (of `TuiComposer`, `TuiPanels`, `TuiPolls`), `ListsProofs` | theorems, and the lemmas on lists they share, see [Proofs](#5-proofs) |
| `MCMessageStore`, `MCChatState`, `MCPermissions`, `MCRequests` | small instances for TLC |
| `MCBackend`, `MCTuiShell`, `MCTuiInput` | two or three modules in one run: a behaviour is about one of them, chosen by `part` in its first state, so that the state spaces add up and do not multiply |

Names of operators are the names of the functions they model. An action that stands for
part of a function is named for what the part does. `PROJECT.json` gives the lines.
Definitions marked *mutant* in a comment (`replaceRow`, `LoadWithoutReconcile`, …) are
not part of a model: each is a plausible error in the definition after it, kept to show
that a run would notice. The modules of the backend, `TuiComposer` and `TuiPanels` have a
type invariant (`TypeOK`, or with the module's prefix where modules are extended together);
it documents the variables, and the theorems start from it. For the others the inductive
invariant in the proof module says what the variables hold. No run lists a type invariant.

### MessageStore

State: `messages` (a row or `NoRow` for each primary key), `fts` (the index as a set of
⟨key, text⟩), `watermark` (`fts_backfill_meta`), the statement `loadState` is at (`boot`),
the goroutine of the backfill (`backfill`: its statement, `lastRowID`, the page it holds)
and, for each of the two goroutines that edit, where it is in `editMessageInDB` (`edit`).

A payload is one of the texts `ExtractSearchableText` can return, `NoText`, or `Control`
(a protocol message that older builds stored). A row's rowid is the one SQLite gives a
table without AUTOINCREMENT: the largest plus one, so a deleted last row's number comes
back. `upsertMessage` is the transaction of `upsertMessageTx` with what it does to the
index; `ReceiveMessage`, `HistoryMessage` and `SendMessage` are its callers.
`editMessageInDB` is four statements: read, `EditUpdate`, `EditUnindex`, `EditIndex`.
`BackfillFTS` is `BackfillStart` (read the watermark), `BackfillScan` (a page, outside
any transaction), `BackfillInsert`, `BackfillMark` (the watermark), `BackfillEnd`.
`Crash` may come at any moment; `Logout` empties the database while editors may be
between two statements. `Init` has any set of legacy rows without an index.

`torn`, `contended` are history variables: which messages a crash cut in mid edit, and
which had two writers of their index entry at once. They exist to say precisely what the
properties excuse.

### ChatState

State: `chats` (`App.state.Chats`), `saved` (table `chats`), `stored` (keys of table
`messages`), `dirty`, `save` (for each caller of `persistState`: asleep, due, or holding
a snapshot that it has yet to commit), `confirming` (chats marked read here whose call to
WhatsApp is still out), `history` (phase and chunk of a history sync), `recanon` (phase
and copy of `handleSyncContacts`/`recanonicalizeState`), `resolved` (lids whose phone
number is known), `phase` (process and logout).

A chat is its newest timestamp and its unread count. One critical section of `App.mu` or
one transaction is a step. `PersistTick` clears `persistDirty` before `PersistSnapshot`
copies the list, as the worker does; `PersistCommit` writes the copy with INSERT OR
REPLACE, so it never removes a row. `HistoryMetadata`, `insertHistoryMessages`,
`reconcileLIDChats`, `HistoryEnd` are the four parts of `applyHistorySync`.
`RecanonCopy`/`RecanonReplace` are the copy and the overwrite of `recanonicalizeState`.
`handleLogout`, `resetRuntimeState`, `teardownAndReinitStorage` and `Login` are the parts
of a logout that touch the list. `Crash` then `loadState` restart from the tables.

History variables: `handed` (received messages that WhatsApp has handed over),
`recountable`, `lost`, `missed` – the three excuses the properties name.

### Session

State: `started`, `connected`, `connState` (`"idle"` is the empty string of the code);
`start`, how far the one caller of `startSession` that holds `startMu` is; `calls`,
goroutines inside `Client.Connect`; whatsmeow's `link`, `qr` channel and whether the
device is `paired`; `events`, not yet delivered, counted by kind and delivered in any
order; `saying`, the "ready" announcements that handlers are about to broadcast; for each
socket its place in `handleWS` (`ws`), its `queue`, the `snapshot` it is about to be
written and the newest "ready" it was `told`.

The hub distinguishes only "ready" envelopes, numbered by the time the session came up;
every other event is `Other` and matters because it takes a place in the queues.
`handleWSSnapshot` and `handleWSWrite` are separate since the snapshot is written past the
queue, after the lock is released. whatsmeow (`Scanned`, `Authenticated`, `Drop`,
`Reconnect`, `Unlinked`, `Sends`) is external: it is modelled from how the backend uses it
and may do any of these whenever the connection is in the right state.

### Whitelist and Permissions

`Whitelist` knows only who is allowed, the default, a decision on its way from a lid to
its phone number, and the requests under way; a request is let through only if its chat
was allowed at some moment since the request was made. That is the most that two queries
can promise, and it is what the handlers rely on.

`Permissions` has the two tables, `lidCache`, the queue and the worker of the migration
(`migrateRead`, `migrateWrite`, `migrateDelete` are its three statements), the goroutines
of `upsertPermission` that `upsertMessageTx` starts (each captures the name it has read
and the store it was started on), and `handleLogout` step by step: it closes the gate,
copies the tables to memory (each query may fail), wipes and reopens the store (which may
fail), writes the copy back. `isChatAllowed` and `loadDefaultAllowed` are the two queries
of a check. `Crash` is possible everywhere.

Refinement (`ImplementsWhitelist`): `allow` is what the tables say, or what the copy in
memory says while logout holds the only one; `moving` is the row that the worker holds;
a request between its two queries is open. Every step of `Permissions` is a step of
`Whitelist` or leaves it unchanged.

### Requests

A request is an operation, a body and the list of steps it still has to do (`todo`); an
operator per handler gives the list, in the order of the code, and an action per step
does it: `connectedClient`, `isChatAllowed`, `resolveForward`, `call` and so on. A step that
fails answers with its status. `call` is a call of WhatsApp under `waCallCtx`: it is
carried out or not, and independently its answer comes or the context runs out. The pure
checks of files, polls, votes and forwards are operators over small records.

`sure` is a history variable: messages about which no two requests overlapped and no
answer was lost; about the others archive and WhatsApp may differ, and do.

### ChatFlags

`phone` is WhatsApp's app state, `table` the two tables, `queue` the events between them,
`job` the event goroutine and the request goroutine, each possibly between the two writes
of an archive (`Apply`, `Unpin`); `resync` goes through download (`Fetch`, `Replay`),
`PrunePins` and `PruneArchives`. `notices`, `gets` and `list` are the TUI's copy:
`GET /chats` reads pins and archives in two queries (`Ask`, `ReadArchives`), and its answer
replaces the list. `late`, `outrun` and `silent` are history variables for the three
excuses: a chat written after the last event that could correct it, an older answer that
came last, a resync that failed half way.

### TuiSession

TUI processes in the order they start, each at a step of `Main`: read or create the token
(`Launch`, `CreateToken`), find or spawn a backend (`EnsureBackend`, `Spawn`, `Probe`),
`Register`, run, `/restart`, quit or die. The backend's ticker decides, writes and swaps
(`Tick`, `RotateWrite`, `RotateSwap`). A logout wipes the file. `sendOwnPresence` is two
steps: the setting is read under the lock (`SyncPresence`, `Connect`), and sent after it.

### TuiLink

State: the fields of the Bubble Tea model that decide what the start-up screen and the
reconnect do, each connection (`conn`, `sent`, `buf`), the commands under way (`dials`,
`readers`, `posts`, `ticks`, `splash`) and the messages they will deliver (`opened`,
`failed`, `read`, `ended`). A message does not say which connection it is about unless the
code's message does: `read` holds the event, `ended` only a number.

### TuiMessages

The archive of one chat (`stored`), the list the TUI shows (`msgs`), `GET`s that are asked,
answered and handled at three different moments (`ask`: a first page, an older page, a
window around a search hit), events between the backend and `Update`, and each send with
its two sides: what the handler in the backend has done (`job`) and what the TUI knows
(`tui`). A message may get the id that the TUI chose or another one. `Show` trims the list
as `boundCaches` does after every `Update`. `sort.Slice` is not stable, so `byTime` is the
set of all orders it may leave. `holes` and `gone` are history: why rows may be missing, and
which texts the user gave up.

### TuiPolls

The form (`form`), the poll on its way, the panels (`panel`, a copy of the list and of the
user's earlier vote), votes under way, and the rows of the chat. `CleanPollDraft` and
`CleanPoll` are the two copies of the rules, one of the TUI, one of the backend.
`CollectPollVotes` and `PollVoteNote` are the card and the lines under it. Options and rows
that a loop drops are dropped by `Within` (`Lists`), which the prover can unfold and TLC
evaluates once per list.

### TuiScreen, TuiComposer, TuiSidebar, TuiPanels

`TuiScreen` declares `active`, `mode` and `focused`, which composer and sidebar both read and
write; each of the two models the other's effect on them only as far as its own keys go.

`TuiComposer` abstracts a text to the set of chats it was typed in. The composer is one
record (`input`, the keys that wait in `inputBuf`, quote, edited message, attachment), as
in the code it is not per chat; `drafts` are. Enter arms a timer (`DeferComposerSend`), and
`TimerFires` is `composerSendMsg`, stale or current. An action is a key, a timer or a
message; helpers carry the names of the code's (`SaveDraft`, `ClearComposer`, …).

`TuiSidebar` has the list as the code computes it (`SidebarItems`, `Filtered`, from `recent`,
`pinned`, `archived` and the cached people), the highlight `sel` and the window `sideScroll`.
`EnsureVisible` is `ensureSideVisible`, `Resorted` is where `resortChats` puts the highlight.

`TuiPanels` has for each of eight panels the item it is at, the configuration in memory, what
is drawn (`icon`), the file, and the values previews put back. The first half of the module
is pure: where an arrow key leads in a grouped list, in columns, in the settings.

### How they fit together

`ChatState` and `MessageStore` describe the same database at two grains: `ChatState`
keeps of `messages` only the keys, `MessageStore` knows nothing of chats. `Requests` relies
on `Permissions` for what a check answers, and takes its steps on the archive as
`MessageStore` does; `TuiMessages` sees both from outside, as answers and events. `Session`
and `TuiLink` are the two ends of one WebSocket: what `Session` puts into a queue is what
`TuiLink` receives, and a socket that is `gone` in one is `PeerCloses` in the other.
`TuiComposer` and `TuiSidebar` share the open chat. They are checked apart; each assumes of
the others only that they may do anything at any moment. `Whitelist` is the interface that
makes one such assumption precise.

---

## 3. Runs

| Run | Instance | Properties | Shows |
|---|---|---|---|
| `archive_races` | one own message, two texts, 3 starts | `SearchTruthful`, `ReceiptNeverRegresses` | every writer works on one index entry at once, across crashes and logouts: a hit tells the truth except where two writers overlapped or a crash cut one; a receipt never falls |
| `archive_pages` | two messages, page size 1, 2 starts | `NothingSkipped`, `EventuallySearchable` | the watermark never passes an unindexed text; each stored text becomes searchable |
| `chats_merge` | one person with lid and phone number, one message, 2 starts | `MessagesAreListed` | a stored message stays reachable from the chat list through merges, overtaken saves, recanonicalization and restarts |
| `chats_saved` | one chat, two messages, a deletion, 2 starts | `NoDoubleCount`, `TimestampsGetSaved` | no message counts twice; a change reaches the table |
| `backend` (`MCBackend`) | session: two sockets, room for one, queues of one. Flags: one chat, one change on the phone, one request, two connections, two starts, two `GET`s at once | `ReadyReachesEveryClient`, `NoSecondConnect`, `ConnectIsInFlight`; `FlagsFollowPhone`, `ListFollowsFlags` | the announcement of a session that is up reaches each TUI; one Connect at a time; what `/start` waits for exists. Tables and list follow the phone through resyncs and restarts |
| `permissions` | one person with lid and phone number, one request, two inputs, one logout, one crash | `LogoutKeepsWhitelist`, `UserNameKept`, `ImplementsWhitelist`, `LidRowMoves` | `Permissions` implements `Whitelist`; decisions survive a logout, names of the user survive messages, a lid's row moves |
| `requests` | two chats, two requests at once, one new and one old message, one change of connection or whitelist | `DeniedIsUntouched`, `ArchiveAgrees`, `EveryRequestIsAnswered` | what WhatsApp was made to do, what the archive says and what the caller hears fit together |
| `tui_messages` | two archived messages, one to come, one to be sent; pages of one, a cap of three; two `GET`s at once | `ListedOnce`, `NoTextLost`, `NoHoles` | every message once; no text lost; holes have one of six causes |
| `tui_polls` | two or three options, three votes of two people, three rows kept | `SentIsTaken`, `CardCountsEveryone`, `NotesAddUp` | the backend takes what the panels send; card and lines tell the same story |
| `tui_shell` (`MCTuiShell`) | three connections with `r` once; two TUIs, four tokens, one logout, one restart; three chats and two people in a window of one or two rows | `OneSocket`, `EventsInOrder`, `KeepsTrying`; `RetiredStaysRetired`, `FileOpensBackend`, `HiddenByDefault`; `ContactsAreFresh`, `HighlightIsDrawn`, `HighlightSticks` | connection, token and sidebar keep their promises |
| `tui_input` (`MCTuiInput`) | two chats, one thing at hand; two panels open at once, groups of one and three, one save | `TextStaysInItsChat`, `DraftsKept`, `LockedChatGetsNothing`, `PasteIsOneMessage`; `EveryItemIsReachable`, `PreviewIsUndone` | text goes where it was typed and nowhere else; each item can be reached, a preview leaves no trace |
| `tui_link_gives_up` | two connections, one event | `NeverGivesUp` | violated, see below |

**Bounds.** Each counter that the code leaves unbounded is capped in a guard and named
`Max…`. Why they suffice:

* A key of the archive is independent of the others except for rowids and the page
  boundary. One message with both editors, the backfill, deliveries and a deletion has
  every overlap of writers (`archive_races`); two messages with pages of one have a row on
  either side of the watermark and a rowid used twice (`archive_pages`).
* A chat interacts with another only through the lid/phone-number merge; `chats_merge` has
  exactly that pair. One chat with two messages of different timestamps has an older and a
  newer snapshot to be committed in the wrong order. A chat's flags do not depend on
  another chat's at all.
* Two calls of Connect are the least that violates "one at a time"; two sockets with room
  for one make the cap matter, queues of one make a full queue easy. Two sockets do not
  interact otherwise, and the theorems below have no bound.
* A decision, a migration and a logout each touch a lid and its number; two inputs let the
  user decide and a message arrive, in any order with the worker's three statements.
* Two requests overlap in every pair of handlers; a third would not see more of a message
  than the two.
* Three connections let an old end be mistaken for that of a connection which in turn is
  replaced. Two TUIs are the least that can follow each other, or live at once; four tokens
  allow two rotations.
* Pages of one row over two archived rows have a page boundary, a row older than the page,
  and with a cap of three a list that is trimmed. `MaxMoves` is one for receipts, leaving the
  chat and clearing together: each is combined with every send, page and event, not with
  each other.
* Polls of two and three options are at both ends of the rules (`MaxPollOptions` is 3); a
  limit of one, of two and of any number are different branches.
* One thing at hand (`MaxAtHand`) is enough for the properties of texts, which no two of
  quote, edit, attachment and pick share; the run with two passes as well and takes twice as
  long.
* A window of one and of two rows over three chats scrolls both ways, with and without the
  footer.

**Several parts in one run.** `backend`, `tui_shell` and `tui_input` hold modules that do not
interact; `part` chooses one for each behaviour and the others stay in one initial state.
No property of a part could hold because of another part.

**Fairness.** `MessageStore`: weak fairness of `loadState`, of the backfill and of each
editor, which are goroutines that wait for nothing but the database. `ChatState`: weak
fairness of the persist worker's ticker, of each snapshot and commit, and of the steps of
a history sync that has begun. `Permissions`: weak fairness of the migration's worker.
`Requests`: weak fairness of each handler's next step, since calls of WhatsApp have a time
limit (`waCallTimeout`); this is what `EveryRequestIsAnswered` is about. Nothing obliges a
message, a request, a crash or a logout to happen. The other modules are checked for
safety only; `KeepsTrying` is an action property ("a step never leaves the TUI with
nothing under way").

**Deadlock.** Checked in `archive_pages`, `archive_races` and, of the session, in `backend`. Elsewhere the bounds, or the code
(`NeverGivesUp`), let a behaviour stop.

---

## 4. Disagreements

What a text of the repository says and the code does not do. The first is a run, and a
finding. The others are definitions marked "Not kept by the code" in their modules; add
the name under `INVARIANT` (or `PROPERTY`, when it has `[][…]`) of the cfg named here, and
TLC shows how it is violated.

* `NeverGivesUp` (`tui_link_gives_up`). A reconnect that fails while the chat screen is
  shown schedules no further attempt, although the top bar says it will
  (`tui/update.go:93`).
* `BackfillAddsOnlyMissing` (`archive_races.cfg`). `store/messages.go:520` promises that the
  backfill indexes messages *missing* from the index, and its `INSERT OR IGNORE` is meant
  to ignore the others. An FTS5 table has no unique key, so nothing is ever ignored; the
  watermark is not moved by live deliveries, so the backfill after a restart inserts them
  again (`:577`).
* `EditUnindexesRemovedText` (`archive_races.cfg`). `UpsertMessageFTS` "inserts or replaces", but
  returns at once for an empty text: a caption that an edit removed still finds its message
  (`store/messages.go:443`).
* `ReadSavedAfterConfirmation` (`chats_saved.cfg`). `backend/messages.go:1060` says the
  zeroed count is not saved before WhatsApp confirms. The persist worker, due for another
  message, saves it.
* `LogoutWipesChats` (`chats_saved.cfg`). "Logout wipes all in-memory state": a contact sync
  that began before puts its copy of the list back after the wipe (`backend/state.go:351`).
* `ReattachesToSomething` (`backend.cfg`). "Fall through and try again only if nothing is in
  flight": after the last QR code has expired nothing is, but `connState` is still
  `waiting-qr`, so that every later `/start` returns at once (`backend/server.go:349`).
* `BlacklistAllHolds` (`permissions.cfg`). README: "/blacklistall clears the whitelist
  entirely". The worker of the migration has read a lid's row before, and writes the old
  decision to the phone number after (`backend/state.go:1280`).
* `SlowUploadIsConfirmed` (`requests.cfg`). The TUI uses a client without a timeout "since
  150MB uploads over slow links can easily exceed" it; the server's `WriteTimeout`
  (`backend/server.go:65`) ends the connection first, and a file that was sent is reported
  as failed.
* `DropsOnlyStale` (`backend.cfg`). The resync drops what "the phone no longer has": also a
  pin that was set while it downloaded (`backend/pins.go:95`).
* `LiveTuiStaysIn` (`tui_shell.cfg`). A TUI that registers between the ticker's decision and
  the swap is locked out while it runs (`backend/server.go:299`).
* `OlderPageIsShown` (`tui_messages.cfg` with `Old = 4`, `LoadSize = 2`, `OlderSize = 2`).
  `boundCaches` cuts the oldest rows after every `Update`, the very rows an older page has
  just put in front; scrolling up stops there (`tui/cachebound.go:18`).
* `GoesWhereItWasMade` (`tui_input.cfg`). A quote, an edit or an attachment begun in one
  chat is kept when another is opened, and goes there.
* `TogglesTheHighlighted` (`tui_shell.cfg`). Alt+B during a search toggles another chat than
  the highlighted one (`tui/commands.go:25`).

Seen while modelling, with no text that says otherwise:

* Archive and chats: a receipt that comes before the send handler has stored the row is
  lost; a redelivery undoes an edit and brings a deleted message back.
* Session: a late joiner may be written an older state after a newer event, and a QR code
  that has expired; `/start` during whatsmeow's own reconnect reports `connect-failed`.
* Flags: a first resync that fails is never tried again in that process; one that fails
  between the two prunings tells nobody; the older of two `GET /chats` may come last and
  stay on the screen.
* Token: a logout wipes the file, so that `/restart` spawns a backend that ends at once, and
  a TUI started while the old backend lives is refused until the ticker rotates.
* Message list: a page that was read before an event replaces the list without it; a shown
  receipt can fall; after a reconnect the open chat is not fetched again; rows of one
  second at a page boundary are never paged in; a send whose answer timed out is not shown
  until the chat is loaded again.
* Composer: a send that is armed and a quick switch of chats send the draft of the other
  chat unasked; a clipboard read that comes late wipes what was typed meanwhile; a failed
  edit or caption is not given back; `clearChatComposer` keeps `editingMsgID` and two pick
  modes; Esc drops a text that starts with "@".
* Panels: the order in which panels get keys is not the order in which they are drawn; a
  save during a preview writes the preview; the logout dialog starts on "Yes".
* Sidebar: a send or a pin moves the highlight without `ensureSideVisible`, so that it may
  leave the window; Ctrl+K leaves the search filter in place; on the people tab the
  highlight is not re-anchored when people change.
* Polls: when the answers of two votes cross, the older one counts until an event sorts the
  list; a vote may be evicted before its poll is answered for; a failed send loses the form.

What the passing properties *excuse* is as informative as what they claim: `contended`
(two writers of one index entry), `torn` (a crash between the two statements of a
re-index), `lost` and `missed` (a chat set back by eviction or an older copy; a change
that no save will write), `overtaken` (an event replaces `connState` while Connect is
under way), `outrun` (an older answer came last), `late` and `silent` (a flag written after its last
event; a resync that failed half way), `strayed` (a token file that a logout wiped),
`sure` (messages no two requests overlapped on), `holes`, `gone` and `unsent` (texts and
rows), `mixed` (something saved in mid preview), `settled` (no list has changed since the
window was put right), `restarts` (a second socket opened with `r`). Each is a real
behaviour of the code; the property says that it is the only one.

---

## 5. Proofs

Each theorem holds for every value of the constants that satisfies the assumption of its
module. The assumptions are few, and TLC evaluates them on every run:

| Module | Assumed of the constants |
|---|---|
| `MessageStore` | finitely many messages; markers (`NoText`, `Control`, `NoRow`) are not texts or rows; pages are not empty |
| `ChatState` | finitely many chats and messages; a lid's phone number is a chat and no lid; a message has a chat and a timestamp above 0; `NoChat` is no chat |
| `Session` | finitely many sockets; cap, queue size and bounds are not 0 |
| `Permissions` | a lid is a person's id and its phone number another person's that is no lid; names of users and of messages differ, `NoName` is neither; `NoRow` is no row |
| `ChatFlags` | the bounds are numbers |
| `Requests` | the old message is none of the new ones; `home` is a chat |
| `TuiLink`, `TuiSession` | at least one connection, a buffer of at least one; TUIs are numbered from 1 |
| `TuiMessages` | sizes of pages, window and cap are not 0; the old messages are numbered from 1, messages to come and sends have other numbers, all below `Top` |
| `TuiPolls` | a poll has at least one option; at least two rows are kept; a vote names options or could not be decrypted |
| `TuiSidebar` | there is a chat; the order by name has everybody once; heights are not 0 |
| `TuiComposer` | finitely many chats, `NoChat` is none |
| `TuiPanels` | lists and groups are not empty |

Some of these say something of the program. That a phone number is never itself a lid is
what WhatsApp's two servers, `s.whatsapp.net` and `lid`, mean. That push names and names of
the user differ is what lets the model tell who gave a name; the code cannot tell either, so
that a name of the user which happens to be the person's push name follows the next one.
With a list of one row, the poll itself would be evicted by its first vote and no card drawn;
the code keeps 150.

The modules of theorems extend the modules they are about, three of them for several: those
keep their variables and definitions apart by their names, so that a theorem mentions one
module only. All proofs have one shape: the types (or an invariant that contains them), then
an inductive invariant that is stronger than the property, one step per action, and a last
step by PTL.

### BackendProofs: the session and the hub

* `TypeCorrect`: needs `TypeInv`, which adds that a session that is up has been announced
  (or a snapshot could announce number 0) and that a socket about to be written a snapshot
  has one. The cap on sockets is a fact about cardinalities: one more is registered only
  below the cap.
* `StartIsNotHeldOff`: `ConnectIsInFlight` is inductive given types. Every way a connect
  ends is a case of its own; the end of the QR codes is the one that needs the
  property's exception.
* `OneConnect`: `NoSecondConnect` says nothing of why a second call cannot begin. `ConnInv`
  does: so long as no event intervened, a Connect under way, or about to be, shows in
  `started` and `connState`, which is what `startSession` tests.
* `NewsArrives`: `ReadyReachesEveryClient` speaks of an empty queue; its proof must follow
  the announcement through every place it can be. `DeliveryInv`: for a socket that was
  shown the state or is about to be, the latest announcement is with the TUI, with the
  handler that has yet to broadcast it, in the queue, in the snapshot, or the queue was
  full once. `Bounded` adds that no envelope runs ahead of `announced`, so that hearing the
  latest one raises `told` to it and no further.

### BackendProofs: the archive

* `ArchiveTypeCorrect`: `ArchiveSpec => []ArchiveTypeOK`.
* `NeverSkips`: `ArchiveSpec => []NothingSkipped`. The property alone is not inductive: it says
  that an unindexed stored text lies beyond the *watermark*, but the watermark is about to
  jump to wherever the backfill's page ended. The invariant `WatermarkInv` speaks of the
  position that will become the watermark: an unindexed stored text that no edit excuses
  is `Ahead` – beyond the last row of the page in hand, or in the page and still to be
  inserted. It must also say that an editor about to re-index holds a text, not an empty
  body, or its last statement would leave the message without an entry.
  Then `BackfillScan` moves the position past exactly the rows it takes in hand,
  `BackfillInsert` indexes them, `BackfillMark` moves the watermark to the position.
* `ReceiptsOnlyRise`: `ArchiveSpec => ReceiptNeverRegresses`, one case per writer.
* `HitsAreTrue`: `ArchiveSpec => []SearchTruthful`. That an entry is true says nothing of the
  entries that are about to be written: the page in the backfill's hand, and the text an
  editor carries from its first statement to its last. `SearchInv` says, of a message that
  nobody contends for, that the page too holds only its present text and that an edit of
  it is the only one, finds no page with an entry of it, and leaves none behind once it has
  removed the old one (`OneEdit`). While the tables are being opened, nobody edits.

### BackendProofs: pins and archived chats

* `TablesFollowPhone`: `FlagsSpec => []FlagsFollowPhone`. The property is about the moment when
  all is done. `WillAgree` is about every moment from the download on: a flag that differs
  from the phone's, and was not written late, is one that somebody will still write: it is
  in an event not yet delivered (`Awaited`), with the goroutine (`InEvent`), or the resync
  will write or prune it (`InResync`). Each step that takes a change from one of these
  places puts it into the next or into the table.
* `ListFollowsTables`: `FlagsSpec => []ListFollowsFlags`. `ListInv`: when everything was told, the
  `GET` asked last has read the tables as they are, or an answer that came later was shown.

### ChatStateProofs

* `TypeCorrect`: `Spec => []TypeOK`. The work is in the operators: what a merge of several
  chats (`MergedChat`), a replacement of the list, a history chunk and a load return. The
  newest timestamp of a set is a maximum, which exists because there are finitely many
  messages.
* `EveryMessageIsListed`: `Spec => []MessagesAreListed`. The property survives a step
  because a chat only becomes more recent, except where `lost` says so. `Quiet` is what
  must be known besides: a history sync ends with its process, nobody holds a snapshot
  once the logout has begun to wipe, and after the wipe nothing is stored.
* `NothingIsCountedTwice`: `Spec => []NoDoubleCount`. The list is only one of five copies
  of a chat: the table, the snapshot of each save, and the copy of a recanonicalization
  may all become the list later. `CountInv` bounds the count in each of them (`CountedBy`)
  by what was handed over up to now, a number that only grows. Two chats that are merged
  take the larger count, and it fits as the merged chat has both ids (`FitsMoved`); a new
  message adds one to both sides (`FitsOneMore`); a history chunk is counted when its
  metadata comes, and handed over in the same step (`FitsChunk`). That a redelivery does
  not count is `Remembered`: what was handed over is stored, or about to be.

### PermissionsProofs

* `TypeCorrect`: `Spec => []TypeOK`, from `TypeInv`, which says what each record holds.
* `LogoutGivesBack`: `Spec => []LogoutKeepsWhitelist`. `LogoutInv` follows the decisions from
  the tables to the copy and back: until the backup the tables have every decision of the
  beginning, since no handler and no migration passes the closed gate (`shuttingDown`);
  then the copy has them; after the wipe nobody else writes to the new store, since every
  goroutine that still runs was started on an older one.
* `UserNamesStay`: `Spec => UserNameKept`. A goroutine of `upsertPermission` replaces only
  the name it has read, or none, and `TypeInv` says that it reads push names only; handlers
  bring names of the user; a logout gives back what it took.
* `Implements`: `Spec => ImplementsWhitelist`, the refinement. The initial states map to
  the abstract one, and every action is an abstract step or a stutter. The mapping
  (`allowBar`, `defaultBar`, `movingBar`, `askBar`) reads the decisions from the tables or,
  while a logout holds the only copy, from memory, and calls `moving` the row the worker
  holds. That the second query may answer with a default read later than the row is the
  hard step: `SeenInv` says that an open request has seen every decision that is in force
  for its chat, and the default too once it has found no row.

### RequestsProofs

A request's `todo` is a sequence that loses its head; what a handler has already done is
therefore how much of its plan is left. `EndOf` says that the rest is an end of the plan,
and the lemmas about sequences derive from the length which step comes next.

* `AlwaysConsistent`: `Spec => []RequestsInv`, which the other two need.
* `DeniedStaysUntouched`: `Spec => []DeniedIsUntouched`. `Gated`: a request whose chat was
  never allowed since it came still has the check before it (`GateAt`).
* `ArchiveFollowsWhatsApp`: `Spec => []ArchiveAgrees`. For a message in `sure`, the one request
  that is at work on it is `Before` its call of WhatsApp, where all three agree, or
  `After` it, where each operation leaves a definite difference that its last steps remove;
  with no request at work they agree.

### TuiShellProofs

* `NoSocketIsForgotten`, `EventsStayInOrder`, `AttemptsFollow` (`TuiLink`): `OneSocket`,
  `EventsInOrder`, `KeepsTrying`. Order is a fact about one reader: two commands that read the
  same channel could hand over their events either way. `OneStage` says that, before `r`,
  the dial, the opened socket, the reader, the read event, the end and the timer are one
  token that changes its place. `InOrderOf` orders what Update has handled, what was read
  and what the channel holds.
* `RetiredForGood`, `FileOpens`, `HiddenUnlessAsked` (`TuiSession`): `RetiredStaysRetired`,
  `FileOpensBackend`, `HiddenByDefault`. `TokensInv`: a retired token is neither in the file
  nor in the backend's memory nor the one about to be swapped in, also between the two
  writes of a rotation, where the file is ahead of memory. `PresenceInv` looks at the queue
  of presences on their way: the last one that was not overtaken carries the setting.
* `PeopleAreFresh` (`TuiSidebar`): `ContactsAreFresh`. Inductive: each action that changes what
  the list is made of clears `cache.valid`.
* `HighlightIsSeen`: `HighlightIsDrawn`. `RowsAreListed` comes first: the list that is shown is
  a sequence of chats and people without repetition, whatever filter, tab and archive view
  made it. Then `WindowInv` needs only arithmetic: `EnsureDraws` says that `EnsureVisible`
  ends with the highlight between the two ends of the window, for every place, window and
  list, and an action that changes a list without it clears `settled`.
* `HighlightStays`: `HighlightSticks`, an action property. `resortChats` looks the chat up
  again, and it is in the list once: the place it finds is the only one.

### TuiInputProofs

* `ComposerIsTyped`, `TextGoesHome`, `NoDraftIsLost`, `LockedStaysSilent`, `PasteStaysWhole`
  (`TuiComposer`): `ComposerTypeOK`, `TextStaysInItsChat`, `DraftsKept`, `LockedChatGetsNothing`,
  `PasteIsOneMessage`. `OwnText` is what makes the switch of chats safe: the text in the box
  and the keys that wait are the open chat's, and each draft its own chat's; it is kept
  because every switch goes through `SaveDraft` first, in each of the modes. `OverInv`
  excludes the emoji list without a chat, and anything over the chat while a paste comes in.
* `HighlightsAreOnItems`, `LookLeavesNoTrace` (`TuiPanels`): `PanelsTypeOK`, `PreviewIsUndone`.
  `Undoable` says of every moment what `PreviewIsUndone` says of the end: what is on disk is
  what is shown or, while a panel previews, what its Esc puts back. The highlights need
  arithmetic on groups: `GroupOffset` sums sizes, and an arrow key in any group leads to an
  item of the whole.
* `EveryItemIsReached`: `EveryItemIsReachable`, and `ArrowsLeadEverywhere`, which says the same
  of layouts of every size, where the property has those of up to twelve items and the three
  on the screen. `ReachIsAll`: if no proper set of items that has the first one is shut
  under the arrow keys (`Leads`), then each press adds an item until all are reached.
  `DownAndUp` is how a layout is shown to be of that kind: from an item some keys lead to one
  before it, so that the set has item 1; and an item is led to from one before it, so that
  no item is the first to be missing. `GroupsLead`, `ColumnsLead` and `SectionsLead` find the
  two keys in titled groups with a short last row, in one column and two, and where the
  selectors of the settings begin a row of their own.
* `WhatIsSentIsTaken`, `CardsCountAll`, `NotesSayWhatIsCounted` (`TuiPolls`): `SentIsTaken`,
  `CardCountsEveryone`, `NotesAddUp`. The invariant is `PollsInv`, of four parts. `MakingInv`
  has the backend's rules of whatever left the form: what `CleanPollDraft` lets pass,
  `CleanPoll` takes, since trimming again changes nothing. `VotingInv` has them of the ticks
  in the panel and of the votes under way. `CoverInv` says where a stored vote is: in the
  list, in an event, with an answer, or the list was cut off (`CutOff`), and then it was cut
  at the old end. So, at rest, the newest vote of each voter in the list is the newest
  there is. `NotesAddUp` is a fact about lists: what the notes say one after the other
  ends at the last row that can be read, which is what the card counts.

### TuiMessagesProofs

`IInv` contains the types, and that no message is in a list twice: in what is stored, shown,
or in an answer on its way.

* `ListedOnceHolds`: `ListedOnce`. `RealOnce`: a send's placeholder and the row of the archive
  have one ID or two, but no two sends share either, and an ID that is neither is nobody's.
  Each way into the list (echo, answer, page, window) replaces what has one of the IDs.
* `NoTextIsLost`: `NoTextLost`. `TextInv`: the text of a send that failed is in the composer
  while its chat is open, and in the draft when it is not; leaving and coming back carry it.
* `NoHolesHolds`: `NoHoles`. The property is about a moment when nothing is on its way.
  `HolesInv` is about every moment: behind each row that is shown, or that an event or an
  answer is going to bring, come only such rows (`Follow`), unless a cause is on record.
  `AnswerInv` says the same of a page that was read and not yet shown. The steps that cut
  the list at its cap keep it, since what is left of a list that is in order is its end.

  This proof found a cause that the run had not shown: a list that is cut while it is out of
  order, or while an older message is still to come, loses a row newer than one it keeps
  (`"cut"`). With one send and one message to come, a cap of three never met it. The model
  now records it (`CutShort`).

### ListsProofs

What the others need to know of lists: what `Kept` and `Within` leave, that they keep the
order and make nothing twice; the last places of a list; a recursive function of a loop
exists and takes its steps (`LoopRuns`). Nothing here is induction over data by a rule: that
a fact holds up to a number (`UpTo`) is shown of the least number where it would not.

### Only model-checked

* **Liveness** (`EventuallySearchable`, `TimestampsGetSaved`, `LidRowMoves`,
  `EveryRequestIsAnswered`): fairness and ENABLED are out of this prover's reach.
* `NeverGivesUp` is violated by the code, see above.

Every other property of a run is a theorem.

---

## 6. Not modelled, and why

* Statements that fail (a full disk, a corrupt database), except in a logout, and queries
  that return an error, except where a handler answers differently then.
* Group metadata, profile pictures, the contact table: text that no property is about.
* Of an event other than "ready", which one it is (`Session`).
* A second whatsmeow client after a logout, with late events of the first: `Session` has one.
* The locks themselves. A critical section, a statement or a transaction is one step, which
  is what the locks are for; that they are always taken in one order is not checked.
* In the TUI: mentions, the cursor in a text, the audio player, downloads, the marquee,
  the demo. They keep state that no other part reads.
* Rendering, themes, sound, image art, logs, scripts: functions of the state that is
  modelled, or observers of it.

---

## 7. Plan

1. **Logout in Session**: a second client, events of the first that come late, the stale
   QR code.
2. **Abstract specifications**: a `SearchIndex` (a map from messages to texts with one step
   per request) that `MessageStore` implements as long as nobody contends; an
   `Announcements` specification (a TUI's knowledge only grows towards the session's) that
   `Session` implements.
3. **Composition** of `Session`'s hub with `TuiLink`, and of `TuiComposer` with `TuiMessages`.
4. **Locks**: who holds `dbLifecycleMu`, the connection and `App.mu` while waiting for which.

---

## 8. Running it

```
tlc -workers 2 -config archive_races.cfg MCMessageStore.tla
tlc -workers 2 -config archive_pages.cfg MCMessageStore.tla
tlc -workers 2 -config chats_saved.cfg   MCChatState.tla        # likewise chats_merge
tlc -workers 2 -config backend.cfg       MCBackend.tla
tlc -workers 2 -config permissions.cfg   MCPermissions.tla
tlc -workers 2 -config requests.cfg      MCRequests.tla
tlc -workers 2 -config tui_messages.cfg  TuiMessages.tla
tlc -workers 2 -config tui_polls.cfg     TuiPolls.tla
tlc -workers 2 -config tui_shell.cfg     MCTuiShell.tla
tlc -workers 2 -config tui_input.cfg     MCTuiInput.tla
tlc -workers 2 -config tui_link_gives_up.cfg TuiLink.tla
tlapm BackendProofs.tla           # likewise each *Proofs.tla
```

Each run takes from one to four minutes, the proofs of a module up to a quarter of an hour.
