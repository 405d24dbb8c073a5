----------------------------- MODULE Permissions -----------------------------
(***************************************************************************)
(* Who may be written to: the tables chat_permissions and                  *)
(* whitelist_default, every statement that changes them, and the check     *)
(* that a request to send makes.                                           *)
(*                                                                         *)
(* One SQLite connection serialises statements, not handlers: a check is   *)
(* two queries, the migration of a lid three statements, and the           *)
(* goroutines that upsertMessageTx starts run in any order.  Logout sets   *)
(* shuttingDown behind dbLifecycleMu, reads the tables into memory, wipes  *)
(* the disk and writes them back; the process may stop at any point.       *)
(***************************************************************************)
EXTENDS Naturals, FiniteSets

CONSTANTS
    Phones,       \* keys of chat_permissions: phone numbers and lids
    PNOf,         \* the phone number of each lid
    PushNames,    \* names that senders give themselves
    UserNames,    \* names that the user gives
    NoName,       \* the empty name
    NoRow,        \* no row of chat_permissions
    Requests,     \* requests to send that may be under way at once
    QueueSize,    \* capacity of lidMigrateJobs
    MaxInputs,    \* bound: messages stored, and whitelist and rename requests of the user
    MaxLogouts,   \* bound: calls of /logout
    MaxCrashes    \* bound: how often the process stops or the lid cache is cut to its cap

Lids == DOMAIN PNOf
Names == PushNames \cup UserNames \cup {NoName}
Row(a, n) == [allowed |-> a, name |-> n]
Rows == {NoRow} \cup [allowed : BOOLEAN, name : Names]

ASSUME PermissionsAssumption ==
    /\ Lids \subseteq Phones
    /\ \A l \in Lids : PNOf[l] \in Phones \ Lids
    /\ PushNames \cap UserNames = {} /\ NoName \notin PushNames \cup UserNames
    /\ NoRow \notin [allowed : BOOLEAN, name : Names]
    /\ QueueSize \in Nat /\ MaxInputs \in Nat
    /\ MaxLogouts \in Nat /\ MaxCrashes \in Nat

VARIABLES
    row, default,   \* chat_permissions; whitelist_default, FALSE when it has no row
    db,             \* a.db: the number of the open store, 0 when there is none
    shuttingDown,
    logout,         \* where handleLogout stands, and what it holds in memory
    known,          \* lids whose phone number whatsmeow's store knows
    cache,          \* lidCache: unset, none, found
    jobs,           \* lidMigrateJobs and the job that the worker is at
    notify,         \* state.Contacts[p].Notify
    ups,            \* goroutines running upsertPermission
    ask,            \* requests to send
    stores,         \* how many stores were opened, a number for the next
    left            \* what remains of the bounds

tables == <<row, default>>
lids == <<known, cache, jobs>>
mem == <<notify, ups>>
sys == <<db, shuttingDown, logout, stores>>
vars == <<row, default, db, shuttingDown, logout, known, cache, jobs, notify, ups, ask, stores, left>>

NoLogout == [at |-> "idle"]
Nobody == [p \in Phones |-> NoRow]
NoJob == [at |-> "idle"]

Allows(rows, def, p) == IF rows[p] = NoRow THEN def ELSE rows[p].allowed
Allowed(p) == Allows(row, default, p)

\* While logout holds the only copy, the copy counts.
Decided(p) == IF logout.at = "wiped" THEN Allows(logout.rows, logout.def, p) ELSE Allowed(p)

\* canonicalizeChatID: a lid counts as its phone number when the cache has
\* it.  Its first step, getPNForLID, is an action of its own.
Resolved(p) == p \in Lids => cache[p] # "unset"
Canon(p) == IF p \in Lids /\ cache[p] = "found" THEN PNOf[p] ELSE p

Idle == [state |-> "idle"]

\* History: a request under way remembers that its phone was allowed meanwhile.
Witness(rows, def) ==
    [r \in Requests |->
        IF ask[r].state \in {"row", "default"}
        THEN [ask[r] EXCEPT !.seen = @ \/ Allows(rows, def, ask[r].phone)] ELSE ask[r]]

\* A statement changes the tables.
Store(rows, def) == row' = rows /\ default' = def /\ ask' = Witness(rows, def)

\* withPermissionDB runs the statement now.
StoreOpen == ~shuttingDown /\ db # 0

Init ==
    /\ row = Nobody /\ default = FALSE
    /\ db = 1 /\ stores = 1 /\ shuttingDown = FALSE /\ logout = NoLogout
    /\ known = {} /\ cache = [l \in Lids |-> "unset"] /\ jobs = [queue |-> {}, at |-> NoJob]
    /\ notify = [p \in Phones |-> NoName] /\ ups = {}
    /\ ask = [r \in Requests |-> Idle]
    /\ left = [inputs |-> MaxInputs, logouts |-> MaxLogouts, crashes |-> MaxCrashes]

-----------------------------------------------------------------------------
(* What the user decides *)

Input == left.inputs > 0 /\ left' = [left EXCEPT !.inputs = @ - 1]

handleSetWhitelist(p, n, b) ==
    /\ StoreOpen /\ Input
    /\ Store([row EXCEPT ![p] = IF @ = NoRow \/ n # NoName THEN Row(b, n) ELSE [@ EXCEPT !.allowed = b]],
             default)
    /\ UNCHANGED <<sys, lids, mem>>

\* One transaction: the default, and every row.
handleSetWhitelistDefault(b) ==
    /\ StoreOpen /\ Input
    /\ Store([p \in Phones |-> IF row[p] = NoRow THEN NoRow ELSE [row[p] EXCEPT !.allowed = b]], b)
    /\ UNCHANGED <<sys, lids, mem>>

\* A rename of someone without a row makes one that denies.
handleSetName(p, n) ==
    /\ StoreOpen /\ Input
    /\ Store([row EXCEPT ![p] = IF @ = NoRow THEN Row(FALSE, n) ELSE [@ EXCEPT !.name = n]], default)
    /\ UNCHANGED <<sys, lids, mem>>

-----------------------------------------------------------------------------
(* What storing a message does on the side *)

\* The end of upsertMessageTx: the push name of a received message goes to
\* the contact, and a goroutine of its own records it.
upsertMessage(p, n) ==
    /\ Resolved(p)
    /\ Input
    /\ LET q == Canon(p) IN
       /\ notify' = IF n = NoName THEN notify ELSE [notify EXCEPT ![q] = n]
       /\ ups' = ups \cup {[id |-> left.inputs, phone |-> q, name |-> n, prev |-> notify[q], db |-> 0]}
    /\ UNCHANGED <<tables, sys, lids, ask>>

\* upsertPermission looks at shuttingDown and takes the handle...
upsertPermissionBegin(u) ==
    /\ u.db = 0
    /\ ups' = IF StoreOpen THEN (ups \ {u}) \cup {[u EXCEPT !.db = db]} ELSE ups \ {u}
    /\ UNCHANGED <<tables, sys, lids, notify, ask, left>>

\* Mutant: any name that was captured before may be replaced.
Recorded(old, u) ==
    IF old = NoRow THEN Row(FALSE, u.name)
    ELSE IF u.name # NoName THEN [old EXCEPT !.name = u.name] ELSE old

\* The row of its statement: a name is replaced while it is empty or the one captured last.
upserted(old, u) ==
    IF old = NoRow THEN Row(FALSE, u.name)
    ELSE IF u.name # NoName /\ old.name \in {NoName, u.prev} THEN [old EXCEPT !.name = u.name] ELSE old

\* ... and executes without dbLifecycleMu; a handle closed meanwhile fails.
upsertPermissionExec(u) ==
    /\ u.db # 0
    /\ ups' = ups \ {u}
    /\ IF u.db = db
       THEN Store([row EXCEPT ![u.phone] = upserted(@, u)], default)
       ELSE UNCHANGED <<tables, ask>>
    /\ UNCHANGED <<sys, lids, notify, left>>

-----------------------------------------------------------------------------
(* Lids *)

\* WhatsApp tells the phone number of a lid.
Learn(l) ==
    /\ l \notin known
    /\ known' = known \cup {l}
    /\ UNCHANGED <<tables, sys, cache, jobs, mem, ask, left>>

\* getPNForLID: what is found, or not found, is remembered.
getPNForLID(l) ==
    /\ cache[l] = "unset" /\ db # 0
    /\ cache' = [cache EXCEPT ![l] = IF l \in known THEN "found" ELSE "none"]
    /\ jobs' = IF l \in known /\ Cardinality(jobs.queue) < QueueSize
               THEN [jobs EXCEPT !.queue = @ \cup {l}] ELSE jobs
    /\ UNCHANGED <<tables, sys, known, mem, ask, left>>

\* cappedEvict, when the cache is over its cap.
Evict(l) ==
    /\ cache[l] # "unset"
    /\ left.crashes > 0 /\ left' = [left EXCEPT !.crashes = @ - 1]
    /\ cache' = [cache EXCEPT ![l] = "unset"]
    /\ UNCHANGED <<tables, sys, known, jobs, mem, ask>>

\* migrateLIDPermissions takes dbLifecycleMu and reads the row of the lid.
migrateRead(l) ==
    /\ jobs.at = NoJob /\ l \in jobs.queue
    /\ jobs' = [queue |-> jobs.queue \ {l},
                at |-> IF StoreOpen /\ row[l] # NoRow THEN [at |-> "read", lid |-> l, row |-> row[l]] ELSE NoJob]
    /\ UNCHANGED <<tables, sys, known, cache, mem, ask, left>>

migrateWrite ==
    /\ jobs.at.at = "read"
    /\ Store([row EXCEPT ![PNOf[jobs.at.lid]] = jobs.at.row], default)
    /\ jobs' = [jobs EXCEPT !.at.at = "written"]
    /\ UNCHANGED <<sys, known, cache, mem, left>>

\* Mutant: the row of the lid stays.
MigrateKeeps ==
    /\ jobs.at.at = "written"
    /\ jobs' = [jobs EXCEPT !.at = NoJob]
    /\ UNCHANGED <<tables, ask, sys, known, cache, mem, left>>

migrateDelete ==
    /\ jobs.at.at = "written"
    /\ Store([row EXCEPT ![jobs.at.lid] = NoRow], default)
    /\ jobs' = [jobs EXCEPT !.at = NoJob]
    /\ UNCHANGED <<sys, known, cache, mem, left>>

-----------------------------------------------------------------------------
(* The check of a request to send *)

Answer(r) == ask' = [ask EXCEPT ![r] = Idle]
Granted(r) == ask' = [ask EXCEPT ![r] = [state |-> "passed", phone |-> ask[r].phone]]

Begin(r, p) ==
    /\ ask[r] = Idle /\ db # 0 /\ Resolved(p)
    /\ ask' = [ask EXCEPT ![r] = [state |-> "row", phone |-> Canon(p), seen |-> Decided(Canon(p))]]
    /\ UNCHANGED <<tables, sys, lids, mem, left>>

\* isChatAllowed: the row decides, without one the default of a later query.
isChatAllowed(r) ==
    /\ ask[r].state = "row"
    /\ LET mine == row[ask[r].phone] IN
       CASE ~StoreOpen -> Answer(r)
         [] StoreOpen /\ mine = NoRow -> ask' = [ask EXCEPT ![r].state = "default"]
         [] StoreOpen /\ mine # NoRow /\ mine.allowed -> Granted(r)
         [] StoreOpen /\ mine # NoRow /\ ~mine.allowed -> Answer(r)
    /\ UNCHANGED <<tables, sys, lids, mem, left>>

\* Mutant: a missing row lets the request pass.
MissingRowPasses(r) ==
    /\ ask[r].state = "default"
    /\ IF StoreOpen THEN Granted(r) ELSE Answer(r)
    /\ UNCHANGED <<tables, sys, lids, mem, left>>

loadDefaultAllowed(r) ==
    /\ ask[r].state = "default"
    /\ IF StoreOpen /\ default THEN Granted(r) ELSE Answer(r)
    /\ UNCHANGED <<tables, sys, lids, mem, left>>

\* The call to WhatsApp ends, or no client is left to make it.
Finish(r) ==
    /\ ask[r].state = "passed"
    /\ Answer(r)
    /\ UNCHANGED <<tables, sys, lids, mem, left>>

-----------------------------------------------------------------------------
(* Logout, and the end of the process *)

\* dbLifecycleMu.Lock waits for the migration, which holds it for reading.
handleLogout ==
    /\ logout = NoLogout /\ ~shuttingDown /\ jobs.at = NoJob
    /\ left.logouts > 0 /\ left' = [left EXCEPT !.logouts = @ - 1]
    /\ shuttingDown' = TRUE
    /\ logout' = [at |-> "begun", was |-> row, wasDef |-> default]
    /\ UNCHANGED <<tables, db, stores, lids, mem, ask>>

\* Two queries, whose errors are not looked at: rows that were not read,
\* or the default, are missing from the backup.
backupPermissions(lost, defLost) ==
    /\ logout.at = "begun"
    /\ logout' = [at |-> "backed", was |-> logout.was, wasDef |-> logout.wasDef,
                  rows |-> [p \in Phones |-> IF p \in lost THEN NoRow ELSE row[p]],
                  def |-> default /\ ~defLost,
                  whole |-> lost = {} /\ ~defLost]
    /\ UNCHANGED <<tables, db, shuttingDown, stores, lids, mem, ask, left>>

resetRuntimeState ==
    /\ logout.at = "backed"
    /\ logout' = [logout EXCEPT !.at = "closed"]
    /\ db' = 0
    /\ notify' = [p \in Phones |-> NoName]
    /\ UNCHANGED <<tables, shuttingDown, stores, lids, ups, ask, left>>

\* wipeCacheDirExceptLogs deletes the store, and a new one is opened.
resetPersistentStorage ==
    /\ logout.at = "closed"
    /\ logout' = [logout EXCEPT !.at = "wiped"]
    /\ row' = Nobody /\ default' = FALSE
    /\ ask' = Witness(logout.rows, logout.def)
    /\ db' = stores + 1 /\ stores' = stores + 1
    /\ UNCHANGED <<shuttingDown, lids, mem, left>>

\* The wipe, or opening the new store, fails: the error is reported and
\* the backup is dropped.  Files that went before the failure are gone.
resetPersistentStorageFails ==
    /\ logout.at = "closed"
    /\ logout' = NoLogout /\ shuttingDown' = FALSE
    /\ \/ row' = row /\ default' = default
       \/ row' = Nobody /\ default' = FALSE
    /\ UNCHANGED <<db, stores, lids, mem, ask, left>>

\* Mutant: nothing to restore while nobody is allowed by default.
RestoreSkipsDefaultDeny ==
    /\ logout.at = "wiped"
    /\ logout' = [logout EXCEPT !.at = "restored"]
    /\ IF ~logout.def THEN UNCHANGED tables ELSE row' = logout.rows /\ default' = logout.def
    /\ UNCHANGED <<db, shuttingDown, stores, lids, mem, ask, left>>

\* One transaction; not run at all when there is nothing to restore.
restorePermissions ==
    /\ logout.at = "wiped"
    /\ logout' = [logout EXCEPT !.at = "restored"]
    /\ IF logout.rows = Nobody /\ ~logout.def
       THEN UNCHANGED tables ELSE row' = logout.rows /\ default' = logout.def
    /\ UNCHANGED <<db, shuttingDown, stores, lids, mem, ask, left>>

logoutEnds ==
    /\ logout.at = "restored"
    /\ logout' = NoLogout /\ shuttingDown' = FALSE
    /\ UNCHANGED <<tables, db, stores, lids, mem, ask, left>>

\* The process stops; the next one opens what is on the disk.
Crash ==
    /\ left.crashes > 0 /\ left' = [left EXCEPT !.crashes = @ - 1]
    /\ shuttingDown' = FALSE /\ logout' = NoLogout
    /\ db' = stores + 1 /\ stores' = stores + 1
    /\ cache' = [l \in Lids |-> "unset"] /\ jobs' = [queue |-> {}, at |-> NoJob]
    /\ ups' = {} /\ ask' = [r \in Requests |-> Idle]
    /\ \/ notify' = notify
       \/ notify' = [p \in Phones |-> NoName]   \* not saved yet
    /\ UNCHANGED <<tables, known>>

-----------------------------------------------------------------------------

User ==
    \/ \E p \in Phones, b \in BOOLEAN, n \in UserNames \cup {NoName} : handleSetWhitelist(p, n, b)
    \/ \E b \in BOOLEAN : handleSetWhitelistDefault(b)
    \/ \E p \in Phones, n \in UserNames : handleSetName(p, n)

Storing ==
    \/ \E p \in Phones, n \in PushNames \cup {NoName} : upsertMessage(p, n)
    \/ \E u \in ups : upsertPermissionBegin(u) \/ upsertPermissionExec(u)

Migrating == (\E l \in Lids : migrateRead(l)) \/ migrateWrite \/ migrateDelete
Resolving == \E l \in Lids : Learn(l) \/ getPNForLID(l) \/ Evict(l)

Asking ==
    \/ \E r \in Requests, p \in Phones : Begin(r, p)
    \/ \E r \in Requests : isChatAllowed(r) \/ loadDefaultAllowed(r) \/ Finish(r)

LoggingOut ==
    \/ handleLogout \/ (\E lost \in {{}, Phones}, defLost \in BOOLEAN : backupPermissions(lost, defLost)) \/ resetRuntimeState
    \/ resetPersistentStorage \/ resetPersistentStorageFails \/ restorePermissions \/ logoutEnds

Next == User \/ Storing \/ Migrating \/ Resolving \/ Asking \/ LoggingOut \/ Crash

Spec == Init /\ [][Next]_vars /\ WF_vars(Migrating)

-----------------------------------------------------------------------------
(* Properties *)

\* Every variable has the type its comment says.
TypeOK ==
    /\ row \in [Phones -> Rows] /\ default \in BOOLEAN
    /\ db \in 0 .. stores /\ shuttingDown \in BOOLEAN
    /\ logout.at \in {"idle", "begun", "backed", "closed", "wiped", "restored"}
    /\ known \subseteq Lids /\ cache \in [Lids -> {"unset", "none", "found"}]
    /\ jobs.queue \subseteq Lids /\ jobs.at.at \in {"idle", "read", "written"}
    /\ notify \in [Phones -> PushNames \cup {NoName}]
    /\ \A u \in ups : u.phone \in Phones /\ u.name \in Names /\ u.prev \in Names /\ u.db <= stores
    /\ \A r \in Requests : ask[r].state \in {"idle", "row", "default", "passed"}

\* A logout that read its whole backup gives every decision back, and the
\* default: backupPermissions and restorePermissions around the wipe.
LogoutKeepsWhitelist ==
    logout.at = "restored" /\ logout.whole =>
        /\ default = logout.wasDef
        /\ \A p \in Phones : logout.was[p] # NoRow =>
               row[p] # NoRow /\ row[p].allowed = logout.was[p].allowed

\* upsertPermission "Anything else was set by the user via /rename and is left
\* alone": a push name replaces the user's only with the row of a lid.
UserNameKept ==
    [][\A p \in Phones :
          row[p] # NoRow /\ row[p].name \in UserNames
            /\ row'[p] # NoRow /\ row'[p].name \in PushNames
          => jobs.at.at = "read" /\ jobs'.at.at = "written"]_vars

\* A lid that waits for its migration loses its row to its phone number,
\* unless a logout, a lost store or the end of the process comes first.
LidRowMoves ==
    \A l \in Lids :
        l \in jobs.queue ~> (row[l] = NoRow \/ cache[l] = "unset" \/ shuttingDown \/ db = 0)

\* Permissions implements Whitelist: whatever is interleaved, a request passes
\* only if its chat was allowed at some moment since it was made.
allowBar == [p \in Phones |-> Decided(p)]
defaultBar == IF logout.at = "wiped" THEN logout.def ELSE default
movingBar == IF jobs.at = NoJob THEN {} ELSE {jobs.at.row.allowed}
askBar == [r \in Requests |->
              IF ask[r].state \in {"row", "default"}
              THEN [state |-> "open", phone |-> ask[r].phone, seen |-> ask[r].seen] ELSE ask[r]]

W == INSTANCE Whitelist WITH
        allow <- allowBar, default <- defaultBar, moving <- movingBar, ask <- askBar

ImplementsWhitelist == W!Spec

\* Not kept by the code (README, "Disagreements"):
\* README "/blacklistall clears the whitelist entirely": once nobody is
\* allowed, it takes a request of the user to allow somebody.
BlacklistAllHolds ==
    [][(\A p \in Phones : ~Allowed(p)) /\ ~default /\ (\E p \in Phones : Allowed(p)')
       => left'.inputs < left.inputs]_vars

=============================================================================
