--------------------------- MODULE PermissionsProofs ---------------------------
(* Proofs about the whitelist: its tables survive a logout whose backup was  *)
(* whole, a name the user gave is not replaced, and Permissions implements   *)
(* Whitelist, for any set of people, lids and requests.                      *)
EXTENDS Permissions, TLAPS

-----------------------------------------------------------------------------
(* Types, in full: what the fields of the records are.                       *)

Tables == [Phones -> Rows]
Backups == [at : {"backed", "closed", "wiped", "restored"}, was : Tables, wasDef : BOOLEAN,
            rows : Tables, def : BOOLEAN, whole : BOOLEAN]
Logouts == {NoLogout} \cup [at : {"begun"}, was : Tables, wasDef : BOOLEAN] \cup Backups
Moves == [at : {"read", "written"}, lid : Lids, row : Rows \ {NoRow}]
Questions == {Idle} \cup [state : {"row", "default"}, phone : Phones, seen : BOOLEAN]
               \cup [state : {"passed"}, phone : Phones]
Upserts == [id : Nat, phone : Phones, name : PushNames \cup {NoName},
            prev : PushNames \cup {NoName}, db : Nat]

TypeInv ==
    /\ row \in Tables /\ default \in BOOLEAN
    /\ db \in Nat /\ stores \in Nat /\ db <= stores
    /\ shuttingDown \in BOOLEAN
    /\ logout \in Logouts
    /\ known \subseteq Lids /\ cache \in [Lids -> {"unset", "none", "found"}]
    /\ jobs \in [queue : SUBSET Lids, at : {NoJob} \cup Moves]
    /\ notify \in [Phones -> PushNames \cup {NoName}]
    /\ ups \subseteq Upserts /\ \A u \in ups : u.db <= stores
    /\ ask \in [Requests -> Questions]
    /\ left \in [inputs : Nat, logouts : Nat, crashes : Nat]

\* The fields of a row, which is what a statement reads.
LEMMA RowFields ==
    ASSUME TypeInv, NEW p \in Phones, row[p] # NoRow
    PROVE  row[p] \in [allowed : BOOLEAN, name : Names]
  BY DEF TypeInv, Tables, Rows

LEMMA RowIsRow ==
    ASSUME NEW a \in BOOLEAN, NEW n \in Names
    PROVE  /\ Row(a, n) \in Rows /\ Row(a, n) # NoRow
           /\ Row(a, n).allowed = a /\ Row(a, n).name = n
  BY PermissionsAssumption DEF Row, Rows

LEMMA RowChanges ==
    ASSUME NEW r \in Rows, r # NoRow, NEW a \in BOOLEAN, NEW n \in Names
    PROVE  /\ [r EXCEPT !.allowed = a] \in Rows \ {NoRow}
           /\ [r EXCEPT !.name = n] \in Rows \ {NoRow}
           /\ [r EXCEPT !.allowed = a].allowed = a /\ [r EXCEPT !.allowed = a].name = r.name
           /\ [r EXCEPT !.name = n].allowed = r.allowed /\ [r EXCEPT !.name = n].name = n
  BY PermissionsAssumption DEF Rows

LEMMA RowDecided ==
    ASSUME NEW r \in Rows, r # NoRow, NEW a \in BOOLEAN
    PROVE  [r EXCEPT !.allowed = a] # NoRow /\ [r EXCEPT !.allowed = a].allowed = a
  BY PermissionsAssumption DEF Rows

LEMMA RowNamed ==
    ASSUME NEW r \in Rows, r # NoRow, NEW n \in Names
    PROVE  [r EXCEPT !.name = n] # NoRow /\ [r EXCEPT !.name = n].allowed = r.allowed
  BY PermissionsAssumption DEF Rows

\* What a request remembers keeps its type.
LEMMA WitnessType ==
    ASSUME TypeInv, NEW rows \in Tables, NEW def \in BOOLEAN
    PROVE  Witness(rows, def) \in [Requests -> Questions]
<1>1. \A p \in Phones : Allows(rows, def, p) \in BOOLEAN
  BY DEF Allows, Tables, Rows
<1>2. ASSUME NEW r \in Requests
      PROVE  Witness(rows, def)[r] \in Questions
  <2>1. CASE ask[r].state \in {"row", "default"}
    <3>1. ask[r] \in [state : {"row", "default"}, phone : Phones, seen : BOOLEAN]
      BY <2>1 DEF TypeInv, Questions, Idle
    <3>2. Allows(rows, def, ask[r].phone) \in BOOLEAN
      BY <1>1, <3>1
    <3> QED BY <2>1, <3>1, <3>2 DEF Witness, Questions
  <2>2. CASE ask[r].state \notin {"row", "default"}
    BY <2>2 DEF Witness, TypeInv
  <2> QED BY <2>1, <2>2
<1> QED BY <1>2 DEF Witness

LEMMA StoreType ==
    ASSUME TypeInv, NEW rows \in Tables, NEW def \in BOOLEAN, Store(rows, def)
    PROVE  /\ row' \in Tables /\ default' \in BOOLEAN
           /\ ask' \in [Requests -> Questions]
  BY WitnessType DEF Store

LEMMA PhoneOfLid == \A l \in Lids : PNOf[l] \in Phones /\ l \in Phones
  BY PermissionsAssumption

LEMMA CanonIsPhone == \A p \in Phones : Canon(p) \in Phones
  BY PhoneOfLid DEF Canon

-----------------------------------------------------------------------------
(* Every step keeps the types.                                               *)

LEMMA UserType ==
    ASSUME TypeInv, User PROVE TypeInv'
<1>1. ASSUME NEW p \in Phones, NEW b \in BOOLEAN, NEW n \in UserNames \cup {NoName},
             handleSetWhitelist(p, n, b)
      PROVE  TypeInv'
  <2> DEFINE new == IF row[p] = NoRow \/ n # NoName THEN Row(b, n) ELSE [row[p] EXCEPT !.allowed = b]
             rows == [row EXCEPT ![p] = new]
  <2>0. row[p] \in Rows /\ NoName \in Names /\ n \in Names
    BY DEF TypeInv, Tables, Names
  <2>1. new \in Rows
    BY <2>0, RowChanges, RowIsRow
  <2>2. rows \in Tables
    BY <2>1 DEF TypeInv, Tables
  <2>3. Store(rows, default) /\ default \in BOOLEAN
    BY <1>1 DEF handleSetWhitelist, TypeInv
  <2> HIDE DEF rows
  <2>4. row' \in Tables /\ default' \in BOOLEAN /\ ask' \in [Requests -> Questions]
    BY <2>2, <2>3, StoreType
  <2> QED BY <1>1, <2>4 DEF handleSetWhitelist, Input, sys, lids, mem, TypeInv
<1>2. ASSUME NEW b \in BOOLEAN, handleSetWhitelistDefault(b)
      PROVE  TypeInv'
  <2> DEFINE rows == [p \in Phones |-> IF row[p] = NoRow THEN NoRow ELSE [row[p] EXCEPT !.allowed = b]]
  <2>0. NoName \in Names /\ NoRow \in Rows
    BY DEF Names, Rows
  <2>1. rows \in Tables
    <3>1. ASSUME NEW p \in Phones PROVE rows[p] \in Rows
      <4>1. row[p] \in Rows
        BY DEF TypeInv, Tables
      <4>2. CASE row[p] = NoRow
        BY <2>0, <4>2
      <4>3. CASE row[p] # NoRow
        BY <4>1, <4>3, RowChanges, NoName \in Names DEF Names
      <4> QED BY <4>2, <4>3
    <3> QED BY <3>1 DEF Tables
  <2>3. Store(rows, b)
    BY <1>2 DEF handleSetWhitelistDefault
  <2> HIDE DEF rows
  <2>4. row' \in Tables /\ default' \in BOOLEAN /\ ask' \in [Requests -> Questions]
    BY <2>1, <2>3, StoreType
  <2> QED BY <1>2, <2>4 DEF handleSetWhitelistDefault, Input, sys, lids, mem, TypeInv
<1>3. ASSUME NEW p \in Phones, NEW n \in UserNames, handleSetName(p, n)
      PROVE  TypeInv'
  <2> DEFINE new == IF row[p] = NoRow THEN Row(FALSE, n) ELSE [row[p] EXCEPT !.name = n]
             rows == [row EXCEPT ![p] = new]
  <2>0. row[p] \in Rows /\ NoName \in Names /\ n \in Names
    BY DEF TypeInv, Tables, Names
  <2>1. new \in Rows
    BY <2>0, RowChanges, RowIsRow
  <2>2. rows \in Tables
    BY <2>1 DEF TypeInv, Tables
  <2>3. Store(rows, default) /\ default \in BOOLEAN
    BY <1>3 DEF handleSetName, TypeInv
  <2> HIDE DEF rows
  <2>4. row' \in Tables /\ default' \in BOOLEAN /\ ask' \in [Requests -> Questions]
    BY <2>2, <2>3, StoreType
  <2> QED BY <1>3, <2>4 DEF handleSetName, Input, sys, lids, mem, TypeInv
<1> QED BY <1>1, <1>2, <1>3 DEF User

LEMMA StoringType ==
    ASSUME TypeInv, Storing PROVE TypeInv'
<1>1. ASSUME NEW p \in Phones, NEW n \in PushNames \cup {NoName}, upsertMessage(p, n)
      PROVE  TypeInv'
  <2>1. Canon(p) \in Phones
    BY CanonIsPhone
  <2>2. [id |-> left.inputs, phone |-> Canon(p), name |-> n, prev |-> notify[Canon(p)], db |-> 0] \in Upserts
    BY <2>1 DEF TypeInv, Upserts
  <2>3. ups' \subseteq Upserts /\ \A u \in ups' : u.db <= stores
    BY <1>1, <2>2 DEF upsertMessage, TypeInv
  <2>4. notify' \in [Phones -> PushNames \cup {NoName}]
    BY <1>1, <2>1 DEF upsertMessage, TypeInv
  <2> QED BY <1>1, <2>3, <2>4 DEF upsertMessage, Input, tables, sys, lids, TypeInv
<1>2. ASSUME NEW u \in ups, upsertPermissionBegin(u)
      PROVE  TypeInv'
  <2>1. [u EXCEPT !.db = db] \in Upserts /\ [u EXCEPT !.db = db].db = db
    BY DEF TypeInv, Upserts
  <2>2. ups' \subseteq Upserts /\ \A v \in ups' : v.db <= stores
    BY <1>2, <2>1 DEF upsertPermissionBegin, TypeInv
  <2> QED BY <1>2, <2>2 DEF upsertPermissionBegin, tables, sys, lids, TypeInv
<1>3. ASSUME NEW u \in ups, upsertPermissionExec(u)
      PROVE  TypeInv'
  <2> DEFINE rows == [row EXCEPT ![u.phone] = upserted(row[u.phone], u)]
  <2>1. u \in Upserts
    BY DEF TypeInv
  <2>2. upserted(row[u.phone], u) \in Rows
    <3>1. u.phone \in Phones /\ u.name \in Names /\ row[u.phone] \in Rows
      BY <2>1 DEF Upserts, Names, TypeInv, Tables
    <3> QED BY <3>1, RowChanges, RowIsRow DEF upserted
  <2>3. rows \in Tables
    BY <2>1, <2>2 DEF TypeInv, Tables
  <2>4. \/ Store(rows, default) /\ default \in BOOLEAN
        \/ UNCHANGED <<tables, ask>>
    BY <1>3 DEF upsertPermissionExec, TypeInv
  <2> HIDE DEF rows
  <2>5. row' \in Tables /\ default' \in BOOLEAN /\ ask' \in [Requests -> Questions]
    BY <2>3, <2>4, StoreType DEF tables, TypeInv
  <2> QED BY <1>3, <2>5 DEF upsertPermissionExec, sys, lids, TypeInv
<1> QED BY <1>1, <1>2, <1>3 DEF Storing

LEMMA MigratingType ==
    ASSUME TypeInv, Migrating PROVE TypeInv'
<1>1. ASSUME NEW l \in Lids, migrateRead(l)
      PROVE  TypeInv'
  <2>1. row[l] \in Rows
    BY PhoneOfLid DEF TypeInv, Tables
  <2>2. jobs' \in [queue : SUBSET Lids, at : {NoJob} \cup Moves]
    BY <1>1, <2>1 DEF migrateRead, TypeInv, Moves
  <2> QED BY <1>1, <2>2 DEF migrateRead, tables, sys, mem, TypeInv
<1>2. CASE migrateWrite
  <2> DEFINE rows == [row EXCEPT ![PNOf[jobs.at.lid]] = jobs.at.row]
  <2>1. jobs.at \in Moves
    BY <1>2 DEF migrateWrite, TypeInv, NoJob
  <2>2. rows \in Tables
    BY <2>1, PhoneOfLid DEF TypeInv, Tables, Moves
  <2>3. Store(rows, default) /\ default \in BOOLEAN
    BY <1>2 DEF migrateWrite, TypeInv
  <2> HIDE DEF rows
  <2>4. row' \in Tables /\ default' \in BOOLEAN /\ ask' \in [Requests -> Questions]
    BY <2>2, <2>3, StoreType
  <2>5. jobs' \in [queue : SUBSET Lids, at : {NoJob} \cup Moves]
    BY <1>2, <2>1 DEF migrateWrite, TypeInv, Moves
  <2> QED BY <1>2, <2>4, <2>5 DEF migrateWrite, sys, mem, TypeInv
<1>3. CASE migrateDelete
  <2> DEFINE rows == [row EXCEPT ![jobs.at.lid] = NoRow]
  <2>1. jobs.at \in Moves
    BY <1>3 DEF migrateDelete, TypeInv, NoJob
  <2>2. rows \in Tables
    BY <2>1, PhoneOfLid DEF TypeInv, Tables, Moves, Rows
  <2>3. Store(rows, default) /\ default \in BOOLEAN
    BY <1>3 DEF migrateDelete, TypeInv
  <2> HIDE DEF rows
  <2>4. row' \in Tables /\ default' \in BOOLEAN /\ ask' \in [Requests -> Questions]
    BY <2>2, <2>3, StoreType
  <2>5. jobs' \in [queue : SUBSET Lids, at : {NoJob} \cup Moves]
    BY <1>3, <2>1 DEF migrateDelete, TypeInv
  <2> QED BY <1>3, <2>4, <2>5 DEF migrateDelete, sys, mem, TypeInv
<1> QED BY <1>1, <1>2, <1>3 DEF Migrating

LEMMA ResolvingType ==
    ASSUME TypeInv, Resolving PROVE TypeInv'
<1>1. ASSUME NEW l \in Lids, Learn(l) \/ getPNForLID(l) \/ Evict(l)
      PROVE  TypeInv'
  BY <1>1 DEF Learn, getPNForLID, Evict, TypeInv, tables, sys, mem
<1> QED BY <1>1 DEF Resolving

LEMMA AskingType ==
    ASSUME TypeInv, Asking PROVE TypeInv'
<1>1. ASSUME NEW r \in Requests, NEW p \in Phones, Begin(r, p)
      PROVE  TypeInv'
  <2>1. Canon(p) \in Phones
    BY CanonIsPhone
  <2>2. Decided(Canon(p)) \in BOOLEAN
    BY <2>1 DEF Decided, Allowed, Allows, TypeInv, Logouts, Backups, NoLogout, Tables, Rows
  <2>3. ask' \in [Requests -> Questions]
    BY <1>1, <2>1, <2>2 DEF Begin, TypeInv, Questions
  <2> QED BY <1>1, <2>3 DEF Begin, tables, sys, lids, mem, TypeInv
<1>2. ASSUME NEW r \in Requests, isChatAllowed(r) \/ loadDefaultAllowed(r) \/ Finish(r)
      PROVE  TypeInv'
  <2>1. /\ ask[r] \in Questions /\ ask[r].state \in {"row", "default", "passed"}
        /\ \/ ask' = [ask EXCEPT ![r] = Idle]
           \/ ask' = [ask EXCEPT ![r].state = "default"] /\ ask[r].state = "row"
           \/ ask' = [ask EXCEPT ![r] = [state |-> "passed", phone |-> ask[r].phone]]
    <3>1. ask[r] \in Questions /\ ask[r].state \in {"row", "default", "passed"}
      BY <1>2 DEF isChatAllowed, loadDefaultAllowed, Finish, TypeInv
    <3>2. CASE isChatAllowed(r)
      <4>1. StoreOpen \/ ~StoreOpen
        OBVIOUS
      <4>2. row[ask[r].phone] # NoRow => row[ask[r].phone].allowed \in BOOLEAN
        BY <3>1, <3>2, RowFields DEF isChatAllowed, Questions, Idle
      <4> QED BY <3>1, <3>2, <4>1, <4>2 DEF isChatAllowed, Answer, Granted
    <3> QED BY <1>2, <3>1, <3>2 DEF loadDefaultAllowed, Finish, Answer, Granted
  <2>2. ask' \in [Requests -> Questions]
    BY <2>1 DEF TypeInv, Questions, Idle
  <2>3. UNCHANGED <<tables, sys, lids, mem, left>>
    BY <1>2 DEF isChatAllowed, loadDefaultAllowed, Finish
  <2> QED BY <2>2, <2>3 DEF tables, sys, lids, mem, TypeInv
<1> QED BY <1>1, <1>2 DEF Asking

\* Fields of the logout's record, at each of its steps.
LEMMA LogoutFields ==
    ASSUME TypeInv
    PROVE  /\ logout.at \in {"idle", "begun", "backed", "closed", "wiped", "restored"}
           /\ logout.at = "idle" <=> logout = NoLogout
           /\ logout.at = "begun" => logout \in [at : {"begun"}, was : Tables, wasDef : BOOLEAN]
           /\ logout.at \in {"backed", "closed", "wiped", "restored"} => logout \in Backups
  BY DEF TypeInv, Logouts, Backups, NoLogout

LEMMA NobodyIsATable == Nobody \in Tables /\ \A p \in Phones : Nobody[p] = NoRow
  BY DEF Nobody, Tables, Rows

LEMMA LoggingOutType ==
    ASSUME TypeInv, LoggingOut PROVE TypeInv'
<1>1. CASE handleLogout
  <2>1. logout' \in Logouts
    BY <1>1 DEF handleLogout, Logouts, TypeInv
  <2> QED BY <1>1, <2>1 DEF handleLogout, tables, lids, mem, TypeInv
<1>2. ASSUME NEW lost \in {{}, Phones}, NEW defLost \in BOOLEAN, backupPermissions(lost, defLost)
      PROVE  TypeInv'
  <2>1. [p \in Phones |-> IF p \in lost THEN NoRow ELSE row[p]] \in Tables
    BY DEF TypeInv, Tables, Rows
  <2>2. logout \in [at : {"begun"}, was : Tables, wasDef : BOOLEAN]
    BY <1>2, LogoutFields DEF backupPermissions
  <2>3. logout' \in Backups
    BY <1>2, <2>1, <2>2 DEF backupPermissions, Backups, TypeInv
  <2> QED BY <1>2, <2>3 DEF backupPermissions, tables, lids, mem, TypeInv, Logouts
<1>3. CASE resetRuntimeState
  <2>1. logout' \in Backups
    BY <1>3, LogoutFields DEF resetRuntimeState, Backups
  <2> QED BY <1>3, <2>1 DEF resetRuntimeState, tables, lids, TypeInv, Logouts
<1>4. CASE resetPersistentStorage
  <2>1. logout \in Backups /\ logout' \in Backups
    BY <1>4, LogoutFields DEF resetPersistentStorage, Backups
  <2>2. ask' \in [Requests -> Questions]
    BY <1>4, <2>1, WitnessType DEF resetPersistentStorage, Backups
  <2>3. db' \in Nat /\ stores' \in Nat /\ db' <= stores' /\ \A u \in ups' : u.db <= stores'
    BY <1>4 DEF resetPersistentStorage, mem, TypeInv, Upserts
  <2> QED BY <1>4, <2>1, <2>2, <2>3, NobodyIsATable DEF resetPersistentStorage, lids, mem, TypeInv, Logouts
<1>5. CASE resetPersistentStorageFails
  BY <1>5, NobodyIsATable DEF resetPersistentStorageFails, lids, mem, TypeInv, Logouts
<1>6. CASE restorePermissions
  <2>1. logout \in Backups /\ logout' \in Backups
    BY <1>6, LogoutFields DEF restorePermissions, Backups
  <2>2. row' \in Tables /\ default' \in BOOLEAN
    BY <1>6, <2>1 DEF restorePermissions, tables, TypeInv, Backups
  <2> QED BY <1>6, <2>1, <2>2 DEF restorePermissions, lids, mem, TypeInv, Logouts
<1>7. CASE logoutEnds
  BY <1>7 DEF logoutEnds, tables, lids, mem, TypeInv, Logouts
<1> QED BY <1>1, <1>2, <1>3, <1>4, <1>5, <1>6, <1>7 DEF LoggingOut

LEMMA CrashType ==
    ASSUME TypeInv, Crash PROVE TypeInv'
<1>1. db' \in Nat /\ stores' \in Nat /\ db' <= stores' /\ left' \in [inputs : Nat, logouts : Nat, crashes : Nat]
  BY DEF Crash, TypeInv
<1>2. notify' \in [Phones -> PushNames \cup {NoName}] /\ ask' \in [Requests -> Questions]
  BY DEF Crash, TypeInv, Questions
<1> QED BY <1>1, <1>2 DEF Crash, tables, TypeInv, Logouts

\* The record types hold in every reachable state.
LEMMA TypesHold == Spec => []TypeInv
<1>1. Init => TypeInv
  <2> SUFFICES ASSUME Init PROVE TypeInv
    OBVIOUS
  <2>1. left \in [inputs : Nat, logouts : Nat, crashes : Nat] /\ ask \in [Requests -> Questions]
    BY PermissionsAssumption DEF Init, Questions
  <2>2. row \in Tables /\ logout \in Logouts
    BY NobodyIsATable DEF Init, Logouts
  <2>3. jobs \in [queue : SUBSET Lids, at : {NoJob} \cup Moves] /\ known \subseteq Lids /\ ups \subseteq Upserts
    BY DEF Init
  <2>4. db \in Nat /\ stores \in Nat /\ db <= stores /\ \A u \in ups : u.db <= stores
    BY DEF Init
  <2> QED BY <2>1, <2>2, <2>3, <2>4 DEF Init, TypeInv
<1>2. TypeInv /\ [Next]_vars => TypeInv'
  <2>1. CASE UNCHANGED vars
    BY <2>1 DEF vars, TypeInv
  <2> QED BY <2>1, UserType, StoringType, MigratingType, ResolvingType, AskingType, LoggingOutType,
             CrashType DEF Next
<1> QED BY <1>1, <1>2, PTL DEF Spec

\* The type invariant that TLC checks follows from them.
THEOREM TypeCorrect == Spec => []TypeOK
<1>1. TypeInv => TypeOK
  <2> SUFFICES ASSUME TypeInv PROVE TypeOK
    OBVIOUS
  <2>1. jobs.queue \subseteq Lids /\ jobs.at.at \in {"idle", "read", "written"}
    BY DEF TypeInv, NoJob, Moves
  <2>2. \A u \in ups : u.phone \in Phones /\ u.name \in Names /\ u.prev \in Names /\ u.db <= stores
    BY DEF TypeInv, Upserts, Names
  <2>3. \A r \in Requests : ask[r].state \in {"idle", "row", "default", "passed"}
    BY DEF TypeInv, Questions, Idle
  <2> QED BY <2>1, <2>2, <2>3, LogoutFields DEF TypeInv, TypeOK, Tables
<1> QED BY <1>1, TypesHold, PTL

-----------------------------------------------------------------------------
(* The inductive invariant.  While a logout runs, no migration does and only *)
(* the goroutines of upsertPermission write, which never change a decision:  *)
(* so what was copied stays true until it is written back.  And a request    *)
(* under way knows of every moment at which its phone was allowed, also of   *)
(* those while only the copy in memory says so.                              *)

\* Every decision of old is one of new.
Kept(old, new) ==
    \A p \in Phones : old[p] # NoRow => new[p] # NoRow /\ new[p].allowed = old[p].allowed

LogoutInv ==
    /\ shuttingDown <=> logout.at # "idle"
    /\ shuttingDown => jobs.at = NoJob
    /\ logout.at = "begun" => Kept(logout.was, row) /\ default = logout.wasDef
    /\ logout.at \in {"backed", "closed"} => Kept(logout.rows, row) /\ (logout.def => default)
    /\ logout.at \in {"backed", "closed", "wiped", "restored"} /\ logout.whole =>
          Kept(logout.was, logout.rows) /\ logout.def = logout.wasDef
    /\ logout.at = "wiped" => row = Nobody /\ default = FALSE
    /\ logout.at = "restored" => row = logout.rows /\ default = logout.def
    /\ logout.at \in {"wiped", "restored"} => db # 0 /\ \A u \in ups : u.db # db

SeenInv ==
    \A r \in Requests :
        /\ ask[r].state \in {"row", "default"} /\ Decided(ask[r].phone) => ask[r].seen
        /\ ask[r].state = "default" /\ defaultBar => ask[r].seen

PermissionsInv == TypeInv /\ LogoutInv /\ SeenInv

\* What a request remembers after a statement: what it remembered, and the new
\* decision about its phone.
LEMMA WitnessSees ==
    ASSUME TypeInv, NEW rows \in Tables, NEW def \in BOOLEAN, NEW r \in Requests,
           ask[r].state \in {"row", "default"}
    PROVE  /\ Witness(rows, def)[r].state = ask[r].state
           /\ Witness(rows, def)[r].phone = ask[r].phone
           /\ Witness(rows, def)[r].seen = (ask[r].seen \/ Allows(rows, def, ask[r].phone))
<1>1. ask[r] \in [state : {"row", "default"}, phone : Phones, seen : BOOLEAN]
  BY DEF TypeInv, Questions, Idle
<1>2. Witness(rows, def)[r] = [ask[r] EXCEPT !.seen = ask[r].seen \/ Allows(rows, def, ask[r].phone)]
  BY DEF Witness
<1> QED BY <1>1, <1>2

LEMMA WitnessElse ==
    ASSUME NEW rows, NEW def, NEW r \in Requests, ask[r].state \notin {"row", "default"}
    PROVE  Witness(rows, def)[r] = ask[r]
  BY DEF Witness

LEMMA StoreSeen ==
    ASSUME TypeInv, SeenInv, NEW rows \in Tables, NEW def \in BOOLEAN, Store(rows, def),
           logout' = logout, logout.at # "wiped",
           def => default \/ \A p \in Phones : Allows(rows, def, p)
    PROVE  SeenInv'
<1> SUFFICES ASSUME NEW r \in Requests, ask'[r].state \in {"row", "default"}
             PROVE  /\ Decided(ask[r].phone)' => ask'[r].seen
                    /\ ask'[r].state = "default" /\ defaultBar' => ask'[r].seen
  BY DEF SeenInv
<1>1. ask' = Witness(rows, def) /\ row' = rows /\ default' = def
  BY DEF Store
<1>2. ask[r].state \in {"row", "default"}
  BY <1>1, WitnessElse
<1>3. /\ ask'[r].state = ask[r].state /\ ask'[r].phone = ask[r].phone
      /\ ask'[r].seen = (ask[r].seen \/ Allows(rows, def, ask[r].phone))
  BY <1>1, <1>2, WitnessSees
<1>4. Decided(ask[r].phone)' = Allows(rows, def, ask[r].phone)
  BY <1>1, <1>3 DEF Decided, Allowed, Allows
<1>5. ask[r].phone \in Phones
  BY <1>2 DEF TypeInv, Questions, Idle
<1>6. defaultBar' = def /\ defaultBar = default
  BY <1>1 DEF defaultBar
<1> QED BY <1>2, <1>3, <1>4, <1>5, <1>6 DEF SeenInv

\* A step that changes neither requests nor decisions.
LEMMA NothingSeen ==
    ASSUME SeenInv, UNCHANGED <<ask, row, default, logout>>
    PROVE  SeenInv'
  BY DEF SeenInv, Decided, Allowed, Allows, defaultBar

LEMMA UserInv ==
    ASSUME PermissionsInv, User PROVE LogoutInv' /\ SeenInv'
<1>1. PICK rows \in Tables, def \in BOOLEAN :
         /\ Store(rows, def)
         /\ def => default \/ \A p \in Phones : Allows(rows, def, p)
  <2>1. ASSUME NEW p \in Phones, NEW b \in BOOLEAN, NEW n \in UserNames \cup {NoName},
               handleSetWhitelist(p, n, b)
        PROVE  \E rows \in Tables : Store(rows, default)
    <3>1. row' \in Tables
      BY <2>1, UserType DEF PermissionsInv, TypeInv, User
    <3> QED BY <2>1, <3>1 DEF handleSetWhitelist, Store
  <2>2. ASSUME NEW p \in Phones, NEW n \in UserNames, handleSetName(p, n)
        PROVE  \E rows \in Tables : Store(rows, default)
    <3>1. row' \in Tables
      BY <2>2, UserType DEF PermissionsInv, TypeInv, User
    <3> QED BY <2>2, <3>1 DEF handleSetName, Store
  <2>3. ASSUME NEW b \in BOOLEAN, handleSetWhitelistDefault(b)
        PROVE  \E rows \in Tables : Store(rows, b) /\ (b => \A p \in Phones : Allows(rows, b, p))
    <3>1. row' \in Tables
      BY <2>3, UserType DEF PermissionsInv, TypeInv, User
    <3>2. row' = [p \in Phones |-> IF row[p] = NoRow THEN NoRow ELSE [row[p] EXCEPT !.allowed = b]]
      BY <2>3 DEF handleSetWhitelistDefault, Store
    <3>3. ASSUME NEW p \in Phones, b PROVE Allows(row', b, p)
      <4>1. CASE row[p] = NoRow
        BY <3>2, <3>3, <4>1 DEF Allows
      <4>2. CASE row[p] # NoRow
        BY <3>2, <3>3, <4>2, RowFields DEF Allows, PermissionsInv
      <4> QED BY <4>1, <4>2
    <3> QED BY <2>3, <3>1, <3>3 DEF handleSetWhitelistDefault, Store
  <2>4. default \in BOOLEAN
    BY DEF PermissionsInv, TypeInv
  <2> QED BY <2>1, <2>2, <2>3, <2>4 DEF User
<1>2. ~shuttingDown /\ UNCHANGED <<sys, lids, mem>>
  BY DEF User, handleSetWhitelist, handleSetWhitelistDefault, handleSetName, StoreOpen
<1>3. logout.at = "idle"
  BY <1>2, LogoutFields DEF PermissionsInv, LogoutInv
<1>4. SeenInv'
  BY <1>1, <1>2, <1>3, StoreSeen DEF PermissionsInv, sys
<1>5. LogoutInv'
  BY <1>2, <1>3 DEF LogoutInv, sys, lids, PermissionsInv
<1> QED BY <1>4, <1>5

\* upsertPermission adds a row that denies, or changes a name.
LEMMA UpsertKeeps ==
    ASSUME TypeInv, NEW u \in ups
    PROVE  /\ [row EXCEPT ![u.phone] = upserted(row[u.phone], u)] \in Tables
           /\ Kept(row, [row EXCEPT ![u.phone] = upserted(row[u.phone], u)])
           /\ row[u.phone] = NoRow => upserted(row[u.phone], u).allowed = FALSE
           /\ upserted(row[u.phone], u) # NoRow
<1>1. u.phone \in Phones /\ u.name \in Names /\ row[u.phone] \in Rows
  BY DEF TypeInv, Tables, Upserts, Names
<1>2. /\ upserted(row[u.phone], u) \in Rows /\ upserted(row[u.phone], u) # NoRow
      /\ row[u.phone] = NoRow => upserted(row[u.phone], u).allowed = FALSE
      /\ row[u.phone] # NoRow => upserted(row[u.phone], u).allowed = row[u.phone].allowed
  <2>1. CASE row[u.phone] = NoRow
    BY <1>1, <2>1, RowIsRow DEF upserted
  <2>2. CASE row[u.phone] # NoRow
    <3>1. /\ [row[u.phone] EXCEPT !.name = u.name] \in Rows \ {NoRow}
          /\ [row[u.phone] EXCEPT !.name = u.name].allowed = row[u.phone].allowed
      BY <1>1, <2>2, TRUE \in BOOLEAN, RowChanges
    <3> QED BY <1>1, <2>2, <3>1 DEF upserted
  <2> QED BY <2>1, <2>2
<1>3. [row EXCEPT ![u.phone] = upserted(row[u.phone], u)] \in Tables
  BY <1>1, <1>2 DEF TypeInv, Tables
<1> QED BY <1>1, <1>2, <1>3 DEF Kept, TypeInv, Tables

LEMMA KeptIsTransitive ==
    ASSUME NEW a, NEW b, NEW c, Kept(a, b), Kept(b, c) PROVE Kept(a, c)
  BY DEF Kept

LEMMA StoringInv ==
    ASSUME PermissionsInv, Storing PROVE LogoutInv' /\ SeenInv'
<1>1. ASSUME NEW p \in Phones, NEW n \in PushNames \cup {NoName}, upsertMessage(p, n)
      PROVE  LogoutInv' /\ SeenInv'
  <2>1. SeenInv'
    BY <1>1, NothingSeen DEF upsertMessage, PermissionsInv, tables, sys
  <2>2. \A u \in ups' : u \in ups \/ u.db = 0
    BY <1>1 DEF upsertMessage
  <2>3. UNCHANGED <<row, default, sys, jobs>>
    BY <1>1 DEF upsertMessage, tables, lids
  <2> QED BY <2>1, <2>2, <2>3 DEF PermissionsInv, LogoutInv, sys
<1>2. ASSUME NEW u \in ups, upsertPermissionBegin(u)
      PROVE  LogoutInv' /\ SeenInv'
  <2>1. SeenInv'
    BY <1>2, NothingSeen DEF upsertPermissionBegin, PermissionsInv, tables, sys
  <2>2. shuttingDown => ups' \subseteq ups
    BY <1>2 DEF upsertPermissionBegin, StoreOpen
  <2>3. UNCHANGED <<row, default, sys, jobs>>
    BY <1>2 DEF upsertPermissionBegin, tables, lids
  <2> QED BY <2>1, <2>2, <2>3 DEF PermissionsInv, LogoutInv, sys
<1>3. ASSUME NEW u \in ups, upsertPermissionExec(u), u.db = db
      PROVE  LogoutInv' /\ SeenInv'
  <2> DEFINE rows == [row EXCEPT ![u.phone] = upserted(row[u.phone], u)]
  <2>1. rows \in Tables /\ Kept(row, rows) /\ Store(rows, default) /\ default \in BOOLEAN
    BY <1>3, UpsertKeeps DEF upsertPermissionExec, PermissionsInv, TypeInv
  <2> HIDE DEF rows
  <2>2. UNCHANGED <<sys, jobs>> /\ ups' \subseteq ups
    BY <1>3 DEF upsertPermissionExec, lids
  <2>3. logout.at \notin {"wiped", "restored"}
    BY <1>3 DEF PermissionsInv, LogoutInv
  <2>4. SeenInv'
    BY <2>1, <2>2, <2>3, StoreSeen DEF PermissionsInv, sys
  <2>5. row' = rows /\ default' = default
    BY <2>1 DEF Store
  <2>6. logout.at = "begun" => Kept(logout.was, rows)
    BY <2>1, KeptIsTransitive DEF PermissionsInv, LogoutInv
  <2>7. logout.at \in {"backed", "closed"} => Kept(logout.rows, rows)
    BY <2>1, KeptIsTransitive DEF PermissionsInv, LogoutInv
  <2>8. LogoutInv'
    BY <2>2, <2>3, <2>5, <2>6, <2>7 DEF PermissionsInv, LogoutInv, sys
  <2> QED BY <2>4, <2>8
<1>4. ASSUME NEW u \in ups, upsertPermissionExec(u), u.db # db
      PROVE  LogoutInv' /\ SeenInv'
  <2>1. UNCHANGED <<row, default, ask, sys, jobs>> /\ ups' \subseteq ups
    BY <1>4 DEF upsertPermissionExec, tables, lids
  <2>2. SeenInv'
    BY <2>1, NothingSeen DEF PermissionsInv, sys
  <2> QED BY <2>1, <2>2 DEF PermissionsInv, LogoutInv, sys
<1> QED BY <1>1, <1>2, <1>3, <1>4 DEF Storing

LEMMA MigratingInv ==
    ASSUME PermissionsInv, Migrating PROVE LogoutInv' /\ SeenInv'
<1>1. ASSUME NEW l \in Lids, migrateRead(l)
      PROVE  LogoutInv' /\ SeenInv'
  <2>1. UNCHANGED <<row, default, ask, sys, ups>>
    BY <1>1 DEF migrateRead, tables, mem
  <2>2. SeenInv'
    BY <2>1, NothingSeen DEF PermissionsInv, sys
  <2>3. shuttingDown => jobs'.at = NoJob
    BY <1>1 DEF migrateRead, StoreOpen
  <2> QED BY <2>1, <2>2, <2>3 DEF PermissionsInv, LogoutInv, sys
<1>2. ASSUME migrateWrite \/ migrateDelete
      PROVE  LogoutInv' /\ SeenInv'
  <2>1. ~shuttingDown /\ logout.at = "idle"
    BY <1>2, LogoutFields DEF migrateWrite, migrateDelete, PermissionsInv, LogoutInv, NoJob
  <2>2. row' \in Tables /\ default \in BOOLEAN
    BY MigratingType, <1>2 DEF PermissionsInv, TypeInv, Migrating
  <2>3. \E rows \in Tables : Store(rows, default)
    BY <1>2, <2>2 DEF migrateWrite, migrateDelete, Store
  <2>4. UNCHANGED <<sys, ups>>
    BY <1>2 DEF migrateWrite, migrateDelete, mem
  <2>5. SeenInv'
    BY <2>1, <2>2, <2>3, <2>4, StoreSeen DEF PermissionsInv, sys
  <2> QED BY <2>1, <2>4, <2>5 DEF LogoutInv, sys
<1> QED BY <1>1, <1>2 DEF Migrating

LEMMA ResolvingInv ==
    ASSUME PermissionsInv, Resolving PROVE LogoutInv' /\ SeenInv'
<1>1. UNCHANGED <<row, default, ask, sys, ups>> /\ jobs'.at = jobs.at
  BY DEF Resolving, Learn, getPNForLID, Evict, tables, mem, PermissionsInv, TypeInv
<1>2. SeenInv'
  BY <1>1, NothingSeen DEF PermissionsInv, sys
<1> QED BY <1>1, <1>2 DEF PermissionsInv, LogoutInv, sys

\* A request sees what it asks for when it begins; from then on it is another
\* statement that changes the answer.
LEMMA AskingInv ==
    ASSUME PermissionsInv, Asking PROVE LogoutInv' /\ SeenInv'
<1>1. UNCHANGED <<tables, sys, lids, mem, left>>
  BY DEF Asking, Begin, isChatAllowed, loadDefaultAllowed, Finish
<1>2. LogoutInv'
  BY <1>1 DEF tables, sys, lids, mem, PermissionsInv, LogoutInv
<1>3. \A p : Decided(p)' = Decided(p)
  BY <1>1 DEF Decided, Allowed, Allows, tables, sys
<1>4. defaultBar' = defaultBar
  BY <1>1 DEF defaultBar, tables, sys
<1>5. ASSUME NEW r \in Requests, NEW p \in Phones, Begin(r, p)
      PROVE  SeenInv'
  <2>1. ask'[r] = [state |-> "row", phone |-> Canon(p), seen |-> Decided(Canon(p))]
    BY <1>5 DEF Begin, PermissionsInv, TypeInv
  <2>2. \A q \in Requests \ {r} : ask'[q] = ask[q]
    BY <1>5 DEF Begin, PermissionsInv, TypeInv
  <2>3. ASSUME NEW q \in Requests, ask'[q].state \in {"row", "default"}
        PROVE  /\ Decided(ask[q].phone)' => ask'[q].seen
               /\ ask'[q].state = "default" /\ defaultBar' => ask'[q].seen
    <3>1. CASE q = r
      BY <1>3, <2>1, <3>1
    <3>2. CASE q # r
      <4>1. ask'[q] = ask[q]
        BY <2>2, <3>2
      <4>2. Decided(ask[q].phone)' = Decided(ask[q].phone)
        BY <1>3, <4>1
      <4> QED BY <1>4, <2>3, <4>1, <4>2 DEF PermissionsInv, SeenInv
    <3> QED BY <3>1, <3>2
  <2> QED BY <2>3 DEF SeenInv
<1>6. ASSUME NEW r \in Requests, isChatAllowed(r)
      PROVE  SeenInv'
  <2>1. CASE ask' = [ask EXCEPT ![r].state = "default"] /\ StoreOpen /\ row[ask[r].phone] = NoRow
    <3>1. logout.at = "idle"
      BY <2>1, LogoutFields DEF StoreOpen, PermissionsInv, LogoutInv
    <3>2. default = Decided(ask[r].phone) /\ defaultBar = default
      BY <2>1, <3>1 DEF Decided, Allowed, Allows, defaultBar
    <3>3. ask[r] \in [state : {"row", "default"}, phone : Phones, seen : BOOLEAN]
      BY <1>6 DEF isChatAllowed, PermissionsInv, TypeInv, Questions, Idle
    <3> QED BY <1>3, <1>4, <1>6, <2>1, <3>2, <3>3 DEF isChatAllowed, PermissionsInv, SeenInv, TypeInv
  <2>2. CASE ask' = [ask EXCEPT ![r] = Idle] \/ Granted(r)
    BY <1>3, <1>4, <2>2 DEF Granted, PermissionsInv, SeenInv, TypeInv, Idle
  <2>3. ask[r].state = "row" /\ ask[r] \in Questions
    BY <1>6 DEF isChatAllowed, PermissionsInv, TypeInv
  <2>4. row[ask[r].phone] # NoRow => row[ask[r].phone].allowed \in BOOLEAN
    BY <2>3, RowFields DEF PermissionsInv, Questions, Idle
  <2> QED BY <1>6, <2>1, <2>2, <2>4 DEF isChatAllowed, Answer
<1>7. ASSUME NEW r \in Requests, loadDefaultAllowed(r) \/ Finish(r)
      PROVE  SeenInv'
  BY <1>3, <1>4, <1>7 DEF loadDefaultAllowed, Finish, Granted, Answer, PermissionsInv, SeenInv, TypeInv, Idle
<1> QED BY <1>2, <1>5, <1>6, <1>7 DEF Asking

LEMMA LoggingOutInv ==
    ASSUME PermissionsInv, LoggingOut PROVE LogoutInv' /\ SeenInv'
<1> USE DEF PermissionsInv
<1>1. CASE handleLogout
  <2>1. UNCHANGED <<row, default, db, ups, ask, jobs>>
    BY <1>1 DEF handleLogout, tables, lids, mem
  <2>2. logout.at = "idle" /\ logout' = [at |-> "begun", was |-> row, wasDef |-> default]
    BY <1>1 DEF handleLogout, NoLogout
  <2>3. LogoutInv'
    BY <1>1, <2>1, <2>2 DEF handleLogout, LogoutInv, Kept
  <2>4. SeenInv'
    BY <2>1, <2>2 DEF SeenInv, Decided, Allowed, Allows, defaultBar
  <2> QED BY <2>3, <2>4
<1>2. ASSUME NEW lost \in {{}, Phones}, NEW defLost \in BOOLEAN, backupPermissions(lost, defLost)
      PROVE  LogoutInv' /\ SeenInv'
  <2>1. UNCHANGED <<row, default, db, shuttingDown, ups, ask, jobs>>
    BY <1>2 DEF backupPermissions, tables, lids, mem
  <2>2. logout.at = "begun" /\ Kept(logout.was, row) /\ default = logout.wasDef
    BY <1>2 DEF backupPermissions, LogoutInv
  <2>3. logout' = [at |-> "backed", was |-> logout.was, wasDef |-> logout.wasDef,
                   rows |-> [p \in Phones |-> IF p \in lost THEN NoRow ELSE row[p]],
                   def |-> default /\ ~defLost, whole |-> lost = {} /\ ~defLost]
    BY <1>2 DEF backupPermissions
  <2>4. Kept(logout'.rows, row) /\ (logout'.def => default)
    BY <2>3 DEF Kept
  <2>5. logout'.whole => Kept(logout'.was, logout'.rows) /\ logout'.def = logout'.wasDef
    <3>1. ASSUME lost = {} PROVE Kept(logout.was, [p \in Phones |-> IF p \in lost THEN NoRow ELSE row[p]])
      BY <2>2, <3>1 DEF Kept
    <3>2. default \in BOOLEAN
      BY DEF TypeInv
    <3> QED BY <2>2, <2>3, <3>1, <3>2
  <2>6. LogoutInv'
    BY <2>1, <2>2, <2>3, <2>4, <2>5 DEF LogoutInv
  <2>7. SeenInv'
    BY <2>1, <2>2, <2>3 DEF SeenInv, Decided, Allowed, Allows, defaultBar
  <2> QED BY <2>6, <2>7
<1>3. CASE resetRuntimeState
  <2>1. UNCHANGED <<row, default, shuttingDown, ups, ask, jobs>>
    BY <1>3 DEF resetRuntimeState, tables, lids
  <2>2. logout \in Backups /\ logout.at = "backed" /\ logout' = [logout EXCEPT !.at = "closed"]
    BY <1>3, LogoutFields DEF resetRuntimeState
  <2>3. /\ logout'.at = "closed" /\ logout'.rows = logout.rows /\ logout'.def = logout.def
        /\ logout'.was = logout.was /\ logout'.wasDef = logout.wasDef /\ logout'.whole = logout.whole
    BY <2>2 DEF Backups
  <2>4. LogoutInv'
    BY <2>1, <2>2, <2>3 DEF LogoutInv
  <2>5. SeenInv'
    BY <2>1, <2>2, <2>3 DEF SeenInv, Decided, Allowed, Allows, defaultBar
  <2> QED BY <2>4, <2>5
<1>4. CASE resetPersistentStorage
  <2>1. UNCHANGED <<shuttingDown, ups, jobs>> /\ row' = Nobody /\ default' = FALSE
    BY <1>4 DEF resetPersistentStorage, lids, mem
  <2>2. logout \in Backups /\ logout.at = "closed" /\ logout' = [logout EXCEPT !.at = "wiped"]
    BY <1>4, LogoutFields DEF resetPersistentStorage
  <2>3. /\ logout'.at = "wiped" /\ logout'.rows = logout.rows /\ logout'.def = logout.def
        /\ logout'.was = logout.was /\ logout'.wasDef = logout.wasDef /\ logout'.whole = logout.whole
        /\ logout.rows \in Tables /\ logout.def \in BOOLEAN
    BY <2>2 DEF Backups
  <2>4. db' # 0 /\ \A u \in ups : u.db # db'
    BY <1>4 DEF resetPersistentStorage, TypeInv, Upserts
  <2>5. LogoutInv'
    BY <2>1, <2>2, <2>3, <2>4 DEF LogoutInv
  <2>6. ask' = Witness(logout.rows, logout.def)
    BY <1>4 DEF resetPersistentStorage
  <2>7. ASSUME NEW r \in Requests, ask'[r].state \in {"row", "default"}
        PROVE  /\ Decided(ask[r].phone)' => ask'[r].seen
               /\ ask'[r].state = "default" /\ defaultBar' => ask'[r].seen
    <3>1. ask[r].state \in {"row", "default"}
      BY <2>6, <2>7, WitnessElse
    <3>2. /\ ask'[r].state = ask[r].state /\ ask'[r].phone = ask[r].phone
          /\ ask'[r].seen = (ask[r].seen \/ Allows(logout.rows, logout.def, ask[r].phone))
      BY <2>3, <2>6, <3>1, WitnessSees
    <3>3. Decided(ask[r].phone)' = Allows(logout.rows, logout.def, ask[r].phone)
      BY <2>3, <3>2 DEF Decided, Allows
    <3>4. defaultBar' => defaultBar
      BY <2>2, <2>3 DEF defaultBar, LogoutInv
    <3> QED BY <3>1, <3>2, <3>3, <3>4 DEF SeenInv
  <2> QED BY <2>5, <2>7 DEF SeenInv
<1>5. CASE resetPersistentStorageFails
  <2>1. UNCHANGED <<db, ups, jobs, ask>> /\ logout' = NoLogout /\ ~shuttingDown' /\ logout.at = "closed"
    BY <1>5 DEF resetPersistentStorageFails, lids, mem
  <2>2. LogoutInv'
    BY <2>1 DEF LogoutInv, NoLogout
  <2>3. \/ row' = row /\ default' = default
        \/ row' = Nobody /\ default' = FALSE
    BY <1>5 DEF resetPersistentStorageFails
  <2>4. ASSUME NEW r \in Requests, ask[r].state \in {"row", "default"}
        PROVE  (Decided(ask[r].phone)' => Decided(ask[r].phone)) /\ (defaultBar' => defaultBar)
    <3>1. ask[r].phone \in Phones
      BY <2>4 DEF TypeInv, Questions, Idle
    <3> QED BY <2>1, <2>3, <3>1, NobodyIsATable DEF Decided, Allowed, Allows, NoLogout, defaultBar
  <2> QED BY <2>1, <2>2, <2>4 DEF SeenInv
<1>6. CASE restorePermissions
  <2>1. UNCHANGED <<db, shuttingDown, ups, ask, jobs>>
    BY <1>6 DEF restorePermissions, lids, mem
  <2>2. logout \in Backups /\ logout.at = "wiped" /\ logout' = [logout EXCEPT !.at = "restored"]
    BY <1>6, LogoutFields DEF restorePermissions
  <2>3. /\ logout'.at = "restored" /\ logout'.rows = logout.rows /\ logout'.def = logout.def
        /\ logout'.was = logout.was /\ logout'.wasDef = logout.wasDef /\ logout'.whole = logout.whole
        /\ logout.def \in BOOLEAN
    BY <2>2 DEF Backups
  <2>4. row' = logout.rows /\ default' = logout.def
    BY <1>6, <2>2, <2>3 DEF restorePermissions, LogoutInv, tables
  <2>5. LogoutInv'
    BY <2>1, <2>2, <2>3, <2>4 DEF LogoutInv
  <2>6. SeenInv'
    BY <2>1, <2>2, <2>3, <2>4 DEF SeenInv, Decided, Allowed, Allows, defaultBar
  <2> QED BY <2>5, <2>6
<1>7. CASE logoutEnds
  <2>1. /\ UNCHANGED <<row, default, db, ups, ask, jobs>>
        /\ logout.at = "restored" /\ logout' = NoLogout /\ ~shuttingDown'
    BY <1>7 DEF logoutEnds, tables, lids, mem
  <2> QED BY <2>1 DEF LogoutInv, SeenInv, Decided, Allowed, Allows, defaultBar, NoLogout
<1> QED BY <1>1, <1>2, <1>3, <1>4, <1>5, <1>6, <1>7 DEF LoggingOut

LEMMA CrashInv ==
    ASSUME PermissionsInv, Crash PROVE LogoutInv' /\ SeenInv'
  BY DEF Crash, LogoutInv, SeenInv, NoLogout, NoJob, Idle

LEMMA Invariant == Spec => []PermissionsInv
<1>1. Init => LogoutInv /\ SeenInv
  BY DEF Init, LogoutInv, SeenInv, NoLogout, NoJob, Idle
<1>2. PermissionsInv /\ [Next]_vars => LogoutInv' /\ SeenInv'
  <2>1. CASE UNCHANGED vars
    BY <2>1 DEF vars, PermissionsInv, LogoutInv, SeenInv, Decided, Allowed, Allows, defaultBar
  <2> QED BY <2>1, UserInv, StoringInv, MigratingInv, ResolvingInv, AskingInv, LoggingOutInv, CrashInv DEF Next
<1>3. TypeInv /\ (LogoutInv /\ SeenInv) <=> PermissionsInv
  BY DEF PermissionsInv
<1> QED BY <1>1, <1>2, <1>3, TypesHold, PTL DEF Spec

-----------------------------------------------------------------------------
(* What follows.                                                             *)

\* A logout whose backup was whole gives every decision, and the default, back,
\* whatever messages are stored and requests are made meanwhile.
THEOREM LogoutGivesBack == Spec => []LogoutKeepsWhitelist
<1>1. PermissionsInv => LogoutKeepsWhitelist
  BY DEF PermissionsInv, LogoutInv, LogoutKeepsWhitelist, Kept
<1> QED BY <1>1, Invariant, PTL

\* Only the migration of a lid replaces a name the user gave by a push name.
THEOREM UserNamesStay == Spec => UserNameKept
<1>1. ASSUME PermissionsInv, Next, NEW p \in Phones,
             row[p] # NoRow, row[p].name \in UserNames,
             row'[p] # NoRow, row'[p].name \in PushNames
      PROVE  jobs.at.at = "read" /\ jobs'.at.at = "written"
  <2> USE <1>1
  <2>1. row[p] \in Rows /\ row[p].name \notin PushNames /\ row[p].name # NoName
    BY PermissionsAssumption DEF PermissionsInv, TypeInv, Tables
  <2>2. row' # row
    BY <2>1
  <2>3. CASE User
    <3>1. ASSUME NEW q \in Phones, NEW b \in BOOLEAN, NEW n \in UserNames \cup {NoName},
                 handleSetWhitelist(q, n, b)
          PROVE  FALSE
      <4>1. n \notin PushNames /\ n \in Names
        BY PermissionsAssumption DEF Names
      <4>2. row' = [row EXCEPT ![q] = IF @ = NoRow \/ n # NoName THEN Row(b, n) ELSE [@ EXCEPT !.allowed = b]]
        BY <3>1 DEF handleSetWhitelist, Store
      <4>3. [row[p] EXCEPT !.allowed = b].name = row[p].name
        BY <2>1, RowChanges, <4>1
      <4> QED BY <2>1, <4>1, <4>2, <4>3, RowIsRow DEF PermissionsInv, TypeInv, Tables
    <3>2. ASSUME NEW b \in BOOLEAN, handleSetWhitelistDefault(b)
          PROVE  FALSE
      <4>1. row' = [q \in Phones |-> IF row[q] = NoRow THEN NoRow ELSE [row[q] EXCEPT !.allowed = b]]
        BY <3>2 DEF handleSetWhitelistDefault, Store
      <4>2. [row[p] EXCEPT !.allowed = b].name = row[p].name
        BY <2>1, RowFields DEF PermissionsInv
      <4> QED BY <2>1, <4>1, <4>2
    <3>3. ASSUME NEW q \in Phones, NEW n \in UserNames, handleSetName(q, n)
          PROVE  FALSE
      <4>1. n \notin PushNames /\ n \in Names
        BY PermissionsAssumption DEF Names
      <4>2. row' = [row EXCEPT ![q] = IF @ = NoRow THEN Row(FALSE, n) ELSE [@ EXCEPT !.name = n]]
        BY <3>3 DEF handleSetName, Store
      <4>3. [row[p] EXCEPT !.name = n].name = n
        BY <2>1, RowFields DEF PermissionsInv
      <4>4. row'[p] = IF p = q THEN [row[p] EXCEPT !.name = n] ELSE row[p]
        BY <4>2 DEF PermissionsInv, TypeInv, Tables
      <4> QED BY <2>1, <4>1, <4>3, <4>4
    <3> QED BY <2>3, <3>1, <3>2, <3>3 DEF User
  <2>4. CASE Storing
    <3>1. PICK u \in ups : upsertPermissionExec(u)
      BY <2>2, <2>4 DEF Storing, upsertMessage, upsertPermissionBegin, tables
    <3>2. row' = [row EXCEPT ![u.phone] = upserted(row[u.phone], u)]
      BY <2>2, <3>1 DEF upsertPermissionExec, Store, tables
    <3>3. u.prev \in PushNames \cup {NoName}
      BY DEF PermissionsInv, TypeInv, Upserts
    <3>4. upserted(row[p], u) = row[p]
      BY <2>1, <3>3 DEF upserted
    <3> QED BY <2>1, <3>2, <3>4 DEF PermissionsInv, TypeInv, Tables
  <2>5. CASE Migrating
    <3>1. CASE migrateWrite
      BY <3>1 DEF migrateWrite, PermissionsInv, TypeInv, Moves, NoJob
    <3>2. CASE migrateDelete
      BY <2>1, <3>2 DEF migrateDelete, Store, PermissionsInv, TypeInv, Tables
    <3> QED BY <2>2, <2>5, <3>1, <3>2 DEF Migrating, migrateRead, tables
  <2>6. CASE Resolving \/ Asking
    BY <2>2, <2>6 DEF Resolving, Asking, Learn, getPNForLID, Evict, Begin, isChatAllowed, loadDefaultAllowed,
                      Finish, tables
  <2>7. CASE LoggingOut
    <3>1. logout.at \in {"closed", "wiped"} /\ (resetPersistentStorage \/ resetPersistentStorageFails \/ restorePermissions)
      BY <2>2, <2>7 DEF LoggingOut, handleLogout, backupPermissions, resetRuntimeState, resetPersistentStorage,
                        resetPersistentStorageFails, restorePermissions, logoutEnds, tables
    <3>2. row' = Nobody \/ logout.at = "wiped"
      BY <2>2, <3>1 DEF resetPersistentStorage, resetPersistentStorageFails, restorePermissions
    <3> QED BY <3>2, NobodyIsATable DEF PermissionsInv, LogoutInv
  <2>8. CASE Crash
    BY <2>2, <2>8 DEF Crash, tables
  <2> QED BY <2>3, <2>4, <2>5, <2>6, <2>7, <2>8 DEF Next
<1>2. ASSUME PermissionsInv, [Next]_vars, NEW p \in Phones,
             row[p] # NoRow, row[p].name \in UserNames, row'[p] # NoRow, row'[p].name \in PushNames
      PROVE  jobs.at.at = "read" /\ jobs'.at.at = "written"
  <2>1. CASE UNCHANGED vars
    BY <1>2, <2>1, PermissionsAssumption DEF vars
  <2> QED BY <1>1, <1>2, <2>1
<1>3. PermissionsInv /\ [Next]_vars =>
         [\A p \in Phones :
             row[p] # NoRow /\ row[p].name \in UserNames
               /\ row'[p] # NoRow /\ row'[p].name \in PushNames
             => jobs.at.at = "read" /\ jobs'.at.at = "written"]_vars
  BY <1>2
<1> QED BY <1>3, Invariant, PTL DEF Spec, UserNameKept

-----------------------------------------------------------------------------
(* The refinement.  Statements that change no decision are stutters: that    *)
(* they leave the requests alone, too, needs SeenInv.                        *)

\* Two ways to write what requests remember.
LEMMA BarBecomes ==
    ASSUME TypeInv, NEW now, ask' = [r \in Requests |->
               IF ask[r].state \in {"row", "default"}
               THEN [ask[r] EXCEPT !.seen = @ \/ now[ask[r].phone]] ELSE ask[r]]
    PROVE  askBar' = W!Witness(now)
<1>1. ASSUME NEW r \in Requests
      PROVE  askBar'[r] = W!Witness(now)[r]
  <2>1. CASE ask[r].state \in {"row", "default"}
    <3>1. ask[r] \in [state : {"row", "default"}, phone : Phones, seen : BOOLEAN]
      BY <2>1 DEF TypeInv, Questions, Idle
    <3>2. askBar[r] = [state |-> "open", phone |-> ask[r].phone, seen |-> ask[r].seen]
      BY <2>1 DEF askBar
    <3>3. ask'[r] = [ask[r] EXCEPT !.seen = @ \/ now[ask[r].phone]]
      BY <2>1
    <3>4. askBar'[r] = [state |-> "open", phone |-> ask[r].phone, seen |-> ask[r].seen \/ now[ask[r].phone]]
      BY <2>1, <3>1, <3>3 DEF askBar
    <3> QED BY <3>2, <3>4 DEF W!Witness
  <2>2. CASE ask[r].state \notin {"row", "default"}
    <3>1. askBar'[r] = ask[r] /\ askBar[r] = ask[r] /\ ask[r].state # "open"
      BY <2>2 DEF askBar, TypeInv, Questions, Idle
    <3> QED BY <3>1 DEF W!Witness
  <2> QED BY <2>1, <2>2
<1> QED BY <1>1 DEF askBar, W!Witness

\* What is allowed while the copy in memory does not count.
LEMMA BarsAre ==
    /\ logout.at # "wiped" => /\ allowBar = [p \in Phones |-> Allows(row, default, p)]
                              /\ defaultBar = default
    /\ logout'.at # "wiped" => /\ allowBar' = [p \in Phones |-> Allows(row', default', p)]
                               /\ defaultBar' = default'
  BY DEF allowBar, defaultBar, Decided, Allowed, Allows

\* A statement becomes a change of who is allowed.
LEMMA StoreBecomes ==
    ASSUME TypeInv, NEW rows \in Tables, NEW def \in BOOLEAN, Store(rows, def),
           logout.at # "wiped", logout' = logout
    PROVE  /\ W!Becomes([p \in Phones |-> Allows(rows, def, p)])
           /\ defaultBar' = def
<1> DEFINE now == [p \in Phones |-> Allows(rows, def, p)]
<1>1. allowBar' = now /\ defaultBar' = def
  BY BarsAre DEF Store
<1>2. \A r \in Requests : ask[r].state \in {"row", "default"} =>
         ask[r].phone \in Phones /\ now[ask[r].phone] = Allows(rows, def, ask[r].phone)
  BY DEF TypeInv, Questions, Idle
<1> HIDE DEF now
<1>3. ask' = [r \in Requests |->
                 IF ask[r].state \in {"row", "default"}
                 THEN [ask[r] EXCEPT !.seen = @ \/ now[ask[r].phone]] ELSE ask[r]]
  BY <1>2 DEF Store, Witness
<1>4. askBar' = W!Witness(now)
  BY <1>3, BarBecomes
<1> QED BY <1>1, <1>4 DEF W!Becomes, now

\* A request that is open has seen what is allowed now, so that to see it
\* again is to change nothing.
LEMMA NothingNew ==
    ASSUME PermissionsInv PROVE W!Witness(allowBar) = askBar
<1>1. ASSUME NEW r \in Requests
      PROVE  W!Witness(allowBar)[r] = askBar[r]
  <2>1. CASE ask[r].state \in {"row", "default"}
    <3>1. ask[r] \in [state : {"row", "default"}, phone : Phones, seen : BOOLEAN]
      BY <2>1 DEF PermissionsInv, TypeInv, Questions, Idle
    <3>2. askBar[r] = [state |-> "open", phone |-> ask[r].phone, seen |-> ask[r].seen]
      BY <2>1 DEF askBar
    <3>3. allowBar[ask[r].phone] => ask[r].seen
      BY <2>1, <3>1 DEF allowBar, PermissionsInv, SeenInv
    <3>4. (ask[r].seen \/ allowBar[ask[r].phone]) = ask[r].seen
      BY <3>1, <3>3
    <3> QED BY <3>2, <3>4 DEF W!Witness
  <2>2. CASE ask[r].state \notin {"row", "default"}
    BY <2>2 DEF askBar, W!Witness, PermissionsInv, TypeInv, Questions, Idle
  <2> QED BY <2>1, <2>2
<1> QED BY <1>1 DEF askBar, W!Witness

LEMMA AllowsBoolean ==
    ASSUME NEW rows \in Tables, NEW def \in BOOLEAN, NEW p \in Phones
    PROVE  Allows(rows, def, p) \in BOOLEAN
  BY DEF Allows, Tables, Rows

LEMMA UserSteps ==
    ASSUME PermissionsInv, User PROVE [W!Next]_(W!vars)
<1>1. logout.at # "wiped" /\ logout' = logout /\ jobs' = jobs
  BY DEF User, handleSetWhitelist, handleSetWhitelistDefault, handleSetName, StoreOpen, sys, lids,
         PermissionsInv, LogoutInv
<1>2. movingBar' = movingBar /\ TypeInv /\ default \in BOOLEAN /\ row \in Tables
  BY <1>1 DEF movingBar, PermissionsInv, TypeInv
<1>3. row' \in Tables
  BY UserType DEF PermissionsInv, TypeInv
<1>4. allowBar = [p \in Phones |-> Allows(row, default, p)] /\ defaultBar = default
  BY <1>1, BarsAre
<1>5. ASSUME NEW p \in Phones, NEW b \in BOOLEAN, NEW n \in UserNames \cup {NoName},
             handleSetWhitelist(p, n, b)
      PROVE  W!Next
  <2> DEFINE new == IF row[p] = NoRow \/ n # NoName THEN Row(b, n) ELSE [row[p] EXCEPT !.allowed = b]
             rows == [row EXCEPT ![p] = new]
  <2>1. row' = rows /\ Store(rows, default)
    BY <1>5 DEF handleSetWhitelist, Store
  <2>2. n \in Names /\ NoName \in Names /\ row[p] \in Rows
    BY <1>2 DEF Names, Tables
  <2>3. new # NoRow /\ new.allowed = b
    <3>1. CASE row[p] = NoRow \/ n # NoName
      BY <2>2, <3>1, RowIsRow
    <3>2. CASE ~(row[p] = NoRow \/ n # NoName)
      BY <2>2, <3>2, RowDecided
    <3> QED BY <3>1, <3>2
  <2>4. [q \in Phones |-> Allows(rows, default, q)] = [allowBar EXCEPT ![p] = b]
    BY <1>2, <1>4, <2>3 DEF Allows, Tables
  <2>5. W!Becomes([allowBar EXCEPT ![p] = b]) /\ defaultBar' = defaultBar
    <3> HIDE DEF rows
    <3> QED BY <1>1, <1>2, <1>3, <1>4, <2>1, <2>4, StoreBecomes
  <2> QED BY <1>2, <2>5 DEF W!Next, W!Decide
<1>6. ASSUME NEW b \in BOOLEAN, handleSetWhitelistDefault(b)
      PROVE  W!Next
  <2> DEFINE rows == [p \in Phones |-> IF row[p] = NoRow THEN NoRow ELSE [row[p] EXCEPT !.allowed = b]]
  <2>1. row' = rows /\ Store(rows, b)
    BY <1>6 DEF handleSetWhitelistDefault, Store
  <2>2. ASSUME NEW p \in Phones, row[p] # NoRow
        PROVE  [row[p] EXCEPT !.allowed = b] # NoRow /\ [row[p] EXCEPT !.allowed = b].allowed = b
    BY <1>2, <2>2, RowDecided DEF Tables
  <2>3. \A p \in Phones : Allows(rows, b, p) = b
    BY <2>2 DEF Allows
  <2> HIDE DEF rows
  <2>4. W!Becomes([p \in Phones |-> Allows(rows, b, p)]) /\ defaultBar' = b
    BY <1>1, <1>2, <1>3, <2>1, StoreBecomes
  <2>5. [p \in Phones |-> Allows(rows, b, p)] = [p \in Phones |-> b]
    BY <2>3
  <2> QED BY <1>2, <2>4, <2>5 DEF W!Next, W!DecideAll
<1>7. ASSUME NEW p \in Phones, NEW n \in UserNames, handleSetName(p, n)
      PROVE  [W!Next]_(W!vars)
  <2> DEFINE new == IF row[p] = NoRow THEN Row(FALSE, n) ELSE [row[p] EXCEPT !.name = n]
             rows == [row EXCEPT ![p] = new]
  <2>1. row' = rows /\ Store(rows, default)
    BY <1>7 DEF handleSetName, Store
  <2>2. n \in Names /\ row[p] \in Rows /\ FALSE \in BOOLEAN
    BY <1>2 DEF Names, Tables
  <2>3. new # NoRow /\ new.allowed = IF row[p] = NoRow THEN FALSE ELSE row[p].allowed
    <3>1. CASE row[p] = NoRow
      BY <2>2, <3>1, RowIsRow
    <3>2. CASE row[p] # NoRow
      BY <2>2, <3>2, RowNamed
    <3> QED BY <3>1, <3>2
  <2>4. [q \in Phones |-> Allows(rows, default, q)] =
           IF row[p] = NoRow THEN [allowBar EXCEPT ![p] = FALSE] ELSE allowBar
    BY <1>2, <1>4, <2>3 DEF Allows, Tables
  <2>5. /\ W!Becomes(IF row[p] = NoRow THEN [allowBar EXCEPT ![p] = FALSE] ELSE allowBar)
        /\ defaultBar' = defaultBar
    <3> HIDE DEF rows
    <3> QED BY <1>1, <1>2, <1>3, <1>4, <2>1, <2>4, StoreBecomes
  <2> QED BY <1>2, <2>5, NothingNew DEF W!Next, W!Newcomer, W!Becomes, W!vars
<1> QED BY <1>5, <1>6, <1>7 DEF User

LEMMA StoringSteps ==
    ASSUME PermissionsInv, Storing PROVE [W!Next]_(W!vars)
<1>1. TypeInv /\ default \in BOOLEAN /\ row \in Tables /\ logout' = logout /\ jobs' = jobs
  BY DEF Storing, upsertMessage, upsertPermissionBegin, upsertPermissionExec, sys, lids, PermissionsInv, TypeInv
<1>2. movingBar' = movingBar
  BY <1>1 DEF movingBar
<1>3. ASSUME UNCHANGED <<tables, ask>>
      PROVE  UNCHANGED W!vars
  BY <1>1, <1>2, <1>3 DEF W!vars, tables, allowBar, Decided, Allowed, Allows, defaultBar, askBar
<1>4. ASSUME NEW u \in ups, upsertPermissionExec(u), u.db = db
      PROVE  [W!Next]_(W!vars)
  <2> DEFINE p == u.phone
             new == upserted(row[p], u)
             rows == [row EXCEPT ![p] = new]
  <2>1. p \in Phones
    BY DEF PermissionsInv, TypeInv, Upserts
  <2>2. rows \in Tables /\ new # NoRow /\ new.allowed = IF row[p] = NoRow THEN FALSE ELSE row[p].allowed
    BY <1>1, <2>1, UpsertKeeps DEF Kept, Tables
  <2>3. logout.at # "wiped"
    BY <1>4 DEF PermissionsInv, LogoutInv
  <2>4. allowBar = [q \in Phones |-> Allows(row, default, q)] /\ defaultBar = default
    BY <2>3, BarsAre
  <2>5. [q \in Phones |-> Allows(rows, default, q)] =
           IF row[p] = NoRow THEN [allowBar EXCEPT ![p] = FALSE] ELSE allowBar
    BY <1>1, <2>1, <2>2, <2>4 DEF Allows, Tables
  <2>6. Store(rows, default)
    BY <1>4 DEF upsertPermissionExec
  <2>7. /\ W!Becomes(IF row[p] = NoRow THEN [allowBar EXCEPT ![p] = FALSE] ELSE allowBar)
        /\ defaultBar' = defaultBar
    <3> HIDE DEF rows, p
    <3> QED BY <1>1, <2>2, <2>3, <2>4, <2>5, <2>6, StoreBecomes
  <2> HIDE DEF p
  <2> QED BY <1>2, <2>1, <2>7, NothingNew DEF W!Next, W!Newcomer, W!Becomes, W!vars
<1> QED BY <1>3, <1>4 DEF Storing, upsertMessage, upsertPermissionBegin, upsertPermissionExec, tables

LEMMA MigratingSteps ==
    ASSUME PermissionsInv, Migrating PROVE [W!Next]_(W!vars)
<1>1. TypeInv /\ default \in BOOLEAN /\ row \in Tables /\ logout' = logout
  BY DEF Migrating, migrateRead, migrateWrite, migrateDelete, sys, PermissionsInv, TypeInv
<1>2. ASSUME NEW l \in Lids, migrateRead(l)
      PROVE  [W!Next]_(W!vars)
  <2>1. UNCHANGED <<allowBar, defaultBar, askBar>>
    BY <1>1, <1>2 DEF migrateRead, tables, allowBar, Decided, Allowed, Allows, defaultBar, askBar
  <2>2. movingBar = {}
    BY <1>2 DEF migrateRead, movingBar
  <2>3. CASE StoreOpen /\ row[l] # NoRow
    <3>1. logout.at # "wiped" /\ l \in Phones
      BY <2>3, PhoneOfLid DEF StoreOpen, PermissionsInv, LogoutInv
    <3>2. allowBar[l] = row[l].allowed
      BY <2>3, <3>1, BarsAre DEF Allows
    <3>3. jobs'.at = [at |-> "read", lid |-> l, row |-> row[l]]
      BY <1>2, <2>3 DEF migrateRead
    <3>4. movingBar' = {row[l].allowed}
      BY <3>3 DEF movingBar, NoJob
    <3> QED BY <2>1, <2>2, <3>1, <3>2, <3>4 DEF W!Next, W!PickUp
  <2>4. CASE ~(StoreOpen /\ row[l] # NoRow)
    <3>1. movingBar' = {}
      BY <1>2, <2>4 DEF migrateRead, movingBar
    <3> QED BY <2>1, <2>2, <3>1 DEF W!vars
  <2> QED BY <2>3, <2>4
<1>3. CASE migrateWrite
  <2> DEFINE p == PNOf[jobs.at.lid]
             rows == [row EXCEPT ![p] = jobs.at.row]
  <2>1. jobs.at \in Moves /\ logout.at # "wiped"
    BY <1>3 DEF migrateWrite, PermissionsInv, TypeInv, LogoutInv, NoJob
  <2>2. p \in Phones /\ jobs.at.row \in Rows /\ jobs.at.row # NoRow
    BY <2>1, PhoneOfLid DEF Moves
  <2>3. Store(rows, default) /\ rows \in Tables
    BY <1>1, <1>3, <2>2 DEF migrateWrite, Tables
  <2>4. allowBar = [q \in Phones |-> Allows(row, default, q)] /\ defaultBar = default
    BY <2>1, BarsAre
  <2>5. [q \in Phones |-> Allows(rows, default, q)] = [allowBar EXCEPT ![p] = jobs.at.row.allowed]
    BY <1>1, <2>2, <2>4 DEF Allows, Tables
  <2>6. W!Becomes([allowBar EXCEPT ![p] = jobs.at.row.allowed]) /\ defaultBar' = defaultBar
    <3> HIDE DEF rows
    <3> QED BY <1>1, <2>1, <2>3, <2>4, <2>5, StoreBecomes
  <2>7. jobs'.at # NoJob /\ jobs.at # NoJob /\ jobs'.at.row = jobs.at.row
    BY <1>1, <1>3, <2>1 DEF migrateWrite, Moves, NoJob, TypeInv
  <2>8. movingBar = {jobs.at.row.allowed} /\ movingBar' = movingBar
    BY <2>7 DEF movingBar
  <2> QED BY <2>2, <2>6, <2>8 DEF W!Next, W!PutDown
<1>4. CASE migrateDelete
  <2> DEFINE p == jobs.at.lid
             rows == [row EXCEPT ![p] = NoRow]
  <2>1. jobs.at \in Moves /\ logout.at # "wiped"
    BY <1>4 DEF migrateDelete, PermissionsInv, TypeInv, LogoutInv, NoJob
  <2>2. p \in Phones
    BY <2>1, PhoneOfLid DEF Moves
  <2>3. Store(rows, default) /\ rows \in Tables
    BY <1>1, <1>4, <2>2 DEF migrateDelete, Tables, Rows
  <2>4. allowBar = [q \in Phones |-> Allows(row, default, q)] /\ defaultBar = default
    BY <2>1, BarsAre
  <2>5. [q \in Phones |-> Allows(rows, default, q)] = [allowBar EXCEPT ![p] = default]
    BY <1>1, <2>2, <2>4 DEF Allows, Tables
  <2>6. W!Becomes([allowBar EXCEPT ![p] = defaultBar]) /\ defaultBar' = defaultBar
    <3> HIDE DEF rows
    <3> QED BY <1>1, <2>1, <2>3, <2>4, <2>5, StoreBecomes
  <2>7. jobs'.at = NoJob
    BY <1>4, <1>1 DEF migrateDelete, TypeInv
  <2>8. movingBar' = {}
    BY <2>7 DEF movingBar
  <2> QED BY <2>2, <2>6, <2>8 DEF W!Next, W!LetGo
<1> QED BY <1>2, <1>3, <1>4 DEF Migrating

LEMMA ResolvingSteps ==
    ASSUME PermissionsInv, Resolving PROVE [W!Next]_(W!vars)
<1>1. UNCHANGED <<row, default, ask, logout>> /\ jobs'.at = jobs.at
  BY DEF Resolving, Learn, getPNForLID, Evict, tables, sys, PermissionsInv, TypeInv
<1> QED BY <1>1 DEF W!vars, allowBar, Decided, Allowed, Allows, defaultBar, askBar, movingBar

\* One request changes.
LEMMA OneAsk ==
    ASSUME TypeInv, NEW r \in Requests, NEW q, ask' = [ask EXCEPT ![r] = q]
    PROVE  askBar' = [askBar EXCEPT ![r] =
                        IF q.state \in {"row", "default"}
                        THEN [state |-> "open", phone |-> q.phone, seen |-> q.seen] ELSE q]
  BY DEF askBar, TypeInv

LEMMA AskingSteps ==
    ASSUME PermissionsInv, Asking PROVE [W!Next]_(W!vars)
<1>1. TypeInv /\ UNCHANGED <<tables, sys, lids>>
  BY DEF Asking, Begin, isChatAllowed, loadDefaultAllowed, Finish, PermissionsInv
<1>2. UNCHANGED <<allowBar, defaultBar, movingBar>>
  BY <1>1 DEF tables, sys, lids, allowBar, Decided, Allowed, Allows, defaultBar, movingBar
<1>3. ASSUME NEW r \in Requests, NEW p \in Phones, Begin(r, p)
      PROVE  W!Next
  <2> DEFINE q == [state |-> "row", phone |-> Canon(p), seen |-> Decided(Canon(p))]
  <2>1. Canon(p) \in Phones /\ allowBar[Canon(p)] = Decided(Canon(p))
    BY CanonIsPhone DEF allowBar
  <2>2. askBar[r] = W!Idle
    BY <1>3 DEF Begin, askBar, Idle, W!Idle
  <2>3. ask' = [ask EXCEPT ![r] = q] /\ q.state = "row" /\ q.phone = Canon(p) /\ q.seen = Decided(Canon(p))
    BY <1>3 DEF Begin
  <2> HIDE DEF q
  <2>4. askBar' = [askBar EXCEPT ![r] = W!Open(Canon(p), allowBar[Canon(p)])]
    BY <1>1, <2>1, <2>3, OneAsk DEF W!Open
  <2> QED BY <1>2, <2>1, <2>2, <2>4 DEF W!Next, W!Ask
<1>4. ASSUME NEW r \in Requests, ask[r].state # "idle", ask' = [ask EXCEPT ![r] = Idle]
      PROVE  W!Next
  <2>1. askBar[r] # W!Idle
    BY <1>4 DEF askBar, W!Idle
  <2>2. askBar' = [askBar EXCEPT ![r] = W!Idle]
    BY <1>1, <1>4, OneAsk DEF Idle, W!Idle
  <2> QED BY <1>2, <2>1, <2>2 DEF W!Next, W!Answer
<1>5. ASSUME NEW r \in Requests, ask[r].state \in {"row", "default"}, ask[r].seen, Granted(r)
      PROVE  W!Next
  <2>1. askBar[r].state = "open" /\ askBar[r].phone = ask[r].phone /\ askBar[r].seen
    BY <1>5 DEF askBar
  <2>2. askBar' = [askBar EXCEPT ![r] = W!Passed(askBar[r].phone)]
    BY <1>1, <1>5, <2>1, OneAsk DEF Granted, W!Passed
  <2> QED BY <1>2, <2>1, <2>2 DEF W!Next, W!Pass
<1>6. ASSUME NEW r \in Requests, isChatAllowed(r)
      PROVE  [W!Next]_(W!vars)
  <2>1. ask[r] \in [state : {"row", "default"}, phone : Phones, seen : BOOLEAN] /\ ask[r].state = "row"
    BY <1>1, <1>6 DEF isChatAllowed, TypeInv, Questions, Idle
  <2>2. CASE ask' = [ask EXCEPT ![r].state = "default"]
    <3>1. askBar' = askBar
      <4> DEFINE q == [ask[r] EXCEPT !.state = "default"]
      <4>1. ask' = [ask EXCEPT ![r] = q]
        BY <2>2
      <4>2. q.state = "default" /\ q.phone = ask[r].phone /\ q.seen = ask[r].seen
        BY <2>1
      <4>3. askBar[r] = [state |-> "open", phone |-> ask[r].phone, seen |-> ask[r].seen]
        BY <2>1 DEF askBar
      <4> HIDE DEF q
      <4>4. askBar' = [askBar EXCEPT ![r] =
                          IF q.state \in {"row", "default"}
                          THEN [state |-> "open", phone |-> q.phone, seen |-> q.seen] ELSE q]
        BY <1>1, <4>1, OneAsk
      <4>5. askBar' = [askBar EXCEPT ![r] = askBar[r]]
        BY <4>2, <4>3, <4>4
      <4> QED BY <4>5 DEF askBar
    <3> QED BY <1>2, <3>1 DEF W!vars
  <2>3. CASE Granted(r) /\ StoreOpen /\ row[ask[r].phone] # NoRow /\ row[ask[r].phone].allowed
    <3>1. Decided(ask[r].phone)
      BY <2>3 DEF StoreOpen, PermissionsInv, LogoutInv, Decided, Allowed, Allows
    <3>2. ask[r].seen
      BY <2>1, <3>1 DEF PermissionsInv, SeenInv
    <3> QED BY <1>5, <2>1, <2>3, <3>2
  <2>4. CASE ask' = [ask EXCEPT ![r] = Idle]
    BY <1>4, <2>1, <2>4
  <2>5. row[ask[r].phone] # NoRow => row[ask[r].phone].allowed \in BOOLEAN
    BY <1>1, <2>1, RowFields
  <2> QED BY <1>6, <2>2, <2>3, <2>4, <2>5 DEF isChatAllowed, Answer
<1>7. ASSUME NEW r \in Requests, loadDefaultAllowed(r)
      PROVE  W!Next
  <2>1. CASE StoreOpen /\ default /\ Granted(r)
    <3>1. ask[r].state = "default" /\ defaultBar
      BY <1>7, <2>1 DEF loadDefaultAllowed, StoreOpen, PermissionsInv, LogoutInv, defaultBar
    <3>2. ask[r].seen
      BY <3>1 DEF PermissionsInv, SeenInv
    <3> QED BY <1>5, <2>1, <3>1, <3>2
  <2>2. CASE ask' = [ask EXCEPT ![r] = Idle]
    BY <1>4, <1>7, <2>2 DEF loadDefaultAllowed
  <2> QED BY <1>7, <2>1, <2>2 DEF loadDefaultAllowed, Answer
<1>8. ASSUME NEW r \in Requests, Finish(r)
      PROVE  W!Next
  BY <1>4, <1>8 DEF Finish, Answer
<1> QED BY <1>3, <1>6, <1>7, <1>8 DEF Asking

\* What is wiped was copied before; a copy that is not whole lapses.
LEMMA LoggingOutSteps ==
    ASSUME PermissionsInv, LoggingOut PROVE [W!Next]_(W!vars)
<1>1. TypeInv /\ row \in Tables /\ default \in BOOLEAN /\ UNCHANGED <<jobs, movingBar>>
  BY DEF LoggingOut, handleLogout, backupPermissions, resetRuntimeState, resetPersistentStorage,
         resetPersistentStorageFails, restorePermissions, logoutEnds, lids, movingBar, PermissionsInv, TypeInv
<1>2. ASSUME UNCHANGED <<row, default, ask>>, logout.at # "wiped", logout'.at # "wiped"
      PROVE  UNCHANGED W!vars
  BY <1>1, <1>2, BarsAre DEF W!vars, askBar
<1>3. CASE handleLogout
  BY <1>2, <1>3 DEF handleLogout, NoLogout, tables
<1>4. ASSUME NEW lost \in {{}, Phones}, NEW defLost \in BOOLEAN, backupPermissions(lost, defLost)
      PROVE  UNCHANGED W!vars
  BY <1>2, <1>4 DEF backupPermissions, tables
<1>5. CASE resetRuntimeState
  <2>1. logout \in Backups
    BY <1>1, <1>5, LogoutFields DEF resetRuntimeState
  <2> QED BY <1>2, <1>5, <2>1 DEF resetRuntimeState, tables, Backups
<1>6. CASE resetPersistentStorage
  <2> DEFINE rows == logout.rows
             def == logout.def
             lost == {p \in Phones : rows[p] = NoRow}
             now == [p \in Phones |-> IF p \in lost THEN def ELSE allowBar[p]]
  <2>1. logout \in Backups /\ logout.at = "closed" /\ logout' = [logout EXCEPT !.at = "wiped"]
    BY <1>1, <1>6, LogoutFields DEF resetPersistentStorage
  <2>2. rows \in Tables /\ def \in BOOLEAN /\ logout'.at = "wiped" /\ logout'.rows = rows /\ logout'.def = def
    BY <2>1 DEF Backups
  <2>3. Kept(rows, row) /\ (def => default)
    BY <2>1 DEF PermissionsInv, LogoutInv
  <2>4. allowBar = [p \in Phones |-> Allows(row, default, p)] /\ defaultBar = default
    BY <2>1, BarsAre
  <2>5. now = [p \in Phones |-> Allows(rows, def, p)]
    BY <2>3, <2>4 DEF Allows, Kept
  <2>6. allowBar' = now /\ defaultBar' = def
    BY <2>2, <2>5 DEF allowBar, defaultBar, Decided
  <2>7. \A r \in Requests : ask[r].state \in {"row", "default"} =>
           ask[r].phone \in Phones /\ now[ask[r].phone] = Allows(rows, def, ask[r].phone)
    BY <1>1, <2>5 DEF TypeInv, Questions, Idle
  <2> HIDE DEF now
  <2>8. ask' = [r \in Requests |->
                   IF ask[r].state \in {"row", "default"}
                   THEN [ask[r] EXCEPT !.seen = @ \/ now[ask[r].phone]] ELSE ask[r]]
    BY <1>6, <2>7 DEF resetPersistentStorage, Witness
  <2>9. askBar' = W!Witness(now)
    BY <1>1, <2>8, BarBecomes
  <2>10. W!Lapse(lost, def)
    BY <1>1, <2>3, <2>4, <2>6, <2>9 DEF W!Lapse, W!Becomes, now
  <2> QED BY <2>2, <2>10 DEF W!Next
<1>7. CASE resetPersistentStorageFails
  <2>1. ask' = ask /\ logout.at = "closed" /\ logout' = NoLogout
    BY <1>7 DEF resetPersistentStorageFails, mem
  <2>2. CASE row' = row /\ default' = default
    BY <1>2, <2>1, <2>2 DEF NoLogout
  <2>3. CASE row' = Nobody /\ default' = FALSE
    <3> DEFINE now == [p \in Phones |-> IF p \in Phones THEN FALSE ELSE allowBar[p]]
    <3>1. allowBar' = now /\ defaultBar' = FALSE
      BY <2>1, <2>3, BarsAre, NobodyIsATable DEF NoLogout, Allows
    <3>2. ASSUME NEW r \in Requests PROVE W!Witness(now)[r] = askBar[r]
      <4>1. CASE ask[r].state \in {"row", "default"}
        <5>1. ask[r].phone \in Phones /\ ask[r].seen \in BOOLEAN
          BY <1>1, <4>1 DEF TypeInv, Questions, Idle
        <5>2. askBar[r] = [state |-> "open", phone |-> ask[r].phone, seen |-> ask[r].seen]
          BY <4>1 DEF askBar
        <5>3. (ask[r].seen \/ now[ask[r].phone]) = ask[r].seen
          BY <5>1
        <5> HIDE DEF now
        <5> QED BY <5>2, <5>3 DEF W!Witness
      <4>2. CASE ask[r].state \notin {"row", "default"}
        BY <1>1, <4>2 DEF askBar, W!Witness, TypeInv, Questions, Idle
      <4> QED BY <4>1, <4>2
    <3>3. askBar' = W!Witness(now)
      <4> HIDE DEF now
      <4> QED BY <2>1, <3>2 DEF askBar, W!Witness
    <3>4. W!Lapse(Phones, FALSE)
      BY <1>1, <3>1, <3>3 DEF W!Lapse, W!Becomes
    <3> QED BY <3>4 DEF W!Next
  <2> QED BY <1>7, <2>2, <2>3 DEF resetPersistentStorageFails
<1>8. CASE restorePermissions
  <2>1. logout \in Backups /\ logout.at = "wiped" /\ logout' = [logout EXCEPT !.at = "restored"] /\ ask' = ask
    BY <1>1, <1>8, LogoutFields DEF restorePermissions, mem
  <2>2. logout'.at = "restored" /\ logout.def \in BOOLEAN
    BY <2>1 DEF Backups
  <2>3. row' = logout.rows /\ default' = logout.def
    BY <1>8, <2>1, <2>2 DEF restorePermissions, tables, PermissionsInv, LogoutInv
  <2>4. allowBar' = allowBar /\ defaultBar' = defaultBar
    BY <2>1, <2>2, <2>3 DEF allowBar, defaultBar, Decided, Allowed
  <2> QED BY <1>1, <2>1, <2>4 DEF W!vars, askBar
<1>9. CASE logoutEnds
  BY <1>2, <1>9 DEF logoutEnds, NoLogout, tables
<1> QED BY <1>3, <1>4, <1>5, <1>6, <1>7, <1>8, <1>9 DEF LoggingOut

LEMMA CrashStep ==
    ASSUME PermissionsInv, Crash PROVE W!Next
<1>1. askBar' = [r \in Requests |-> W!Idle]
  BY DEF Crash, askBar, Idle, W!Idle
<1>2. movingBar' = {}
  BY DEF Crash, movingBar
<1>3. row' = row /\ default' = default /\ logout'.at # "wiped"
  BY DEF Crash, tables, NoLogout
<1>4. CASE logout.at # "wiped"
  BY <1>1, <1>2, <1>3, <1>4, BarsAre DEF W!Next, W!Stop
<1>5. CASE logout.at = "wiped"
  <2>1. row = Nobody /\ default = FALSE
    BY <1>5 DEF PermissionsInv, LogoutInv
  <2>2. allowBar' = [p \in Phones |-> FALSE] /\ defaultBar' = FALSE
    BY <1>3, <2>1, BarsAre, NobodyIsATable DEF Allows
  <2> QED BY <1>1, <1>2, <2>2 DEF W!Next, W!Stop
<1> QED BY <1>4, <1>5

\* Permissions implements Whitelist: whatever is interleaved, however a logout
\* goes and whenever the process stops, every change of who is allowed is one
\* the whitelist knows, and a request passes only if its chat was allowed at
\* some moment since it was made.
THEOREM Implements == Spec => ImplementsWhitelist
<1>1. Init => W!Init
  <2> SUFFICES ASSUME Init PROVE W!Init
    OBVIOUS
  <2>1. allowBar = [p \in Phones |-> FALSE] /\ defaultBar = FALSE
    BY BarsAre, NobodyIsATable DEF Init, NoLogout, Allows
  <2>2. movingBar = {} /\ askBar = [r \in Requests |-> W!Idle]
    BY DEF Init, movingBar, askBar, Idle, W!Idle
  <2> QED BY <2>1, <2>2 DEF W!Init
<1>2. PermissionsInv /\ [Next]_vars => [W!Next]_(W!vars)
  <2>1. CASE UNCHANGED vars
    BY <2>1 DEF vars, W!vars, allowBar, Decided, Allowed, Allows, defaultBar, askBar, movingBar
  <2> QED BY <2>1, UserSteps, StoringSteps, MigratingSteps, ResolvingSteps, AskingSteps, LoggingOutSteps,
             CrashStep DEF Next
<1> QED BY <1>1, <1>2, Invariant, PTL DEF Spec, ImplementsWhitelist, W!Spec

=============================================================================
