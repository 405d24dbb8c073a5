----------------------------- MODULE MessageStore -----------------------------
(***************************************************************************)
(* The message archive of the backend: table messages, its full-text index *)
(* messages_fts, and every writer of the two.                              *)
(*                                                                         *)
(* SQLite is opened with one connection, so a statement, or a transaction, *)
(* is one atomic step.  Writers that use several statements outside a      *)
(* transaction (editMessageInDB, BackfillFTS, loadState) are one action    *)
(* per statement: the other writers run in between, and the process can    *)
(* die there.  Failing statements (a full disk) are not modelled.          *)
(***************************************************************************)
EXTENDS Naturals, FiniteSets

CONSTANTS
    Msgs,      \* primary keys (chat_id, id, from_me) of table messages
    Mine,      \* the keys with from_me = 1
    Texts,     \* what ExtractSearchableText can return, other than ""
    NoText,    \* a payload it returns "" for: a sticker, an image without caption
    Control,   \* a protocol payload that builds before the filter stored as a message
    NoRow,     \* no row has this key
    PageSize,  \* batchSize of BackfillFTS
    MaxRowid,  \* bound: rowids ever given out in one database
    MaxBoots   \* bound: databases opened, at process start or after a logout

Payloads == Texts \cup {NoText}
Receipts == {"", "sent", "delivered", "read", "played"}
Row == [rowid : Nat \ {0}, body : Payloads \cup {Control}, receipt : Receipts]

\* The two goroutines that edit: a request handler and the event handler.
Editors == {"http", "events"}
Idle == [pc |-> "idle"]

ASSUME ArchiveAssumption ==
    /\ IsFiniteSet(Msgs)
    /\ Mine \subseteq Msgs
    /\ NoText \notin Texts
    /\ Control \notin Payloads
    /\ NoRow \notin Row
    /\ PageSize \in Nat \ {0}
    /\ MaxRowid \in Nat
    /\ MaxBoots \in Nat

VARIABLES
    messages,   \* table messages: a row or NoRow for each key
    fts,        \* messages_fts, without multiplicity: <<key, indexed text>>
    watermark,  \* row 'rowid' of fts_backfill_meta, 0 when there is none
    boot,       \* statement of loadState to come, then "up"
    boots,      \* databases opened so far
    backfill,   \* the goroutine started by initPersistentResources
    recent,     \* rows whose ts is after the cutoff this backfill has read
    edit,       \* where each editor is in editMessageInDB
    torn,       \* history: a crash cut the edit of this message in two
    contended   \* history: two writers of this message's index entry overlapped

archiveVars == <<messages, fts, watermark, boot, boots, backfill, recent, edit, torn, contended>>

-----------------------------------------------------------------------------

Stored == {m \in Msgs : messages[m] # NoRow}
HasText(m) == m \in Stored /\ messages[m].body \in Texts
Indexed(m) == \E t \in Texts : <<m, t>> \in fts
WithoutEntry(m) == {e \in fts : e[1] # m}
EntriesFor(m, body) == {<<m, t>> : t \in Texts \cap {body}}

Editing(m) == \E e \in Editors : edit[e].pc # "idle" /\ edit[e].msg = m
AtWork(m) == Editing(m) \/ \E t \in Texts : <<m, t>> \in backfill.pending

receiptStatusRank(r) ==
    CASE r = "sent" -> 1 [] r = "delivered" -> 2 [] r = "read" -> 3 [] r = "played" -> 4
      [] OTHER -> 0

\* A rowid table without AUTOINCREMENT gives a new row the largest rowid plus one.
NextRowid(r) ==
    /\ r <= MaxRowid
    /\ \A n \in Stored : messages[n].rowid < r
    /\ r = 1 \/ \E n \in Stored : r = messages[n].rowid + 1

\* Rows left behind by a build that had no index: no entry, no receipt status.
LegacyRow == [rowid : 1 .. Cardinality(Msgs), body : Payloads \cup {Control}, receipt : {""}]

ArchiveInit ==
    /\ messages \in [Msgs -> LegacyRow \cup {NoRow}]
    /\ \A m, n \in Stored : messages[m].rowid = messages[n].rowid => m = n
    /\ fts = {}
    /\ watermark = 0
    /\ boot = "receipts"
    /\ boots = 1
    /\ backfill = [pc |-> "start", last |-> 0, pending |-> {}]
    /\ recent = {}
    /\ edit = [e \in Editors |-> Idle]
    /\ torn = {}
    /\ contended = {}

-----------------------------------------------------------------------------
(* loadState, while the backfill already runs.  Requests and events come   *)
(* only after it.                                                          *)

backfillReceipt ==
    /\ boot = "receipts"
    /\ messages' = [m \in Msgs |->
          IF m \in Stored \cap Mine /\ messages[m].receipt = ""
          THEN [messages[m] EXCEPT !.receipt = "delivered"] ELSE messages[m]]
    /\ boot' = "purge"
    /\ UNCHANGED <<fts, watermark, boots, backfill, recent, edit, torn, contended>>

purgeInvisibleProtocolMessages ==
    /\ boot = "purge"
    /\ messages' = [m \in Msgs |->
          IF m \in Stored /\ messages[m].body = Control THEN NoRow ELSE messages[m]]
    /\ boot' = IF messages' = messages THEN "up" ELSE "orphans"
    /\ UNCHANGED <<fts, watermark, boots, backfill, recent, edit, torn, contended>>

\* Entries without a message go only when the purge above removed something.
purgeOrphanEntries ==
    /\ boot = "orphans"
    /\ fts' = {e \in fts : e[1] \in Stored}
    /\ boot' = "up"
    /\ UNCHANGED <<messages, watermark, boots, backfill, recent, edit, torn, contended>>

-----------------------------------------------------------------------------
(* BackfillFTS: a page of rows is read, indexed in a later transaction, and *)
(* the watermark is written after that.                                     *)

\* Mutant: the test the watermark replaced, "skip when the index is not empty".
BackfillUnlessIndexed ==
    /\ backfill.pc = "start"
    /\ backfill' = [pc |-> IF fts = {} THEN "scan" ELSE "off",
                    last |-> watermark, pending |-> {}]
    /\ UNCHANGED <<messages, fts, watermark, boot, boots, recent, edit, torn, contended>>

BackfillStart ==
    /\ backfill.pc = "start"
    /\ backfill' = [pc |-> "scan", last |-> watermark, pending |-> {}]
    /\ UNCHANGED <<messages, fts, watermark, boot, boots, recent, edit, torn, contended>>

\* Mutant: the scan resumes one row too late.
UnscannedAfterNext == {m \in Stored \ recent : messages[m].rowid > backfill.last + 1}
Unscanned == {m \in Stored \ recent : messages[m].rowid > backfill.last}

\* The first PageSize of these rows by rowid.
IsPage(page) ==
    /\ page \subseteq Unscanned
    /\ Cardinality(page) <= PageSize
    /\ Cardinality(page) < PageSize => page = Unscanned
    /\ \A m \in page, n \in Unscanned \ page : messages[m].rowid < messages[n].rowid

BackfillScan(page) ==
    /\ backfill.pc = "scan"
    /\ IsPage(page)
    /\ \E m \in page :
          /\ \A n \in page : messages[n].rowid <= messages[m].rowid
          /\ LET found == {<<n, messages[n].body>> : n \in {k \in page : HasText(k)}}
             IN  backfill' = [pc      |-> IF found = {} THEN "mark" ELSE "insert",
                              last    |-> messages[m].rowid,
                              pending |-> found]
    /\ contended' = contended \cup {m \in page : HasText(m) /\ Editing(m)}
    /\ UNCHANGED <<messages, fts, watermark, boot, boots, recent, edit, torn>>

BackfillEnd ==
    /\ backfill.pc = "scan"
    /\ Unscanned = {}
    /\ backfill' = [backfill EXCEPT !.pc = "off"]
    /\ UNCHANGED <<messages, fts, watermark, boot, boots, recent, edit, torn, contended>>

\* INSERT OR IGNORE: the index has no key to conflict with, so nothing is ignored.
BackfillInsert ==
    /\ backfill.pc = "insert"
    /\ fts' = fts \cup backfill.pending
    /\ backfill' = [backfill EXCEPT !.pc = "mark", !.pending = {}]
    /\ UNCHANGED <<messages, watermark, boot, boots, recent, edit, torn, contended>>

BackfillMark ==
    /\ backfill.pc = "mark"
    /\ watermark' = backfill.last
    /\ backfill' = [backfill EXCEPT !.pc = "scan"]
    /\ UNCHANGED <<messages, fts, boot, boots, recent, edit, torn, contended>>

-----------------------------------------------------------------------------
(* Deliveries: a live message, a history sync row, or a message just sent. *)

\* Mutant: INSERT OR REPLACE.
replaceRow(m, body, receipt) ==
    \E r \in 1 .. MaxRowid :
       /\ NextRowid(r)
       /\ messages' = [messages EXCEPT
             ![m] = [rowid |-> r, body |-> body, receipt |-> receipt]]

\* insertMessageToDBTx: INSERT OR IGNORE keeps rowid, ts and receipt of a row that
\* is already there; the payload is overwritten in any case.
insertRow(m, body, receipt) ==
    \/ /\ m \notin Stored
       /\ \E r \in 1 .. MaxRowid :
             /\ NextRowid(r)
             /\ messages' = [messages EXCEPT
                   ![m] = [rowid |-> r, body |-> body, receipt |-> receipt]]
    \/ /\ m \in Stored
       /\ messages' = [messages EXCEPT ![m] = [@ EXCEPT !.body = body]]

\* later: the message is younger than the cutoff the backfill has read.
upsertMessage(m, body, receipt, later) ==
    /\ boot = "up"
    /\ insertRow(m, body, receipt)
    /\ fts' = WithoutEntry(m) \cup EntriesFor(m, body)
    /\ recent' = IF m \notin Stored /\ later THEN recent \cup {m} ELSE recent
    /\ torn' = torn \ {m}
    /\ contended' = IF AtWork(m) THEN contended \cup {m} ELSE contended \ {m}
    /\ UNCHANGED <<watermark, boot, boots, backfill, edit>>

\* A message another participant, or this account on another device, has sent.
ReceiveMessage(m, body) ==
    \E later \in BOOLEAN :
       /\ later => backfill.pc # "start"
       /\ upsertMessage(m, body, "", later)

\* One row of a history sync chunk.
HistoryMessage(m, body) ==
    upsertMessage(m, body, IF m \in Mine THEN "delivered" ELSE "", FALSE)

\* handleSendMessage and the other send handlers: WhatsApp has taken the message.
SendMessage(m, body) ==
    /\ m \in Mine \ Stored
    /\ upsertMessage(m, body, "sent", backfill.pc # "start")

\* Only raises the status, and only of rows that are already there.
UpdateReceiptStatus(ids, status) ==
    /\ boot = "up"
    /\ messages' = [m \in Msgs |->
          IF /\ m \in ids \cap Stored \cap Mine
             /\ receiptStatusRank(messages[m].receipt) < receiptStatusRank(status)
          THEN [messages[m] EXCEPT !.receipt = status] ELSE messages[m]]
    /\ messages' # messages
    /\ UNCHANGED <<fts, watermark, boot, boots, backfill, recent, edit, torn, contended>>

\* Mutant: the row goes, its index entry stays.
DeleteRowOnly(m) ==
    /\ boot = "up"
    /\ m \in Stored
    /\ messages' = [messages EXCEPT ![m] = NoRow]
    /\ recent' = recent \ {m}
    /\ torn' = torn \ {m}
    /\ contended' = IF AtWork(m) THEN contended \cup {m} ELSE contended \ {m}
    /\ UNCHANGED <<fts, watermark, boot, boots, backfill, edit>>

DeleteMessage(m) ==
    /\ boot = "up"
    /\ m \in Stored
    /\ messages' = [messages EXCEPT ![m] = NoRow]
    /\ fts' = WithoutEntry(m)
    /\ recent' = recent \ {m}
    /\ torn' = torn \ {m}
    /\ contended' = IF AtWork(m) THEN contended \cup {m} ELSE contended \ {m}
    /\ UNCHANGED <<watermark, boot, boots, backfill, edit>>

-----------------------------------------------------------------------------
(* editMessageInDB: SELECT, UPDATE, then DELETE and INSERT on the index.   *)

editMessageInDB(e, m, body) ==
    /\ boot = "up"
    /\ edit[e] = Idle
    /\ m \in Stored
    /\ edit' = [edit EXCEPT ![e] = [pc |-> "update", msg |-> m, body |-> body]]
    /\ contended' = IF AtWork(m) \/ body = NoText THEN contended \cup {m} ELSE contended
    /\ UNCHANGED <<messages, fts, watermark, boot, boots, backfill, recent, torn>>

\* A request edits an own message, and its text is visible.
handleEditMessage(m, text) == m \in Mine /\ editMessageInDB("http", m, text)

\* An edit event can leave no text: a caption that was removed.
ReceiveEdit(m, body) == editMessageInDB("events", m, body)

\* UPDATE changes nothing when the row has gone; UpsertMessageFTS returns at once
\* when the new text is "".
EditUpdate(e) ==
    /\ edit[e].pc = "update"
    /\ LET m == edit[e].msg IN
          messages' = IF m \in Stored
                      THEN [messages EXCEPT ![m] = [@ EXCEPT !.body = edit[e].body]]
                      ELSE messages
    /\ edit' = [edit EXCEPT ![e] =
          IF edit[e].body = NoText THEN Idle ELSE [@ EXCEPT !.pc = "unindex"]]
    /\ UNCHANGED <<fts, watermark, boot, boots, backfill, recent, torn, contended>>

EditUnindex(e) ==
    /\ edit[e].pc = "unindex"
    /\ fts' = WithoutEntry(edit[e].msg)
    /\ edit' = [edit EXCEPT ![e].pc = "index"]
    /\ UNCHANGED <<messages, watermark, boot, boots, backfill, recent, torn, contended>>

EditIndex(e) ==
    /\ edit[e].pc = "index"
    /\ fts' = fts \cup EntriesFor(edit[e].msg, edit[e].body)
    /\ edit' = [edit EXCEPT ![e] = Idle]
    /\ torn' = torn \ {edit[e].msg}
    /\ UNCHANGED <<messages, watermark, boot, boots, backfill, recent, contended>>

-----------------------------------------------------------------------------
(* The process dies, or /logout empties the database.  Both start over with *)
(* a new backfill.                                                          *)

Restart ==
    /\ boots < MaxBoots
    /\ boots' = boots + 1
    /\ backfill' = [pc |-> "start", last |-> 0, pending |-> {}]
    /\ recent' = {}

HalfEdited == {m \in Msgs : \E e \in Editors :
                  edit[e].pc \in {"unindex", "index"} /\ edit[e].msg = m}

Crash ==
    /\ Restart
    /\ boot' = "receipts"
    /\ edit' = [e \in Editors |-> Idle]
    /\ torn' = torn \cup HalfEdited
    /\ contended' = contended \cup HalfEdited
    /\ UNCHANGED <<messages, fts, watermark>>

\* Statements on the closed database fail, which ends an edit.  An edit that has
\* not called UpsertMessageFTS yet may still do so, on the new database.
Logout ==
    /\ boot = "up"
    /\ Restart
    /\ messages' = [m \in Msgs |-> NoRow]
    /\ fts' = {}
    /\ watermark' = 0
    /\ \E survivors \in SUBSET {e \in Editors : edit[e].pc = "unindex"} :
          /\ edit' = [e \in Editors |-> IF e \in survivors THEN edit[e] ELSE Idle]
          /\ contended' = {m \in Msgs : \E e \in survivors : edit[e].msg = m}
    /\ torn' = {}
    /\ UNCHANGED boot

-----------------------------------------------------------------------------

LoadState == backfillReceipt \/ purgeInvisibleProtocolMessages \/ purgeOrphanEntries

Backfill ==
    \/ BackfillStart
    \/ \E page \in SUBSET Msgs : BackfillScan(page)
    \/ BackfillEnd
    \/ BackfillInsert
    \/ BackfillMark

Edit(e) == EditUpdate(e) \/ EditUnindex(e) \/ EditIndex(e)

ArchiveNext ==
    \/ LoadState
    \/ Backfill
    \/ \E m \in Msgs, body \in Payloads : ReceiveMessage(m, body)
    \/ \E m \in Msgs, body \in Payloads : HistoryMessage(m, body)
    \/ \E m \in Msgs, body \in Payloads : SendMessage(m, body)
    \/ \E ids \in SUBSET Msgs, status \in {"delivered", "read", "played"} :
          UpdateReceiptStatus(ids, status)
    \/ \E m \in Msgs : DeleteMessage(m)
    \/ \E m \in Msgs, text \in Texts : handleEditMessage(m, text)
    \/ \E m \in Msgs, body \in Payloads : ReceiveEdit(m, body)
    \/ \E e \in Editors : Edit(e)
    \/ Crash
    \/ Logout

\* The goroutines of the process run; nobody is obliged to send anything.
Fairness ==
    /\ WF_archiveVars(LoadState)
    /\ WF_archiveVars(Backfill)
    /\ \A e \in Editors : WF_archiveVars(Edit(e))

ArchiveSpec == ArchiveInit /\ [][ArchiveNext]_archiveVars /\ Fairness

-----------------------------------------------------------------------------
(* Properties.                                                              *)

\* Every variable keeps its type: the schema of store.go:81 and the locals of
\* BackfillFTS and editMessageInDB.
ArchiveTypeOK ==
    /\ messages \in [Msgs -> Row \cup {NoRow}]
    /\ fts \subseteq Msgs \X Texts
    /\ watermark \in Nat
    /\ boot \in {"receipts", "purge", "orphans", "up"}
    /\ boots \in Nat
    /\ backfill \in [pc : {"start", "scan", "insert", "mark", "off"}, last : Nat,
                     pending : SUBSET (Msgs \X Texts)]
    /\ recent \subseteq Msgs
    /\ edit \in [Editors -> {Idle} \cup
                  [pc : {"update", "unindex", "index"}, msg : Msgs, body : Payloads]]
    /\ torn \subseteq Msgs
    /\ contended \subseteq Msgs

\* The resumable watermark of BackfillFTS skips nothing: a stored text that cannot
\* be searched for lies ahead of the watermark, so a backfill, this one or one
\* after a restart, will still come to it.  The exceptions are an edit between its
\* DELETE and its INSERT, and an edit that a crash cut there.
NothingSkipped ==
    \A m \in Msgs :
       HasText(m) /\ ~Indexed(m) =>
          \/ messages[m].rowid > watermark
          \/ m \in HalfEdited
          \/ m \in torn

\* A search hit is a stored message with the text it has now, unless two writers of
\* its index entry overlapped, a crash cut one, or an edit removed its text.
SearchTruthful ==
    \A e \in fts :
       \/ e[1] \in Stored /\ messages[e[1]].body = e[2]
       \/ Editing(e[1])
       \/ e[1] \in contended

\* Whatever order receipts, redeliveries and history sync come in, the delivery
\* status of a row that stays in the table never goes back (backend/messages.go:291).
ReceiptNeverRegresses ==
    [][\A m \in Msgs :
          messages[m] # NoRow /\ messages'[m] # NoRow =>
             receiptStatusRank(messages[m].receipt)
                <= receiptStatusRank(messages'[m].receipt)]_archiveVars

\* Every stored text can be found in the end, legacy rows and rows an interrupted
\* backfill left behind included: nothing but the crash in mid edit excuses it.
EventuallySearchable ==
    \A m \in Msgs : [](HasText(m) => <>(Indexed(m) \/ ~HasText(m) \/ m \in torn))

\* Not kept by the code (README, "Disagreements"):
\* store/messages.go:520: "BackfillFTS indexes legacy messages missing from
\* messages_fts": it adds an entry only to a message that has none.
BackfillAddsOnlyMissing ==
    [][backfill.pc = "insert" /\ backfill'.pc = "mark" =>
          \A e \in backfill.pending : ~Indexed(e[1])]_archiveVars

\* Not kept by the code (README, "Disagreements"):
\* store/messages.go:441: "UpsertMessageFTS inserts or replaces an entry in the FTS5
\* search index": when an edit has taken the text of a message away, and nobody else
\* is at work on it, its old text no longer finds it.
EditUnindexesRemovedText ==
    [][\A e \in Editors :
          LET m == edit[e].msg IN
          /\ edit[e].pc = "update" /\ edit'[e] = Idle /\ boots' = boots
          /\ m \in Stored /\ messages'[m].body = NoText
          /\ \A o \in Editors \ {e} : edit[o] = Idle
          /\ backfill.pending = {}
          => \A x \in fts' : x[1] # m]_archiveVars

=============================================================================
