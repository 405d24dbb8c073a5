--------------------------- MODULE ChatStateProofs ---------------------------
(***************************************************************************)
(* Theorems about ChatState: the chat list and its copy in table chats     *)
(* keep their types, every stored message is listed, and no chat counts a  *)
(* message twice.                                                          *)
(***************************************************************************)
EXTENDS ChatState, FiniteSetTheorems, TLAPS

-----------------------------------------------------------------------------
(* The largest number of a set. *)

LEMMA NatSet ==
    ASSUME NEW S, 0 \in S, \A n \in Nat : n \in S => n + 1 \in S
    PROVE  Nat \subseteq S
<1> DEFINE R == {p \in Nat \X Nat : p[1] < p[2]}
           T == Nat \ S
<1>1. IsWellFoundedOn(R, Nat)
  BY NatLessThanWellFounded DEF OpToRel
<1> SUFFICES ASSUME T # {} PROVE FALSE
  OBVIOUS
<1>2. PICK x \in T : \A y \in T : ~(<<y, x>> \in R)
  <2> HIDE DEF R, T
  <2>1. T \subseteq Nat
    BY DEF T
  <2> QED BY <1>1, <2>1, WFMin
<1>3. x # 0 /\ x - 1 \in Nat /\ x - 1 + 1 = x
  OBVIOUS
<1>4. x - 1 \in T
  BY <1>3
<1>5. <<x - 1, x>> \in R
  BY <1>3
<1> QED BY <1>2, <1>4, <1>5

\* A bounded, non-empty set of numbers has a largest one, and Max chooses it.
LEMMA MaxIs ==
    ASSUME NEW n \in Nat, NEW S \in SUBSET (0 .. n), S # {}
    PROVE  Max(S) \in S /\ \A x \in S : x <= Max(S)
<1> DEFINE B == {k \in Nat : (\A x \in S : x <= k) => \E y \in S : \A x \in S : x <= y}
<1>1. 0 \in B
  <2> SUFFICES ASSUME \A x \in S : x <= 0
               PROVE  \E y \in S : \A x \in S : x <= y
    OBVIOUS
  <2>1. PICK y \in S : TRUE
    OBVIOUS
  <2>2. y = 0
    OBVIOUS
  <2> QED BY <2>2
<1>2. ASSUME NEW k \in Nat, k \in B PROVE k + 1 \in B
  <2> SUFFICES ASSUME \A x \in S : x <= k + 1
               PROVE  \E y \in S : \A x \in S : x <= y
    OBVIOUS
  <2>1. CASE k + 1 \in S
    BY <2>1
  <2>2. CASE k + 1 \notin S
    <3>1. \A x \in S : x <= k
      BY <2>2
    <3> QED BY <1>2, <3>1
  <2> QED BY <2>1, <2>2
<1>3. n \in B
  <2> HIDE DEF B
  <2> QED BY <1>1, <1>2, NatSet
<1>4. PICK y \in S : \A x \in S : y >= x
  BY <1>3
<1> QED BY <1>4 DEF Max

\* Every message is at most as recent as MaxTs.
LEMMA LatestTs == MaxTs \in Nat /\ \A m \in Msgs : Ts[m] \in 1 .. MaxTs
<1>1. PICK n \in Nat : ExistsBijection(1 .. n, Msgs)
  BY ChatAssumption, FS_CardinalityType
<1>2. PICK f \in [1 .. n -> Msgs] : \A m \in Msgs : \E i \in 1 .. n : f[i] = m
  BY <1>1 DEF ExistsBijection, Bijection, Injection, Surjection
<1> DEFINE B == {k \in Nat : \E b \in Nat : \A i \in 1 .. n : i <= k => Ts[f[i]] <= b}
<1>3. \A i \in 1 .. n : Ts[f[i]] \in Nat
  BY <1>2, ChatAssumption
<1>4. 0 \in B
  OBVIOUS
<1>5. ASSUME NEW k \in Nat, k \in B PROVE k + 1 \in B
  <2> SUFFICES \E b \in Nat : \A i \in 1 .. n : i <= k + 1 => Ts[f[i]] <= b
    BY SMTT(20)
  <2>1. PICK b \in Nat : \A i \in 1 .. n : i <= k => Ts[f[i]] <= b
    BY <1>5
  <2>2. CASE k + 1 \in 1 .. n
    <3>1. PICK t \in Nat : t = Ts[f[k + 1]]
      BY <1>3, <2>2
    <3>2. b + t \in Nat
      BY <3>1
    <3>3. ASSUME NEW i \in 1 .. n, i <= k + 1 PROVE Ts[f[i]] <= b + t
      <4>1. i <= k \/ i = k + 1
        BY <3>3
      <4>2. PICK u \in Nat : u = Ts[f[i]]
        BY <1>3
      <4>3. u <= b \/ u = t
        BY <4>1, <4>2, <3>1, <2>1
      <4> QED BY <4>2, <4>3, <3>1
    <3> QED BY <3>2, <3>3
  <2>3. CASE k + 1 \notin 1 .. n
    <3>1. \A i \in 1 .. n : i <= k + 1 => i <= k
      BY <2>3
    <3> QED BY <2>1, <3>1
  <2> QED BY <2>2, <2>3
<1>6. n \in B
  <2> HIDE DEF B
  <2> QED BY <1>4, <1>5, NatSet
<1>7. PICK b \in Nat : \A i \in 1 .. n : i <= n => Ts[f[i]] <= b
  BY <1>6
<1>8. \A m \in Msgs : Ts[m] \in Nat \ {0} /\ Ts[m] <= b
  <2> TAKE m \in Msgs
  <2>1. PICK i \in 1 .. n : f[i] = m
    BY <1>2
  <2>2. i <= n
    OBVIOUS
  <2> QED BY <1>7, <2>1, <2>2, ChatAssumption
<1> DEFINE T == {Ts[m] : m \in Msgs}
<1>9. T \in SUBSET (0 .. b) /\ T # {}
  BY <1>8, ChatAssumption
<1>10. MaxTs = Max(T)
  BY DEF MaxTs
<1>11. Max(T) \in T /\ \A x \in T : x <= Max(T)
  <2> HIDE DEF T
  <2> QED BY <1>9, MaxIs
<1>12. MaxTs \in Nat
  BY <1>8, <1>10, <1>11
<1>13. \A m \in Msgs : Ts[m] <= MaxTs
  BY <1>10, <1>11
<1> QED BY <1>8, <1>12, <1>13

-----------------------------------------------------------------------------
(* Chats, and what merging and storing make of them. *)

LEMMA EmptyIsAChat == Empty \in Chat /\ Empty.ts = 0 /\ Empty.unread = 0 /\ NoChat # Empty
BY LatestTs, ChatAssumption DEF Chat, Empty

LEMMA ChatFields ==
    ASSUME NEW e \in Chat
    PROVE  e.ts \in 0 .. MaxTs /\ e.unread \in 0 .. MaxUnread
BY DEF Chat

LEMMA ChatOf ==
    ASSUME NEW t \in 0 .. MaxTs, NEW u \in 0 .. MaxUnread
    PROVE  [ts |-> t, unread |-> u] \in Chat
BY DEF Chat

LEMMA EntryIs ==
    ASSUME NEW s \in Snapshots, NEW c \in Chats
    PROVE  /\ Entry(s, c) \in Chat
           /\ s[c] # NoChat => s[c] \in Chat /\ Entry(s, c) = s[c]
           /\ s[c] = NoChat => Entry(s, c) = Empty
BY EmptyIsAChat DEF Entry, Snapshots

\* A merge is a chat with the numbers of some of its entries, and the largest ones.
LEMMA MergedIs ==
    ASSUME NEW E \in SUBSET Chat, E # {}
    PROVE  /\ MergedChat(E) \in Chat
           /\ \A e \in E : e.ts <= MergedChat(E).ts
           /\ \E e \in E : e.unread = MergedChat(E).unread
<1> DEFINE T == {e.ts : e \in E}
           U == {e.unread : e \in E}
<1>1. T \in SUBSET (0 .. MaxTs) /\ T # {} /\ U \in SUBSET (0 .. MaxUnread) /\ U # {}
  BY ChatFields
<1>2. MaxTs \in Nat /\ MaxUnread \in Nat
  BY LatestTs, ChatAssumption
<1>3. Max(T) \in T /\ (\A x \in T : x <= Max(T)) /\ Max(U) \in U
  <2> HIDE DEF T, U
  <2> QED BY <1>1, <1>2, MaxIs
<1>4. MergedChat(E) = [ts |-> Max(T), unread |-> Max(U)]
  BY DEF MergedChat
<1>5. Max(T) \in 0 .. MaxTs /\ Max(U) \in 0 .. MaxUnread
  BY <1>1, <1>3
<1>6. MergedChat(E) \in Chat /\ MergedChat(E).ts = Max(T) /\ MergedChat(E).unread = Max(U)
  <2> HIDE DEF T, U
  <2> QED BY <1>4, <1>5, ChatOf
<1>7. \A e \in E : e.ts \in T
  OBVIOUS
<1>8. \A u \in U : \E e \in E : e.unread = u
  OBVIOUS
<1> HIDE DEF T, U
<1> QED BY <1>3, <1>6, <1>7, <1>8

LEMMA CanonicalIs ==
    ASSUME resolved \subseteq Lids, NEW c \in Chats
    PROVE  /\ canonicalizeChatID(c) \in Chats
           /\ canonicalizeChatID(c) \notin resolved
           /\ canonicalizeChatID(c) = c \/ (c \in resolved /\ canonicalizeChatID(c) = PhoneOf[c])
BY ChatAssumption DEF canonicalizeChatID

\* The ids of a chat: its own, and the lids whose phone number it is.
LEMMA IdsOf ==
    ASSUME NEW c \in Chats, NEW d \in Chats, d = c \/ (d \in Lids /\ PhoneOf[d] = c)
    PROVE  d \in Ids(d) /\ Ids(d) \subseteq Ids(c)
BY ChatAssumption DEF Ids

\* Storing messages makes a chat no older and no older than each of them, and counts
\* those that are new, outside of a history sync.
LEMMA UpsertIs ==
    ASSUME chats \in Snapshots, NEW c \in Chats, NEW ms \in SUBSET Msgs,
           NEW n \in Nat, n = Cardinality({m \in ms \ Own : <<c, m>> \notin stored}),
           historySyncing \/ Entry(chats, c).unread + n <= MaxUnread
    PROVE  /\ upsertMessageTx(c, ms) \in Chat
           /\ upsertMessageTx(c, ms).ts >= Entry(chats, c).ts
           /\ \A m \in ms : upsertMessageTx(c, ms).ts >= Ts[m]
           /\ upsertMessageTx(c, ms).unread = IF historySyncing THEN Entry(chats, c).unread
                                              ELSE Entry(chats, c).unread + n
<1> DEFINE T == {Entry(chats, c).ts} \cup {Ts[m] : m \in ms}
<1>1. MaxTs \in Nat /\ MaxUnread \in Nat
  BY LatestTs, ChatAssumption
<1>2. PICK old \in Chat : old = Entry(chats, c)
  BY EntryIs
<1>3. old.ts \in 0 .. MaxTs /\ old.unread \in 0 .. MaxUnread
  BY ChatFields
<1>4. T \in SUBSET (0 .. MaxTs)
  BY <1>1, <1>2, <1>3, LatestTs
<1>5. old.ts \in T /\ \A m \in ms : Ts[m] \in T
  BY <1>2
<1>6. Max(T) \in 0 .. MaxTs /\ \A x \in T : x <= Max(T)
  <2> HIDE DEF T
  <2> QED BY <1>1, <1>4, <1>5, MaxIs
<1>7. PICK u : u = IF historySyncing THEN old.unread ELSE old.unread + n
  OBVIOUS
<1>8. u \in 0 .. MaxUnread
  BY <1>1, <1>2, <1>3, <1>7
<1>9. upsertMessageTx(c, ms) = [ts |-> Max(T), unread |-> u]
  BY <1>2, <1>7 DEF upsertMessageTx
<1> HIDE DEF T
<1>10. \A x \in T : Max(T) >= x
  <2> TAKE x \in T
  <2>1. x \in 0 .. MaxTs /\ x <= Max(T)
    BY <1>4, <1>6
  <2> QED BY <2>1, <1>6, <1>1
<1> QED BY <1>2, <1>5, <1>6, <1>7, <1>8, <1>9, <1>10, ChatOf

LEMMA RowsAreFinite == IsFiniteSet(Rows) /\ IsFiniteSet(Msgs)
BY ChatAssumption, FS_Product DEF Rows

\* A message of its own is one message at most.
LEMMA OneNew ==
    ASSUME NEW c, NEW m
    PROVE  Cardinality({x \in {m} \ Own : <<c, x>> \notin stored}) =
              IF m \notin Own /\ <<c, m>> \notin stored THEN 1 ELSE 0
<1>1. CASE m \notin Own /\ <<c, m>> \notin stored
  <2>1. {x \in {m} \ Own : <<c, x>> \notin stored} = {m}
    BY <1>1
  <2> QED BY <1>1, <2>1, FS_Singleton
<1>2. CASE ~(m \notin Own /\ <<c, m>> \notin stored)
  <2>1. {x \in {m} \ Own : <<c, x>> \notin stored} = {}
    BY <1>2
  <2> QED BY <1>2, <2>1, FS_EmptySet
<1> QED BY <1>1, <1>2

-----------------------------------------------------------------------------
(* What each action that rewrites chats makes of them. *)

\* Chats that are listed stay listed and grow no older.
KeepsChats == \A c \in Chats : chats[c] # NoChat => chats'[c] # NoChat /\ chats'[c].ts >= chats[c].ts

\* Every chat of a list goes to its canonical id, and no other one appears there
\* but with an unread count of zero.
Moved(list) ==
    /\ \A d \in Chats : list[d] # NoChat =>
          LET c == canonicalizeChatID(d) IN chats'[c] # NoChat /\ chats'[c].ts >= list[d].ts
    /\ \A c \in Chats : chats'[c] # NoChat =>
          \/ chats'[c].unread = 0
          \/ \E d \in Chats : /\ canonicalizeChatID(d) = c /\ list[d] # NoChat
                              /\ chats'[c].unread = list[d].unread

LEMMA ReceiveIs ==
    ASSUME TypeOK, NEW m \in Msgs, ReceiveMessage(m),
           NEW c, c = canonicalizeChatID(RawChat[m])
    PROVE  /\ c \in Chats /\ c \notin resolved
           /\ chats' \in Snapshots
           /\ \A d \in Chats : d # c => chats'[d] = chats[d]
           /\ chats'[c] # NoChat /\ chats'[c].ts >= Ts[m]
           /\ chats'[c].ts >= Entry(chats, c).ts
           /\ chats'[c].unread = Entry(chats, c).unread
                 + IF ~historySyncing /\ m \notin Own /\ <<c, m>> \notin stored THEN 1 ELSE 0
<1>1. c \in Chats /\ c \notin resolved
  BY ChatAssumption, CanonicalIs DEF TypeOK
<1>2. PICK n \in {0, 1} : /\ n = Cardinality({x \in {m} \ Own : <<c, x>> \notin stored})
                         /\ n = IF m \notin Own /\ <<c, m>> \notin stored THEN 1 ELSE 0
  BY OneNew
<1>3. chats \in Snapshots /\ Entry(chats, c).unread < MaxUnread
  BY DEF TypeOK, ReceiveMessage
<1>4. PICK u \in Nat : u = Entry(chats, c).unread
  BY <1>1, <1>3, EntryIs, ChatFields, ChatAssumption
<1>5. u + n <= MaxUnread
  BY <1>3, <1>4, ChatAssumption
<1>6. /\ upsertMessageTx(c, {m}) \in Chat
      /\ upsertMessageTx(c, {m}).ts >= Entry(chats, c).ts
      /\ upsertMessageTx(c, {m}).ts >= Ts[m]
      /\ upsertMessageTx(c, {m}).unread = IF historySyncing THEN u ELSE u + n
  BY <1>1, <1>2, <1>3, <1>4, <1>5, UpsertIs
<1>7. chats' = [chats EXCEPT ![c] = upsertMessageTx(c, {m})]
  BY DEF ReceiveMessage
<1>8. PICK e \in Chat : e = upsertMessageTx(c, {m})
  BY <1>6
<1>9. chats' \in Snapshots /\ chats'[c] = e /\ \A d \in Chats : d # c => chats'[d] = chats[d]
  <2>1. e \in Chat \cup {NoChat} /\ chats' = [chats EXCEPT ![c] = e]
    BY <1>7, <1>8
  <2>2. e \in Chat \cup {NoChat}
    BY <2>1
  <2> QED BY <1>1, <1>3, <2>1, <2>2 DEF Snapshots
<1>10. e # NoChat
  BY ChatAssumption
<1>11. (IF historySyncing THEN u ELSE u + n)
          = u + IF ~historySyncing /\ m \notin Own /\ <<c, m>> \notin stored THEN 1 ELSE 0
  BY <1>2
<1> QED BY <1>1, <1>4, <1>6, <1>8, <1>9, <1>10, <1>11

LEMMA MetadataIs ==
    ASSUME TypeOK, NEW chunk \in SUBSET Msgs, HistoryMetadata(chunk)
    PROVE  /\ chats' \in Snapshots
           /\ KeepsChats
           /\ \A c \in Chats : chats'[c] # NoChat =>
                 \/ chats'[c].unread = 0
                 \/ chats[c] # NoChat /\ chats'[c].unread = chats[c].unread
                 \/ chats'[c].unread <=
                       Cardinality({m \in chunk : canonicalizeChatID(RawChat[m]) = c} \ Own)
<1> DEFINE in(c) == {m \in chunk : canonicalizeChatID(RawChat[m]) = c}
           convs == {c \in Chats : in(c) # {}}
<1>1. PICK unread \in [convs -> 0 .. MaxUnread] :
         /\ \A c \in convs : unread[c] <= Cardinality(in(c) \ Own)
         /\ chats' = [c \in Chats |->
               IF c \in convs
               THEN mergeChat(Entry(chats, c), [ts     |-> Max({Ts[m] : m \in in(c)}),
                                                unread |-> unread[c]])
               ELSE chats[c]]
  BY DEF HistoryMetadata
<1>2. chats \in Snapshots
  BY DEF TypeOK
<1>3. ASSUME NEW c \in Chats, c \in convs
      PROVE  /\ chats'[c] \in Chat /\ chats'[c].ts >= Entry(chats, c).ts
             /\ \/ chats'[c].unread = Entry(chats, c).unread
                \/ chats'[c].unread = unread[c]
  <2> DEFINE T == {Ts[m] : m \in in(c)}
  <2>1. T \in SUBSET (0 .. MaxTs) /\ T # {}
    BY <1>3, LatestTs
  <2>2. Max(T) \in 0 .. MaxTs
    <3> HIDE DEF T
    <3> QED BY <2>1, LatestTs, MaxIs
  <2>3. unread[c] \in 0 .. MaxUnread
    BY <1>1, <1>3
  <2>4. PICK src \in Chat : src = [ts |-> Max(T), unread |-> unread[c]]
    <3> HIDE DEF T
    <3> QED BY <2>2, <2>3, ChatOf
  <2>5. PICK dst \in Chat : dst = Entry(chats, c)
    BY <1>2, EntryIs
  <2>6. chats'[c] = MergedChat({dst, src})
    BY <1>1, <1>3, <2>4, <2>5 DEF mergeChat
  <2>7. /\ chats'[c] \in Chat /\ dst.ts <= chats'[c].ts
        /\ \E e \in {dst, src} : e.unread = chats'[c].unread
    BY <2>6, MergedIs
  <2>8. src.unread = unread[c]
    BY <2>4
  <2> HIDE DEF T, in, convs
  <2> QED BY <2>5, <2>7, <2>8, ChatFields, LatestTs
<1>4. ASSUME NEW c \in Chats, c \notin convs PROVE chats'[c] = chats[c]
  BY <1>1, <1>4
<1>5. chats' \in Snapshots
  <2>1. \A c \in Chats : chats'[c] \in Chat \cup {NoChat}
    BY <1>2, <1>3, <1>4 DEF Snapshots
  <2>2. \E f : chats' = [c \in Chats |-> f[c]]
    <3> WITNESS chats'
    <3> QED BY <1>1
  <2> HIDE DEF in, convs
  <2> QED BY <2>1, <2>2 DEF Snapshots
<1>6. KeepsChats
  <2> SUFFICES ASSUME NEW c \in Chats, chats[c] # NoChat
               PROVE  chats'[c] # NoChat /\ chats'[c].ts >= chats[c].ts
    BY DEF KeepsChats
  <2>1. Entry(chats, c) = chats[c] /\ chats[c].ts \in 0 .. MaxTs
    BY <1>2, EntryIs, ChatFields
  <2> HIDE DEF in, convs
  <2>2. chats[c].ts >= chats[c].ts
    BY <2>1, LatestTs
  <2> QED BY <1>3, <1>4, <2>1, <2>2, ChatAssumption
<1>7. ASSUME NEW c \in Chats, chats'[c] # NoChat
      PROVE  \/ chats'[c].unread = 0
             \/ chats[c] # NoChat /\ chats'[c].unread = chats[c].unread
             \/ chats'[c].unread <= Cardinality(in(c) \ Own)
  <2>1. chats[c] # NoChat \/ Entry(chats, c).unread = 0
    BY <1>2, EntryIs, EmptyIsAChat
  <2>2. chats[c] # NoChat => Entry(chats, c) = chats[c]
    BY <1>2, EntryIs
  <2>3. c \in convs => unread[c] <= Cardinality(in(c) \ Own)
    BY <1>1
  <2> HIDE DEF in, convs
  <2> QED BY <1>3, <1>4, <1>7, <2>1, <2>2, <2>3
<1> QED BY <1>5, <1>6, <1>7

LEMMA InsertIs ==
    ASSUME TypeOK, insertHistoryMessages
    PROVE  /\ chats' \in Snapshots
           /\ KeepsChats
           /\ \A m \in history.chunk : LET c == canonicalizeChatID(RawChat[m]) IN
                 chats'[c] # NoChat /\ chats'[c].ts >= Ts[m]
           /\ \A c \in Chats : chats'[c] # NoChat => chats'[c].unread = Entry(chats, c).unread
<1> DEFINE in(c) == {m \in history.chunk : canonicalizeChatID(RawChat[m]) = c}
<1>1. /\ chats' = [c \in Chats |-> IF in(c) = {} THEN chats[c] ELSE upsertMessageTx(c, in(c))]
      /\ historySyncing
  BY DEF insertHistoryMessages, historySyncing
<1>2. chats \in Snapshots /\ history.chunk \in SUBSET Msgs
  BY DEF TypeOK
<1>3. ASSUME NEW c \in Chats, in(c) # {}
      PROVE  /\ chats'[c] \in Chat /\ chats'[c].ts >= Entry(chats, c).ts
             /\ \A m \in in(c) : chats'[c].ts >= Ts[m]
             /\ chats'[c].unread = Entry(chats, c).unread
  <2>1. chats'[c] = upsertMessageTx(c, in(c))
    BY <1>1, <1>3
  <2>2. in(c) \in SUBSET Msgs
    BY <1>2
  <2> HIDE DEF in
  <2>3. {m \in in(c) \ Own : <<c, m>> \notin stored} \in SUBSET Msgs
    BY <2>2
  <2>4. Cardinality({m \in in(c) \ Own : <<c, m>> \notin stored}) \in Nat
    BY <2>3, RowsAreFinite, FS_Subset, FS_CardinalityType
  <2> QED BY <1>1, <1>2, <2>1, <2>2, <2>4, UpsertIs
<1>4. ASSUME NEW c \in Chats, in(c) = {} PROVE chats'[c] = chats[c]
  BY <1>1, <1>4
<1>5. chats' \in Snapshots
  <2>1. \A c \in Chats : chats'[c] \in Chat \cup {NoChat}
    BY <1>2, <1>3, <1>4 DEF Snapshots
  <2>2. \E f : chats' = [c \in Chats |-> f[c]]
    <3> WITNESS chats'
    <3> QED BY <1>1
  <2> HIDE DEF in
  <2> QED BY <2>1, <2>2 DEF Snapshots
<1>6. KeepsChats
  <2> SUFFICES ASSUME NEW c \in Chats, chats[c] # NoChat
               PROVE  chats'[c] # NoChat /\ chats'[c].ts >= chats[c].ts
    BY DEF KeepsChats
  <2>1. Entry(chats, c) = chats[c] /\ chats[c].ts \in 0 .. MaxTs
    BY <1>2, EntryIs, ChatFields
  <2>2. chats[c].ts >= chats[c].ts
    BY <2>1, LatestTs
  <2> HIDE DEF in
  <2> QED BY <1>3, <1>4, <2>1, <2>2, ChatAssumption
<1>7. ASSUME NEW m \in history.chunk, NEW c, c = canonicalizeChatID(RawChat[m])
      PROVE  chats'[c] # NoChat /\ chats'[c].ts >= Ts[m]
  <2>1. c \in Chats
    BY <1>2, <1>7, ChatAssumption, CanonicalIs DEF TypeOK
  <2>2. m \in in(c)
    BY <1>7
  <2> HIDE DEF in
  <2> QED BY <1>3, <2>1, <2>2, ChatAssumption
<1>8. ASSUME NEW c \in Chats, chats'[c] # NoChat
      PROVE  chats'[c].unread = Entry(chats, c).unread
  <2> HIDE DEF in
  <2> QED BY <1>2, <1>3, <1>4, <1>8, EntryIs
<1> HIDE DEF in
<1> QED BY <1>5, <1>6, <1>7, <1>8

LEMMA ReconcileIs ==
    ASSUME TypeOK, reconcileLIDChats
    PROVE  chats' \in Snapshots /\ Moved(chats)
<1> DEFINE merged == {c \in resolved : chats[c] # NoChat}
           into(c) == {chats[d] : d \in {l \in merged : PhoneOf[l] = c}}
<1>1. chats' = [c \in Chats |->
          IF c \in merged THEN NoChat
          ELSE IF into(c) = {} THEN chats[c]
          ELSE MergedChat({Entry(chats, c)} \cup into(c))]
  BY DEF reconcileLIDChats
<1>2. chats \in Snapshots /\ resolved \subseteq Lids /\ resolved \subseteq Chats
  BY ChatAssumption DEF TypeOK
<1>3. \A l \in resolved : PhoneOf[l] \in Chats /\ PhoneOf[l] \notin resolved
  BY <1>2, ChatAssumption
<1>4. ASSUME NEW c \in Chats, c \notin merged, into(c) # {}
      PROVE  /\ chats'[c] \in Chat
             /\ chats'[c].ts >= Entry(chats, c).ts
             /\ \A l \in merged : PhoneOf[l] = c => chats'[c].ts >= chats[l].ts
             /\ \/ chats'[c].unread = Entry(chats, c).unread
                \/ \E l \in merged : PhoneOf[l] = c /\ chats'[c].unread = chats[l].unread
  <2>1. PICK E : E = {Entry(chats, c)} \cup into(c)
    OBVIOUS
  <2>2. \A e \in into(c) : e \in Chat
    BY <1>2, EntryIs
  <2>3. \A e \in into(c) : \E l \in merged : PhoneOf[l] = c /\ e = chats[l]
    OBVIOUS
  <2>4. \A l \in merged : PhoneOf[l] = c => chats[l] \in into(c)
    OBVIOUS
  <2>5. chats'[c] = MergedChat(E)
    BY <1>1, <1>4, <2>1
  <2> HIDE DEF into, merged
  <2>6. E \in SUBSET Chat /\ E # {}
    BY <1>2, <2>1, <2>2, EntryIs
  <2>7. /\ chats'[c] \in Chat
        /\ \A e \in E : e.ts <= chats'[c].ts
        /\ \E e \in E : e.unread = chats'[c].unread
    BY <2>5, <2>6, MergedIs
  <2>8. \A e \in E : chats'[c].ts >= e.ts
    BY <2>6, <2>7, ChatFields, LatestTs
  <2> QED BY <2>1, <2>3, <2>4, <2>7, <2>8
<1>5. ASSUME NEW c \in Chats, c \notin merged, into(c) = {} PROVE chats'[c] = chats[c]
  BY <1>1, <1>5
<1>6. ASSUME NEW c \in merged PROVE chats'[c] = NoChat
  BY <1>1, <1>2
<1>7. chats' \in Snapshots
  <2>1. \A c \in Chats : chats'[c] \in Chat \cup {NoChat}
    BY <1>2, <1>4, <1>5, <1>6 DEF Snapshots
  <2>2. \E f : chats' = [c \in Chats |-> f[c]]
    <3> WITNESS chats'
    <3> QED BY <1>1
  <2> HIDE DEF into, merged
  <2> QED BY <2>1, <2>2 DEF Snapshots
<1>8. ASSUME NEW d \in Chats, chats[d] # NoChat, NEW c, c = canonicalizeChatID(d)
      PROVE  chats'[c] # NoChat /\ chats'[c].ts >= chats[d].ts
  <2>1. chats[d].ts \in 0 .. MaxTs /\ Entry(chats, d) = chats[d] /\ chats[d].ts >= chats[d].ts
    BY <1>2, <1>8, EntryIs, ChatFields, LatestTs
  <2>2. CASE d \in resolved
    <3>1. d \in merged /\ c = PhoneOf[d] /\ c \notin resolved /\ c \in Chats
      BY <1>3, <1>8, <2>2 DEF canonicalizeChatID
    <3>2. into(c) # {} /\ c \notin merged
      BY <3>1
    <3> HIDE DEF into, merged
    <3> QED BY <1>4, <3>1, <3>2, ChatAssumption
  <2>3. CASE d \notin resolved
    <3>1. d \notin merged /\ c = d
      BY <1>8, <2>3 DEF canonicalizeChatID
    <3> HIDE DEF into, merged
    <3> QED BY <1>4, <1>5, <1>8, <2>1, <3>1, ChatAssumption
  <2> QED BY <2>2, <2>3
<1>9. ASSUME NEW c \in Chats, chats'[c] # NoChat
      PROVE  \/ chats'[c].unread = 0
             \/ \E d \in Chats : /\ canonicalizeChatID(d) = c /\ chats[d] # NoChat
                                 /\ chats'[c].unread = chats[d].unread
  <2>1. c \notin merged
    BY <1>6, <1>9
  <2>2. CASE \E l \in merged : PhoneOf[l] = c /\ chats'[c].unread = chats[l].unread
    <3>1. PICK l \in merged : PhoneOf[l] = c /\ chats'[c].unread = chats[l].unread
      BY <2>2
    <3>2. l \in Chats /\ canonicalizeChatID(l) = c /\ chats[l] # NoChat
      BY <1>2, <3>1 DEF canonicalizeChatID
    <3> QED BY <3>1, <3>2
  <2>3. CASE chats'[c].unread = Entry(chats, c).unread
    <3>1. CASE chats[c] = NoChat
      BY <1>2, <2>3, <3>1, EntryIs, EmptyIsAChat
    <3>2. CASE chats[c] # NoChat
      <4>1. c \notin resolved /\ Entry(chats, c) = chats[c]
        BY <2>1, <3>2, <1>2, EntryIs
      <4>2. canonicalizeChatID(c) = c
        BY <4>1 DEF canonicalizeChatID
      <4> QED BY <2>3, <3>2, <4>1, <4>2
    <3> QED BY <3>1, <3>2
  <2>4. chats'[c].unread = Entry(chats, c).unread
        \/ \E l \in merged : PhoneOf[l] = c /\ chats'[c].unread = chats[l].unread
    <3> HIDE DEF into, merged
    <3> QED BY <1>2, <1>4, <1>5, <1>9, <2>1, EntryIs
  <2> QED BY <2>2, <2>3, <2>4
<1> HIDE DEF into, merged
<1> QED BY <1>7, <1>8, <1>9 DEF Moved

LEMMA ReplaceIs ==
    ASSUME TypeOK, RecanonReplace
    PROVE  chats' \in Snapshots /\ Moved(recanon.copy)
<1> DEFINE from(c) == {recanon.copy[d] : d \in {e \in Chats : /\ recanon.copy[e] # NoChat
                                                             /\ canonicalizeChatID(e) = c}}
<1>1. chats' = [c \in Chats |-> IF from(c) = {} THEN NoChat ELSE MergedChat(from(c))]
  BY DEF RecanonReplace
<1>2. recanon.copy \in Snapshots
  BY DEF TypeOK
<1>3. ASSUME NEW c \in Chats, from(c) # {}
      PROVE  /\ chats'[c] \in Chat
             /\ \A d \in Chats : recanon.copy[d] # NoChat /\ canonicalizeChatID(d) = c
                   => chats'[c].ts >= recanon.copy[d].ts
             /\ \E d \in Chats : /\ canonicalizeChatID(d) = c /\ recanon.copy[d] # NoChat
                                 /\ chats'[c].unread = recanon.copy[d].unread
  <2>1. \A e \in from(c) : e \in Chat
    BY <1>2, EntryIs
  <2>2. \A e \in from(c) : \E d \in Chats : /\ canonicalizeChatID(d) = c
                                           /\ recanon.copy[d] # NoChat /\ e = recanon.copy[d]
    OBVIOUS
  <2>3. \A d \in Chats : recanon.copy[d] # NoChat /\ canonicalizeChatID(d) = c
           => recanon.copy[d] \in from(c)
    OBVIOUS
  <2>4. chats'[c] = MergedChat(from(c))
    BY <1>1, <1>3
  <2> HIDE DEF from
  <2>5. PICK E \in SUBSET Chat : E = from(c) /\ E # {}
    BY <1>3, <2>1
  <2>6. /\ chats'[c] \in Chat
        /\ \A e \in E : e.ts <= chats'[c].ts
        /\ \E e \in E : e.unread = chats'[c].unread
    BY <2>4, <2>5, MergedIs
  <2>7. \A e \in E : chats'[c].ts >= e.ts
    BY <2>5, <2>6, ChatFields, LatestTs
  <2> QED BY <2>2, <2>3, <2>5, <2>6, <2>7
<1>4. ASSUME NEW c \in Chats, from(c) = {} PROVE chats'[c] = NoChat
  BY <1>1, <1>4
<1>5. chats' \in Snapshots
  <2>1. \A c \in Chats : chats'[c] \in Chat \cup {NoChat}
    <3> HIDE DEF from
    <3> QED BY <1>3, <1>4
  <2>2. \E f : chats' = [c \in Chats |-> f[c]]
    <3> WITNESS chats'
    <3> QED BY <1>1
  <2> HIDE DEF from
  <2> QED BY <2>1, <2>2 DEF Snapshots
<1>6. ASSUME NEW d \in Chats, recanon.copy[d] # NoChat, NEW c, c = canonicalizeChatID(d)
      PROVE  chats'[c] # NoChat /\ chats'[c].ts >= recanon.copy[d].ts
  <2>1. c \in Chats
    BY <1>6, CanonicalIs DEF TypeOK
  <2>2. from(c) # {}
    BY <1>6
  <2> HIDE DEF from
  <2> QED BY <1>3, <1>6, <2>1, <2>2, ChatAssumption
<1> HIDE DEF from
<1> QED BY <1>3, <1>4, <1>5, <1>6 DEF Moved

\* The newest message stored under an id.
LEMMA NewestIs ==
    ASSUME stored \subseteq Rows, NEW c \in Chats
    PROVE  /\ Newest(c) \in 0 .. MaxTs
           /\ \A r \in stored : r[1] = c => Ts[r[2]] <= Newest(c)
<1> DEFINE T == {0} \cup {Ts[r[2]] : r \in {x \in stored : x[1] = c}}
<1>1. \A r \in stored : r[2] \in Msgs
  BY DEF Rows
<1>2. T \in SUBSET (0 .. MaxTs) /\ T # {}
  BY <1>1, LatestTs
<1>3. \A r \in stored : r[1] = c => Ts[r[2]] \in T
  OBVIOUS
<1>4. Newest(c) = Max(T)
  BY DEF Newest
<1> HIDE DEF T
<1> QED BY <1>2, <1>3, <1>4, LatestTs, MaxIs

LEMMA LoadIs ==
    ASSUME TypeOK, loadState
    PROVE  /\ chats' \in Snapshots /\ saved' \in Snapshots
           /\ \A r \in stored : chats'[r[1]] # NoChat /\ chats'[r[1]].ts >= Ts[r[2]]
           /\ \A c \in Chats : chats'[c] # NoChat =>
                 chats'[c].unread = 0 \/ (saved[c] # NoChat /\ chats'[c].unread = saved[c].unread)
           /\ \A c \in Chats : saved'[c] # NoChat =>
                 saved'[c].unread = 0 \/ (saved[c] # NoChat /\ saved'[c].unread = saved[c].unread)
<1> DEFINE phantom(c) == saved[c] = Empty /\ \A r \in stored : r[1] # c
<1>1. PICK rows, loaded :
         /\ rows = [c \in Chats |-> IF phantom(c) THEN NoChat ELSE saved[c]]
         /\ loaded = [c \in Chats |-> IF rows[c] = Empty THEN NoChat ELSE rows[c]]
         /\ chats' = [c \in Chats |->
               IF Newest(c) > Entry(loaded, c).ts
               THEN [Entry(loaded, c) EXCEPT !.ts = Newest(c)] ELSE loaded[c]]
         /\ saved' = IF chats' = loaded THEN rows ELSE Overlay(rows, chats')
  BY DEF loadState
<1>2. saved \in Snapshots /\ stored \subseteq Rows
  BY DEF TypeOK
<1>3. /\ rows \in Snapshots
      /\ \A c \in Chats : rows[c] # NoChat => saved[c] # NoChat /\ rows[c] = saved[c]
  BY <1>1, <1>2 DEF Snapshots
<1> HIDE DEF phantom
<1>4. /\ loaded \in Snapshots
      /\ \A c \in Chats : loaded[c] # NoChat => saved[c] # NoChat /\ loaded[c] = saved[c]
  BY <1>1, <1>3 DEF Snapshots
<1>5. ASSUME NEW c \in Chats
      PROVE  /\ chats'[c] \in Chat \cup {NoChat}
             /\ Newest(c) > 0 => chats'[c] # NoChat /\ chats'[c].ts >= Newest(c)
             /\ chats'[c] # NoChat => \/ chats'[c].unread = 0
                                      \/ saved[c] # NoChat /\ chats'[c].unread = saved[c].unread
  <2>1. PICK e \in Chat : e = Entry(loaded, c)
    BY <1>4, EntryIs
  <2>2. PICK n \in 0 .. MaxTs : n = Newest(c)
    BY <1>2, NewestIs
  <2>3. MaxTs \in Nat /\ e.ts \in 0 .. MaxTs /\ e.unread \in 0 .. MaxUnread
    BY LatestTs, ChatFields
  <2>4. e.unread = 0 \/ (saved[c] # NoChat /\ e.unread = saved[c].unread)
    BY <1>4, <2>1, EntryIs, EmptyIsAChat
  <2>5. CASE n > e.ts
    <3>1. chats'[c] = [e EXCEPT !.ts = n]
      BY <1>1, <2>1, <2>2, <2>5
    <3>2. chats'[c] = [ts |-> n, unread |-> e.unread]
      BY <3>1 DEF Chat
    <3>3. chats'[c] \in Chat
      BY <2>3, <3>2, ChatOf
    <3> QED BY <2>2, <2>3, <2>4, <3>2, <3>3, ChatAssumption
  <2>6. CASE ~(n > e.ts)
    <3>1. chats'[c] = loaded[c]
      BY <1>1, <2>1, <2>2, <2>6
    <3>2. loaded[c] \in Chat \cup {NoChat}
      BY <1>4 DEF Snapshots
    <3>3. n > 0 => e # Empty
      BY <2>3, <2>6, EmptyIsAChat
    <3>4. n > 0 => loaded[c] = e /\ loaded[c] # NoChat
      BY <1>4, <2>1, <3>3, EntryIs
    <3>5. n > 0 => e.ts >= n
      BY <2>3, <2>6
    <3>6. loaded[c] # NoChat => loaded[c].unread = e.unread
      BY <1>4, <2>1, EntryIs
    <3> QED BY <2>2, <2>4, <3>1, <3>2, <3>4, <3>5, <3>6
  <2> QED BY <2>5, <2>6
<1>6. chats' \in Snapshots
  BY <1>1, <1>5 DEF Snapshots
<1>7. saved' \in Snapshots
  BY <1>1, <1>3, <1>6 DEF Overlay, Snapshots
<1>8. ASSUME NEW r \in stored PROVE chats'[r[1]] # NoChat /\ chats'[r[1]].ts >= Ts[r[2]]
  <2>1. r[1] \in Chats /\ r[2] \in Msgs
    BY <1>2 DEF Rows
  <2>2. Ts[r[2]] \in 1 .. MaxTs /\ Ts[r[2]] <= Newest(r[1]) /\ Newest(r[1]) \in 0 .. MaxTs
    BY <1>2, <2>1, LatestTs, NewestIs
  <2>3. Newest(r[1]) > 0
    BY <2>2, LatestTs
  <2>4. chats'[r[1]] # NoChat /\ chats'[r[1]].ts >= Newest(r[1])
    BY <1>5, <2>1, <2>3
  <2>5. chats'[r[1]].ts \in 0 .. MaxTs
    BY <1>5, <2>1, <2>4, ChatFields
  <2> QED BY <2>2, <2>4, <2>5, LatestTs
<1>9. ASSUME NEW c \in Chats, saved'[c] # NoChat
      PROVE  saved'[c].unread = 0 \/ (saved[c] # NoChat /\ saved'[c].unread = saved[c].unread)
  <2>1. saved'[c] = rows[c] \/ (chats'[c] # NoChat /\ saved'[c] = chats'[c])
    BY <1>1 DEF Overlay
  <2> QED BY <1>3, <1>5, <1>9, <2>1
<1> QED BY <1>5, <1>6, <1>7, <1>8, <1>9

-----------------------------------------------------------------------------
(* TypeOK is an invariant. *)

Saves == {Asleep, Due} \cup [pc : {"commit"}, snapshot : Snapshots]
Histories == [pc : {"idle", "insert", "reconcile", "persist"}, chunk : SUBSET Msgs]
Recanons == [pc : {"idle", "wiped", "due", "copied"}, copy : Snapshots]

LEMMA SaveStates ==
    /\ Asleep \in Saves /\ Due \in Saves
    /\ Asleep.pc # "commit" /\ Due.pc # "commit"
    /\ \A s \in Snapshots : Holding(s) \in Saves /\ Holding(s).pc = "commit" /\ Holding(s).snapshot = s
    /\ \A x \in Saves : x.pc = "commit" => x.snapshot \in Snapshots
BY DEF Saves, Asleep, Due, Holding

LEMMA Cleared ==
    /\ [c \in Chats |-> NoChat] \in Snapshots
    /\ \A s \in Snapshots, c \in Chats : [s EXCEPT ![c] = NoChat] \in Snapshots
BY DEF Snapshots

LEMMA ReadIs ==
    ASSUME chats \in Snapshots, NEW c \in Chats, markChatReadInState(c)
    PROVE  /\ chats' \in Snapshots
           /\ \A d \in Chats : d # c => chats'[d] = chats[d]
           /\ chats[c] # NoChat /\ chats'[c] # NoChat
           /\ chats'[c].ts = chats[c].ts /\ chats'[c].unread = 0
<1>1. PICK e \in Chat : e = chats[c]
  BY DEF Snapshots, markChatReadInState
<1>2. PICK x : x = [e EXCEPT !.unread = 0]
  OBVIOUS
<1>3. x = [ts |-> e.ts, unread |-> 0] /\ x \in Chat
  BY <1>2, ChatFields, ChatOf, ChatAssumption DEF Chat
<1>4. chats' = [chats EXCEPT ![c] = x]
  BY <1>1, <1>2 DEF markChatReadInState
<1>5. chats'[c] = x /\ \A d \in Chats : d # c => chats'[d] = chats[d]
  BY <1>4 DEF Snapshots
<1>6. chats' \in Snapshots
  BY <1>3, <1>4 DEF Snapshots
<1> QED BY <1>1, <1>3, <1>5, <1>6, ChatAssumption DEF markChatReadInState

LEMMA OverlayIs ==
    ASSUME NEW table \in Snapshots, NEW s \in Snapshots
    PROVE  /\ Overlay(table, s) \in Snapshots
           /\ \A c \in Chats : Overlay(table, s)[c] \in {table[c], s[c]}
           /\ \A c \in Chats : Overlay(table, s)[c] # NoChat =>
                 (table[c] # NoChat /\ Overlay(table, s)[c] = table[c])
                 \/ (s[c] # NoChat /\ Overlay(table, s)[c] = s[c])
BY DEF Overlay, Snapshots

\* The chat list and table chats.
LEMMA ChatsType == TypeOK /\ [Next]_vars => chats' \in Snapshots /\ saved' \in Snapshots
<1> SUFFICES ASSUME TypeOK, [Next]_vars PROVE chats' \in Snapshots /\ saved' \in Snapshots
  OBVIOUS
<1>1. chats \in Snapshots /\ saved \in Snapshots /\ recanon.copy \in Snapshots
  BY DEF TypeOK
<1>2. ASSUME NEW m \in Msgs, ReceiveMessage(m) PROVE chats' \in Snapshots /\ saved' = saved
  BY <1>2, ReceiveIs DEF ReceiveMessage
<1>3. ASSUME NEW r \in Rows, handleDeleteMessage(r) PROVE chats' = chats /\ saved' = saved
  BY <1>3 DEF handleDeleteMessage
<1>4. ASSUME NEW c \in Chats, handleMarkRead(c) \/ ReadElsewhere(c)
      PROVE  chats' \in Snapshots /\ saved' = saved
  BY <1>1, <1>4, ReadIs DEF handleMarkRead, ReadElsewhere, dbVars
<1>5. ASSUME NEW c \in Chats, MarkReadReturns(c) PROVE chats' = chats /\ saved' = saved
  BY <1>5 DEF MarkReadReturns, dbVars
<1>6. CASE PersistTick
  BY <1>1, <1>6 DEF PersistTick, dbVars
<1>7. ASSUME NEW p \in Persisters, PersistSnapshot(p) PROVE chats' = chats /\ saved' = saved
  BY <1>7 DEF PersistSnapshot, dbVars
<1>8. ASSUME NEW p \in Persisters, PersistCommit(p) PROVE chats' = chats /\ saved' \in Snapshots
  <2>1. save[p].snapshot \in Snapshots
    <3>1. save[p] \in Saves
      BY DEF TypeOK, Saves
    <3> QED BY <1>8, <3>1, SaveStates DEF PersistCommit
  <2> QED BY <1>1, <1>8, <2>1, OverlayIs DEF PersistCommit
<1>9. ASSUME NEW chunk \in SUBSET Msgs, HistoryMetadata(chunk)
      PROVE  chats' \in Snapshots /\ saved' = saved
  <2>1. saved' = saved
    BY <1>9 DEF HistoryMetadata, dbVars
  <2> QED BY <1>9, <2>1, MetadataIs
<1>10. CASE insertHistoryMessages
  <2>1. saved' = saved
    BY <1>10 DEF insertHistoryMessages
  <2> QED BY <1>1, <1>10, <2>1, InsertIs
<1>11. CASE reconcileLIDChats
  <2>1. saved' = saved
    BY <1>11 DEF reconcileLIDChats, dbVars
  <2> QED BY <1>1, <1>11, <2>1, ReconcileIs
<1>12. CASE HistoryEnd
  BY <1>1, <1>12 DEF HistoryEnd, dbVars
<1>13. ASSUME NEW c \in Lids, LearnLID(c) PROVE chats' = chats /\ saved' = saved
  BY <1>13 DEF LearnLID, dbVars
<1>14. CASE SyncContactsWipe
  BY <1>1, <1>14 DEF SyncContactsWipe, Snapshots
<1>15. ASSUME NEW contacts \in SUBSET Chats, SyncContactsRebuild(contacts)
       PROVE  chats' \in Snapshots /\ saved' = saved
  BY <1>1, <1>15, EmptyIsAChat DEF SyncContactsRebuild, Snapshots, dbVars
<1>16. CASE Connected \/ RecanonCopy
  BY <1>1, <1>16 DEF Connected, RecanonCopy, dbVars
<1>17. CASE RecanonReplace
  <2>1. saved' = saved
    BY <1>17 DEF RecanonReplace, dbVars
  <2> QED BY <1>1, <1>17, <2>1, ReplaceIs
<1>18. ASSUME NEW c \in Chats, cappedEvict(c) PROVE chats' \in Snapshots /\ saved' = saved
  BY <1>1, <1>18, Cleared DEF cappedEvict, dbVars
<1>19. CASE handleLogout \/ Login
  BY <1>1, <1>19 DEF handleLogout, Login, dbVars
<1>20. CASE resetRuntimeState \/ teardownAndReinitStorage \/ Crash
  BY <1>1, <1>20, Cleared DEF resetRuntimeState, teardownAndReinitStorage, Crash, dbVars
<1>21. CASE loadState
  BY <1>21, LoadIs
<1>22. CASE UNCHANGED vars
  BY <1>1, <1>22 DEF vars
<1> QED BY <1>1, <1>2, <1>3, <1>4, <1>5, <1>6, <1>7, <1>8, <1>9, <1>10, <1>11, <1>12, <1>13,
           <1>14, <1>15, <1>16, <1>17, <1>18, <1>19, <1>20, <1>21, <1>22
    DEF Next, Persist, HistoryStep

\* The callers of persistState.
LEMMA SaveSteps ==
    ASSUME [Next]_vars
    PROVE  \/ save' = save
           \/ \E p \in Persisters, x \in {Asleep, Due, Holding(chats)} : save' = [save EXCEPT ![p] = x]
           \/ save' = [p \in Persisters |-> Asleep]
<1>1. "worker" \in Persisters /\ "caller" \in Persisters
  BY DEF Persisters
<1>2. ASSUME NEW r \in Rows, handleDeleteMessage(r) PROVE save' = [save EXCEPT !["caller"] = Due]
  BY <1>2 DEF handleDeleteMessage
<1>3. ASSUME NEW c \in Chats, MarkReadReturns(c) \/ ReadElsewhere(c)
      PROVE  save' = [save EXCEPT !["caller"] = Due]
  BY <1>3 DEF MarkReadReturns, ReadElsewhere
<1>4. PersistTick => save' = [save EXCEPT !["worker"] = Due]
  BY DEF PersistTick
<1>5. ASSUME NEW p \in Persisters, PersistSnapshot(p)
      PROVE  \E x \in {Asleep, Holding(chats)} : save' = [save EXCEPT ![p] = x]
  BY <1>5 DEF PersistSnapshot
<1>6. ASSUME NEW p \in Persisters, PersistCommit(p) PROVE save' = [save EXCEPT ![p] = Asleep]
  BY <1>6 DEF PersistCommit
<1>7. reconcileLIDChats => save' = save \/ save' = [save EXCEPT !["caller"] = Due]
  BY DEF reconcileLIDChats
<1>8. RecanonReplace => save' = [save EXCEPT !["caller"] = Due]
  BY DEF RecanonReplace
<1>9. Crash => save' = [p \in Persisters |-> Asleep]
  BY DEF Crash
<1>10. \A m \in Msgs : ReceiveMessage(m) => save' = save
  BY DEF ReceiveMessage
<1>11. \A c \in Chats : handleMarkRead(c) \/ cappedEvict(c) \/ LearnLID(c) => save' = save
  BY DEF handleMarkRead, cappedEvict, LearnLID
<1>12. \A c \in Lids : LearnLID(c) => save' = save
  BY DEF LearnLID
<1>13. \A chunk \in SUBSET Msgs : HistoryMetadata(chunk) => save' = save
  BY DEF HistoryMetadata
<1>14. \A cs \in SUBSET Chats : SyncContactsRebuild(cs) => save' = save
  BY DEF SyncContactsRebuild
<1>15. insertHistoryMessages \/ HistoryEnd \/ SyncContactsWipe \/ Connected \/ RecanonCopy
          => save' = save
  BY DEF insertHistoryMessages, HistoryEnd, SyncContactsWipe, Connected, RecanonCopy
<1>16. handleLogout \/ resetRuntimeState \/ teardownAndReinitStorage \/ Login \/ loadState
          => save' = save
  BY DEF handleLogout, resetRuntimeState, teardownAndReinitStorage, Login, loadState
<1>17. UNCHANGED vars => save' = save
  BY DEF vars
<1> QED BY <1>1, <1>2, <1>3, <1>4, <1>5, <1>6, <1>7, <1>8, <1>9, <1>10, <1>11, <1>12, <1>13,
           <1>14, <1>15, <1>16, <1>17 DEF Next, Persist, HistoryStep

LEMMA SaveType == TypeOK /\ [Next]_vars => save' \in [Persisters -> Saves]
<1> SUFFICES ASSUME TypeOK, [Next]_vars PROVE save' \in [Persisters -> Saves]
  OBVIOUS
<1>1. save \in [Persisters -> Saves] /\ chats \in Snapshots
  BY DEF TypeOK, Saves
<1>2. \A x \in {Asleep, Due, Holding(chats)} : x \in Saves
  BY <1>1, SaveStates
<1>3. \A p \in Persisters, x \in Saves : [save EXCEPT ![p] = x] \in [Persisters -> Saves]
  BY <1>1
<1> QED BY <1>1, <1>2, <1>3, SaveSteps, SaveStates

\* The history sync and the recanonicalization.
LEMMA WorkType == TypeOK /\ [Next]_vars => history' \in Histories /\ recanon' \in Recanons
<1> SUFFICES ASSUME TypeOK, [Next]_vars PROVE history' \in Histories /\ recanon' \in Recanons
  OBVIOUS
<1>1. history \in Histories /\ recanon \in Recanons /\ chats \in Snapshots
  BY DEF TypeOK, Histories, Recanons
<1>2. [c \in Chats |-> NoChat] \in Snapshots
  BY Cleared
<1>3. /\ \A chunk \in SUBSET Msgs : [pc |-> "insert", chunk |-> chunk] \in Histories
      /\ [pc |-> "idle", chunk |-> {}] \in Histories
      /\ [history EXCEPT !.pc = "reconcile"] \in Histories
      /\ [history EXCEPT !.pc = "persist"] \in Histories
  BY <1>1 DEF Histories
<1>4. /\ \A pc \in {"idle", "wiped", "due"} : [recanon EXCEPT !.pc = pc] \in Recanons
      /\ [pc |-> "copied", copy |-> chats] \in Recanons
      /\ [pc |-> "idle", copy |-> [c \in Chats |-> NoChat]] \in Recanons
  BY <1>1, <1>2 DEF Recanons
<1>5. \A m \in Msgs : ReceiveMessage(m) => history' = history /\ recanon' = recanon
  BY DEF ReceiveMessage
<1>6. \A r \in Rows : handleDeleteMessage(r) => history' = history /\ recanon' = recanon
  BY DEF handleDeleteMessage
<1>7. \A c \in Chats : handleMarkRead(c) \/ MarkReadReturns(c) \/ ReadElsewhere(c) \/ cappedEvict(c)
         => history' = history /\ recanon' = recanon
  BY DEF handleMarkRead, MarkReadReturns, ReadElsewhere, cappedEvict
<1>8. \A p \in Persisters : PersistSnapshot(p) \/ PersistCommit(p)
         => history' = history /\ recanon' = recanon
  BY DEF PersistSnapshot, PersistCommit
<1>9. \A c \in Lids : LearnLID(c) => history' = history /\ recanon' = recanon
  BY DEF LearnLID
<1>10. \A chunk \in SUBSET Msgs : HistoryMetadata(chunk)
          => history' = [pc |-> "insert", chunk |-> chunk] /\ recanon' = recanon
  BY DEF HistoryMetadata
<1>11. insertHistoryMessages => history' = [history EXCEPT !.pc = "reconcile"] /\ recanon' = recanon
  BY DEF insertHistoryMessages
<1>12. reconcileLIDChats => history' = [history EXCEPT !.pc = "persist"] /\ recanon' = recanon
  BY DEF reconcileLIDChats
<1>13. HistoryEnd => history' = [pc |-> "idle", chunk |-> {}] /\ recanon' = recanon
  BY DEF HistoryEnd
<1>14. \A cs \in SUBSET Chats : SyncContactsRebuild(cs)
          => history' = history /\ \E pc \in {"idle", "due"} : recanon' = [recanon EXCEPT !.pc = pc]
  BY DEF SyncContactsRebuild
<1>15. SyncContactsWipe \/ Connected
          => history' = history /\ \E pc \in {"wiped", "due"} : recanon' = [recanon EXCEPT !.pc = pc]
  BY DEF SyncContactsWipe, Connected
<1>16. RecanonCopy => history' = history /\ recanon' = [pc |-> "copied", copy |-> chats]
  BY DEF RecanonCopy
<1>17. RecanonReplace
          => history' = history /\ recanon' = [pc |-> "idle", copy |-> [c \in Chats |-> NoChat]]
  BY DEF RecanonReplace
<1>18. Crash => /\ history' = [pc |-> "idle", chunk |-> {}]
                /\ recanon' = [pc |-> "idle", copy |-> [c \in Chats |-> NoChat]]
  BY DEF Crash
<1>19. \/ PersistTick \/ handleLogout \/ resetRuntimeState \/ teardownAndReinitStorage
       \/ Login \/ loadState \/ UNCHANGED vars
       => history' = history /\ recanon' = recanon
  BY DEF PersistTick, handleLogout, resetRuntimeState, teardownAndReinitStorage, Login,
         loadState, vars
<1>20. history' \in Histories
  BY <1>1, <1>3, <1>5, <1>6, <1>7, <1>8, <1>9, <1>10, <1>11, <1>12, <1>13, <1>14, <1>15, <1>16,
     <1>17, <1>18, <1>19 DEF Next, Persist, HistoryStep
<1>21. recanon' \in Recanons
  BY <1>1, <1>4, <1>5, <1>6, <1>7, <1>8, <1>9, <1>10, <1>11, <1>12, <1>13, <1>14, <1>15, <1>16,
     <1>17, <1>18, <1>19 DEF Next, Persist, HistoryStep
<1> QED BY <1>20, <1>21

\* The rows, the flag, what is read here, the lids and the phase of the process.
RestTypes ==
    /\ stored \subseteq Rows /\ dirty \in BOOLEAN /\ confirming \subseteq Chats
    /\ resolved \subseteq Lids
    /\ phase \in {"load", "up", "closing", "wiped", "out"}
    /\ starts \in Nat /\ jobs \in Nat /\ deletes \in Nat
    /\ handed \subseteq Rows
    /\ recountable \subseteq Chats /\ lost \subseteq Chats /\ missed \subseteq Chats

LEMMA RestType == TypeOK /\ [Next]_vars => RestTypes'
<1> SUFFICES ASSUME TypeOK, [Next]_vars PROVE RestTypes'
  OBVIOUS
<1>1. RestTypes /\ history.chunk \in SUBSET Msgs
  BY DEF TypeOK, RestTypes
<1>2. \A m \in Msgs : canonicalizeChatID(RawChat[m]) \in Chats
  BY CanonicalIs, ChatAssumption DEF TypeOK
<1>3. \A ms \in SUBSET Msgs : {<<canonicalizeChatID(RawChat[m]), m>> : m \in ms} \subseteq Rows
  BY <1>2 DEF Rows
<1>4. ASSUME NEW m \in Msgs, ReceiveMessage(m) PROVE RestTypes'
  <2>1. PICK c \in Chats : c = canonicalizeChatID(RawChat[m])
    BY <1>2
  <2>2. <<c, m>> \in Rows
    BY DEF Rows
  <2>3. stored' \subseteq Rows /\ handed' \subseteq Rows /\ missed' \subseteq Chats
    BY <1>1, <1>4, <2>1, <2>2 DEF ReceiveMessage, RestTypes
  <2>4. dirty' \in BOOLEAN
    BY <1>1, <1>4, Zenon DEF ReceiveMessage, RestTypes
  <2> QED BY <1>1, <1>4, <2>3, <2>4 DEF ReceiveMessage, RestTypes, counters
<1>5. ASSUME NEW r \in Rows, handleDeleteMessage(r) PROVE RestTypes'
  <2>1. r[1] \in Chats
    BY DEF Rows
  <2> QED BY <1>1, <1>5, <2>1 DEF handleDeleteMessage, RestTypes
<1>6. ASSUME NEW c \in Chats, handleMarkRead(c) \/ MarkReadReturns(c) \/ ReadElsewhere(c)
      PROVE  RestTypes'
  BY <1>1, <1>6 DEF handleMarkRead, MarkReadReturns, ReadElsewhere, RestTypes, dbVars, counters, ghosts
<1>7. ASSUME NEW p \in Persisters, PersistSnapshot(p) \/ PersistCommit(p) PROVE RestTypes'
  BY <1>1, <1>7 DEF PersistSnapshot, PersistCommit, Overtaken, RestTypes, dbVars, counters
<1>8. ASSUME NEW c \in Lids, LearnLID(c) PROVE RestTypes'
  BY <1>1, <1>8 DEF LearnLID, RestTypes, dbVars, counters, ghosts
<1>9. ASSUME NEW chunk \in SUBSET Msgs, HistoryMetadata(chunk) PROVE RestTypes'
  <2>1. {<<canonicalizeChatID(RawChat[m]), m>> : m \in chunk \ Own} \subseteq Rows
    BY <1>3
  <2>2. /\ handed' = handed \cup {<<canonicalizeChatID(RawChat[m]), m>> : m \in chunk \ Own}
        /\ jobs' = jobs + 1
        /\ UNCHANGED <<stored, dirty, confirming, resolved, phase, starts, deletes, recountable,
                       lost, missed>>
    BY <1>9 DEF HistoryMetadata, dbVars
  <2> QED BY <1>1, <2>1, <2>2 DEF RestTypes
<1>10. CASE insertHistoryMessages
  <2>1. /\ {<<canonicalizeChatID(RawChat[m]), m>> : m \in history.chunk \ Own} \subseteq Rows
        /\ {<<canonicalizeChatID(RawChat[m]), m>> : m \in history.chunk} \subseteq Rows
    BY <1>1, <1>3
  <2>2. /\ stored' = stored \cup {<<canonicalizeChatID(RawChat[m]), m>> : m \in history.chunk}
        /\ handed' = handed \cup {<<canonicalizeChatID(RawChat[m]), m>> : m \in history.chunk \ Own}
        /\ UNCHANGED <<dirty, confirming, resolved, phase, counters, recountable, lost, missed>>
    BY <1>10 DEF insertHistoryMessages
  <2> QED BY <1>1, <2>1, <2>2 DEF RestTypes, counters
<1>11. CASE reconcileLIDChats
  <2>1. \A c \in resolved : PhoneOf[c] \in Chats
    BY <1>1, ChatAssumption DEF RestTypes
  <2>2. missed' \subseteq Chats
    BY <1>1, <1>11, <2>1 DEF reconcileLIDChats, RestTypes
  <2> QED BY <1>1, <1>11, <2>2 DEF reconcileLIDChats, RestTypes, dbVars, counters
<1>12. ASSUME NEW cs \in SUBSET Chats, SyncContactsRebuild(cs) PROVE RestTypes'
  BY <1>1, <1>12 DEF SyncContactsRebuild, RestTypes, dbVars, counters, ghosts
<1>13. CASE SyncContactsWipe \/ Connected \/ RecanonCopy \/ HistoryEnd \/ PersistTick
  <2>1. CASE SyncContactsWipe \/ Connected
    BY <1>1, <2>1 DEF SyncContactsWipe, Connected, RestTypes, dbVars, ghosts
  <2>2. CASE RecanonCopy \/ HistoryEnd \/ PersistTick
    BY <1>1, <2>2 DEF RecanonCopy, HistoryEnd, PersistTick, RestTypes, dbVars, counters, ghosts
  <2> QED BY <1>13, <2>1, <2>2
<1>14. CASE RecanonReplace
  BY <1>1, <1>14 DEF RecanonReplace, RestTypes, dbVars, counters
<1>15. ASSUME NEW c \in Chats, cappedEvict(c) PROVE RestTypes'
  BY <1>1, <1>15 DEF cappedEvict, RestTypes, dbVars, counters
<1>16. CASE handleLogout \/ resetRuntimeState \/ Login
  BY <1>1, <1>16 DEF handleLogout, resetRuntimeState, Login, RestTypes, dbVars, counters, ghosts
<1>17. CASE teardownAndReinitStorage
  BY <1>1, <1>17 DEF teardownAndReinitStorage, RestTypes, counters
<1>18. CASE Crash
  <2>1. recountable' \subseteq Chats
    BY <1>1, <1>2, <1>18 DEF Crash, RestTypes
  <2>2. /\ dirty' = FALSE /\ confirming' = {} /\ phase' = "load" /\ starts' = starts + 1
        /\ lost' = {} /\ missed' = {} /\ UNCHANGED <<stored, resolved, jobs, deletes, handed>>
    BY <1>18 DEF Crash, dbVars
  <2>3. starts' \in Nat /\ jobs' \in Nat /\ deletes' \in Nat
    BY <1>1, <2>2 DEF RestTypes
  <2>4. stored' \subseteq Rows /\ resolved' \subseteq Lids /\ handed' \subseteq Rows
    BY <1>1, <2>2 DEF RestTypes
  <2>5. confirming' \subseteq Chats /\ lost' \subseteq Chats /\ missed' \subseteq Chats
    BY <2>2
  <2>6. dirty' \in BOOLEAN /\ phase' \in {"load", "up", "closing", "wiped", "out"}
    BY <2>2
  <2> QED BY <2>1, <2>3, <2>4, <2>5, <2>6 DEF RestTypes
<1>19. CASE loadState
  <2>1. UNCHANGED <<stored, dirty, confirming, resolved, counters, ghosts>> /\ phase' = "up"
    BY <1>19 DEF loadState
  <2> QED BY <1>1, <2>1 DEF RestTypes, counters, ghosts
<1>20. CASE UNCHANGED vars
  BY <1>1, <1>20 DEF vars, RestTypes
<1> QED BY <1>4, <1>5, <1>6, <1>7, <1>8, <1>9, <1>10, <1>11, <1>12, <1>13, <1>14, <1>15, <1>16,
           <1>17, <1>18, <1>19, <1>20 DEF Next, Persist, HistoryStep

LEMMA TypeInit == Init => TypeOK
<1> SUFFICES ASSUME Init PROVE TypeOK
  OBVIOUS
<1>1. chats \in Snapshots /\ saved \in Snapshots /\ recanon.copy \in Snapshots
  BY Cleared DEF Init
<1>2. recanon = [pc |-> "idle", copy |-> recanon.copy]
  BY DEF Init
<1>3. recanon \in Recanons /\ history \in Histories
  BY <1>1, <1>2 DEF Init, Recanons, Histories
<1>4. save \in [Persisters -> Saves]
  BY SaveStates DEF Init
<1> QED BY <1>1, <1>3, <1>4 DEF Init, TypeOK, Saves, Recanons, Histories

LEMMA TypeStep == TypeOK /\ [Next]_vars => TypeOK'
<1> SUFFICES ASSUME TypeOK, [Next]_vars PROVE TypeOK'
  OBVIOUS
<1>1. chats' \in Snapshots /\ saved' \in Snapshots /\ save' \in [Persisters -> Saves]
  BY ChatsType, SaveType
<1>2. history' \in Histories /\ recanon' \in Recanons /\ RestTypes'
  BY WorkType, RestType
<1> QED BY <1>1, <1>2 DEF TypeOK, RestTypes, Saves, Histories, Recanons

\* The chat list, table chats, the snapshots of the saves and the copy of a
\* recanonicalization keep their types, whatever is merged, stored or reloaded.
THEOREM TypeCorrect == Spec => []TypeOK
<1>1. Init => TypeOK
  BY TypeInit
<1>2. TypeOK /\ [Next]_vars => TypeOK'
  BY TypeStep
<1> QED BY <1>1, <1>2, PTL DEF Spec

-----------------------------------------------------------------------------
(* MessagesAreListed is an invariant. *)

\* Outside a running process nothing of a history sync is left, from a logout to the
\* end of its wipe nobody holds a snapshot, and a wiped archive is empty.
Quiet ==
    /\ phase # "up" => history.pc = "idle"
    /\ shuttingDown => \A p \in Persisters : save[p].pc # "commit"
    /\ phase = "out" => stored = {} /\ handed = {}

ListInv == Quiet /\ MessagesAreListed

\* What most steps do to the three parts of Quiet: nothing.
Untouched == UNCHANGED <<phase, history, stored, handed>>

LEMMA QuietStep == TypeOK /\ Quiet /\ [Next]_vars => Quiet'
<1> SUFFICES ASSUME TypeOK, Quiet, [Next]_vars PROVE Quiet'
  OBVIOUS
<1>1. save \in [Persisters -> Saves] /\ chats \in Snapshots /\ history \in Histories
  BY DEF TypeOK, Saves, Histories
<1>2. "worker" \in Persisters /\ "caller" \in Persisters
  BY DEF Persisters
<1>3. ASSUME NEW p \in Persisters, NEW x \in {Due, Asleep}, save' = [save EXCEPT ![p] = x],
             phase' = phase, shuttingDown
      PROVE  \A q \in Persisters : save'[q].pc # "commit"
  BY <1>1, <1>3, SaveStates DEF Quiet
<1>4. ASSUME phase' = phase, save' = save, phase = "up" \/ Untouched PROVE Quiet'
  BY <1>4 DEF Quiet, shuttingDown, Untouched
<1>5. ASSUME NEW p \in Persisters, NEW x \in {Due, Asleep}, save' = [save EXCEPT ![p] = x],
             phase' = phase, phase = "up" \/ Untouched
      PROVE  Quiet'
  <2>1. shuttingDown' => \A q \in Persisters : save'[q].pc # "commit"
    BY <1>3, <1>5 DEF shuttingDown
  <2> QED BY <1>5, <2>1 DEF Quiet, Untouched
<1>6. \A m \in Msgs : ReceiveMessage(m) => phase' = phase /\ save' = save /\ phase = "up"
  BY DEF ReceiveMessage
<1>7. \A r \in Rows : handleDeleteMessage(r)
         => phase' = phase /\ phase = "up" /\ save' = [save EXCEPT !["caller"] = Due]
  BY DEF handleDeleteMessage
<1>8. \A c \in Chats : handleMarkRead(c) \/ cappedEvict(c)
         => phase' = phase /\ save' = save /\ Untouched
  BY DEF handleMarkRead, cappedEvict, dbVars, ghosts, Untouched
<1>9. \A c \in Chats : MarkReadReturns(c) \/ ReadElsewhere(c)
         => phase' = phase /\ save' = [save EXCEPT !["caller"] = Due] /\ Untouched
  BY DEF MarkReadReturns, ReadElsewhere, dbVars, ghosts, Untouched
<1>10. PersistTick => phase' = phase /\ save' = [save EXCEPT !["worker"] = Due] /\ Untouched
  BY DEF PersistTick, dbVars, ghosts, Untouched
<1>11. ASSUME NEW p \in Persisters, PersistSnapshot(p) PROVE Quiet'
  <2>1. phase' = phase /\ Untouched
    BY <1>11 DEF PersistSnapshot, dbVars, Untouched
  <2>2. shuttingDown => save' = [save EXCEPT ![p] = Asleep]
    BY <1>11 DEF PersistSnapshot
  <2>3. shuttingDown' => \A q \in Persisters : save'[q].pc # "commit"
    BY <1>3, <2>1, <2>2 DEF shuttingDown
  <2> QED BY <2>1, <2>3 DEF Quiet, Untouched
<1>12. \A p \in Persisters : PersistCommit(p)
          => phase' = phase /\ save' = [save EXCEPT ![p] = Asleep] /\ Untouched
  BY DEF PersistCommit, Untouched
<1>13. \A chunk \in SUBSET Msgs : HistoryMetadata(chunk)
          => phase' = phase /\ save' = save /\ phase = "up"
  BY DEF HistoryMetadata
<1>14. CASE HistoryStep
  <2>1. phase = "up"
    BY <1>14 DEF HistoryStep, insertHistoryMessages, reconcileLIDChats, HistoryEnd, Quiet
  <2>2. phase' = phase
    BY <1>14 DEF HistoryStep, insertHistoryMessages, reconcileLIDChats, HistoryEnd
  <2>3. ~shuttingDown'
    BY <2>1, <2>2 DEF shuttingDown
  <2> QED BY <2>1, <2>2, <2>3 DEF Quiet
<1>15. \A c \in Lids : LearnLID(c) => phase' = phase /\ save' = save /\ Untouched
  BY DEF LearnLID, dbVars, ghosts, Untouched
<1>16. \A cs \in SUBSET Chats : SyncContactsRebuild(cs) => phase' = phase /\ save' = save /\ Untouched
  BY DEF SyncContactsRebuild, dbVars, ghosts, Untouched
<1>17. SyncContactsWipe \/ Connected \/ RecanonCopy => phase' = phase /\ save' = save /\ Untouched
  BY DEF SyncContactsWipe, Connected, RecanonCopy, dbVars, ghosts, Untouched
<1>18. RecanonReplace => phase' = phase /\ save' = [save EXCEPT !["caller"] = Due] /\ Untouched
  BY DEF RecanonReplace, dbVars, Untouched
<1>19. CASE handleLogout
  BY <1>19 DEF handleLogout, Quiet, shuttingDown
<1>20. CASE resetRuntimeState
  BY <1>20 DEF resetRuntimeState, Quiet, shuttingDown
<1>21. CASE teardownAndReinitStorage
  BY <1>21 DEF teardownAndReinitStorage, Quiet, shuttingDown
<1>22. CASE Login \/ loadState
  BY <1>22 DEF Login, loadState, Quiet, shuttingDown
<1>23. CASE Crash
  BY <1>23 DEF Crash, Quiet, shuttingDown
<1>24. CASE UNCHANGED vars
  BY <1>24 DEF vars, Quiet, shuttingDown
<1> QED BY <1>2, <1>4, <1>5, <1>6, <1>7, <1>8, <1>9, <1>10, <1>11, <1>12, <1>13, <1>14, <1>15,
           <1>16, <1>17, <1>18, <1>19, <1>20, <1>21, <1>22, <1>23, <1>24 DEF Next, Persist

\* A stored message that is listed, or whose chat was set back.
Shown(r) == Listed(r) \/ r[1] \in lost \/ canonicalizeChatID(r[1]) \in lost

\* No chat with a message in it is dropped or grows older, but for those set back now.
NoChatFalls ==
    \A c \in Chats :
       chats[c] # NoChat /\ chats[c].ts > 0
          => c \in lost' \/ (chats'[c] # NoChat /\ chats'[c].ts >= chats[c].ts)

LEMMA StaysShown ==
    ASSUME TypeOK, TypeOK', NoChatFalls, lost \subseteq lost', resolved \subseteq resolved',
           NEW r \in stored, Shown(r)
    PROVE  Shown(r)'
<1>1. r[1] \in Chats /\ r[2] \in Msgs
  BY DEF TypeOK, Rows
<1>2. Ts[r[2]] \in 1 .. MaxTs /\ MaxTs \in Nat
  BY <1>1, LatestTs
<1>3. canonicalizeChatID(r[1]) \in {r[1], canonicalizeChatID(r[1])'}
  BY DEF canonicalizeChatID
<1>4. CASE Listed(r)
  <2>1. PICK c \in {r[1], canonicalizeChatID(r[1])} : chats[c] # NoChat /\ chats[c].ts >= Ts[r[2]]
    BY <1>4 DEF Listed
  <2>2. c \in Chats
    BY <1>1, <2>1, CanonicalIs DEF TypeOK
  <2>3. chats[c].ts \in 0 .. MaxTs
    BY <2>1, <2>2, EntryIs, ChatFields DEF TypeOK
  <2>4. c \in lost' \/ (chats'[c] # NoChat /\ chats'[c].ts >= chats[c].ts)
    BY <1>2, <2>1, <2>2, <2>3 DEF NoChatFalls
  <2>5. chats'[c] # NoChat => chats'[c].ts \in 0 .. MaxTs
    BY <2>2, EntryIs, ChatFields DEF TypeOK
  <2>6. c \in lost' \/ (chats'[c] # NoChat /\ chats'[c].ts >= Ts[r[2]])
    BY <1>2, <2>1, <2>3, <2>4, <2>5
  <2>7. c \in {r[1], canonicalizeChatID(r[1])'}
    BY <1>3, <2>1
  <2> QED BY <2>6, <2>7 DEF Shown, Listed
<1>5. CASE ~Listed(r)
  BY <1>3, <1>5 DEF Shown
<1> QED BY <1>4, <1>5

LEMMA ListStep == TypeOK /\ TypeOK' /\ ListInv /\ [Next]_vars => MessagesAreListed'
<1> SUFFICES ASSUME TypeOK, TypeOK', ListInv, [Next]_vars PROVE MessagesAreListed'
  OBVIOUS
<1>1. phase = "up" => \A r \in stored : Shown(r)
  BY DEF ListInv, MessagesAreListed, Shown
<1>2. MessagesAreListed' <=> (phase' = "up" => \A r \in stored' : Shown(r)')
  BY DEF MessagesAreListed, Shown
<1>3. \A c \in Chats : chats[c] # NoChat => chats[c].ts \in 0 .. MaxTs /\ chats[c].ts >= chats[c].ts
  BY EntryIs, ChatFields, LatestTs DEF TypeOK
<1>4. ASSUME NoChatFalls, lost \subseteq lost', resolved \subseteq resolved',
             stored' \subseteq stored, phase' = phase
      PROVE  MessagesAreListed'
  BY <1>1, <1>2, <1>4, StaysShown
<1>5. ASSUME chats' = chats, UNCHANGED <<stored, resolved, phase, lost>> PROVE MessagesAreListed'
  <2>1. NoChatFalls
    BY <1>3, <1>5 DEF NoChatFalls
  <2> QED BY <1>4, <1>5, <2>1
<1>6. ASSUME NEW m \in Msgs, ReceiveMessage(m) PROVE MessagesAreListed'
  <2>1. PICK c \in Chats : c = canonicalizeChatID(RawChat[m])
    BY CanonicalIs, ChatAssumption DEF TypeOK
  <2>2. /\ \A d \in Chats : d # c => chats'[d] = chats[d]
        /\ chats'[c] # NoChat /\ chats'[c].ts >= Ts[m] /\ chats'[c].ts >= Entry(chats, c).ts
    BY <1>6, <2>1, ReceiveIs
  <2>3. NoChatFalls
    <3>1. chats[c] # NoChat => Entry(chats, c) = chats[c]
      BY DEF Entry
    <3> QED BY <1>3, <2>2, <3>1 DEF NoChatFalls
  <2>4. /\ stored' = stored \cup {<<c, m>>} /\ lost' = lost /\ resolved' = resolved
        /\ phase = "up" /\ phase' = "up"
    BY <1>6, <2>1 DEF ReceiveMessage
  <2>5. ASSUME NEW r \in stored' PROVE Shown(r)'
    <3>1. CASE r \in stored
      BY <1>1, <2>3, <2>4, <3>1, StaysShown
    <3>2. CASE r = <<c, m>>
      BY <2>2, <3>2 DEF Shown, Listed
    <3> QED BY <2>4, <3>1, <3>2
  <2> QED BY <1>2, <2>5
<1>7. ASSUME NEW r \in Rows, handleDeleteMessage(r) PROVE MessagesAreListed'
  <2>1. NoChatFalls
    BY <1>3, <1>7 DEF handleDeleteMessage, NoChatFalls
  <2> QED BY <1>4, <1>7, <2>1 DEF handleDeleteMessage
<1>8. ASSUME NEW c \in Chats, handleMarkRead(c) \/ ReadElsewhere(c) PROVE MessagesAreListed'
  <2>1. UNCHANGED <<stored, resolved, phase, lost>> /\ markChatReadInState(c)
    BY <1>8 DEF handleMarkRead, ReadElsewhere, dbVars, ghosts
  <2>2. NoChatFalls
    BY <1>3, <2>1, ReadIs DEF NoChatFalls, TypeOK
  <2> QED BY <1>4, <2>1, <2>2
<1>9. ASSUME NEW c \in Chats, MarkReadReturns(c) PROVE MessagesAreListed'
  BY <1>5, <1>9 DEF MarkReadReturns, dbVars, ghosts
<1>10. CASE Persist
  <2>1. PersistTick => chats' = chats /\ UNCHANGED <<stored, resolved, phase, lost>>
    BY DEF PersistTick, dbVars, ghosts
  <2>2. \A p \in Persisters : PersistSnapshot(p) \/ PersistCommit(p)
           => chats' = chats /\ UNCHANGED <<stored, resolved, phase, lost>>
    BY DEF PersistSnapshot, PersistCommit, dbVars
  <2> QED BY <1>5, <1>10, <2>1, <2>2 DEF Persist
<1>11. ASSUME NEW chunk \in SUBSET Msgs, HistoryMetadata(chunk) PROVE MessagesAreListed'
  <2>1. KeepsChats
    BY <1>11, MetadataIs
  <2>2. NoChatFalls
    BY <2>1 DEF KeepsChats, NoChatFalls
  <2>3. UNCHANGED <<stored, resolved, phase, lost>>
    BY <1>11 DEF HistoryMetadata, dbVars
  <2> QED BY <1>4, <2>2, <2>3
<1>12. CASE insertHistoryMessages
  <2>1. /\ KeepsChats
        /\ \A m \in history.chunk : LET c == canonicalizeChatID(RawChat[m]) IN
              chats'[c] # NoChat /\ chats'[c].ts >= Ts[m]
    BY <1>12, InsertIs
  <2>2. NoChatFalls
    BY <2>1 DEF KeepsChats, NoChatFalls
  <2>3. /\ stored' = stored \cup {<<canonicalizeChatID(RawChat[m]), m>> : m \in history.chunk}
        /\ lost' = lost /\ resolved' = resolved /\ phase' = phase /\ phase = "up"
    BY <1>12 DEF insertHistoryMessages, ListInv, Quiet
  <2>4. ASSUME NEW r \in stored' PROVE Shown(r)'
    <3>1. CASE r \in stored
      BY <1>1, <2>2, <2>3, <3>1, StaysShown
    <3>2. CASE r \notin stored
      <4>1. PICK m \in history.chunk : r = <<canonicalizeChatID(RawChat[m]), m>>
        BY <2>3, <3>2
      <4> QED BY <2>1, <4>1 DEF Shown, Listed
    <3> QED BY <3>1, <3>2
  <2> QED BY <1>2, <2>4
<1>13. ASSUME Moved(chats), UNCHANGED <<stored, resolved, phase, lost>> PROVE MessagesAreListed'
  <2>1. SUFFICES ASSUME phase = "up", NEW r \in stored PROVE Shown(r)'
    BY <1>2, <1>13
  <2>2. r[1] \in Chats /\ r[2] \in Msgs
    BY DEF TypeOK, Rows
  <2>3. CASE Listed(r)
    <3>1. PICK d \in {r[1], canonicalizeChatID(r[1])} : chats[d] # NoChat /\ chats[d].ts >= Ts[r[2]]
      BY <2>3 DEF Listed
    <3>2. d \in Chats /\ canonicalizeChatID(d) = canonicalizeChatID(r[1])
      BY <2>2, <3>1, CanonicalIs DEF TypeOK, canonicalizeChatID
    <3>3. PICK c \in Chats : c = canonicalizeChatID(d)
      BY <3>2, CanonicalIs DEF TypeOK
    <3>4. chats'[c] # NoChat /\ chats'[c].ts >= chats[d].ts
      BY <1>13, <3>1, <3>2, <3>3 DEF Moved
    <3>5. chats'[c].ts \in 0 .. MaxTs /\ chats[d].ts \in 0 .. MaxTs /\ Ts[r[2]] \in 1 .. MaxTs
      BY <2>2, <3>1, <3>2, <3>4, EntryIs, ChatFields, LatestTs DEF TypeOK
    <3>6. chats'[c].ts >= Ts[r[2]]
      BY <3>1, <3>4, <3>5, LatestTs
    <3>7. c = canonicalizeChatID(r[1])'
      BY <1>13, <3>2, <3>3 DEF canonicalizeChatID
    <3> QED BY <3>4, <3>6, <3>7 DEF Shown, Listed
  <2>4. CASE ~Listed(r)
    BY <1>1, <1>13, <2>1, <2>4 DEF Shown, canonicalizeChatID
  <2> QED BY <2>3, <2>4
<1>14. CASE reconcileLIDChats
  <2>1. Moved(chats)
    BY <1>14, ReconcileIs
  <2>2. UNCHANGED <<stored, resolved, phase, lost>>
    BY <1>14 DEF reconcileLIDChats, dbVars, counters
  <2> QED BY <1>13, <2>1, <2>2
<1>15. CASE HistoryEnd
  BY <1>5, <1>15 DEF HistoryEnd, dbVars, ghosts
<1>16. ASSUME NEW c \in Lids, LearnLID(c) PROVE MessagesAreListed'
  <2>1. NoChatFalls
    BY <1>3, <1>16 DEF LearnLID, NoChatFalls
  <2> QED BY <1>4, <1>16, <2>1 DEF LearnLID, dbVars, ghosts
<1>17. CASE SyncContactsWipe \/ Connected \/ RecanonCopy
  <2>1. chats' = chats /\ UNCHANGED <<stored, resolved, phase, lost>>
    BY <1>17 DEF SyncContactsWipe, Connected, RecanonCopy, dbVars, ghosts
  <2> QED BY <1>5, <2>1
<1>18. ASSUME NEW cs \in SUBSET Chats, SyncContactsRebuild(cs) PROVE MessagesAreListed'
  <2>1. \A c \in Chats : chats[c] # NoChat /\ chats[c].ts > 0 => chats'[c] = chats[c]
    BY <1>18 DEF SyncContactsRebuild
  <2>2. NoChatFalls
    BY <1>3, <2>1 DEF NoChatFalls
  <2> QED BY <1>4, <1>18, <2>2 DEF SyncContactsRebuild, dbVars, ghosts
<1>19. CASE RecanonReplace
  <2>1. lost' = lost \cup {c \in Chats : chats # recanon.copy /\ SetBack(c)}
        /\ UNCHANGED <<stored, resolved, phase>>
    BY <1>19 DEF RecanonReplace, dbVars
  <2>2. CASE chats = recanon.copy
    <3>1. Moved(chats)
      BY <1>19, <2>2, ReplaceIs
    <3>2. lost' = lost
      BY <2>1, <2>2
    <3> QED BY <1>13, <2>1, <3>1, <3>2
  <2>3. CASE chats # recanon.copy
    <3>1. ASSUME NEW c \in Chats, chats[c] # NoChat, c \notin lost'
          PROVE  chats'[c] # NoChat /\ chats'[c].ts >= chats[c].ts
      <4>1. ~SetBack(c)
        BY <2>1, <2>3, <3>1
      <4>2. chats'[c] # NoChat /\ ~(chats'[c].ts < chats[c].ts)
        BY <3>1, <4>1 DEF SetBack
      <4>3. chats'[c].ts \in 0 .. MaxTs
        BY <4>2, EntryIs, ChatFields DEF TypeOK
      <4> QED BY <1>3, <3>1, <4>2, <4>3, LatestTs
    <3>2. NoChatFalls
      BY <3>1 DEF NoChatFalls
    <3> QED BY <1>4, <2>1, <3>2
  <2> QED BY <2>2, <2>3
<1>20. ASSUME NEW c \in Chats, cappedEvict(c) PROVE MessagesAreListed'
  <2>1. lost' = lost \cup {c} /\ \A d \in Chats : d # c => chats'[d] = chats[d]
    BY <1>20 DEF cappedEvict, TypeOK, Snapshots
  <2>2. NoChatFalls
    BY <1>3, <2>1 DEF NoChatFalls
  <2> QED BY <1>4, <1>20, <2>1, <2>2 DEF cappedEvict, dbVars
<1>21. CASE handleLogout \/ resetRuntimeState \/ teardownAndReinitStorage \/ Crash
  BY <1>2, <1>21 DEF handleLogout, resetRuntimeState, teardownAndReinitStorage, Crash
<1>22. CASE Login
  <2>1. stored' = {}
    BY <1>22 DEF Login, ListInv, Quiet, dbVars
  <2> QED BY <1>2, <2>1
<1>23. CASE loadState
  <2>1. \A r \in stored : chats'[r[1]] # NoChat /\ chats'[r[1]].ts >= Ts[r[2]]
    BY <1>23, LoadIs
  <2>2. stored' = stored
    BY <1>23 DEF loadState
  <2> QED BY <1>2, <2>1, <2>2 DEF Shown, Listed
<1>24. CASE UNCHANGED vars
  BY <1>5, <1>24 DEF vars
<1> QED BY <1>6, <1>7, <1>8, <1>9, <1>10, <1>11, <1>12, <1>14, <1>15, <1>16, <1>17, <1>18, <1>19,
           <1>20, <1>21, <1>22, <1>23, <1>24 DEF Next, HistoryStep

\* Every stored message is listed, in its chat or the one this was merged into, unless
\* the chat was set back by eviction or an older copy: however history syncs, merges,
\* contact syncs, saves, crashes and reloads follow each other.
THEOREM EveryMessageIsListed == Spec => []MessagesAreListed
<1>1. Init => ListInv
  BY DEF Init, ListInv, Quiet, MessagesAreListed, shuttingDown, Asleep
<1>2. TypeOK /\ TypeOK' /\ ListInv /\ [Next]_vars => ListInv'
  BY ListStep, QuietStep DEF ListInv
<1>3. ListInv => MessagesAreListed
  BY DEF ListInv
<1> QED BY <1>1, <1>2, <1>3, TypeCorrect, PTL DEF Spec

-----------------------------------------------------------------------------
(* NoDoubleCount is an invariant. *)

\* The messages H, handed over, account for n unread ones in chat c, if no id of it is
\* in R.
Fits(H, R, c, n) == Ids(c) \cap R = {} => n <= Cardinality({r \in H : r[1] \in Ids(c)})

CountedBy(H, R, list) == \A c \in Chats : list[c] # NoChat => Fits(H, R, c, list[c].unread)

\* The chunk of a history sync that is handed over but not stored yet.
Incoming ==
    IF history.pc = "insert" THEN {<<canonicalizeChatID(RawChat[m]), m>> : m \in history.chunk}
    ELSE {}

\* A message that was handed over is stored, or about to be, if its id still takes
\* messages.
Remembered == \A r \in handed : r \in stored \/ r \in Incoming \/ r[1] \in recountable \cup resolved

\* No copy of a chat, in memory, in the table, in the snapshot of a save or of a
\* recanonicalization, counts more messages than were handed over.
CountInv ==
    /\ Quiet /\ Remembered
    /\ CountedBy(handed, recountable, chats)
    /\ CountedBy(handed, recountable, saved)
    /\ CountedBy(handed, recountable, recanon.copy)
    /\ \A p \in Persisters : save[p].pc = "commit" => CountedBy(handed, recountable, save[p].snapshot)

LEMMA HandedIsFinite ==
    ASSUME NEW H \in SUBSET Rows, NEW c
    PROVE  /\ IsFiniteSet({r \in H : r[1] \in Ids(c)})
           /\ Cardinality({r \in H : r[1] \in Ids(c)}) \in Nat
<1>1. {r \in H : r[1] \in Ids(c)} \in SUBSET Rows
  OBVIOUS
<1> QED BY <1>1, RowsAreFinite, FS_Subset, FS_CardinalityType

LEMMA FitsZero ==
    ASSUME NEW H \in SUBSET Rows, NEW R, NEW c
    PROVE  Fits(H, R, c, 0)
<1>1. PICK a \in Nat : a = Cardinality({r \in H : r[1] \in Ids(c)})
  BY HandedIsFinite
<1> QED BY <1>1 DEF Fits

\* More messages handed over, or more chats that count again, change nothing.
LEMMA FitsMore ==
    ASSUME NEW H2 \in SUBSET Rows, NEW H \in SUBSET H2, NEW R2, NEW R \in SUBSET R2,
           NEW c, NEW n \in Nat, Fits(H, R, c, n)
    PROVE  Fits(H2, R2, c, n)
<1>1. {r \in H : r[1] \in Ids(c)} \in SUBSET {r \in H2 : r[1] \in Ids(c)}
  OBVIOUS
<1>2. Cardinality({r \in H : r[1] \in Ids(c)}) <= Cardinality({r \in H2 : r[1] \in Ids(c)})
  BY <1>1, HandedIsFinite, FS_Subset
<1>3. PICK a \in Nat : a = Cardinality({r \in H : r[1] \in Ids(c)})
  BY HandedIsFinite
<1>4. PICK b \in Nat : b = Cardinality({r \in H2 : r[1] \in Ids(c)})
  BY HandedIsFinite
<1>5. a <= b
  BY <1>2, <1>3, <1>4
<1>6. Ids(c) \cap R2 = {} => Ids(c) \cap R = {}
  OBVIOUS
<1>7. Ids(c) \cap R = {} => n <= a
  BY <1>3 DEF Fits
<1>8. Ids(c) \cap R2 = {} => n <= b
  BY <1>5, <1>6, <1>7
<1> QED BY <1>4, <1>8 DEF Fits

\* What fits a lid fits its phone number, which has both ids.
LEMMA FitsMoved ==
    ASSUME NEW H \in SUBSET Rows, NEW R, NEW c \in Chats, NEW d \in Chats,
           d = c \/ (d \in Lids /\ PhoneOf[d] = c), NEW n \in Nat, Fits(H, R, d, n)
    PROVE  Fits(H, R, c, n)
<1>1. Ids(d) \subseteq Ids(c)
  BY IdsOf
<1>2. {r \in H : r[1] \in Ids(d)} \in SUBSET {r \in H : r[1] \in Ids(c)}
  BY <1>1
<1>3. Cardinality({r \in H : r[1] \in Ids(d)}) <= Cardinality({r \in H : r[1] \in Ids(c)})
  BY <1>2, HandedIsFinite, FS_Subset
<1>4. PICK a \in Nat : a = Cardinality({r \in H : r[1] \in Ids(d)})
  BY HandedIsFinite
<1>5. PICK b \in Nat : b = Cardinality({r \in H : r[1] \in Ids(c)})
  BY HandedIsFinite
<1>6. a <= b
  BY <1>3, <1>4, <1>5
<1>7. Ids(c) \cap R = {} => n <= a
  BY <1>1, <1>4 DEF Fits
<1>8. Ids(c) \cap R = {} => n <= b
  BY <1>6, <1>7
<1> QED BY <1>5, <1>8 DEF Fits

LEMMA UnreadOf ==
    ASSUME NEW s \in Snapshots, NEW c \in Chats, s[c] # NoChat
    PROVE  s[c].unread \in Nat
BY EntryIs, ChatFields, ChatAssumption

LEMMA CountedMore ==
    ASSUME NEW H2 \in SUBSET Rows, NEW H \in SUBSET H2, NEW R2, NEW R \in SUBSET R2,
           NEW s \in Snapshots, CountedBy(H, R, s)
    PROVE  CountedBy(H2, R2, s)
BY FitsMore, UnreadOf DEF CountedBy

\* A list whose counts come from another one counts as well as that.
LEMMA CountedFrom ==
    ASSUME NEW H \in SUBSET Rows, NEW R, NEW s \in Snapshots, NEW t \in Snapshots,
           CountedBy(H, R, s),
           \A c \in Chats : t[c] # NoChat =>
              t[c].unread = 0 \/ (s[c] # NoChat /\ t[c].unread = s[c].unread)
    PROVE  CountedBy(H, R, t)
BY FitsZero DEF CountedBy

LEMMA CountedMoved ==
    ASSUME TypeOK, NEW H \in SUBSET Rows, NEW R, NEW s \in Snapshots, chats' \in Snapshots,
           CountedBy(H, R, s), Moved(s)
    PROVE  CountedBy(H, R, chats')
<1> SUFFICES ASSUME NEW c \in Chats, chats'[c] # NoChat PROVE Fits(H, R, c, chats'[c].unread)
  BY DEF CountedBy
<1>1. CASE chats'[c].unread = 0
  BY <1>1, FitsZero
<1>2. CASE chats'[c].unread # 0
  <2>1. PICK d \in Chats : /\ canonicalizeChatID(d) = c /\ s[d] # NoChat
                           /\ chats'[c].unread = s[d].unread
    BY <1>2 DEF Moved
  <2>2. d = c \/ (d \in Lids /\ PhoneOf[d] = c)
    BY <2>1, CanonicalIs DEF TypeOK
  <2>3. PICK n \in Nat : n = s[d].unread
    BY <2>1, UnreadOf
  <2>4. Fits(H, R, d, n)
    BY <2>1, <2>3 DEF CountedBy
  <2>5. Fits(H, R, c, n)
    BY <2>2, <2>4, FitsMoved
  <2> QED BY <2>1, <2>3, <2>5
<1> QED BY <1>1, <1>2

LEMMA CountedEmpty == \A H, R : CountedBy(H, R, [c \in Chats |-> NoChat])
BY DEF CountedBy

LEMMA CountedOverlay ==
    ASSUME NEW H, NEW R, NEW table \in Snapshots, NEW s \in Snapshots,
           CountedBy(H, R, table), CountedBy(H, R, s)
    PROVE  CountedBy(H, R, Overlay(table, s))
BY OverlayIs DEF CountedBy

\* Every message handed over is stored, about to be, or its id takes no more messages.
LEMMA RememberedStep ==
    TypeOK /\ TypeOK' /\ CountInv /\ [Next]_vars => Remembered'
<1> SUFFICES ASSUME TypeOK, TypeOK', CountInv, [Next]_vars PROVE Remembered'
  OBVIOUS
<1>1. \A r \in handed : r \in stored \/ r \in Incoming \/ r[1] \in recountable \cup resolved
  BY DEF CountInv, Remembered
<1>2. ASSUME UNCHANGED <<handed, stored, history, resolved, recountable>> PROVE Remembered'
  BY <1>1, <1>2 DEF Remembered, Incoming, canonicalizeChatID
<1>3. ASSUME NEW m \in Msgs, ReceiveMessage(m) PROVE Remembered'
  <2>1. PICK c : c = canonicalizeChatID(RawChat[m])
    OBVIOUS
  <2>2. /\ stored' = stored \cup {<<c, m>>} /\ handed' \subseteq handed \cup {<<c, m>>}
        /\ UNCHANGED <<history, resolved, recountable>>
    BY <1>3, <2>1 DEF ReceiveMessage
  <2> QED BY <1>1, <2>2 DEF Remembered, Incoming, canonicalizeChatID
<1>4. ASSUME NEW r \in Rows, handleDeleteMessage(r) PROVE Remembered'
  <2>1. /\ stored' = stored \ {r} /\ recountable' = recountable \cup {r[1]}
        /\ UNCHANGED <<handed, history, resolved>>
    BY <1>4 DEF handleDeleteMessage
  <2> QED BY <1>1, <2>1 DEF Remembered, Incoming, canonicalizeChatID
<1>5. ASSUME NEW c \in Chats,
             handleMarkRead(c) \/ MarkReadReturns(c) \/ ReadElsewhere(c) \/ cappedEvict(c)
      PROVE  Remembered'
  BY <1>2, <1>5 DEF handleMarkRead, MarkReadReturns, ReadElsewhere, cappedEvict, dbVars, ghosts
<1>6. CASE Persist
  <2>1. PersistTick => UNCHANGED <<handed, stored, history, resolved, recountable>>
    BY DEF PersistTick, dbVars, ghosts
  <2>2. \A p \in Persisters : PersistSnapshot(p) \/ PersistCommit(p)
           => UNCHANGED <<handed, stored, history, resolved, recountable>>
    BY DEF PersistSnapshot, PersistCommit, dbVars
  <2> QED BY <1>2, <1>6, <2>1, <2>2 DEF Persist
<1>7. ASSUME NEW chunk \in SUBSET Msgs, HistoryMetadata(chunk) PROVE Remembered'
  <2>1. /\ history.pc = "idle" /\ history' = [pc |-> "insert", chunk |-> chunk]
        /\ handed' = handed \cup {<<canonicalizeChatID(RawChat[m]), m>> : m \in chunk \ Own}
        /\ UNCHANGED <<stored, resolved, recountable>>
    BY <1>7 DEF HistoryMetadata, dbVars
  <2>2. Incoming = {}
    BY <2>1 DEF Incoming
  <2>3. Incoming' = {<<canonicalizeChatID(RawChat[m]), m>> : m \in chunk}
    BY <2>1 DEF Incoming, canonicalizeChatID
  <2> QED BY <1>1, <2>1, <2>2, <2>3 DEF Remembered
<1>8. CASE insertHistoryMessages
  <2>1. /\ history.pc = "insert"
        /\ handed' = handed \cup {<<canonicalizeChatID(RawChat[m]), m>> : m \in history.chunk \ Own}
        /\ stored' = stored \cup {<<canonicalizeChatID(RawChat[m]), m>> : m \in history.chunk}
        /\ UNCHANGED <<resolved, recountable>>
    BY <1>8 DEF insertHistoryMessages
  <2>2. Incoming = {<<canonicalizeChatID(RawChat[m]), m>> : m \in history.chunk}
    BY <2>1 DEF Incoming
  <2> QED BY <1>1, <2>1, <2>2 DEF Remembered
<1>9. CASE reconcileLIDChats \/ HistoryEnd
  <2>1. /\ history.pc # "insert"
        /\ UNCHANGED <<stored, handed, resolved, recountable>>
    BY <1>9 DEF reconcileLIDChats, HistoryEnd, dbVars, ghosts
  <2> QED BY <1>1, <2>1 DEF Remembered, Incoming
<1>10. ASSUME NEW c \in Lids, LearnLID(c) PROVE Remembered'
  <2>1. resolved' = resolved \cup {c} /\ UNCHANGED <<handed, stored, history, recountable>>
    BY <1>10 DEF LearnLID, dbVars, ghosts
  <2>2. ASSUME NEW r \in Incoming PROVE r \in Incoming' \/ r[1] \in resolved'
    <3>1. PICK m \in history.chunk : r = <<canonicalizeChatID(RawChat[m]), m>>
      BY <2>2 DEF Incoming
    <3>2. CASE RawChat[m] = c /\ c \notin resolved
      BY <2>1, <3>1, <3>2 DEF canonicalizeChatID
    <3>3. CASE ~(RawChat[m] = c /\ c \notin resolved)
      <4>1. canonicalizeChatID(RawChat[m])' = canonicalizeChatID(RawChat[m])
        BY <2>1, <3>3 DEF canonicalizeChatID
      <4> QED BY <2>1, <2>2, <3>1, <4>1 DEF Incoming
    <3> QED BY <3>2, <3>3
  <2> QED BY <1>1, <2>1, <2>2 DEF Remembered
<1>11. ASSUME NEW cs \in SUBSET Chats, SyncContactsRebuild(cs) PROVE Remembered'
  BY <1>2, <1>11 DEF SyncContactsRebuild, dbVars, ghosts
<1>12. CASE SyncContactsWipe \/ Connected \/ RecanonCopy \/ RecanonReplace
  <2>1. UNCHANGED <<handed, stored, history, resolved, recountable>>
    BY <1>12 DEF SyncContactsWipe, Connected, RecanonCopy, RecanonReplace, dbVars, ghosts
  <2> QED BY <1>2, <2>1
<1>13. CASE handleLogout \/ resetRuntimeState \/ Login \/ loadState
  <2>1. UNCHANGED <<handed, stored, history, resolved, recountable>>
    BY <1>13 DEF handleLogout, resetRuntimeState, Login, loadState, dbVars, ghosts
  <2> QED BY <1>2, <2>1
<1>14. CASE teardownAndReinitStorage
  BY <1>14 DEF teardownAndReinitStorage, Remembered
<1>15. CASE Crash
  <2>1. /\ recountable' = IF history.pc = "insert"
              THEN recountable \cup {canonicalizeChatID(RawChat[m]) : m \in history.chunk}
              ELSE recountable
        /\ UNCHANGED <<stored, resolved, handed>>
    BY <1>15 DEF Crash, dbVars
  <2>2. \A r \in Incoming : r[1] \in recountable'
    BY <2>1 DEF Incoming
  <2>3. recountable \subseteq recountable'
    BY <2>1
  <2> QED BY <1>1, <2>1, <2>2, <2>3 DEF Remembered
<1>16. CASE UNCHANGED vars
  BY <1>2, <1>16 DEF vars
<1> QED BY <1>3, <1>4, <1>5, <1>6, <1>7, <1>8, <1>9, <1>10, <1>11, <1>12, <1>13, <1>14, <1>15,
           <1>16 DEF Next, HistoryStep

Grows == handed \subseteq handed' /\ recountable \subseteq recountable'

\* A message handed over for the first time makes room for one more.
LEMMA FitsOneMore ==
    ASSUME NEW H \in SUBSET Rows, NEW R, NEW c \in Chats, NEW m, <<c, m>> \in Rows,
           <<c, m>> \notin H, NEW n \in Nat, Fits(H, R, c, n)
    PROVE  Fits(H \cup {<<c, m>>}, R, c, n + 1)
<1>1. PICK S : S = {r \in H : r[1] \in Ids(c)}
  OBVIOUS
<1>2. c \in Ids(c)
  BY DEF Ids
<1>3. {r \in H \cup {<<c, m>>} : r[1] \in Ids(c)} = S \cup {<<c, m>>}
  BY <1>1, <1>2
<1>4. IsFiniteSet(S) /\ Cardinality(S) \in Nat /\ <<c, m>> \notin S
  BY <1>1, HandedIsFinite
<1>5. Cardinality(S \cup {<<c, m>>}) = Cardinality(S) + 1
  BY <1>4, FS_AddElement
<1>6. PICK k \in Nat : k = Cardinality(S)
  BY <1>4
<1>7. Ids(c) \cap R = {} => n + 1 <= k + 1
  BY <1>1, <1>6 DEF Fits
<1> QED BY <1>3, <1>5, <1>6, <1>7 DEF Fits

\* Messages of a chunk that go to a chat are accounted for once they are handed over.
LEMMA FitsChunk ==
    ASSUME NEW H \in SUBSET Rows, NEW R, NEW c \in Chats, NEW ms \in SUBSET Msgs,
           \A m \in ms : <<c, m>> \in H, NEW n \in Nat, n <= Cardinality(ms)
    PROVE  Fits(H, R, c, n)
<1>1. PICK S : S = {r \in H : r[1] \in Ids(c)}
  OBVIOUS
<1>2. \A m \in ms : <<c, m>> \in S
  BY <1>1 DEF Ids
<1>3. IsFiniteSet(S) /\ Cardinality(S) \in Nat
  BY <1>1, HandedIsFinite
<1> DEFINE f == [m \in ms |-> <<c, m>>]
<1>4. f \in Injection(ms, S)
  <2>1. f \in [ms -> S]
    BY <1>2
  <2>2. \A a, b \in ms : f[a] = f[b] => a = b
    OBVIOUS
  <2> QED BY <2>1, <2>2 DEF Injection, IsInjective
<1>5. Cardinality(ms) <= Cardinality(S)
  <2> HIDE DEF f
  <2> QED BY <1>3, <1>4, FS_Injection
<1>6. PICK a \in Nat : a = Cardinality(ms)
  BY RowsAreFinite, FS_Subset, FS_CardinalityType
<1>7. PICK b \in Nat : b = Cardinality(S)
  BY <1>3
<1>8. n <= b
  BY <1>5, <1>6, <1>7
<1> QED BY <1>1, <1>7, <1>8 DEF Fits

LEMMA CountStep == TypeOK /\ TypeOK' /\ CountInv /\ [Next]_vars => CountInv'
<1> SUFFICES ASSUME TypeOK, TypeOK', CountInv, [Next]_vars PROVE CountInv'
  OBVIOUS
<1> DEFINE Good(list) == CountedBy(handed, recountable, list)
           Fine(list) == CountedBy(handed', recountable', list)
           None == [c \in Chats |-> NoChat]
<1>1. Quiet' /\ Remembered'
  BY QuietStep, RememberedStep DEF CountInv
<1>2. /\ chats \in Snapshots /\ saved \in Snapshots /\ recanon.copy \in Snapshots
      /\ save \in [Persisters -> Saves] /\ handed \subseteq Rows
      /\ chats' \in Snapshots /\ saved' \in Snapshots /\ handed' \subseteq Rows
      /\ recanon \in Recanons
  BY DEF TypeOK, Saves, Recanons
<1>3. \A p \in Persisters : save[p].pc = "commit" => save[p].snapshot \in Snapshots
  BY <1>2, SaveStates
<1>4. /\ Good(chats) /\ Good(saved) /\ Good(recanon.copy)
      /\ \A p \in Persisters : save[p].pc = "commit" => Good(save[p].snapshot)
  BY DEF CountInv
<1>5. Grows => /\ Fine(chats) /\ Fine(saved) /\ Fine(recanon.copy) /\ Fine(None)
              /\ \A p \in Persisters : save[p].pc = "commit" => Fine(save[p].snapshot)
  BY <1>2, <1>3, <1>4, CountedMore, CountedEmpty DEF Grows
<1>6. \A p \in Persisters : save'[p].pc = "commit" => save'[p] = save[p] \/ save'[p] = Holding(chats)
  BY <1>2, SaveSteps, SaveStates
<1>7. ASSUME Grows
      PROVE  \A p \in Persisters : save'[p].pc = "commit" => Fine(save'[p].snapshot)
  BY <1>2, <1>5, <1>6, <1>7, SaveStates
<1>8. ASSUME Grows, chats' = chats \/ chats' = None \/ Fine(chats'), saved' = saved \/ Fine(saved'),
             \/ recanon' = recanon \/ recanon'.copy = recanon.copy
             \/ recanon'.copy = chats \/ recanon'.copy = None
      PROVE  CountInv'
  <2>1. Fine(chats') /\ Fine(saved') /\ Fine(recanon'.copy)
    BY <1>5, <1>8
  <2> QED BY <1>1, <1>7, <1>8, <2>1 DEF CountInv
<1> HIDE DEF Good, Fine, None
<1>9. \A pc : [recanon EXCEPT !.pc = pc].copy = recanon.copy
  BY <1>2 DEF Recanons
<1>10. ASSUME NEW m \in Msgs, ReceiveMessage(m) PROVE CountInv'
  <2>1. PICK c \in Chats : c = canonicalizeChatID(RawChat[m])
    BY CanonicalIs, ChatAssumption DEF TypeOK
  <2>2. /\ c \notin resolved /\ \A d \in Chats : d # c => chats'[d] = chats[d]
        /\ chats'[c] # NoChat
        /\ chats'[c].unread = Entry(chats, c).unread
              + IF ~historySyncing /\ m \notin Own /\ <<c, m>> \notin stored THEN 1 ELSE 0
    BY <1>10, <2>1, ReceiveIs
  <2>3. /\ handed' = IF m \in Own THEN handed ELSE handed \cup {<<c, m>>}
        /\ UNCHANGED <<recountable, recanon, saved>>
    BY <1>10, <2>1 DEF ReceiveMessage
  <2>4. Grows
    BY <2>3 DEF Grows
  <2>5. PICK n \in Nat : n = Entry(chats, c).unread
    BY <1>2, EntryIs, ChatFields, ChatAssumption
  <2>6. Fits(handed, recountable, c, n)
    <3>1. CASE chats[c] = NoChat
      BY <1>2, <2>5, <3>1, EntryIs, EmptyIsAChat, FitsZero
    <3>2. CASE chats[c] # NoChat
      BY <1>4, <2>5, <3>2 DEF Good, CountedBy, Entry
    <3> QED BY <3>1, <3>2
  <2>7. Fits(handed', recountable', c, n)
    BY <1>2, <2>4, <2>6, FitsMore DEF Grows
  <2>8. Fits(handed', recountable', c, chats'[c].unread)
    <3>1. CASE ~historySyncing /\ m \notin Own /\ <<c, m>> \notin stored
      <4>1. chats'[c].unread = n + 1 /\ handed' = handed \cup {<<c, m>>}
        BY <2>2, <2>3, <2>5, <3>1
      <4>2. CASE c \in recountable
        <5>1. c \in Ids(c) /\ c \in recountable'
          BY <2>3, <4>2 DEF Ids
        <5> QED BY <5>1 DEF Fits
      <4>3. CASE c \notin recountable
        <5>1. Incoming = {}
          BY <3>1 DEF Incoming, historySyncing
        <5>2. <<c, m>> \notin handed
          BY <2>2, <3>1, <4>3, <5>1 DEF CountInv, Remembered
        <5>3. <<c, m>> \in Rows
          BY DEF Rows
        <5>4. Fits(handed \cup {<<c, m>>}, recountable, c, n + 1)
          BY <1>2, <2>6, <5>2, <5>3, FitsOneMore
        <5> QED BY <2>3, <4>1, <5>4
      <4> QED BY <4>2, <4>3
    <3>2. CASE ~(~historySyncing /\ m \notin Own /\ <<c, m>> \notin stored)
      <4>1. chats'[c].unread = n
        BY <2>2, <2>5, <3>2
      <4> QED BY <2>7, <4>1
    <3> QED BY <3>1, <3>2
  <2>9. Fine(chats')
    <3>1. Fine(chats)
      BY <1>5, <2>4
    <3> QED BY <2>2, <2>8, <3>1 DEF Fine, CountedBy
  <2> QED BY <1>8, <2>3, <2>4, <2>9
<1>11. ASSUME NEW r \in Rows, handleDeleteMessage(r) PROVE CountInv'
  <2>1. recountable' = recountable \cup {r[1]} /\ UNCHANGED <<chats, saved, recanon, handed>>
    BY <1>11 DEF handleDeleteMessage
  <2>2. Grows
    BY <2>1 DEF Grows
  <2> QED BY <1>8, <2>1, <2>2
<1>12. ASSUME NEW c \in Chats, handleMarkRead(c) \/ ReadElsewhere(c) PROVE CountInv'
  <2>1. UNCHANGED <<saved, recanon, handed, recountable>> /\ markChatReadInState(c)
    BY <1>12 DEF handleMarkRead, ReadElsewhere, dbVars, ghosts
  <2>2. Grows
    BY <2>1 DEF Grows
  <2>3. Fine(chats)
    BY <1>5, <2>2
  <2>4. \A d \in Chats : chats'[d] # NoChat =>
           chats'[d].unread = 0 \/ (chats[d] # NoChat /\ chats'[d].unread = chats[d].unread)
    BY <1>2, <2>1, ReadIs
  <2>5. Fine(chats')
    BY <1>2, <2>3, <2>4, CountedFrom DEF Fine
  <2> QED BY <1>8, <2>1, <2>2, <2>5
<1>13. ASSUME NEW c \in Chats, MarkReadReturns(c) PROVE CountInv'
  <2>1. UNCHANGED <<chats, saved, recanon, handed, recountable>>
    BY <1>13 DEF MarkReadReturns, dbVars, ghosts
  <2> QED BY <1>8, <2>1 DEF Grows
<1>14. CASE PersistTick
  <2>1. UNCHANGED <<chats, saved, recanon, handed, recountable>>
    BY <1>14 DEF PersistTick, dbVars, ghosts
  <2> QED BY <1>8, <2>1 DEF Grows
<1>15. ASSUME NEW p \in Persisters, PersistSnapshot(p) PROVE CountInv'
  <2>1. UNCHANGED <<chats, saved, recanon, handed, recountable>>
    BY <1>15 DEF PersistSnapshot, dbVars
  <2> QED BY <1>8, <2>1 DEF Grows
<1>16. ASSUME NEW p \in Persisters, PersistCommit(p) PROVE CountInv'
  <2>1. /\ save[p].pc = "commit" /\ saved' = Overlay(saved, save[p].snapshot)
        /\ UNCHANGED <<chats, recanon, handed, recountable>>
    BY <1>16 DEF PersistCommit
  <2>2. Grows
    BY <2>1 DEF Grows
  <2>3. Fine(saved')
    BY <1>2, <1>3, <1>5, <2>1, <2>2, CountedOverlay DEF Fine
  <2> QED BY <1>8, <2>1, <2>2, <2>3
<1>17. ASSUME NEW chunk \in SUBSET Msgs, HistoryMetadata(chunk) PROVE CountInv'
  <2>1. /\ handed' = handed \cup {<<canonicalizeChatID(RawChat[m]), m>> : m \in chunk \ Own}
        /\ UNCHANGED <<saved, recanon, recountable>>
    BY <1>17 DEF HistoryMetadata, dbVars
  <2>2. Grows
    BY <2>1 DEF Grows
  <2>3. ASSUME NEW c \in Chats, chats'[c] # NoChat
        PROVE  Fits(handed', recountable', c, chats'[c].unread)
    <3>1. PICK n \in Nat : n = chats'[c].unread
      BY <1>2, <2>3, UnreadOf
    <3>2. PICK ms : ms = {m \in chunk : canonicalizeChatID(RawChat[m]) = c} \ Own
      OBVIOUS
    <3>3. n = 0 \/ (chats[c] # NoChat /\ n = chats[c].unread) \/ n <= Cardinality(ms)
      BY <1>17, <2>3, <3>1, <3>2, MetadataIs
    <3>4. ms \in SUBSET Msgs /\ \A m \in ms : <<c, m>> \in handed'
      BY <2>1, <3>2
    <3>5. n <= Cardinality(ms) => Fits(handed', recountable', c, n)
      BY <1>2, <3>4, FitsChunk
    <3>6. n = 0 => Fits(handed', recountable', c, n)
      BY <1>2, FitsZero
    <3>7. chats[c] # NoChat /\ n = chats[c].unread => Fits(handed', recountable', c, n)
      BY <1>5, <2>2 DEF Fine, CountedBy
    <3> QED BY <3>1, <3>3, <3>5, <3>6, <3>7
  <2>4. Fine(chats')
    BY <2>3 DEF Fine, CountedBy
  <2> QED BY <1>8, <2>1, <2>2, <2>4
<1>18. CASE insertHistoryMessages
  <2>1. /\ handed \subseteq handed' /\ UNCHANGED <<saved, recanon, recountable>>
    BY <1>18 DEF insertHistoryMessages
  <2>2. Grows
    BY <2>1 DEF Grows
  <2>3. \A c \in Chats : chats'[c] # NoChat =>
           chats'[c].unread = 0 \/ (chats[c] # NoChat /\ chats'[c].unread = chats[c].unread)
    BY <1>2, <1>18, InsertIs, EntryIs, EmptyIsAChat
  <2>4. Fine(chats)
    BY <1>5, <2>2
  <2>5. Fine(chats')
    BY <1>2, <2>3, <2>4, CountedFrom DEF Fine
  <2> QED BY <1>8, <2>1, <2>2, <2>5
<1>19. CASE reconcileLIDChats
  <2>1. UNCHANGED <<saved, recanon, handed, recountable>> /\ Moved(chats)
    BY <1>19, ReconcileIs DEF reconcileLIDChats, dbVars
  <2>2. Grows
    BY <2>1 DEF Grows
  <2>3. Fine(chats)
    BY <1>5, <2>2
  <2>4. Fine(chats')
    BY <1>2, <2>1, <2>3, CountedMoved DEF Fine
  <2> QED BY <1>8, <2>1, <2>2, <2>4
<1>20. CASE HistoryEnd \/ Connected
  <2>1. UNCHANGED <<chats, saved, handed, recountable>>
    BY <1>20 DEF HistoryEnd, Connected, dbVars, ghosts
  <2>2. recanon' = recanon \/ recanon'.copy = recanon.copy
    BY <1>9, <1>20 DEF HistoryEnd, Connected
  <2> QED BY <1>8, <2>1, <2>2 DEF Grows
<1>21. ASSUME NEW c \in Lids, LearnLID(c) PROVE CountInv'
  <2>1. UNCHANGED <<chats, saved, recanon, handed, recountable>>
    BY <1>21 DEF LearnLID, dbVars, ghosts
  <2> QED BY <1>8, <2>1 DEF Grows
<1>22. CASE SyncContactsWipe
  <2>1. /\ UNCHANGED <<chats, handed, recountable>>
        /\ \A c \in Chats : saved'[c] # NoChat => saved[c] # NoChat /\ saved'[c] = saved[c]
    BY <1>22 DEF SyncContactsWipe, ghosts
  <2>2. recanon'.copy = recanon.copy
    BY <1>9, <1>22 DEF SyncContactsWipe
  <2>3. Grows
    BY <2>1 DEF Grows
  <2>4. Fine(saved)
    BY <1>5, <2>3
  <2>5. Fine(saved')
    BY <2>1, <2>4 DEF Fine, CountedBy
  <2> QED BY <1>8, <2>1, <2>2, <2>3, <2>5
<1>23. ASSUME NEW cs \in SUBSET Chats, SyncContactsRebuild(cs) PROVE CountInv'
  <2>1. UNCHANGED <<saved, handed, recountable>>
    BY <1>23 DEF SyncContactsRebuild, dbVars, ghosts
  <2>2. recanon'.copy = recanon.copy
    BY <1>9, <1>23 DEF SyncContactsRebuild
  <2>3. \A c \in Chats : chats'[c] # NoChat =>
           chats'[c].unread = 0 \/ (chats[c] # NoChat /\ chats'[c].unread = chats[c].unread)
    BY <1>23, EmptyIsAChat DEF SyncContactsRebuild
  <2>4. Grows
    BY <2>1 DEF Grows
  <2>5. Fine(chats)
    BY <1>5, <2>4
  <2>6. Fine(chats')
    BY <1>2, <2>3, <2>5, CountedFrom DEF Fine
  <2> QED BY <1>8, <2>1, <2>2, <2>4, <2>6
<1>24. CASE RecanonCopy
  <2>1. recanon'.copy = chats /\ UNCHANGED <<chats, saved, handed, recountable>>
    BY <1>24 DEF RecanonCopy, dbVars, ghosts
  <2> QED BY <1>8, <2>1 DEF Grows
<1>25. CASE RecanonReplace
  <2>1. recanon'.copy = None /\ UNCHANGED <<saved, handed, recountable>>
    BY <1>25 DEF RecanonReplace, dbVars, None
  <2>2. Grows
    BY <2>1 DEF Grows
  <2>3. Fine(recanon.copy)
    BY <1>5, <2>2
  <2>4. Fine(chats')
    BY <1>2, <1>25, <2>3, ReplaceIs, CountedMoved DEF Fine
  <2> QED BY <1>8, <2>1, <2>2, <2>4
<1>26. ASSUME NEW c \in Chats, cappedEvict(c) PROVE CountInv'
  <2>1. UNCHANGED <<saved, recanon, handed, recountable>>
    BY <1>26 DEF cappedEvict, dbVars
  <2>2. \A d \in Chats : chats'[d] # NoChat => chats[d] # NoChat /\ chats'[d] = chats[d]
    BY <1>2, <1>26 DEF cappedEvict, Snapshots
  <2>3. Grows
    BY <2>1 DEF Grows
  <2>4. Fine(chats)
    BY <1>5, <2>3
  <2>5. Fine(chats')
    BY <2>2, <2>4 DEF Fine, CountedBy
  <2> QED BY <1>8, <2>1, <2>3, <2>5
<1>27. CASE handleLogout \/ resetRuntimeState \/ Login
  <2>1. (chats' = chats \/ chats' = None) /\ UNCHANGED <<saved, recanon, handed, recountable>>
    BY <1>27 DEF handleLogout, resetRuntimeState, Login, dbVars, ghosts, None
  <2> QED BY <1>8, <2>1 DEF Grows
<1>28. CASE teardownAndReinitStorage
  <2>1. /\ phase = "wiped" /\ saved' = None /\ chats' = chats /\ recanon' = recanon /\ save' = save
        /\ recountable' = {c \in Chats : chats[c] # NoChat \/ recanon.copy[c] # NoChat}
    BY <1>28 DEF teardownAndReinitStorage, None
  <2>2. \A c \in Chats : c \in Ids(c)
    BY DEF Ids
  <2>3. Fine(chats') /\ Fine(recanon'.copy)
    BY <2>1, <2>2 DEF Fine, CountedBy, Fits
  <2>4. Fine(saved')
    BY <2>1, CountedEmpty DEF Fine, None
  <2>5. \A p \in Persisters : save'[p].pc # "commit"
    BY <2>1 DEF CountInv, Quiet, shuttingDown
  <2> QED BY <1>1, <2>3, <2>4, <2>5 DEF Fine, CountInv
<1>29. CASE Crash
  <2>1. /\ chats' = None /\ recanon'.copy = None /\ UNCHANGED <<saved, handed>>
        /\ recountable \subseteq recountable'
    BY <1>29 DEF Crash, dbVars, None
  <2> QED BY <1>8, <2>1 DEF Grows
<1>30. CASE loadState
  <2>1. UNCHANGED <<recanon, handed, recountable>>
    BY <1>30 DEF loadState, ghosts
  <2>2. Grows
    BY <2>1 DEF Grows
  <2>3. Fine(saved)
    BY <1>5, <2>2
  <2>4. Fine(chats') /\ Fine(saved')
    BY <1>2, <1>30, <2>3, LoadIs, CountedFrom DEF Fine
  <2> QED BY <1>8, <2>1, <2>2, <2>4
<1>31. CASE UNCHANGED vars
  BY <1>8, <1>31 DEF vars, Grows
<1> QED BY <1>10, <1>11, <1>12, <1>13, <1>14, <1>15, <1>16, <1>17, <1>18, <1>19, <1>20, <1>21,
           <1>22, <1>23, <1>24, <1>25, <1>26, <1>27, <1>28, <1>29, <1>30, <1>31
    DEF Next, Persist, HistoryStep

\* No chat counts a message twice: whatever is redelivered, synced, merged, saved too
\* late or loaded again, it has at most as many unread messages as were handed over
\* under its ids, unless one of them was deleted or cut out of a history sync.
THEOREM NothingIsCountedTwice == Spec => []NoDoubleCount
<1>1. Init => CountInv
  <2> SUFFICES ASSUME Init PROVE CountInv
    OBVIOUS
  <2>1. /\ chats = [c \in Chats |-> NoChat] /\ saved = chats /\ recanon.copy = chats
        /\ \A p \in Persisters : save[p].pc # "commit"
    BY SaveStates DEF Init
  <2>2. Quiet /\ Remembered
    BY DEF Init, Quiet, Remembered, shuttingDown
  <2> QED BY <2>1, <2>2, CountedEmpty DEF CountInv
<1>2. TypeOK /\ TypeOK' /\ CountInv /\ [Next]_vars => CountInv'
  BY CountStep
<1>3. CountInv => NoDoubleCount
  BY DEF CountInv, CountedBy, Fits, NoDoubleCount
<1> QED BY <1>1, <1>2, <1>3, TypeCorrect, PTL DEF Spec

=============================================================================
