-------------------------- MODULE TuiMessagesProofs --------------------------
(* Proofs about the list of messages and the composer, for every archive, every cap and *)
(* page size, and every number of sends, messages, requests and events.                 *)
EXTENDS TuiMessages, ListsProofs, FunctionTheorems, SequenceTheorems

-----------------------------------------------------------------------------
(* Lists of rows *)

Distinct(rows) == \A m, n \in DOMAIN rows : rows[m].id = rows[n].id => m = n

LEMMA NewestRows ==
    ASSUME NEW S, NEW rows \in Seq(S), NEW n \in Nat, NEW d \in Nat,
           d = IF Len(rows) > n THEN Len(rows) - n ELSE 0
    PROVE  /\ Newest(rows, n) \in Seq(S)
           /\ Len(Newest(rows, n)) = Len(rows) - d /\ Len(Newest(rows, n)) <= n
           /\ \A k \in 1 .. Len(rows) - d : Newest(rows, n)[k] = rows[k + d]
<1>1. Len(rows) \in Nat /\ d <= Len(rows)
  OBVIOUS
<1>2. Newest(rows, n) = SubSeq(rows, d + 1, Len(rows))
  BY DEF Newest
<1>3. \A k \in (d + 1) .. Len(rows) : rows[k] \in S
  BY ElementOfSeq
<1> DEFINE m == d + 1
           l == Len(rows)
           new == SubSeq(rows, m, l)
<1>4. m \in Int /\ l \in Int /\ \A k \in m .. l : rows[k] \in S
  BY <1>1, <1>3
<1>5. IF m <= l THEN l - m + 1 = l - d ELSE l - d = 0
  BY <1>1
<1>6. \A k \in 1 .. l - d : m + k - 1 = k + d
  BY <1>1
<1>7. m <= l => l - m + 1 = l - d
  BY <1>5
<1>8. ~(m <= l) => 0 = l - d /\ 1 .. l - m + 1 = {} /\ 1 .. l - d = {}
  BY <1>1
<1>9. l - d <= n
  BY <1>1
<1> HIDE DEF m, l
<1>10. /\ new \in Seq(S)
       /\ Len(new) = IF m <= l THEN l - m + 1 ELSE 0
       /\ \A k \in 1 .. l - m + 1 : new[k] = rows[m + k - 1]
  BY <1>4, SubSeqProperties
<1> HIDE DEF new
<1>11. Len(new) = l - d /\ \A k \in 1 .. l - d : new[k] = rows[k + d]
  <2>1. CASE m <= l
    <3>1. l - m + 1 = l - d
      BY <1>7, <2>1
    <3>2. Len(new) = l - d /\ \A k \in 1 .. l - d : new[k] = rows[m + k - 1]
      BY <1>10, <2>1, <3>1
    <3> QED BY <1>6, <3>2
  <2>2. CASE ~(m <= l)
    BY <1>8, <1>10, <2>2
  <2> QED BY <2>1, <2>2
<1> QED BY <1>2, <1>9, <1>10, <1>11 DEF l, m, new

\* What is cut off comes first; what is left is in its order.
LEMMA NewestKeeps ==
    ASSUME NEW S, NEW rows \in Seq(S), NEW n \in Nat
    PROVE  /\ Newest(rows, n) \in Seq(S) /\ Len(Newest(rows, n)) <= n
           /\ Len(rows) <= n => Newest(rows, n) = rows
           /\ IdsOf(Newest(rows, n)) \subseteq IdsOf(rows)
           /\ Distinct(rows) => Distinct(Newest(rows, n))
           /\ rows # <<>> /\ n # 0 => Newest(rows, n) # <<>>
           /\ \A id \in IdsOf(rows) \ IdsOf(Newest(rows, n)) :
                 \E m \in 1 .. Len(rows) - n : rows[m].id = id
<1> DEFINE d == IF Len(rows) > n THEN Len(rows) - n ELSE 0
           new == Newest(rows, n)
<1>1. d \in Nat /\ Len(rows) \in Nat /\ d <= Len(rows)
  OBVIOUS
<1>2. /\ new \in Seq(S) /\ Len(new) = Len(rows) - d /\ Len(new) <= n
      /\ \A k \in 1 .. Len(rows) - d : new[k] = rows[k + d]
  <2>1. PICK e \in Nat : e = d
    BY <1>1
  <2>2. e = IF Len(rows) > n THEN Len(rows) - n ELSE 0
    BY <2>1
  <2>3. /\ new \in Seq(S) /\ Len(new) = Len(rows) - e /\ Len(new) <= n
        /\ \A k \in 1 .. Len(rows) - e : new[k] = rows[k + e]
    BY <2>2, NewestRows, ZenonT(60)
  <2> HIDE DEF d, new
  <2> QED BY <2>1, <2>3
<1>3. DOMAIN new = 1 .. Len(rows) - d /\ DOMAIN rows = 1 .. Len(rows)
  BY <1>2
<1>4. Len(rows) <= n => d = 0
  OBVIOUS
<1>5. d # 0 => d = Len(rows) - n
  BY <1>1
<1>6. rows # <<>> /\ n # 0 => Len(rows) - d # 0
  BY <1>1, EmptySeq
<1> HIDE DEF d, new
<1>7. Len(rows) <= n => new = rows
  BY <1>1, <1>2, <1>3, <1>4, SeqEqual
<1>8. ASSUME NEW k \in DOMAIN new PROVE k + d \in DOMAIN rows /\ new[k].id = rows[k + d].id
  BY <1>1, <1>2, <1>3
<1>9. IdsOf(new) \subseteq IdsOf(rows)
  BY <1>8 DEF IdsOf
<1>10. Distinct(rows) => Distinct(new)
  <2> SUFFICES ASSUME Distinct(rows), NEW j \in DOMAIN new, NEW k \in DOMAIN new, new[j].id = new[k].id
               PROVE  j = k
    BY DEF Distinct
  <2>1. j + d = k + d
    BY <1>8 DEF Distinct
  <2> QED BY <1>1, <1>3, <2>1
<1>11. ASSUME NEW id \in IdsOf(rows) \ IdsOf(new) PROVE \E m \in 1 .. Len(rows) - n : rows[m].id = id
  <2>1. PICK m \in DOMAIN rows : rows[m].id = id
    BY DEF IdsOf
  <2>2. CASE m > d
    <3>1. m - d \in DOMAIN new /\ (m - d) + d = m
      BY <1>1, <1>3, <2>2
    <3>2. new[m - d].id = id
      BY <1>8, <2>1, <3>1
    <3> QED BY <3>1, <3>2 DEF IdsOf
  <2>3. CASE m <= d
    <3>1. m \in Nat /\ 1 <= m /\ d # 0
      BY <1>1, <1>3, <2>3
    <3>2. m <= Len(rows) - n /\ Len(rows) - n \in Int
      BY <1>1, <1>5, <2>3, <3>1
    <3>3. m \in 1 .. Len(rows) - n
      BY <3>1, <3>2
    <3> QED BY <2>1, <3>3
  <2> QED BY <1>1, <1>3, <2>2, <2>3
<1>12. rows # <<>> /\ n # 0 => new # <<>>
  BY <1>2, <1>6, EmptySeq
<1> QED BY <1>2, <1>7, <1>9, <1>10, <1>11, <1>12 DEF new

LEMMA NewestTwice ==
    ASSUME NEW S, NEW rows \in Seq(S), NEW m \in Nat, NEW n \in Nat
    PROVE  \E k \in Nat : Newest(Newest(rows, m), n) = Newest(rows, k)
<1> DEFINE page == Newest(rows, m)
           new == Newest(page, n)
           l == Len(rows)
           cut(length, k) == IF length > k THEN length - k ELSE 0
<1>1. CASE m <= n
  <2>1. page \in Seq(S) /\ Len(page) <= m /\ Len(page) \in Nat
    BY NewestKeeps
  <2>2. Len(page) <= n
    BY <1>1, <2>1
  <2>3. new = page
    BY <2>1, <2>2, NewestKeeps
  <2> QED BY <2>3
<1>2. CASE n < m
  <2>1. \A list \in Seq(S), k, d \in Nat : d = cut(Len(list), k) =>
           /\ Newest(list, k) \in Seq(S) /\ Len(Newest(list, k)) = Len(list) - d
           /\ \A j \in 1 .. Len(list) - d : Newest(list, k)[j] = list[j + d]
    BY NewestRows, ZenonT(60)
  <2>0. l \in Nat /\ cut(l, m) \in Nat /\ cut(l, n) \in Nat
    OBVIOUS
  <2>2. PICK dm \in Nat : dm = cut(l, m)
    BY <2>0, Zenon
  <2>3. PICK dn \in Nat : dn = cut(l, n)
    BY <2>0, Zenon
  <2>4. l \in Nat /\ dm <= l /\ dn <= l /\ cut(l - dm, n) = dn - dm /\ dn - dm \in Nat
    <3> HIDE DEF l
    <3>1. dm = IF l > m THEN l - m ELSE 0
      BY <2>2
    <3>2. dn = IF l > n THEN l - n ELSE 0
      BY <2>3
    <3>3. l \in Nat
      BY <2>0
    <3>4. dm <= l /\ dn <= l /\ dm <= dn /\ l - dm \in Nat
      BY <1>2, <3>1, <3>2, <3>3
    <3>5. (IF l - dm > n THEN (l - dm) - n ELSE 0) = dn - dm
      BY <1>2, <3>1, <3>2, <3>3, <3>4
    <3> QED BY <3>3, <3>4, <3>5
  <2> HIDE DEF page, new, l, cut
  <2>5. /\ page \in Seq(S) /\ Len(page) = l - dm
        /\ \A k \in 1 .. l - dm : page[k] = rows[k + dm]
    <3>1. /\ Newest(rows, m) \in Seq(S) /\ Len(Newest(rows, m)) = l - dm
          /\ \A k \in 1 .. l - dm : Newest(rows, m)[k] = rows[k + dm]
      BY <2>1, <2>2, Zenon DEF l
    <3> QED BY <3>1, Zenon DEF page
  <2>6. /\ new \in Seq(S) /\ Len(new) = (l - dm) - (dn - dm)
        /\ \A k \in 1 .. (l - dm) - (dn - dm) : new[k] = page[k + (dn - dm)]
    <3>1. dn - dm = cut(Len(page), n)
      BY <2>4, <2>5
    <3>2. /\ new \in Seq(S) /\ Len(new) = Len(page) - (dn - dm)
          /\ \A k \in 1 .. Len(page) - (dn - dm) : new[k] = page[k + (dn - dm)]
      BY <2>1, <2>4, <2>5, <3>1, Zenon DEF new
    <3> QED BY <2>5, <3>2
  <2>7. /\ Newest(rows, n) \in Seq(S) /\ Len(Newest(rows, n)) = l - dn
        /\ \A k \in 1 .. l - dn : Newest(rows, n)[k] = rows[k + dn]
    BY <2>1, <2>3, Zenon DEF l
  <2>8. (l - dm) - (dn - dm) = l - dn
    BY <2>4
  <2>9. ASSUME NEW k \in 1 .. l - dn PROVE new[k] = rows[k + dn]
    <3>1. k + (dn - dm) \in 1 .. l - dm /\ (k + (dn - dm)) + dm = k + dn
      BY <2>4
    <3> QED BY <2>5, <2>6, <2>8, <3>1
  <2>10. new = Newest(rows, n)
    BY <2>6, <2>7, <2>8, <2>9, SeqEqual
  <2> QED BY <2>10 DEF new, page
<1> QED BY <1>1, <1>2

\* A row in the place of the one with this ID.
LEMMA PutKeeps ==
    ASSUME NEW T, NEW rows, NEW S, rows \in Seq(S), NEW id, NEW row \in T, Distinct(rows),
           \A n \in DOMAIN rows : rows[n].id # id => rows[n] \in T,
           row.id = id \/ row.id \notin IdsOf(rows)
    PROVE  /\ Put(rows, id, row) \in Seq(T) /\ Distinct(Put(rows, id, row))
           /\ Len(Put(rows, id, row)) = Len(rows)
           /\ id \in IdsOf(rows) =>
                 IdsOf(Put(rows, id, row)) = (IdsOf(rows) \ {id}) \cup {row.id}
<1> DEFINE new == Put(rows, id, row)
<1>1. DOMAIN rows = 1 .. Len(rows) /\ Len(rows) \in Nat
  OBVIOUS
<1>2. new = [n \in 1 .. Len(rows) |-> IF rows[n].id = id THEN row ELSE rows[n]]
  BY <1>1 DEF Put
<1>3. new \in Seq(T) /\ Len(new) = Len(rows)
  BY <1>1, <1>2
<1> HIDE DEF new
<1>4. DOMAIN new = DOMAIN rows /\ \A n \in DOMAIN rows : new[n] = IF rows[n].id = id THEN row ELSE rows[n]
  BY <1>1, <1>2
<1>5. Distinct(new)
  <2> SUFFICES ASSUME NEW m \in DOMAIN rows, NEW n \in DOMAIN rows, new[m].id = new[n].id
               PROVE  rows[m].id = rows[n].id
    BY <1>4 DEF Distinct
  <2>1. rows[m].id \in IdsOf(rows) /\ rows[n].id \in IdsOf(rows)
    BY DEF IdsOf
  <2> QED BY <1>4, <2>1
<1>6. ASSUME id \in IdsOf(rows) PROVE IdsOf(new) = (IdsOf(rows) \ {id}) \cup {row.id}
  <2>1. PICK k \in DOMAIN rows : rows[k].id = id
    BY <1>6 DEF IdsOf
  <2>2. new[k].id = row.id
    BY <1>4, <2>1
  <2>3. ASSUME NEW n \in DOMAIN rows PROVE new[n].id \in (IdsOf(rows) \ {id}) \cup {row.id}
    BY <1>4 DEF IdsOf
  <2>4. ASSUME NEW n \in DOMAIN rows, rows[n].id # id PROVE rows[n].id \in IdsOf(new)
    BY <1>4, <2>4 DEF IdsOf
  <2> QED BY <1>4, <2>2, <2>3, <2>4 DEF IdsOf
<1> QED BY <1>3, <1>5, <1>6 DEF new

LEMMA WithoutKeeps ==
    ASSUME NEW T, NEW rows, NEW S, rows \in Seq(S), NEW ids, Distinct(rows),
           \A n \in DOMAIN rows : rows[n].id \notin ids => rows[n] \in T
    PROVE  /\ Without(rows, ids) \in Seq(T) /\ Distinct(Without(rows, ids))
           /\ Len(Without(rows, ids)) <= Len(rows)
           /\ IdsOf(Without(rows, ids)) = IdsOf(rows) \ ids
<1> DEFINE places == {n \in DOMAIN rows : rows[n].id \notin ids}
           new == Kept(rows, places)
           at(k) == Place(places, k)
<1>1. Without(rows, ids) = new
  BY DEF Without
<1>2. places \in SUBSET DOMAIN rows
  OBVIOUS
<1>0. \A n \in places : n \in DOMAIN rows /\ rows[n].id \notin ids /\ rows[n] \in T
  OBVIOUS
<1>13. \A n \in DOMAIN rows : rows[n].id \notin ids => n \in places
  OBVIOUS
<1> HIDE DEF places
<1>3. /\ Cardinality(places) \in 0 .. Len(rows)
      /\ new \in Seq(S) /\ Len(new) = Cardinality(places)
      /\ \A k \in 1 .. Cardinality(places) : at(k) \in places /\ new[k] = rows[at(k)]
      /\ \A j, k \in 1 .. Cardinality(places) : j < k <=> at(j) < at(k)
      /\ \A n \in places : \E k \in 1 .. Cardinality(places) : at(k) = n
  BY <1>2, KeptPlaces
<1> HIDE DEF new, at
<1>4. DOMAIN new = 1 .. Cardinality(places) /\ Len(rows) \in Nat
  BY <1>3
<1>5. \A k \in DOMAIN new : new[k] = rows[at(k)] /\ new[k] \in T /\ at(k) \in DOMAIN rows /\ new[k].id \notin ids
  BY <1>0, <1>3, <1>4
<1>6. new \in Seq(T)
  <2>1. new = [k \in 1 .. Cardinality(places) |-> new[k]]
    BY <1>3
  <2>2. \A k \in 1 .. Cardinality(places) : new[k] \in T
    BY <1>4, <1>5
  <2>3. [k \in 1 .. Cardinality(places) |-> new[k]] \in Seq(T)
    BY <1>3, <2>2
  <2> QED BY <2>1, <2>3
<1>7. Distinct(new)
  <2> SUFFICES ASSUME NEW j \in DOMAIN new, NEW k \in DOMAIN new, new[j].id = new[k].id
               PROVE  j = k
    BY DEF Distinct
  <2>1. at(j) = at(k)
    BY <1>5 DEF Distinct
  <2>2. at(j) \in Nat
    BY <1>5
  <2> QED BY <1>3, <1>4, <2>1, <2>2
<1>8. IdsOf(new) \subseteq IdsOf(rows) \ ids
  BY <1>5 DEF IdsOf
<1>9. ASSUME NEW id \in IdsOf(rows) \ ids PROVE id \in IdsOf(new)
  <2>1. PICK n \in DOMAIN rows : rows[n].id = id
    BY DEF IdsOf
  <2>2. n \in places
    BY <1>13, <2>1
  <2>3. PICK k \in DOMAIN new : at(k) = n
    BY <1>3, <1>4, <2>2
  <2> QED BY <1>5, <2>1, <2>3 DEF IdsOf
<1>10. Len(new) <= Len(rows)
  BY <1>3, <1>4
<1> QED BY <1>1, <1>6, <1>7, <1>8, <1>9, <1>10

LEMMA AppendKeeps ==
    ASSUME NEW S, NEW rows \in Seq(S), NEW row \in S, Distinct(rows), row.id \notin IdsOf(rows)
    PROVE  /\ Append(rows, row) \in Seq(S) /\ Distinct(Append(rows, row))
           /\ Len(Append(rows, row)) = Len(rows) + 1
           /\ \A n \in DOMAIN rows : n \in DOMAIN Append(rows, row) /\ Append(rows, row)[n] = rows[n]
           /\ Len(rows) + 1 \in DOMAIN Append(rows, row) /\ Append(rows, row)[Len(rows) + 1] = row
           /\ IdsOf(Append(rows, row)) = IdsOf(rows) \cup {row.id}
<1> DEFINE new == Append(rows, row)
<1>1. /\ new \in Seq(S) /\ Len(new) = Len(rows) + 1 /\ Len(rows) \in Nat
      /\ \A n \in 1 .. Len(rows) : new[n] = rows[n]
      /\ new[Len(rows) + 1] = row
  BY AppendProperties
<1> HIDE DEF new
<1>2. DOMAIN new = 1 .. Len(rows) + 1 /\ DOMAIN rows = 1 .. Len(rows)
  BY <1>1
<1>3. \A n \in DOMAIN new : \/ n \in DOMAIN rows /\ new[n] = rows[n]
                            \/ n = Len(rows) + 1 /\ new[n] = row
  BY <1>1, <1>2
<1>4. \A n \in DOMAIN rows : n \in DOMAIN new /\ new[n] = rows[n] /\ rows[n].id \in IdsOf(rows)
  BY <1>1, <1>2 DEF IdsOf
<1>5. Len(rows) + 1 \in DOMAIN new
  BY <1>1, <1>2
<1>6. Distinct(new)
  BY <1>3, <1>4 DEF Distinct
<1>7. IdsOf(new) = IdsOf(rows) \cup {row.id}
  BY <1>1, <1>3, <1>4, <1>5 DEF IdsOf
<1> QED BY <1>1, <1>4, <1>5, <1>6, <1>7 DEF new

LEMMA ConcatKeeps ==
    ASSUME NEW S, NEW first \in Seq(S), NEW rows \in Seq(S), Distinct(first), Distinct(rows),
           IdsOf(first) \cap IdsOf(rows) = {}
    PROVE  /\ first \o rows \in Seq(S) /\ Distinct(first \o rows)
           /\ IdsOf(first \o rows) = IdsOf(first) \cup IdsOf(rows)
<1> DEFINE new == first \o rows
           l == Len(first)
<1>1. /\ new \in Seq(S) /\ Len(new) = l + Len(rows) /\ l \in Nat /\ Len(rows) \in Nat
      /\ \A n \in 1 .. l : new[n] = first[n]
      /\ \A n \in l + 1 .. l + Len(rows) : new[n] = rows[n - l]
  BY ConcatProperties
<1>2. DOMAIN new = 1 .. l + Len(rows) /\ DOMAIN rows = 1 .. Len(rows) /\ DOMAIN first = 1 .. l
  BY <1>1
<1> HIDE DEF new, l
<1>3. ASSUME NEW n \in DOMAIN new
      PROVE  \/ n \in DOMAIN first /\ new[n] = first[n] /\ new[n].id \in IdsOf(first)
             \/ n - l \in DOMAIN rows /\ n > l /\ new[n] = rows[n - l] /\ new[n].id \in IdsOf(rows)
  <2>1. CASE n <= l
    BY <1>1, <1>2, <2>1 DEF IdsOf
  <2>2. CASE n > l
    <3>1. n - l \in DOMAIN rows /\ n \in l + 1 .. l + Len(rows)
      BY <1>1, <1>2, <2>2
    <3> QED BY <1>1, <2>2, <3>1 DEF IdsOf
  <2> QED BY <1>1, <1>2, <2>1, <2>2
<1>4. Distinct(new)
  <2> SUFFICES ASSUME NEW m \in DOMAIN new, NEW n \in DOMAIN new, new[m].id = new[n].id
               PROVE  m = n
    BY DEF Distinct
  <2>1. CASE m \in DOMAIN first /\ new[m] = first[m] /\ new[m].id \in IdsOf(first)
    <3>1. n \in DOMAIN first /\ new[n] = first[n]
      BY <1>3, <2>1
    <3> QED BY <2>1, <3>1 DEF Distinct
  <2>2. CASE m - l \in DOMAIN rows /\ m > l /\ new[m] = rows[m - l] /\ new[m].id \in IdsOf(rows)
    <3>1. n - l \in DOMAIN rows /\ new[n] = rows[n - l]
      BY <1>3, <2>2
    <3>2. m - l = n - l
      BY <2>2, <3>1 DEF Distinct
    <3> QED BY <1>1, <1>2, <3>2
  <2> QED BY <1>3, <2>1, <2>2
<1>5. ASSUME NEW n \in DOMAIN first PROVE first[n].id \in IdsOf(new)
  <2>1. n \in DOMAIN new /\ new[n] = first[n]
    BY <1>1, <1>2
  <2> QED BY <2>1 DEF IdsOf
<1>6. ASSUME NEW n \in DOMAIN rows PROVE rows[n].id \in IdsOf(new)
  <2>1. n + l \in DOMAIN new /\ n + l \in l + 1 .. l + Len(rows) /\ (n + l) - l = n
    BY <1>1, <1>2
  <2>2. new[n + l] = rows[n]
    BY <1>1, <2>1
  <2> QED BY <2>1, <2>2 DEF IdsOf
<1>7. IdsOf(new) = IdsOf(first) \cup IdsOf(rows)
  <2>1. IdsOf(new) \subseteq IdsOf(first) \cup IdsOf(rows)
    BY <1>3 DEF IdsOf
  <2>2. IdsOf(first) \cup IdsOf(rows) \subseteq IdsOf(new)
    BY <1>5, <1>6 DEF IdsOf
  <2> QED BY <2>1, <2>2
<1> QED BY <1>1, <1>4, <1>7 DEF new

LEMMA SortKeeps ==
    ASSUME NEW S, NEW rows \in Seq(S), Distinct(rows), NEW sorted \in byTime(rows)
    PROVE  /\ sorted \in Seq(S) /\ Distinct(sorted) /\ IdsOf(sorted) = IdsOf(rows)
<1>1. PICK p \in Bijection(DOMAIN rows, DOMAIN rows) : sorted = [n \in DOMAIN rows |-> rows[p[n]]]
  BY DEF byTime
<1>2. /\ p \in [DOMAIN rows -> DOMAIN rows]
      /\ \A m, n \in DOMAIN rows : p[m] = p[n] => m = n
      /\ \A n \in DOMAIN rows : \E m \in DOMAIN rows : p[m] = n
  BY Zenon DEF Bijection, Injection, Surjection, IsInjective
<1>3. DOMAIN rows = 1 .. Len(rows) /\ Len(rows) \in Nat
  OBVIOUS
<1>4. sorted \in Seq(S)
  BY <1>1, <1>2, <1>3
<1>5. DOMAIN sorted = DOMAIN rows /\ \A n \in DOMAIN rows : sorted[n] = rows[p[n]]
  BY <1>1
<1>6. Distinct(sorted)
  <2> SUFFICES ASSUME NEW m \in DOMAIN rows, NEW n \in DOMAIN rows, sorted[m].id = sorted[n].id
               PROVE  m = n
    BY <1>5 DEF Distinct
  <2>1. p[m] \in DOMAIN rows /\ p[n] \in DOMAIN rows
    BY <1>2
  <2>2. rows[p[m]].id = rows[p[n]].id
    BY <1>5
  <2>3. p[m] = p[n]
    BY <2>1, <2>2 DEF Distinct
  <2> QED BY <1>2, <2>3
<1>7. IdsOf(sorted) = IdsOf(rows)
  BY <1>2, <1>5 DEF IdsOf
<1> QED BY <1>4, <1>6, <1>7

-----------------------------------------------------------------------------
(* The order of the archive *)

\* What stands behind one of these is one of those.
Follow(rows, P, C) == \A a, b : Precedes(rows, a, b) /\ a \in P => b \in C

AtOrAfter(rows, from) == {rows[n].id : n \in {n \in DOMAIN rows : n >= from}}

\* The archive keeps its order; what is new comes last.
Grown(rows, new) ==
    /\ IdsOf(rows) \subseteq IdsOf(new) /\ Len(rows) <= Len(new)
    /\ \A a, b : Precedes(new, a, b) =>
          a \in IdsOf(rows) /\ (Precedes(rows, a, b) \/ b \in IdsOf(new) \ IdsOf(rows))
    /\ \A from \in 0 .. Len(rows) + 1 :
          AtOrAfter(rows, from) \cup (IdsOf(new) \ IdsOf(rows)) \subseteq AtOrAfter(new, from)

LEMMA SeqGrows ==
    ASSUME NEW S, NEW T, S \subseteq T, NEW s \in Seq(S)
    PROVE  s \in Seq(T)
<1>1. Len(s) \in Nat /\ s = [k \in 1 .. Len(s) |-> s[k]] /\ \A k \in 1 .. Len(s) : s[k] \in T
  OBVIOUS
<1>2. [k \in 1 .. Len(s) |-> s[k]] \in Seq(T)
  BY <1>1
<1> QED BY <1>1, <1>2

LEMMA FollowGrows ==
    ASSUME NEW rows, NEW new, Grown(rows, new), NEW P, NEW C, NEW P2, NEW C2, Follow(rows, P, C),
           P2 \cap IdsOf(rows) \subseteq P, C \cap IdsOf(rows) \subseteq C2,
           IdsOf(new) \ IdsOf(rows) \subseteq C2
    PROVE  Follow(new, P2, C2)
<1> SUFFICES ASSUME NEW a, NEW b, Precedes(new, a, b), a \in P2
             PROVE  b \in C2
  BY DEF Follow
<1>1. a \in IdsOf(rows) /\ (Precedes(rows, a, b) \/ b \in IdsOf(new) \ IdsOf(rows))
  BY DEF Grown
<1>2. ASSUME Precedes(rows, a, b) PROVE b \in C /\ b \in IdsOf(rows)
  BY <1>1, <1>2 DEF Follow, Precedes, IdsOf
<1> QED BY <1>1, <1>2

\* A change that leaves every row its place and its ID.
LEMMA SameIds ==
    ASSUME NEW rows, NEW new, DOMAIN new = DOMAIN rows, Len(new) = Len(rows), Len(rows) \in Nat,
           \A n \in DOMAIN rows : new[n].id = rows[n].id
    PROVE  /\ Grown(rows, new) /\ IdsOf(new) = IdsOf(rows)
           /\ Distinct(rows) => Distinct(new)
<1>1. IdsOf(new) = IdsOf(rows)
  BY DEF IdsOf
<1>2. \A a, b : Precedes(new, a, b) => Precedes(rows, a, b) /\ a \in IdsOf(rows)
  BY DEF Precedes, IdsOf
<1>3. \A from : AtOrAfter(rows, from) = AtOrAfter(new, from)
  BY DEF AtOrAfter
<1>4. Distinct(rows) => Distinct(new)
  BY DEF Distinct
<1> QED BY <1>1, <1>2, <1>3, <1>4 DEF Grown

LEMMA NewLast ==
    ASSUME NEW S, NEW rows \in Seq(S), NEW row \in S, Distinct(rows), row.id \notin IdsOf(rows)
    PROVE  Grown(rows, Append(rows, row))
<1> DEFINE new == Append(rows, row)
           l == Len(rows)
<1>1. /\ new \in Seq(S) /\ Len(new) = l + 1 /\ l \in Nat
      /\ \A n \in 1 .. l : new[n] = rows[n]
      /\ new[l + 1] = row /\ DOMAIN rows = 1 .. l
  BY AppendProperties
<1>2. IdsOf(new) = IdsOf(rows) \cup {row.id}
  BY AppendKeeps
<1> HIDE DEF new, l
<1>3. DOMAIN new = 1 .. l + 1
  BY <1>1
<1>4. ASSUME NEW a, NEW b, Precedes(new, a, b)
      PROVE  a \in IdsOf(rows) /\ (Precedes(rows, a, b) \/ b = row.id)
  <2>1. PICK m \in DOMAIN new, n \in DOMAIN new : m < n /\ new[m].id = a /\ new[n].id = b
    BY <1>4 DEF Precedes
  <2>2. m \in DOMAIN rows /\ rows[m].id = a
    BY <1>1, <1>3, <2>1
  <2>3. CASE n = l + 1
    BY <1>1, <2>1, <2>2, <2>3 DEF IdsOf
  <2>4. CASE n # l + 1
    <3>1. n \in DOMAIN rows /\ rows[n].id = b
      BY <1>1, <1>3, <2>1, <2>4
    <3> QED BY <2>1, <2>2, <3>1 DEF IdsOf, Precedes
  <2> QED BY <2>3, <2>4
<1>5. ASSUME NEW from \in 0 .. l + 1
      PROVE  AtOrAfter(rows, from) \cup {row.id} \subseteq AtOrAfter(new, from)
  <2>1. ASSUME NEW n \in DOMAIN rows, n >= from PROVE rows[n].id \in AtOrAfter(new, from)
    <3>1. n \in DOMAIN new /\ new[n] = rows[n]
      BY <1>1, <1>3
    <3> QED BY <2>1, <3>1 DEF AtOrAfter
  <2>2. row.id \in AtOrAfter(new, from)
    <3>1. l + 1 \in DOMAIN new /\ l + 1 >= from
      BY <1>1, <1>3
    <3> QED BY <1>1, <3>1 DEF AtOrAfter
  <2> QED BY <2>1, <2>2 DEF AtOrAfter
<1>6. l <= l + 1
  BY <1>1
<1>7. Grown(rows, new)
  BY <1>1, <1>2, <1>4, <1>5, <1>6 DEF Grown, l
<1> QED BY <1>7 DEF new

\* Any two rows are in order, one way or the other.
LEMMA Ordered ==
    ASSUME NEW S, NEW rows \in Seq(S), Distinct(rows), NEW a \in IdsOf(rows), NEW b \in IdsOf(rows), a # b
    PROVE  Precedes(rows, a, b) \/ Precedes(rows, b, a)
<1>1. PICK m \in DOMAIN rows : rows[m].id = a
  BY DEF IdsOf
<1>2. PICK n \in DOMAIN rows : rows[n].id = b
  BY DEF IdsOf
<1>3. m \in Nat /\ n \in Nat /\ m # n
  BY <1>1, <1>2
<1>4. m < n \/ n < m
  BY <1>3
<1> QED BY <1>1, <1>2, <1>4 DEF Precedes

LEMMA Transitive ==
    ASSUME NEW S, NEW rows \in Seq(S), Distinct(rows), NEW a, NEW b, NEW c,
           Precedes(rows, a, b), Precedes(rows, b, c)
    PROVE  Precedes(rows, a, c)
<1>1. PICK m \in DOMAIN rows, n \in DOMAIN rows : m < n /\ rows[m].id = a /\ rows[n].id = b
  BY DEF Precedes
<1>2. PICK j \in DOMAIN rows, k \in DOMAIN rows : j < k /\ rows[j].id = b /\ rows[k].id = c
  BY DEF Precedes
<1>3. j = n
  BY <1>1, <1>2 DEF Distinct
<1>4. m < k
  BY <1>1, <1>2, <1>3
<1> QED BY <1>1, <1>2, <1>4 DEF Precedes

\* Behind one of the newest rows are newest rows.
LEMMA NewestFollow ==
    ASSUME NEW S, NEW rows \in Seq(S), Distinct(rows), NEW n \in Nat
    PROVE  Follow(rows, IdsOf(Newest(rows, n)), IdsOf(Newest(rows, n)))
<1> DEFINE d == IF Len(rows) > n THEN Len(rows) - n ELSE 0
           new == Newest(rows, n)
<1>1. d \in Nat /\ Len(rows) \in Nat /\ d <= Len(rows)
  OBVIOUS
<1>2. /\ new \in Seq(S) /\ Len(new) = Len(rows) - d
      /\ \A k \in 1 .. Len(rows) - d : new[k] = rows[k + d]
  BY <1>1, NewestRows, ZenonT(60)
<1>3. DOMAIN new = 1 .. Len(rows) - d /\ DOMAIN rows = 1 .. Len(rows)
  BY <1>2
<1> HIDE DEF d, new
<1> SUFFICES ASSUME NEW a, NEW b, Precedes(rows, a, b), a \in IdsOf(new)
             PROVE  b \in IdsOf(new)
  BY DEF Follow, new
<1>4. PICK j \in DOMAIN rows, k \in DOMAIN rows : j < k /\ rows[j].id = a /\ rows[k].id = b
  BY DEF Precedes
<1>5. PICK m \in DOMAIN new : new[m].id = a
  BY DEF IdsOf
<1>6. m + d \in DOMAIN rows /\ rows[m + d].id = a
  BY <1>1, <1>2, <1>3, <1>5
<1>7. m + d = j
  BY <1>4, <1>6 DEF Distinct
<1>8. k - d \in DOMAIN new /\ (k - d) + d = k
  BY <1>1, <1>3, <1>4, <1>7
<1>9. new[k - d].id = b
  BY <1>2, <1>3, <1>4, <1>8
<1> QED BY <1>8, <1>9 DEF IdsOf

-----------------------------------------------------------------------------
(* The inductive invariant *)

Taken == {Real(i) : i \in wa}

\* Rows of the archive, as it is or as it was.
Archived == {r \in Rows : ~r.pending /\ r.id \in IdsOf(stored) /\ r.at <= Len(stored)}

\* A placeholder is of a send the TUI waits for; what else is listed WhatsApp has.
Listable ==
    {r \in Rows : /\ r.at <= now
                  /\ IF r.pending THEN r.id \in Sends /\ send[r.id].tui = "waiting"
                                  ELSE r.id \in IdsOf(stored) \cup Taken}

SendsInv ==
    /\ send \in [Sends -> [id : Nat, file : BOOLEAN, job : {"none", "asked", "taken", "failed", "stored"},
                           tui : {"none", "waiting", "over"}]]
    /\ wa \subseteq Sends
    /\ \A i \in Sends :
          /\ Real(i) \in {i, Fallback(i)}
          /\ send[i].tui = "none" => send[i].job = "none"
          /\ i \in wa => send[i].job \notin {"none", "asked"}
          /\ send[i].job \in {"taken", "stored"} => i \in wa
          /\ send[i].job = "stored" => Real(i) \in IdsOf(stored)

StoredInv ==
    /\ stored \in Seq(Archived) /\ Len(stored) >= Old /\ Distinct(stored)
    /\ \A n \in DOMAIN stored : stored[n].at = n
    /\ IdsOf(stored) \subseteq 1 .. Old \cup News \cup Taken

ListInv == msgs \in Seq(Listable) /\ Distinct(msgs) /\ Len(msgs) <= Cap

Ours == {"sent", "delivered", "read"}
EventsInv ==
    events \in Seq([type : {"message"}, row : Archived] \cup
                   [type : {"receipt"}, ids : SUBSET Taken, status : Ours])

Kinds == {"load", "older", "around"}
Answers ==
    [kind : Kinds, st : {"answered"}, from : 0 .. now, late : BOOLEAN, rows : Seq(Archived), more : BOOLEAN]

\* Behind a row of a page come rows of that page, or what is still to come; behind
\* one of an older page also what it was asked for.
AnswerInv(answer) ==
    /\ Distinct(answer.rows)
    /\ answer.kind = "load" => answer.rows # <<>>
    /\ answer.kind = "load" /\ ~answer.late =>
          Follow(stored, IdsOf(answer.rows), IdsOf(answer.rows) \cup OnItsWay)
    /\ answer.kind = "older" =>
          Follow(stored, IdsOf(answer.rows), IdsOf(answer.rows) \cup AtOrAfter(stored, answer.from))

AsksInv ==
    /\ DOMAIN ask = Slots
    /\ \A s \in Slots :
          \/ ask[s] = NoAsk
          \/ ask[s] \in [kind : Kinds, st : {"asked"}, from : 0 .. now]
          \/ ask[s] \in Answers /\ AnswerInv(ask[s])

\* What is shown or still to come reaches down to the newest row.
Covered == IdsOf(msgs) \cup OnItsWay
HolesInv == holes = {} => Follow(stored, Covered, Covered)

\* The text of a failed send is where the chat keeps what is being written.
TextInv ==
    /\ {input, draft} \subseteq Sends \cup {Blank, Other} /\ gone \subseteq Sends
    /\ here \in BOOLEAN /\ (~here => input = Blank)
    /\ \A i \in Sends : send[i].tui = "over" /\ ~send[i].file =>
          i \in wa \cup gone \cup {IF here THEN input ELSE draft}

FlagsInv == loadingOlder \in BOOLEAN /\ noMoreOlder \in BOOLEAN

IInv ==
    /\ SendsInv /\ StoredInv /\ ListInv /\ EventsInv /\ AsksInv
    /\ HolesInv /\ TextInv /\ FlagsInv

\* The numbers of the messages that are there, of the sends, and of the messages to
\* arrive are apart, and no fallback ID is one of them.
LEMMA Numbers ==
    /\ Old \in Nat /\ Cap \in Nat /\ LoadSize \in Nat /\ OlderSize \in Nat /\ Half \in Nat
    /\ Old # 0 /\ Cap # 0 /\ LoadSize # 0 /\ OlderSize # 0
    /\ \A i \in Sends : /\ i \in Nat /\ i # Blank /\ i \notin 1 .. Old \cup News
                        /\ Fallback(i) \in Nat /\ Fallback(i) \notin 1 .. Old \cup News \cup Sends
                        /\ \A j \in Sends : Fallback(i) = Fallback(j) => i = j
    /\ \A n \in News : n \in Nat /\ n \notin 1 .. Old \cup Sends
<1>1. Top \in Nat /\ \A i \in Sends \cup News : i \in Nat /\ i > Old /\ i < Top
  BY TuiMessagesAssumption
<1>2. /\ Old \in Nat /\ Cap \in Nat /\ LoadSize \in Nat /\ OlderSize \in Nat /\ Half \in Nat
      /\ Old # 0 /\ Cap # 0 /\ LoadSize # 0 /\ OlderSize # 0 /\ Sends \cap News = {}
  BY TuiMessagesAssumption
<1> QED BY <1>1, <1>2 DEF Fallback, Blank

\* An ID of the archive that is a send's is of a send WhatsApp has.
LEMMA RealOnce ==
    ASSUME SendsInv
    PROVE  /\ \A i, j \in Sends : Real(i) = Real(j) => i = j
           /\ \A i, j \in Sends : Real(i) = j => i = j
           /\ \A i \in Sends : Real(i) \notin 1 .. Old \cup News
           /\ \A i \in Sends : Real(i) \in Taken <=> i \in wa
           /\ \A i \in Sends : i \in Taken => i \in wa /\ Real(i) = i
<1>1. \A i \in Sends : Real(i) = i \/ Real(i) = Fallback(i)
  BY DEF SendsInv
<1>2. wa \subseteq Sends
  BY DEF SendsInv
<1>3. \A i, j \in Sends : Real(i) = Real(j) => i = j
  BY <1>1, Numbers
<1>4. \A i, j \in Sends : Real(i) = j => i = j
  BY <1>1, Numbers
<1>5. \A i \in Sends : Real(i) \notin 1 .. Old \cup News
  BY <1>1, Numbers
<1>6. \A i \in Sends : Real(i) \in Taken <=> i \in wa
  BY <1>2, <1>3 DEF Taken
<1>7. \A i \in Sends : i \in Taken => i \in wa /\ Real(i) = i
  BY <1>2, <1>4 DEF Taken
<1> QED BY <1>3, <1>4, <1>5, <1>6, <1>7

LEMMA InitInv == Init => IInv
<1> SUFFICES ASSUME Init PROVE IInv
  OBVIOUS
<1>1. Len(stored) = Old /\ DOMAIN stored = 1 .. Old /\ \A n \in 1 .. Old : stored[n] = Row(n, n, "none")
  BY Numbers DEF Init
<1>2. IdsOf(stored) = 1 .. Old
  BY <1>1 DEF IdsOf, Row
<1>3. SendsInv
  BY Numbers DEF Init, SendsInv, Real
<1>4. Taken = {} /\ OnItsWay = {}
  <2>1. wa = {} /\ events = <<>> /\ \A i \in Sends : send[i].tui # "waiting"
    BY DEF Init
  <2> QED BY <2>1 DEF Taken, OnItsWay, Arriving, Answering
<1>5. ASSUME NEW n \in 1 .. Old PROVE stored[n] \in Archived /\ stored[n].id = n /\ stored[n].at = n
  <2>1. Row(n, n, "none") \in Rows
    BY Numbers DEF Rows, Row
  <2>2. /\ Row(n, n, "none").id = n /\ Row(n, n, "none").at = n /\ ~Row(n, n, "none").pending
        /\ n <= Len(stored) /\ n \in IdsOf(stored)
    BY <1>1, <1>2, Numbers DEF Row
  <2>3. stored[n] = Row(n, n, "none")
    BY <1>1
  <2> QED BY <2>1, <2>2, <2>3 DEF Archived
<1>6. stored \in Seq(Archived)
  <2>1. stored = [n \in 1 .. Old |-> stored[n]]
    BY DEF Init
  <2>2. [n \in 1 .. Old |-> stored[n]] \in Seq(Archived)
    BY <1>5, Numbers
  <2> QED BY <2>1, <2>2
<1>7. StoredInv
  BY <1>1, <1>2, <1>5, <1>6, Numbers DEF StoredInv, Distinct
<1>8. msgs = Newest(Newest(stored, LoadSize), Cap)
  BY DEF Init, boundCaches
<1> DEFINE page == Newest(stored, LoadSize)
<1>9. page \in Seq(Archived) /\ Distinct(page)
  BY <1>6, <1>7, Numbers, NewestKeeps DEF StoredInv
<1>10. msgs \in Seq(Archived) /\ Distinct(msgs) /\ Len(msgs) <= Cap
  BY <1>8, <1>9, Numbers, NewestKeeps
<1>11. Follow(stored, IdsOf(msgs), IdsOf(msgs))
  <2>1. PICK k \in Nat : msgs = Newest(stored, k)
    BY <1>6, <1>8, Numbers, NewestTwice
  <2> QED BY <1>6, <1>7, <2>1, NewestFollow DEF StoredInv
<1>12. Archived \subseteq Listable
  BY <1>1, Numbers DEF Archived, Listable, now, Rows
<1>13. ListInv
  BY <1>10, <1>12, SeqGrows DEF ListInv
<1>14. HolesInv
  BY <1>4, <1>11 DEF HolesInv, Covered
<1>15. FlagsInv /\ TextInv
  <2>1. \A i \in Sends : send[i].tui # "over"
    BY DEF Init
  <2>2. here = TRUE /\ input = Blank /\ draft = Blank /\ gone = {}
    BY DEF Init
  <2>3. FlagsInv
    <3>1. loadingOlder \in BOOLEAN
      BY DEF Init
    <3>2. (Old <= LoadSize) \in BOOLEAN
      BY Numbers
    <3>3. noMoreOlder \in BOOLEAN
      BY <3>2, Zenon DEF Init
    <3> QED BY <3>1, <3>3 DEF FlagsInv
  <2> QED BY <2>1, <2>2, <2>3 DEF TextInv
<1>16. AsksInv
  BY DEF Init, AsksInv
<1>17. EventsInv
  <2>1. \A S : <<>> \in Seq(S)
    OBVIOUS
  <2> QED BY <2>1 DEF Init, EventsInv
<1> QED BY <1>3, <1>7, <1>13, <1>14, <1>15, <1>16, <1>17 DEF IInv

-----------------------------------------------------------------------------
(* What the parts of the invariant survive *)

LEMMA RowTyped ==
    ASSUME StoredInv, NEW id \in 1 .. Old \cup Sends \cup {Fallback(i) : i \in Sends} \cup News,
           NEW at \in 1 .. now, NEW receipt \in {"none", "sending", "sent", "delivered", "read"}
    PROVE  /\ Row(id, at, receipt) \in Rows /\ Row(id, at, receipt).id = id
           /\ Row(id, at, receipt).at = at /\ ~Row(id, at, receipt).pending
<1>1. now \in Nat /\ at \in Nat
  BY DEF StoredInv, now
<1> QED BY <1>1 DEF Row, Rows

LEMMA RealTyped ==
    ASSUME SendsInv, NEW i \in Sends
    PROVE  Real(i) \in 1 .. Old \cup Sends \cup {Fallback(j) : j \in Sends} \cup News
BY DEF SendsInv

LEMMA ArchivedGrows ==
    ASSUME StoredInv, Grown(stored, stored'), Len(stored') \in Nat
    PROVE  Archived \subseteq Archived' /\ Seq(Archived) \subseteq Seq(Archived')
<1>1. IdsOf(stored) \subseteq IdsOf(stored') /\ Len(stored) <= Len(stored') /\ Len(stored) \in Nat
  BY DEF Grown, StoredInv
<1>2. ASSUME NEW r \in Archived PROVE r \in Archived'
  <2>1. r.at \in Nat /\ r \in Rows
    BY DEF Archived, Rows
  <2> QED BY <1>1, <2>1 DEF Archived
<1> QED BY <1>2, SeqGrows

LEMMA ListableStays ==
    ASSUME StoredInv, Grown(stored, stored'), Len(stored') \in Nat, Taken \subseteq Taken', NEW r \in Listable,
           r.pending => send'[r.id].tui = "waiting"
    PROVE  r \in Listable'
<1>1. IdsOf(stored) \subseteq IdsOf(stored') /\ Len(stored) <= Len(stored') /\ Len(stored) \in Nat
  BY DEF Grown, StoredInv
<1>2. r.at \in Nat /\ r \in Rows
  BY DEF Listable, Rows
<1>3. r.at <= now'
  BY <1>1, <1>2 DEF Listable, now
<1> QED BY <1>1, <1>2, <1>3 DEF Listable

LEMMA ArchivedListable == StoredInv => Archived \subseteq Listable
<1> SUFFICES ASSUME StoredInv, NEW r \in Archived PROVE r \in Listable
  OBVIOUS
<1>1. r.at \in Nat /\ r \in Rows /\ Len(stored) \in Nat
  BY DEF Archived, Rows, StoredInv
<1> QED BY <1>1 DEF Archived, Listable, now

LEMMA StoredGrows ==
    ASSUME StoredInv, NEW row \in Rows, ~row.pending, row.at = now,
           row.id \in 1 .. Old \cup News \cup Taken, Taken \subseteq Taken', stored' = Upserted(row)
    PROVE  /\ StoredInv' /\ Grown(stored, stored') /\ Len(stored') \in Nat
           /\ IdsOf(stored') = IdsOf(stored) \cup {row.id}
           /\ row.id \notin IdsOf(stored) => row \in Archived'
<1>1. stored \in Seq(Archived) /\ Distinct(stored) /\ Len(stored) \in Nat /\ Len(stored) >= Old
  BY DEF StoredInv
<1>2. CASE row.id \in IdsOf(stored)
  <2>1. stored' = stored
    BY <1>2 DEF Upserted
  <2>2. Grown(stored, stored')
    BY <1>1, <2>1, SameIds
  <2>3. Archived \subseteq Archived' /\ Seq(Archived) \subseteq Seq(Archived')
    BY <1>1, <2>1, <2>2, ArchivedGrows
  <2>4. stored' \in Seq(Archived')
    BY <1>1, <2>1, <2>3
  <2> QED BY <1>1, <1>2, <2>1, <2>2, <2>4 DEF StoredInv
<1>3. CASE row.id \notin IdsOf(stored)
  <2> DEFINE S == Archived \cup {row}
  <2>1. stored \in Seq(S) /\ row \in S
    BY <1>1, SeqGrows
  <2>2. stored' = Append(stored, row)
    BY <1>3 DEF Upserted
  <2> HIDE DEF S
  <2>3. /\ stored' \in Seq(S) /\ Distinct(stored') /\ Len(stored') = Len(stored) + 1
        /\ \A n \in DOMAIN stored : stored'[n] = stored[n]
        /\ stored'[Len(stored) + 1] = row
        /\ IdsOf(stored') = IdsOf(stored) \cup {row.id}
    BY <1>1, <1>3, <2>1, <2>2, AppendKeeps
  <2>4. Grown(stored, stored')
    BY <1>1, <1>3, <2>1, <2>2, NewLast
  <2>5. Len(stored') \in Nat /\ DOMAIN stored' = 1 .. Len(stored) + 1 /\ DOMAIN stored = 1 .. Len(stored)
    BY <1>1, <2>3
  <2>6. Archived \subseteq Archived'
    BY <2>4, <2>5, ArchivedGrows
  <2>7. row \in Archived'
    BY <2>3, <2>5 DEF Archived, now
  <2>8. stored' \in Seq(Archived')
    BY <2>3, <2>6, <2>7, SeqGrows DEF S
  <2>9. \A n \in DOMAIN stored' : stored'[n].at = n
    <3> SUFFICES ASSUME NEW n \in DOMAIN stored' PROVE stored'[n].at = n
      OBVIOUS
    <3>1. CASE n = Len(stored) + 1
      BY <2>3, <3>1 DEF now
    <3>2. CASE n # Len(stored) + 1
      <4>1. n \in DOMAIN stored
        BY <1>1, <2>5, <3>2
      <4> QED BY <2>3, <4>1 DEF StoredInv
    <3> QED BY <3>1, <3>2
  <2>10. IdsOf(stored') \subseteq 1 .. Old \cup News \cup Taken'
    BY <2>3 DEF StoredInv
  <2>11. Len(stored') >= Old
    BY <1>1, <2>3, Numbers
  <2> QED BY <2>3, <2>4, <2>5, <2>7, <2>8, <2>9, <2>10, <2>11 DEF StoredInv
<1> QED BY <1>2, <1>3

\* Requests on their way, when the archive grows: what is new comes over the socket,
\* or the answers are outdated.
LEMMA AsksGrow ==
    ASSUME StoredInv, AsksInv, Grown(stored, stored'), Len(stored') \in Nat,
           \/ ask' = Outdated
           \/ /\ ask' = ask
              /\ OnItsWay \cap IdsOf(stored) \subseteq OnItsWay'
              /\ IdsOf(stored') \ IdsOf(stored) \subseteq OnItsWay'
    PROVE  AsksInv'
<1>1. /\ Seq(Archived) \subseteq Seq(Archived') /\ Len(stored) \in Nat /\ Len(stored) <= Len(stored')
      /\ Archived \subseteq Archived'
  BY ArchivedGrows DEF StoredInv, Grown
<1>2. 0 .. now \subseteq 0 .. now'
  BY <1>1 DEF now
<1>3. DOMAIN ask' = Slots
  BY DEF AsksInv, Outdated
<1> SUFFICES ASSUME NEW s \in Slots
             PROVE  \/ ask'[s] = NoAsk
                    \/ ask'[s] \in [kind : Kinds, st : {"asked"}, from : 0 .. now']
                    \/ ask'[s] \in Answers' /\ AnswerInv(ask[s])'
  BY <1>3 DEF AsksInv
<1>4. CASE ask[s].st # "answered"
  <2>1. ask'[s] = ask[s]
    BY <1>4 DEF Outdated
  <2>2. ask[s] = NoAsk \/ ask[s] \in [kind : Kinds, st : {"asked"}, from : 0 .. now]
    BY <1>4 DEF AsksInv, Answers
  <2> QED BY <1>2, <2>1, <2>2
<1>5. CASE ask[s].st = "answered"
  <2>1. ask[s] \in Answers /\ AnswerInv(ask[s])
    BY <1>5 DEF AsksInv, NoAsk
  <2>2. ask[s] \in Answers'
    BY <1>1, <1>2, <2>1 DEF Answers
  <2>3. CASE ask'[s] = [ask[s] EXCEPT !.late = TRUE] /\ ask[s].kind # "older"
    <3>1. /\ ask'[s] \in Answers' /\ ask'[s].late = TRUE
          /\ ask'[s].rows = ask[s].rows /\ ask'[s].kind = ask[s].kind
      BY <2>2, <2>3 DEF Answers
    <3> QED BY <2>1, <2>3, <3>1 DEF AnswerInv
  <2>4. CASE ask'[s] = ask[s] /\ (ask[s].kind = "load" => ask' = ask)
    <3> DEFINE P == IdsOf(ask[s].rows)
    <3>1. P \subseteq IdsOf(stored) /\ ask[s].from \in 0 .. Len(stored) + 1
      BY <2>1 DEF Answers, Archived, IdsOf, now
    <3>2. ASSUME ask[s].kind = "load", ~ask[s].late
          PROVE  Follow(stored', P, P \cup OnItsWay')
      <4>1. Follow(stored, P, P \cup OnItsWay)
        BY <2>1, <3>2 DEF AnswerInv
      <4>2. ask' # Outdated
        <5>1. (Outdated)[s].late = TRUE
          BY <1>5, <2>1, <3>2 DEF Outdated, Answers
        <5> QED BY <2>4, <3>2, <5>1
      <4> HIDE DEF P
      <4> QED BY <4>1, <4>2, FollowGrows
    <3>3. ASSUME ask[s].kind = "older"
          PROVE  Follow(stored', P, P \cup AtOrAfter(stored', ask[s].from))
      <4>1. Follow(stored, P, P \cup AtOrAfter(stored, ask[s].from))
        BY <2>1, <3>3 DEF AnswerInv
      <4>2. AtOrAfter(stored, ask[s].from) \cup (IdsOf(stored') \ IdsOf(stored))
               \subseteq AtOrAfter(stored', ask[s].from)
        BY <3>1 DEF Grown
      <4> HIDE DEF P
      <4> QED BY <4>1, <4>2, FollowGrows
    <3> QED BY <2>1, <2>2, <2>4, <3>2, <3>3 DEF AnswerInv
  <2>5. \/ ask'[s] = [ask[s] EXCEPT !.late = TRUE] /\ ask[s].kind # "older"
        \/ ask'[s] = ask[s] /\ (ask[s].kind = "load" => ask' = ask)
    BY <1>5 DEF Outdated
  <2> QED BY <2>3, <2>4, <2>5
<1> QED BY <1>4, <1>5

\* What was shown or on its way still is, and so is what is new.
LEMMA CoverStays ==
    ASSUME HolesInv, Grown(stored, stored'),
           holes' = {} => /\ holes = {} /\ Covered \cap IdsOf(stored) \subseteq Covered'
                          /\ Covered' \cap IdsOf(stored) \subseteq Covered
                          /\ IdsOf(stored') \ IdsOf(stored) \subseteq Covered'
    PROVE  HolesInv'
<1> SUFFICES ASSUME holes' = {} PROVE Follow(stored', Covered', Covered')
  BY DEF HolesInv
<1>1. Follow(stored, Covered, Covered)
  BY DEF HolesInv
<1> QED BY <1>1, FollowGrows

\* A new list is shown.
LEMMA ShowCovers ==
    ASSUME stored' = stored, NEW S, NEW rows \in Seq(S), NEW why, Show(rows, why),
           why = {} => Follow(stored, IdsOf(rows) \cup OnItsWay', IdsOf(rows) \cup OnItsWay')
    PROVE  HolesInv'
<1> DEFINE new == boundCaches(rows)
<1>1. new = Newest(rows, Cap) /\ msgs' = new
  BY DEF Show, boundCaches
<1>2. IdsOf(new) \subseteq IdsOf(rows)
  BY <1>1, Numbers, NewestKeeps
<1>3. \A id \in IdsOf(rows) \ IdsOf(new) : \E m \in 1 .. Len(rows) - Cap : rows[m].id = id
  BY <1>1, Numbers, NewestKeeps
<1> SUFFICES ASSUME holes' = {}, NEW a, NEW b, Precedes(stored, a, b), a \in IdsOf(new) \cup OnItsWay'
             PROVE  b \in IdsOf(new) \cup OnItsWay'
  BY <1>1 DEF HolesInv, Follow, Covered
<1>4. why = {} /\ ~CutShort(rows)
  BY DEF Show
<1>5. b \in IdsOf(rows) \cup OnItsWay'
  BY <1>2, <1>4 DEF Follow
<1>6. ASSUME b \in IdsOf(rows) \ IdsOf(new) PROVE FALSE
  <2>1. PICK m \in 1 .. Len(rows) - Cap : rows[m].id = b
    BY <1>3, <1>6
  <2> QED BY <1>4, <2>1 DEF CutShort
<1> QED BY <1>5, <1>6

LEMMA DataFrame ==
    ASSUME SendsInv, StoredInv, UNCHANGED <<stored, send, wa>>
    PROVE  /\ SendsInv' /\ StoredInv' /\ Grown(stored, stored') /\ Len(stored') \in Nat
           /\ Taken' = Taken /\ Archived' = Archived /\ Listable' = Listable /\ Answering' = Answering
<1>1. Taken' = Taken /\ Answering' = Answering
  BY DEF Taken, Answering, Real
<1>2. Archived' = Archived /\ Listable' = Listable
  BY <1>1 DEF Archived, Listable, now
<1>3. SendsInv'
  BY DEF SendsInv, Real
<1>4. StoredInv'
  BY <1>1, <1>2 DEF StoredInv
<1>5. Grown(stored, stored') /\ Len(stored') \in Nat
  BY SameIds DEF StoredInv
<1> QED BY <1>1, <1>2, <1>3, <1>4, <1>5

LEMMA Frame ==
    ASSUME IInv, UNCHANGED <<stored, send, wa>>
    PROVE  /\ UNCHANGED msgs => ListInv'
           /\ UNCHANGED events => EventsInv' /\ OnItsWay' = OnItsWay
           /\ UNCHANGED <<events, ask>> => AsksInv'
           /\ UNCHANGED <<events, msgs, holes>> => HolesInv'
           /\ UNCHANGED <<composer, gone>> => TextInv'
           /\ UNCHANGED <<loadingOlder, noMoreOlder>> => FlagsInv'
<1>1. /\ SendsInv' /\ StoredInv' /\ Grown(stored, stored') /\ Len(stored') \in Nat
      /\ Taken' = Taken /\ Archived' = Archived /\ Listable' = Listable /\ Answering' = Answering
  BY DataFrame DEF IInv
<1>2. UNCHANGED events => EventsInv' /\ OnItsWay' = OnItsWay
  BY <1>1 DEF IInv, EventsInv, OnItsWay, Arriving
<1>3. UNCHANGED msgs => ListInv'
  BY <1>1 DEF IInv, ListInv
<1>4. UNCHANGED <<events, ask>> => AsksInv'
  BY <1>1, <1>2, AsksGrow DEF IInv
<1>5. UNCHANGED <<events, msgs, holes>> => HolesInv'
  BY <1>2 DEF IInv, HolesInv, Covered
<1>6. UNCHANGED <<composer, gone>> => TextInv'
  BY DEF IInv, TextInv, composer
<1>7. UNCHANGED <<loadingOlder, noMoreOlder>> => FlagsInv'
  BY DEF IInv, FlagsInv
<1> QED BY <1>2, <1>3, <1>4, <1>5, <1>6, <1>7

\* An event joins the queue.
LEMMA QueueGrows ==
    ASSUME NEW S, events \in Seq(S), NEW e, events' = Append(events, e)
    PROVE  Arriving' = Arriving \cup IF e.type = "message" THEN {e.row.id} ELSE {}
<1> DEFINE T == S \cup {e}
<1>1. events \in Seq(T) /\ e \in T
  BY SeqGrows
<1>2. /\ Len(events') = Len(events) + 1 /\ Len(events) \in Nat /\ DOMAIN events' = 1 .. Len(events) + 1
      /\ DOMAIN events = 1 .. Len(events)
      /\ \A n \in 1 .. Len(events) : events'[n] = events[n]
      /\ events'[Len(events) + 1] = e
  BY <1>1, AppendProperties
<1>3. ASSUME NEW n \in DOMAIN events'
      PROVE  \/ n \in DOMAIN events /\ events'[n] = events[n]
             \/ events'[n] = e
  BY <1>2
<1>4. ASSUME NEW n \in DOMAIN events PROVE n \in DOMAIN events' /\ events'[n] = events[n]
  BY <1>2
<1>5. Len(events) + 1 \in DOMAIN events'
  BY <1>2
<1>6. ASSUME NEW id \in Arriving' PROVE id \in Arriving \/ (e.type = "message" /\ id = e.row.id)
  <2>1. PICK n \in DOMAIN events' : events'[n].type = "message" /\ id = events'[n].row.id
    BY DEF Arriving
  <2> QED BY <1>3, <2>1 DEF Arriving
<1>7. ASSUME NEW id \in Arriving PROVE id \in Arriving'
  <2>1. PICK n \in DOMAIN events : events[n].type = "message" /\ id = events[n].row.id
    BY DEF Arriving
  <2> QED BY <1>4, <2>1 DEF Arriving
<1>8. e.type = "message" => e.row.id \in Arriving'
  BY <1>2, <1>5 DEF Arriving
<1> QED BY <1>6, <1>7, <1>8

\* The first event is taken off.
LEMMA QueueShrinks ==
    ASSUME NEW S, events \in Seq(S), events # <<>>, events' = Tail(events)
    PROVE  /\ events' \in Seq(S) /\ Head(events) \in S
           /\ Arriving' \subseteq Arriving
           /\ Head(events).type = "message" => Head(events).row.id \in Arriving
           /\ \A id \in Arriving \ Arriving' :
                 Head(events).type = "message" /\ id = Head(events).row.id
<1>1. Len(events) \in Nat /\ Len(events) # 0 /\ DOMAIN events = 1 .. Len(events)
  BY EmptySeq
<1>2. /\ events' \in Seq(S) /\ Len(events') = Len(events) - 1 /\ DOMAIN events' = 1 .. Len(events) - 1
      /\ \A n \in 1 .. Len(events) - 1 : events'[n] = events[n + 1]
  BY <1>1, HeadTailProperties
<1>3. Head(events) = events[1] /\ 1 \in DOMAIN events /\ events[1] \in S
  BY <1>1
<1>4. ASSUME NEW id \in Arriving' PROVE id \in Arriving
  <2>1. PICK n \in DOMAIN events' : events'[n].type = "message" /\ id = events'[n].row.id
    BY DEF Arriving
  <2>2. n + 1 \in DOMAIN events /\ events'[n] = events[n + 1]
    BY <1>1, <1>2
  <2> QED BY <2>1, <2>2 DEF Arriving
<1>5. ASSUME NEW id \in Arriving, id # Head(events).row.id \/ Head(events).type # "message" PROVE id \in Arriving'
  <2>1. PICK n \in DOMAIN events : events[n].type = "message" /\ id = events[n].row.id
    BY DEF Arriving
  <2>2. n # 1
    BY <1>3, <1>5, <2>1
  <2>3. n - 1 \in DOMAIN events' /\ events'[n - 1] = events[n]
    <3>1. n - 1 \in 1 .. Len(events) - 1 /\ (n - 1) + 1 = n
      BY <1>1, <2>2
    <3> QED BY <1>2, <3>1
  <2> QED BY <2>1, <2>3 DEF Arriving
<1>6. Head(events).type = "message" => Head(events).row.id \in Arriving
  BY <1>3 DEF Arriving
<1> QED BY <1>2, <1>3, <1>4, <1>5, <1>6

-----------------------------------------------------------------------------
(* The steps: the composer *)

LEMMA WritingStep ==
    ASSUME IInv, Type \/ Clear \/ LeaveChat
    PROVE  IInv'
<1>1. UNCHANGED <<stored, msgs, loadingOlder, noMoreOlder, ask, events, send, wa, holes>>
  BY DEF Type, Clear, LeaveChat
<1>2. SendsInv' /\ StoredInv' /\ ListInv' /\ EventsInv' /\ AsksInv' /\ HolesInv' /\ FlagsInv'
  BY <1>1, DataFrame, Frame DEF IInv
<1>3. TextInv
  BY DEF IInv
<1>4. \A i \in Sends : i # Blank
  BY Numbers
<1>5. CASE Type
  <2>1. /\ here = TRUE /\ here' = here /\ input = Blank /\ draft' = draft /\ gone' = gone
        /\ input' \in Sends \cup {Other} /\ send' = send /\ wa' = wa
    BY <1>3, <1>5 DEF Type, TextInv
  <2> QED BY <1>2, <1>3, <1>4, <2>1 DEF TextInv, IInv
<1>6. CASE Clear
  <2>1. /\ here = TRUE /\ here' = here /\ draft' = draft /\ input' = Blank
        /\ gone' = gone \cup ({input} \cap Sends) /\ send' = send /\ wa' = wa
    BY <1>3, <1>6 DEF Clear, TextInv
  <2> QED BY <1>2, <1>3, <1>4, <2>1 DEF TextInv, IInv
<1>7. CASE LeaveChat
  <2>1. /\ here = TRUE /\ here' = FALSE /\ draft' = input /\ input' = Blank
        /\ gone' = gone /\ send' = send /\ wa' = wa
    BY <1>3, <1>7 DEF LeaveChat, TextInv
  <2> QED BY <1>2, <1>3, <1>4, <2>1 DEF TextInv, IInv
<1> QED BY <1>5, <1>6, <1>7

LEMMA EvictStep == ASSUME IInv, Evict PROVE IInv'
<1>1. /\ UNCHANGED <<stored, send, wa, events, ask, composer, gone, loadingOlder, noMoreOlder>>
      /\ msgs' = <<>> /\ holes' # {}
  BY DEF Evict
<1>2. SendsInv' /\ StoredInv' /\ EventsInv' /\ AsksInv' /\ TextInv' /\ FlagsInv'
  BY <1>1, DataFrame, Frame DEF IInv
<1>3. ListInv'
  <2>1. <<>> \in Seq(Listable') /\ Len(<<>>) = 0 /\ Distinct(<<>>)
    BY DEF Distinct
  <2> QED BY <1>1, <2>1, Numbers DEF ListInv
<1>4. HolesInv'
  BY <1>1 DEF HolesInv
<1> QED BY <1>2, <1>3, <1>4 DEF IInv

LEMMA SendStep == ASSUME IInv, composerSend PROVE IInv'
<1>1. SendsInv /\ StoredInv /\ ListInv /\ EventsInv /\ AsksInv /\ HolesInv /\ TextInv /\ FlagsInv
  BY DEF IInv
<1>2. PICK i \in Sends :
      /\ i = input /\ send[i].tui = "none" /\ here = TRUE
      /\ UNCHANGED <<stored, loadingOlder, noMoreOlder, ask, wa, here, draft, gone, events>>
      /\ input' = Blank
  BY <1>1 DEF composerSend, TextInv
<1>3. PICK id \in {i, Fallback(i)}, file \in BOOLEAN :
         /\ send' = [send EXCEPT ![i] = [id |-> id, file |-> file, job |-> "asked", tui |-> "waiting"]]
         /\ Show(Append(msgs, optimisticOutgoingMessage(i, file)), holes)
  BY <1>2 DEF composerSend
<1>4. /\ \A j \in Sends : j # i => send'[j] = send[j]
      /\ send'[i].id = id /\ send'[i].job = "asked" /\ send'[i].tui = "waiting"
      /\ send' \in [Sends -> [id : Nat, file : BOOLEAN, job : {"none", "asked", "taken", "failed", "stored"},
                              tui : {"none", "waiting", "over"}]]
  <2>1. id \in Nat /\ i \in Sends
    BY <1>2, <1>3, Numbers
  <2> QED BY <1>1, <1>3, <2>1 DEF SendsInv
<1>5. i \notin wa /\ Real(i)' = id /\ (\A j \in Sends : j # i => Real(j)' = Real(j))
  BY <1>1, <1>2, <1>4 DEF SendsInv, Real
<1>6. Taken' = Taken
  BY <1>1, <1>2, <1>5 DEF Taken, SendsInv
<1>7. /\ i \notin IdsOf(stored) \cup Taken
      /\ id \notin IdsOf(stored)
  <2>1. id \notin 1 .. Old \cup News /\ i \notin 1 .. Old \cup News
    BY <1>2, <1>3, Numbers
  <2>2. i \notin Taken
    BY <1>1, <1>2, <1>5, RealOnce
  <2>3. id \notin Taken
    <3>1. SUFFICES ASSUME NEW j \in wa, Real(j) = id PROVE FALSE
      BY DEF Taken
    <3>2. j \in Sends /\ j # i /\ Real(j) \in {j, Fallback(j)}
      BY <1>1, <1>5 DEF SendsInv
    <3> QED BY <1>2, <1>3, <3>1, <3>2, Numbers
  <2> QED BY <1>1, <2>1, <2>2, <2>3 DEF StoredInv
<1>8. SendsInv'
  <2>1. \A j \in Sends : Real(j)' \in {j, Fallback(j)}
    BY <1>1, <1>3, <1>5 DEF SendsInv
  <2>2. \A j \in Sends : j # i => Real(j)' = Real(j)
    BY <1>5
  <2> QED BY <1>1, <1>2, <1>4, <1>5, <2>1, <2>2 DEF SendsInv
<1>9. Grown(stored, stored') /\ Len(stored') \in Nat /\ Len(stored) \in Nat
  BY <1>1, <1>2, SameIds DEF StoredInv
<1>10. Archived' = Archived
  BY <1>2 DEF Archived
<1>11. StoredInv'
  BY <1>1, <1>2, <1>6, <1>10 DEF StoredInv
<1>12. EventsInv'
  BY <1>1, <1>2, <1>6, <1>10 DEF EventsInv
<1>13. OnItsWay' = OnItsWay \cup {id}
  <2>1. Answering' = Answering \cup {id}
    <3>1. ASSUME NEW x \in Answering PROVE x \in Answering'
      <4>1. PICK j \in Sends : send[j].tui = "waiting" /\ x = Real(j)
        BY <3>1 DEF Answering
      <4>2. j # i
        BY <1>2, <4>1
      <4> QED BY <1>4, <1>5, <4>1, <4>2 DEF Answering
    <3>2. ASSUME NEW x \in Answering', x # id PROVE x \in Answering
      <4>1. PICK j \in Sends : send'[j].tui = "waiting" /\ x = Real(j)'
        BY <3>2 DEF Answering
      <4>2. j # i
        BY <1>5, <3>2, <4>1
      <4> QED BY <1>4, <1>5, <4>1, <4>2 DEF Answering
    <3>3. id \in Answering'
      BY <1>2, <1>4, <1>5 DEF Answering
    <3> QED BY <3>1, <3>2, <3>3
  <2>2. Arriving' = Arriving
    BY <1>2 DEF Arriving
  <2> QED BY <2>1, <2>2 DEF OnItsWay
<1>14. AsksInv'
  <2>1. ask' = ask /\ OnItsWay \subseteq OnItsWay' /\ IdsOf(stored') \ IdsOf(stored) = {}
    BY <1>2, <1>13
  <2> QED BY <1>1, <1>9, <2>1, AsksGrow
<1> DEFINE row == optimisticOutgoingMessage(i, file)
           rows == Append(msgs, row)
<1>15. row \in Rows /\ row.id = i /\ row.at = now /\ row.pending
  <2>1. now \in Nat /\ i \in Sends
    BY <1>2, <1>9 DEF now
  <2> QED BY <2>1 DEF optimisticOutgoingMessage, Row, Rows
<1>16. row \in Listable'
  <2>1. now' = now /\ now \in Nat
    BY <1>2, <1>9 DEF now
  <2> QED BY <1>2, <1>4, <1>15, <2>1 DEF Listable
<1>17. i \notin IdsOf(msgs)
  <2> SUFFICES ASSUME NEW n \in DOMAIN msgs, msgs[n].id = i PROVE FALSE
    BY DEF IdsOf
  <2>1. msgs[n] \in Listable
    BY <1>1 DEF ListInv
  <2> QED BY <1>2, <1>7, <2>1 DEF Listable
<1>18. msgs \in Seq(Listable') /\ Distinct(msgs)
  <2>1. ASSUME NEW r \in Listable PROVE r \in Listable'
    <3>1. r.pending => r.id \in Sends /\ send[r.id].tui = "waiting"
      BY DEF Listable
    <3>2. r.pending => send'[r.id].tui = "waiting"
      BY <1>2, <1>4, <3>1
    <3> QED BY <1>1, <1>6, <1>9, <3>2, ListableStays
  <2> QED BY <1>1, <2>1, SeqGrows DEF ListInv
<1> HIDE DEF row
<1>19. /\ rows \in Seq(Listable') /\ Distinct(rows) /\ IdsOf(rows) = IdsOf(msgs) \cup {i}
  BY <1>15, <1>16, <1>17, <1>18, AppendKeeps
<1>20. Show(rows, holes)
  BY <1>3 DEF row
<1> HIDE DEF rows
<1>21. ListInv'
  BY <1>19, <1>20, Numbers, NewestKeeps DEF ListInv, Show, boundCaches
<1>22. HolesInv'
  <2>1. ASSUME holes = {} PROVE Follow(stored, IdsOf(rows) \cup OnItsWay', IdsOf(rows) \cup OnItsWay')
    <3>1. Follow(stored, Covered, Covered)
      BY <1>1, <2>1 DEF HolesInv
    <3>2. (IdsOf(rows) \cup OnItsWay') \cap IdsOf(stored) \subseteq Covered /\ Covered \subseteq IdsOf(rows) \cup OnItsWay'
      BY <1>7, <1>13, <1>19 DEF Covered
    <3>3. Grown(stored, stored) /\ IdsOf(stored) \ IdsOf(stored) = {}
      BY <1>2, <1>9
    <3> QED BY <3>1, <3>2, <3>3, FollowGrows
  <2> QED BY <1>2, <1>19, <1>20, <2>1, ShowCovers
<1>23. TextInv'
  <2>1. \A j \in Sends : send'[j].tui = "over" => j # i /\ send'[j] = send[j]
    BY <1>4
  <2> QED BY <1>1, <1>2, <2>1 DEF TextInv
<1>24. FlagsInv'
  BY <1>1, <1>2 DEF FlagsInv
<1> QED BY <1>8, <1>11, <1>12, <1>14, <1>21, <1>22, <1>23, <1>24 DEF IInv

-----------------------------------------------------------------------------
(* The steps: requests for messages *)

\* One slot changes.
LEMMA OneAsk ==
    ASSUME IInv, UNCHANGED <<stored, send, wa, events>>, NEW s \in Slots, NEW new,
           ask' = [ask EXCEPT ![s] = new],
           \/ new = NoAsk
           \/ new \in [kind : Kinds, st : {"asked"}, from : 0 .. now]
           \/ new \in Answers /\ AnswerInv(new)
    PROVE  AsksInv'
<1>1. /\ DOMAIN ask' = Slots /\ ask'[s] = new
      /\ \A t \in Slots : t # s => ask'[t] = ask[t]
  BY DEF IInv, AsksInv
<1>2. Archived' = Archived /\ OnItsWay' = OnItsWay /\ now' = now
  BY DataFrame, Frame DEF IInv, now
<1>3. Answers' = Answers
  BY <1>2 DEF Answers
<1>4. \A t \in Slots :
         \/ ask'[t] = NoAsk
         \/ ask'[t] \in [kind : Kinds, st : {"asked"}, from : 0 .. now]
         \/ ask'[t] \in Answers /\ AnswerInv(ask'[t])
  BY <1>1 DEF IInv, AsksInv
<1>5. ASSUME NEW t \in Slots, AnswerInv(ask'[t]) PROVE AnswerInv(ask[t])'
  BY <1>2, <1>5 DEF AnswerInv
<1> QED BY <1>1, <1>2, <1>3, <1>4, <1>5 DEF AsksInv

LEMMA AskStep ==
    ASSUME IInv, NEW s \in Slots, openSelectedChat(s) \/ maybeLoadOlder(s) \/ getMsgsAround(s)
    PROVE  IInv'
<1>1. UNCHANGED <<stored, send, wa, events, msgs, gone, holes, noMoreOlder>>
  BY DEF openSelectedChat, maybeLoadOlder, getMsgsAround
<1>2. SendsInv' /\ StoredInv' /\ ListInv' /\ EventsInv' /\ HolesInv'
  BY <1>1, DataFrame, Frame DEF IInv
<1>3. now \in Nat /\ StoredInv /\ ListInv
  BY DEF IInv, StoredInv, now
<1>4. \E kind \in Kinds, from \in 0 .. now : Get(s, kind, from)
  <2>1. CASE openSelectedChat(s)
    BY <1>3, <2>1 DEF openSelectedChat, Kinds
  <2>2. CASE maybeLoadOlder(s)
    <3>1. msgs # <<>> /\ Get(s, "older", msgs[1].at)
      BY <2>2 DEF maybeLoadOlder
    <3>2. msgs[1] \in Listable
      BY <1>3, <3>1, EmptySeq DEF ListInv
    <3>3. msgs[1].at \in 0 .. now
      BY <1>3, <3>2 DEF Listable, Rows
    <3>4. "older" \in Kinds
      BY DEF Kinds
    <3> QED BY <3>1, <3>3, <3>4, Zenon
  <2>3. CASE getMsgsAround(s)
    <3>1. PICK n \in Hits : Get(s, "around", n)
      BY <2>3 DEF getMsgsAround
    <3>2. n \in 1 .. Old /\ Old \in Nat
      BY TuiMessagesAssumption
    <3>3. n \in 0 .. now
      BY <1>3, <3>2 DEF StoredInv, now
    <3>4. "around" \in Kinds
      BY DEF Kinds
    <3> QED BY <3>1, <3>3, <3>4, Zenon
  <2> QED BY <2>1, <2>2, <2>3
<1>5. AsksInv'
  <2>1. PICK kind \in Kinds, from \in 0 .. now : ask' = [ask EXCEPT ![s] = Asked(kind, from)]
    BY <1>4 DEF Get
  <2>2. Asked(kind, from) \in [kind : Kinds, st : {"asked"}, from : 0 .. now]
    BY DEF Asked
  <2> QED BY <1>1, <2>1, <2>2, OneAsk
<1>6. TextInv'
  <2>1. CASE UNCHANGED composer
    BY <1>1, <2>1, Frame
  <2>2. CASE here' = TRUE /\ input' = draft /\ draft' = draft /\ ~here
    BY <1>1, <2>2 DEF IInv, TextInv
  <2> QED BY <2>1, <2>2 DEF openSelectedChat, maybeLoadOlder, getMsgsAround
<1>7. FlagsInv'
  BY <1>1 DEF IInv, FlagsInv, openSelectedChat, maybeLoadOlder, getMsgsAround
<1> QED BY <1>2, <1>5, <1>6, <1>7 DEF IInv

LEMMA FailStep ==
    ASSUME IInv, NEW s \in Slots, getFails(s)
    PROVE  IInv'
<1>1. /\ UNCHANGED <<stored, send, wa, events, msgs, composer, gone, holes, noMoreOlder>>
      /\ ask' = [ask EXCEPT ![s] = NoAsk]
  BY DEF getFails
<1>2. SendsInv' /\ StoredInv' /\ ListInv' /\ EventsInv' /\ HolesInv' /\ TextInv'
  BY <1>1, DataFrame, Frame DEF IInv
<1>3. AsksInv'
  BY <1>1, OneAsk
<1>4. FlagsInv'
  BY <1>1 DEF IInv, FlagsInv, getFails
<1> QED BY <1>2, <1>3, <1>4 DEF IInv

\* The rows before a time: those at the places before it.
LEMMA BeforeRows ==
    ASSUME StoredInv, NEW from \in Nat
    PROVE  /\ Before(from) \in Seq(Archived) /\ Distinct(Before(from))
           /\ \A n \in DOMAIN stored : n < from => stored[n].id \in IdsOf(Before(from))
           /\ \A a, b : Precedes(stored, a, b) /\ a \in IdsOf(Before(from)) =>
                 \/ Precedes(Before(from), a, b)
                 \/ b \in AtOrAfter(stored, from)
<1>1. stored \in Seq(Archived) /\ Distinct(stored) /\ \A n \in DOMAIN stored : stored[n].at = n
  BY DEF StoredInv
<1> DEFINE places == {n \in DOMAIN stored : stored[n].at < from}
           new == Kept(stored, places)
           at(k) == Place(places, k)
<1>2. Before(from) = new
  BY DEF Before
<1>3. /\ places \in SUBSET DOMAIN stored /\ \A n \in places : n < from
      /\ \A n \in DOMAIN stored : n < from => n \in places
  BY <1>1
<1> HIDE DEF places
<1>4. /\ Cardinality(places) \in 0 .. Len(stored)
      /\ new \in Seq(Archived) /\ Len(new) = Cardinality(places)
      /\ \A k \in 1 .. Cardinality(places) : at(k) \in places /\ new[k] = stored[at(k)]
      /\ \A j, k \in 1 .. Cardinality(places) : j < k <=> at(j) < at(k)
      /\ \A n \in places : \E k \in 1 .. Cardinality(places) : at(k) = n
  BY <1>1, <1>3, KeptPlaces
<1> HIDE DEF new, at
<1>5. DOMAIN new = 1 .. Cardinality(places)
  BY <1>4
<1>6. Distinct(new)
  <2> SUFFICES ASSUME NEW j \in DOMAIN new, NEW k \in DOMAIN new, new[j].id = new[k].id
               PROVE  j = k
    BY DEF Distinct
  <2>1. at(j) \in DOMAIN stored /\ at(k) \in DOMAIN stored /\ stored[at(j)].id = stored[at(k)].id
    BY <1>3, <1>4, <1>5
  <2>2. at(j) = at(k) /\ at(j) \in Nat
    BY <1>1, <2>1 DEF Distinct
  <2> QED BY <1>4, <1>5, <2>2
<1>7. ASSUME NEW n \in DOMAIN stored, n < from PROVE stored[n].id \in IdsOf(new)
  <2>1. PICK k \in DOMAIN new : at(k) = n
    BY <1>3, <1>4, <1>5, <1>7
  <2> QED BY <1>4, <1>5, <2>1 DEF IdsOf
<1>8. ASSUME NEW a, NEW b, Precedes(stored, a, b), a \in IdsOf(new)
      PROVE  Precedes(new, a, b) \/ b \in AtOrAfter(stored, from)
  <2>1. PICK m \in DOMAIN stored, n \in DOMAIN stored : m < n /\ stored[m].id = a /\ stored[n].id = b
    BY <1>8 DEF Precedes
  <2>2. CASE n >= from
    BY <2>1, <2>2 DEF AtOrAfter
  <2>3. CASE n < from
    <3>1. PICK j \in DOMAIN new : at(j) = m
      <4>1. m < from
        BY <1>1, <2>1, <2>3
      <4> QED BY <1>3, <1>4, <1>5, <4>1
    <3>2. PICK k \in DOMAIN new : at(k) = n
      BY <1>3, <1>4, <1>5, <2>3
    <3>3. j < k /\ new[j].id = a /\ new[k].id = b
      BY <1>4, <1>5, <2>1, <3>1, <3>2
    <3> QED BY <3>3 DEF Precedes
  <2>4. n \in Nat
    BY <1>1
  <2> QED BY <2>2, <2>3, <2>4
<1> QED BY <1>2, <1>4, <1>6, <1>7, <1>8

LEMMA WindowRows ==
    ASSUME StoredInv, NEW n \in Nat
    PROVE  Window(n) \in Seq(Archived) /\ Distinct(Window(n))
<1> DEFINE first == IF n > Half THEN n - Half ELSE 1
           last == IF n + Half < Len(stored) THEN n + Half ELSE Len(stored)
           new == SubSeq(stored, first, last)
<1>1. /\ stored \in Seq(Archived) /\ Distinct(stored) /\ Len(stored) \in Nat
      /\ DOMAIN stored = 1 .. Len(stored) /\ \A k \in 1 .. Len(stored) : stored[k] \in Archived
  BY DEF StoredInv
<1>2. first \in Nat /\ first >= 1 /\ last \in Nat /\ last <= Len(stored)
  BY <1>1, Numbers
<1>3. Window(n) = new
  BY DEF Window
<1> HIDE DEF first, last
<1>4. \A k \in first .. last : k \in 1 .. Len(stored) /\ stored[k] \in Archived
  BY <1>1, <1>2
<1>5. /\ new \in Seq(Archived)
      /\ Len(new) = IF first <= last THEN last - first + 1 ELSE 0
      /\ \A k \in 1 .. last - first + 1 : new[k] = stored[first + k - 1]
  BY <1>2, <1>4, SubSeqProperties
<1> HIDE DEF new
<1>6. ASSUME NEW k \in DOMAIN new
      PROVE  first + k - 1 \in DOMAIN stored /\ new[k] = stored[first + k - 1]
  <2>1. k \in 1 .. last - first + 1
    BY <1>2, <1>5
  <2>2. first + k - 1 \in first .. last
    BY <1>2, <2>1
  <2> QED BY <1>1, <1>4, <1>5, <2>1, <2>2
<1>7. Distinct(new)
  <2> SUFFICES ASSUME NEW j \in DOMAIN new, NEW k \in DOMAIN new, new[j].id = new[k].id
               PROVE  j = k
    BY DEF Distinct
  <2>1. first + j - 1 = first + k - 1
    BY <1>1, <1>6 DEF Distinct
  <2>2. j \in Nat /\ k \in Nat
    BY <1>5
  <2> QED BY <1>2, <2>1, <2>2
<1> QED BY <1>3, <1>5, <1>7

LEMMA AnswerStep ==
    ASSUME IInv, NEW s \in Slots, handleMessages(s)
    PROVE  IInv'
<1>1. /\ UNCHANGED <<stored, send, wa, events, msgs, composer, gone, holes, loadingOlder, noMoreOlder>>
      /\ ask[s].st = "asked"
  BY DEF handleMessages
<1>2. SendsInv' /\ StoredInv' /\ ListInv' /\ EventsInv' /\ HolesInv' /\ TextInv' /\ FlagsInv'
  BY <1>1, DataFrame, Frame DEF IInv
<1>3. StoredInv /\ ask[s] \in [kind : Kinds, st : {"asked"}, from : 0 .. now]
  BY <1>1 DEF IInv, AsksInv, NoAsk, Answers
<1>4. stored \in Seq(Archived) /\ Distinct(stored) /\ Len(stored) \in Nat /\ Len(stored) >= Old /\ now \in Nat
  BY <1>3 DEF StoredInv, now
<1> DEFINE answer(rows, more) ==
               [kind |-> ask[s].kind, st |-> "answered", from |-> ask[s].from, late |-> FALSE,
                rows |-> rows, more |-> more]
<1>5. ASSUME NEW rows \in Seq(Archived), NEW more \in BOOLEAN
      PROVE  answer(rows, more) \in Answers
  BY <1>3, <1>4 DEF Answers
<1>6. CASE ask[s].kind = "load"
  <2> DEFINE rows == Newest(stored, LoadSize)
             more == Len(stored) > LoadSize
  <2>1. ask' = [ask EXCEPT ![s] = answer(rows, more)]
    BY <1>6 DEF handleMessages, Page
  <2>2. rows \in Seq(Archived) /\ Distinct(rows) /\ rows # <<>>
    <3>1. stored # <<>>
      BY <1>4, Numbers
    <3> QED BY <1>4, <3>1, Numbers, NewestKeeps
  <2>3. Follow(stored, IdsOf(rows), IdsOf(rows) \cup OnItsWay)
    <3>1. Follow(stored, IdsOf(rows), IdsOf(rows))
      BY <1>4, Numbers, NewestFollow
    <3> QED BY <3>1 DEF Follow
  <2>4. more \in BOOLEAN
    BY <1>4, Numbers
  <2> HIDE DEF rows, more
  <2>5. answer(rows, more) \in Answers /\ AnswerInv(answer(rows, more))
    BY <1>5, <1>6, <2>2, <2>3, <2>4 DEF AnswerInv
  <2> HIDE DEF answer
  <2> QED BY <1>1, <1>2, <2>1, <2>5, OneAsk DEF IInv
<1>7. CASE ask[s].kind = "older"
  <2> DEFINE from == ask[s].from
             old == Before(from)
             rows == Newest(old, OlderSize)
             more == Len(old) > OlderSize
  <2>1. ask' = [ask EXCEPT ![s] = answer(rows, more)]
    BY <1>7 DEF handleMessages, Page
  <2>2. from \in Nat
    BY <1>3
  <2> HIDE DEF from
  <2>3. /\ old \in Seq(Archived) /\ Distinct(old)
        /\ \A a, b : Precedes(stored, a, b) /\ a \in IdsOf(old) =>
              Precedes(old, a, b) \/ b \in AtOrAfter(stored, from)
    BY <1>3, <2>2, BeforeRows
  <2> HIDE DEF old
  <2>4. rows \in Seq(Archived) /\ Distinct(rows) /\ IdsOf(rows) \subseteq IdsOf(old)
    BY <2>3, Numbers, NewestKeeps
  <2>5. Follow(stored, IdsOf(rows), IdsOf(rows) \cup AtOrAfter(stored, from))
    <3>1. Follow(old, IdsOf(rows), IdsOf(rows))
      BY <2>3, Numbers, NewestFollow
    <3> QED BY <2>3, <2>4, <3>1 DEF Follow
  <2>6. more \in BOOLEAN
    BY <2>3, Numbers
  <2> HIDE DEF rows, more
  <2>7. answer(rows, more) \in Answers /\ AnswerInv(answer(rows, more))
    BY <1>5, <1>7, <2>4, <2>5, <2>6 DEF AnswerInv, from
  <2> HIDE DEF answer
  <2> QED BY <1>1, <1>2, <2>1, <2>7, OneAsk DEF IInv
<1>8. CASE ask[s].kind = "around"
  <2> DEFINE rows == Window(ask[s].from)
  <2>1. ask' = [ask EXCEPT ![s] = answer(rows, TRUE)]
    BY <1>8 DEF handleMessages
  <2>2. rows \in Seq(Archived) /\ Distinct(rows)
    BY <1>3, WindowRows
  <2> HIDE DEF rows
  <2>3. answer(rows, TRUE) \in Answers /\ AnswerInv(answer(rows, TRUE))
    BY <1>5, <1>8, <2>2 DEF AnswerInv
  <2> HIDE DEF answer
  <2> QED BY <1>1, <1>2, <2>1, <2>3, OneAsk DEF IInv
<1> QED BY <1>3, <1>6, <1>7, <1>8 DEF Kinds

\* The page of the newest rows: with what is still to come, unless that is older, it
\* reaches down to the newest.
LEMMA PageCovers ==
    ASSUME StoredInv, NEW rows \in Seq(Archived), rows # <<>>, Distinct(rows), ~Begins(rows),
           Follow(stored, IdsOf(rows), IdsOf(rows) \cup OnItsWay)
    PROVE  Follow(stored, IdsOf(rows) \cup OnItsWay, IdsOf(rows) \cup OnItsWay)
<1> SUFFICES ASSUME NEW a, NEW b, Precedes(stored, a, b), a \in OnItsWay, a \notin IdsOf(rows)
             PROVE  b \in IdsOf(rows) \cup OnItsWay
  BY DEF Follow
<1> DEFINE top == rows[1].id
<1>1. rows[1] \in Archived /\ 1 \in DOMAIN rows
  BY EmptySeq
<1>2. top \in IdsOf(stored) /\ top \in IdsOf(rows) /\ a \in IdsOf(stored) /\ a # top
  <2>1. top \in IdsOf(stored)
    BY <1>1 DEF Archived
  <2>2. top \in IdsOf(rows)
    BY <1>1 DEF IdsOf
  <2>3. a \in IdsOf(stored)
    BY DEF Precedes, IdsOf
  <2> QED BY <2>1, <2>2, <2>3
<1>3. ~Precedes(stored, a, top)
  BY DEF Begins
<1> HIDE DEF top
<1>4. stored \in Seq(Archived) /\ Distinct(stored)
  BY DEF StoredInv
<1>5. Precedes(stored, top, a)
  BY <1>2, <1>3, <1>4, Ordered
<1>6. Precedes(stored, top, b)
  BY <1>4, <1>5, Transitive
<1> QED BY <1>2, <1>6 DEF Follow

\* A page of older rows, put before a list that goes back to where it was asked for.
LEMMA OlderCovers ==
    ASSUME StoredInv, NEW P, NEW C, NEW from \in Nat, Follow(stored, P, P \cup AtOrAfter(stored, from)),
           Follow(stored, C, C), NEW n \in 1 .. from, n \in DOMAIN stored, stored[n].id \in C
    PROVE  Follow(stored, P \cup C, P \cup C)
<1>1. AtOrAfter(stored, from) \subseteq C
  <2> SUFFICES ASSUME NEW m \in DOMAIN stored, m >= from PROVE stored[m].id \in C
    BY DEF AtOrAfter
  <2>1. m = n \/ n < m
    BY DEF StoredInv
  <2>2. CASE n < m
    BY <2>2 DEF Precedes, Follow
  <2> QED BY <2>1, <2>2
<1> QED BY <1>1 DEF Follow

LEMMA PageStep ==
    ASSUME IInv, NEW s \in Slots, msgsMsg(s) \/ olderMsgsMsg(s) \/ aroundMsgsMsg(s)
    PROVE  IInv'
<1>1. /\ UNCHANGED <<stored, send, wa, events, composer, gone>>
      /\ ask' = [ask EXCEPT ![s] = NoAsk] /\ ask[s].st = "answered"
  BY DEF msgsMsg, olderMsgsMsg, aroundMsgsMsg
<1>2. /\ SendsInv' /\ StoredInv' /\ EventsInv' /\ TextInv' /\ OnItsWay' = OnItsWay /\ Listable' = Listable
      /\ StoredInv /\ ListInv /\ FlagsInv /\ HolesInv
  BY <1>1, DataFrame, Frame DEF IInv
<1>3. AsksInv'
  BY <1>1, OneAsk
<1> DEFINE page == ask[s].rows
<1>4. ask[s] \in Answers /\ AnswerInv(ask[s])
  BY <1>1 DEF IInv, AsksInv, NoAsk
<1>5. /\ page \in Seq(Archived) /\ Distinct(page) /\ page \in Seq(Listable)
      /\ ask[s].more \in BOOLEAN /\ ask[s].late \in BOOLEAN
  BY <1>2, <1>4, ArchivedListable, SeqGrows DEF Answers, AnswerInv
<1>6. FlagsInv'
  BY <1>2, <1>5, Zenon DEF FlagsInv, msgsMsg, olderMsgsMsg, aroundMsgsMsg
<1>7. ASSUME NEW rows \in Seq(Listable), Distinct(rows), NEW why, Show(rows, why)
      PROVE  ListInv'
  BY <1>2, <1>7, Numbers, NewestKeeps DEF ListInv, Show, boundCaches
<1>8. CASE msgsMsg(s)
  <2>1. Show(page, IF ask[s].late \/ Begins(page) THEN {"late page"} ELSE {})
    BY <1>8 DEF msgsMsg
  <2>2. ASSUME ~ask[s].late, ~Begins(page)
        PROVE  Follow(stored, IdsOf(page) \cup OnItsWay', IdsOf(page) \cup OnItsWay')
    <3>1. ask[s].kind = "load"
      BY <1>8 DEF msgsMsg
    <3>2. page # <<>> /\ Follow(stored, IdsOf(page), IdsOf(page) \cup OnItsWay)
      BY <1>4, <2>2, <3>1 DEF AnswerInv
    <3> QED BY <1>2, <1>5, <2>2, <3>2, PageCovers
  <2>3. HolesInv'
    <3> HIDE DEF page
    <3> QED BY <1>1, <1>5, <2>1, <2>2, ShowCovers
  <2>4. ListInv'
    BY <1>5, <1>7, <2>1
  <2> QED BY <1>2, <1>3, <1>6, <2>3, <2>4 DEF IInv
<1>9. CASE olderMsgsMsg(s)
  <2> DEFINE first == Without(page, IdsOf(msgs))
             rows == first \o msgs
             why == IF Reaches(ask[s].from) THEN holes ELSE holes \cup {"late page"}
  <2>1. Show(rows, why)
    BY <1>9 DEF olderMsgsMsg
  <2>2. first \in Seq(Listable) /\ Distinct(first) /\ IdsOf(first) = IdsOf(page) \ IdsOf(msgs)
    BY <1>5, WithoutKeeps
  <2>3. rows \in Seq(Listable) /\ Distinct(rows) /\ IdsOf(rows) = IdsOf(page) \cup IdsOf(msgs)
    <3> HIDE DEF first, page
    <3>1. msgs \in Seq(Listable) /\ Distinct(msgs) /\ IdsOf(first) \cap IdsOf(msgs) = {}
      BY <1>2, <2>2 DEF ListInv
    <3> QED BY <2>2, <3>1, ConcatKeeps
  <2>4. ASSUME why = {} PROVE Follow(stored, IdsOf(rows) \cup OnItsWay', IdsOf(rows) \cup OnItsWay')
    <3>1. holes = {} /\ Reaches(ask[s].from)
      BY <2>4
    <3>2. Follow(stored, Covered, Covered)
      BY <1>2, <3>1 DEF HolesInv
    <3>3. ask[s].kind = "older" /\ ask[s].from \in Nat
      <4>1. now \in Nat
        BY <1>2 DEF StoredInv, now
      <4>2. ask[s].kind = "older"
        BY <1>9 DEF olderMsgsMsg
      <4>3. ask[s].from \in 0 .. now
        BY <1>4 DEF Answers
      <4> QED BY <4>1, <4>2, <4>3
    <3>4. Follow(stored, IdsOf(page), IdsOf(page) \cup AtOrAfter(stored, ask[s].from))
      BY <1>4, <3>3 DEF AnswerInv
    <3>5. PICK n \in 1 .. ask[s].from : n \in DOMAIN stored /\ stored[n].id \in Covered
      BY <3>1 DEF Reaches, Covered
    <3>6. Follow(stored, IdsOf(page) \cup Covered, IdsOf(page) \cup Covered)
      BY <1>2, <3>2, <3>3, <3>4, <3>5, OlderCovers
    <3>7. IdsOf(rows) \cup OnItsWay' = IdsOf(page) \cup Covered
      BY <1>2, <2>3 DEF Covered
    <3> QED BY <3>6, <3>7
  <2> HIDE DEF rows, why
  <2>5. HolesInv'
    BY <1>1, <2>1, <2>3, <2>4, ShowCovers
  <2>6. ListInv'
    BY <1>7, <2>1, <2>3
  <2> QED BY <1>2, <1>3, <1>6, <2>5, <2>6 DEF IInv
<1>10. CASE aroundMsgsMsg(s)
  <2>1. Show(page, holes \cup {"window"})
    BY <1>10 DEF aroundMsgsMsg
  <2>2. holes' # {}
    BY <2>1 DEF Show
  <2>3. HolesInv'
    BY <2>2 DEF HolesInv
  <2>4. ListInv'
    BY <1>5, <1>7, <2>1
  <2> QED BY <1>2, <1>3, <1>6, <2>3, <2>4 DEF IInv
<1> QED BY <1>8, <1>9, <1>10

-----------------------------------------------------------------------------
(* The steps: events *)

LEMMA SendsStay ==
    ASSUME SendsInv, UNCHANGED <<send, wa>>, IdsOf(stored) \subseteq IdsOf(stored')
    PROVE  SendsInv' /\ Taken' = Taken /\ Answering' = Answering
<1>1. Taken' = Taken /\ Answering' = Answering
  BY DEF Taken, Answering, Real
<1>2. \A i \in Sends : Real(i)' = Real(i)
  BY DEF Real
<1> QED BY <1>1, <1>2 DEF SendsInv

LEMMA ListStays ==
    ASSUME StoredInv, ListInv, Grown(stored, stored'), Len(stored') \in Nat, Taken \subseteq Taken', UNCHANGED msgs,
           \A i \in Sends : send[i].tui = "waiting" => send'[i].tui = "waiting"
    PROVE  ListInv'
<1>1. ASSUME NEW r \in Listable PROVE r \in Listable'
  <2>1. r.pending => r.id \in Sends /\ send[r.id].tui = "waiting"
    BY DEF Listable
  <2> QED BY <2>1, ListableStays
<1>2. msgs \in Seq(Listable')
  BY <1>1, SeqGrows DEF ListInv
<1> QED BY <1>2 DEF ListInv

\* The event brings what is new in the archive, or says that it is lost.
LEMMA PushStep ==
    ASSUME StoredInv, EventsInv, AsksInv, HolesInv, Grown(stored, stored'), Len(stored') \in Nat,
           UNCHANGED msgs, Taken' = Taken, Answering' = Answering, NEW e, Push(e),
           \/ /\ e \in [type : {"message"}, row : Archived'] /\ e.row.id \notin IdsOf(stored)
              /\ IdsOf(stored') \subseteq IdsOf(stored) \cup {e.row.id}
           \/ /\ e \in [type : {"receipt"}, ids : SUBSET Taken, status : Ours]
              /\ IdsOf(stored') \subseteq IdsOf(stored)
    PROVE  EventsInv' /\ AsksInv' /\ HolesInv'
<1> DEFINE S == [type : {"message"}, row : Archived] \cup [type : {"receipt"}, ids : SUBSET Taken, status : Ours]
           T == [type : {"message"}, row : Archived'] \cup [type : {"receipt"}, ids : SUBSET Taken, status : Ours]
<1>1. events \in Seq(S)
  BY DEF EventsInv
<1>2. S \subseteq T /\ e \in T
  BY ArchivedGrows
<1> HIDE DEF S, T
<1>3. events \in Seq(T)
  BY <1>1, <1>2, SeqGrows
<1>4. CASE events' = Append(events, e) /\ UNCHANGED <<holes, ask>>
  <2>1. events' \in Seq(T)
    BY <1>2, <1>3, <1>4, AppendProperties
  <2>2. Arriving' = Arriving \cup IF e.type = "message" THEN {e.row.id} ELSE {}
    BY <1>3, <1>4, QueueGrows
  <2>3. EventsInv'
    BY <2>1 DEF EventsInv, T
  <2>4. /\ OnItsWay \subseteq OnItsWay' /\ IdsOf(stored') \ IdsOf(stored) \subseteq OnItsWay'
        /\ OnItsWay' \cap IdsOf(stored) \subseteq OnItsWay
    BY <2>2 DEF OnItsWay
  <2>5. AsksInv'
    BY <1>4, <2>4, AsksGrow
  <2>6. /\ Covered \subseteq Covered' /\ Covered' \cap IdsOf(stored) \subseteq Covered
        /\ IdsOf(stored') \ IdsOf(stored) \subseteq Covered'
    BY <2>4 DEF Covered
  <2>7. HolesInv'
    BY <1>4, <2>6, CoverStays
  <2> QED BY <2>3, <2>5, <2>7
<1>5. CASE events' = events /\ Unshown("lost event")
  <2>1. EventsInv'
    BY <1>3, <1>5 DEF EventsInv, T
  <2>2. AsksInv'
    BY <1>5, AsksGrow DEF Unshown
  <2>3. HolesInv'
    BY <1>5 DEF Unshown, HolesInv
  <2> QED BY <2>1, <2>2, <2>3
<1> QED BY <1>4, <1>5 DEF Push

\* A message arrives: another's, or WhatsApp's own copy of one of ours.
LEMMA ArriveStep ==
    ASSUME IInv, NEW id \in 1 .. Old \cup Sends \cup {Fallback(i) : i \in Sends} \cup News,
           NEW receipt \in {"none", "sent"}, id \notin IdsOf(stored), id \in News \cup Taken,
           stored' = Upserted(Row(id, now, receipt)), Push(Message(Row(id, now, receipt))),
           UNCHANGED <<msgs, loadingOlder, noMoreOlder, send, wa, composer, gone>>
    PROVE  IInv'
<1> DEFINE row == Row(id, now, receipt)
<1>1. SendsInv /\ StoredInv /\ ListInv /\ EventsInv /\ AsksInv /\ HolesInv /\ TextInv /\ FlagsInv
  BY DEF IInv
<1>2. row \in Rows /\ row.id = id /\ row.at = now /\ ~row.pending
  <2>1. now \in 1 .. now
    BY <1>1 DEF StoredInv, now
  <2> QED BY <1>1, <2>1, RowTyped
<1>3. Taken' = Taken
  BY DEF Taken, Real
<1> HIDE DEF row
<1>4. /\ StoredInv' /\ Grown(stored, stored') /\ Len(stored') \in Nat
      /\ IdsOf(stored') = IdsOf(stored) \cup {id} /\ row \in Archived'
  BY <1>1, <1>2, <1>3, StoredGrows DEF row
<1>5. SendsInv' /\ Answering' = Answering
  BY <1>1, <1>4, SendsStay
<1>6. ListInv'
  BY <1>1, <1>3, <1>4, ListStays
<1>7. /\ Push(Message(row)) /\ Message(row) \in [type : {"message"}, row : Archived']
      /\ Message(row).row.id = id
  BY <1>2, <1>4 DEF Message, row
<1>8. EventsInv' /\ AsksInv' /\ HolesInv'
  <2> HIDE DEF Message
  <2> QED BY <1>1, <1>3, <1>4, <1>5, <1>7, PushStep
<1>9. TextInv' /\ FlagsInv'
  BY <1>1 DEF TextInv, FlagsInv, composer
<1> QED BY <1>4, <1>5, <1>6, <1>8, <1>9 DEF IInv

LEMMA MessageStep ==
    ASSUME IInv, \/ \E n \in News : ReceiveMessage(n)
                 \/ \E i \in Sends : Echo(i)
    PROVE  IInv'
<1>1. ASSUME NEW n \in News, ReceiveMessage(n) PROVE IInv'
  BY <1>1, ArriveStep DEF ReceiveMessage
<1>2. ASSUME NEW i \in Sends, Echo(i) PROVE IInv'
  <2>1. Real(i) \in Taken
    BY <1>2 DEF Echo, Taken
  <2>2. Real(i) \in 1 .. Old \cup Sends \cup {Fallback(j) : j \in Sends} \cup News
    BY RealTyped DEF IInv
  <2>3. PICK id : id = Real(i)
    OBVIOUS
  <2>4. /\ stored' = Upserted(Row(id, now, "sent")) /\ Push(Message(Row(id, now, "sent")))
        /\ UNCHANGED <<msgs, loadingOlder, noMoreOlder, send, wa, composer, gone>>
        /\ id \notin IdsOf(stored)
    BY <1>2, <2>3 DEF Echo
  <2> QED BY <2>1, <2>2, <2>3, <2>4, ArriveStep
<1> QED BY <1>1, <1>2

LEMMA ReceiptStep == ASSUME IInv, ReceiveReceipt PROVE IInv'
<1>1. SendsInv /\ StoredInv /\ ListInv /\ EventsInv /\ AsksInv /\ HolesInv /\ TextInv /\ FlagsInv
  BY DEF IInv
<1>2. PICK ids \in SUBSET {Real(i) : i \in wa}, status \in Statuses :
         LET raised == {id \in ids : \E n \in DOMAIN stored :
                           stored[n].id = id /\ receiptStatusRank(stored[n].receipt) < receiptStatusRank(status)}
         IN /\ raised # {}
            /\ stored' = [n \in DOMAIN stored |->
                  IF stored[n].id \in raised THEN [stored[n] EXCEPT !.receipt = status] ELSE stored[n]]
            /\ Push(Receipt(ids, status))
  BY DEF ReceiveReceipt
<1>3. status \in Ours
  <2>1. PICK n \in DOMAIN stored : receiptStatusRank(stored[n].receipt) < receiptStatusRank(status)
    BY <1>2
  <2>2. \A r : receiptStatusRank(r) \in 0 .. 3 /\ (receiptStatusRank(r) # 0 => r \in Ours)
    BY DEF receiptStatusRank, Ours
  <2>3. receiptStatusRank(status) # 0
    BY <2>1, <2>2
  <2> QED BY <2>2, <2>3
<1>4. UNCHANGED <<msgs, loadingOlder, noMoreOlder, send, wa, composer, gone>>
  BY DEF ReceiveReceipt
<1>5. /\ stored \in Seq(Archived) /\ Len(stored) \in Nat /\ DOMAIN stored = 1 .. Len(stored)
      /\ \A n \in DOMAIN stored : stored[n] \in Archived
  BY <1>1 DEF StoredInv
<1>6. PICK raised : stored' = [n \in DOMAIN stored |->
         IF stored[n].id \in raised THEN [stored[n] EXCEPT !.receipt = status] ELSE stored[n]]
  BY <1>2
<1>7. ASSUME NEW n \in DOMAIN stored
      PROVE  /\ stored'[n] \in Rows /\ stored'[n].id = stored[n].id /\ stored'[n].at = stored[n].at
             /\ ~stored'[n].pending
  <2>1. stored[n] \in Rows /\ ~stored[n].pending
    BY <1>5 DEF Archived
  <2> QED BY <1>3, <1>6, <2>1 DEF Rows, Ours
<1>8. DOMAIN stored' = DOMAIN stored /\ Len(stored') = Len(stored)
  BY <1>5, <1>6
<1>9. Grown(stored, stored') /\ IdsOf(stored') = IdsOf(stored) /\ Distinct(stored')
  BY <1>1, <1>5, <1>7, <1>8, SameIds DEF StoredInv
<1>10. SendsInv' /\ Taken' = Taken /\ Answering' = Answering
  BY <1>1, <1>4, <1>9, SendsStay
<1>11. StoredInv'
  <2>1. \A n \in DOMAIN stored : stored'[n] \in Archived'
    BY <1>5, <1>7, <1>8, <1>9 DEF Archived
  <2>2. stored' = [n \in 1 .. Len(stored) |-> stored'[n]]
    BY <1>5, <1>6
  <2>3. [n \in 1 .. Len(stored) |-> stored'[n]] \in Seq(Archived')
    BY <1>5, <2>1
  <2> QED BY <1>1, <1>7, <1>8, <1>9, <1>10, <2>2, <2>3 DEF StoredInv
<1>12. ListInv'
  BY <1>1, <1>4, <1>5, <1>8, <1>9, <1>10, ListStays
<1>13. /\ Push(Receipt(ids, status))
       /\ Receipt(ids, status) \in [type : {"receipt"}, ids : SUBSET Taken, status : Ours]
  BY <1>2, <1>3 DEF Receipt, Taken
<1>14. EventsInv' /\ AsksInv' /\ HolesInv'
  <2> HIDE DEF Receipt
  <2> QED BY <1>1, <1>4, <1>5, <1>8, <1>9, <1>10, <1>13, PushStep
<1>15. TextInv' /\ FlagsInv'
  BY <1>1, <1>4 DEF TextInv, FlagsInv, composer
<1> QED BY <1>10, <1>11, <1>12, <1>14, <1>15 DEF IInv

\* What an event makes of the list.
LEMMA EventRows ==
    ASSUME ListInv, SendsInv, StoredInv, NEW r \in Archived, NEW rows \in withMessage(r)
    PROVE  rows \in Seq(Listable) /\ Distinct(rows) /\ IdsOf(rows) = IdsOf(msgs) \cup {r.id}
<1>1. msgs \in Seq(Listable) /\ Distinct(msgs) /\ r \in Listable
  BY ArchivedListable DEF ListInv
<1>2. CASE r.id \in IdsOf(msgs) /\ pendingPlaceholder(msgs, r.id)
  <2>1. rows = Put(msgs, r.id, r)
    BY <1>2 DEF withMessage
  <2>2. \A n \in DOMAIN msgs : msgs[n].id # r.id => msgs[n] \in Listable
    BY <1>1
  <2> QED BY <1>1, <1>2, <2>1, <2>2, PutKeeps
<1>3. CASE r.id \in IdsOf(msgs) /\ ~pendingPlaceholder(msgs, r.id)
  <2>1. rows = msgs
    BY <1>3 DEF withMessage
  <2> QED BY <1>1, <1>3, <2>1
<1>4. CASE r.id \notin IdsOf(msgs)
  <2>1. rows \in byTime(Append(msgs, r))
    BY <1>4 DEF withMessage
  <2>2. /\ Append(msgs, r) \in Seq(Listable) /\ Distinct(Append(msgs, r))
        /\ IdsOf(Append(msgs, r)) = IdsOf(msgs) \cup {r.id}
    BY <1>1, <1>4, AppendKeeps
  <2> QED BY <2>1, <2>2, SortKeeps
<1> QED BY <1>2, <1>3, <1>4

LEMMA ReceiptRows ==
    ASSUME ListInv, NEW ids \in SUBSET Taken, NEW status \in Ours
    PROVE  /\ withReceipt(ids, status) \in Seq(Listable) /\ Distinct(withReceipt(ids, status))
           /\ IdsOf(withReceipt(ids, status)) = IdsOf(msgs)
<1> DEFINE new == withReceipt(ids, status)
<1>1. msgs \in Seq(Listable) /\ Distinct(msgs) /\ Len(msgs) \in Nat /\ DOMAIN msgs = 1 .. Len(msgs)
  BY DEF ListInv
<1>2. new = [n \in 1 .. Len(msgs) |-> IF msgs[n].id \in ids
               THEN [msgs[n] EXCEPT !.receipt = status, !.pending = FALSE] ELSE msgs[n]]
  BY <1>1 DEF withReceipt
<1> HIDE DEF new
<1>3. ASSUME NEW n \in 1 .. Len(msgs) PROVE new[n] \in Listable /\ new[n].id = msgs[n].id
  <2>1. msgs[n] \in Listable /\ msgs[n] \in Rows
    BY <1>1 DEF Listable
  <2>2. CASE msgs[n].id \in ids
    <3>1. /\ new[n] \in Rows /\ new[n].id = msgs[n].id /\ new[n].at = msgs[n].at /\ ~new[n].pending
      BY <1>2, <2>1, <2>2 DEF Rows, Ours
    <3> QED BY <2>1, <2>2, <3>1 DEF Listable
  <2>3. CASE msgs[n].id \notin ids
    BY <1>2, <2>1, <2>3
  <2> QED BY <2>2, <2>3
<1>4. new \in Seq(Listable) /\ DOMAIN new = DOMAIN msgs /\ Len(new) = Len(msgs)
  <2>1. new = [n \in 1 .. Len(msgs) |-> new[n]]
    BY <1>2
  <2>2. [n \in 1 .. Len(msgs) |-> new[n]] \in Seq(Listable)
    BY <1>1, <1>3
  <2> QED BY <1>1, <2>1, <2>2
<1>5. Distinct(new) /\ IdsOf(new) = IdsOf(msgs)
  BY <1>1, <1>3, <1>4, SameIds
<1> QED BY <1>4, <1>5 DEF new

LEMMA EventStep == ASSUME IInv, handleWSEvent PROVE IInv'
<1>1. SendsInv /\ StoredInv /\ ListInv /\ EventsInv /\ AsksInv /\ HolesInv /\ TextInv /\ FlagsInv
  BY DEF IInv
<1>2. /\ UNCHANGED <<stored, loadingOlder, noMoreOlder, send, wa, composer, gone>>
      /\ events # <<>> /\ events' = Tail(events) /\ ask' = Outdated
  BY DEF handleWSEvent
<1>3. /\ SendsInv' /\ StoredInv' /\ Grown(stored, stored') /\ Len(stored') \in Nat
      /\ Taken' = Taken /\ Archived' = Archived /\ Listable' = Listable /\ Answering' = Answering
      /\ TextInv' /\ FlagsInv'
  BY <1>1, <1>2, DataFrame, Frame
<1> DEFINE S == [type : {"message"}, row : Archived] \cup [type : {"receipt"}, ids : SUBSET Taken, status : Ours]
           e == Head(events)
<1>4. events \in Seq(S)
  BY <1>1 DEF EventsInv
<1>5. /\ events' \in Seq(S) /\ e \in S /\ Arriving' \subseteq Arriving
      /\ e.type = "message" => e.row.id \in Arriving
      /\ \A id \in Arriving \ Arriving' : e.type = "message" /\ id = e.row.id
  <2> HIDE DEF S, e
  <2> QED BY <1>2, <1>4, QueueShrinks DEF e
<1>6. EventsInv'
  BY <1>3, <1>5 DEF EventsInv
<1>7. AsksInv'
  BY <1>1, <1>2, <1>3, AsksGrow
<1>8. PICK rows \in IF e.type = "message" THEN withMessage(e.row) ELSE {withReceipt(e.ids, e.status)} :
         Show(rows, holes)
  BY DEF handleWSEvent
<1> HIDE DEF e
<1>9. /\ rows \in Seq(Listable) /\ Distinct(rows)
      /\ IdsOf(rows) = IdsOf(msgs) \cup IF e.type = "message" THEN {e.row.id} ELSE {}
  <2>1. CASE e.type = "message"
    <3>1. e.row \in Archived
      BY <1>5, <2>1
    <3> QED BY <1>1, <1>8, <2>1, <3>1, EventRows
  <2>2. CASE e.type # "message"
    <3>1. e.ids \in SUBSET Taken /\ e.status \in Ours
      BY <1>5, <2>2
    <3> QED BY <1>1, <1>8, <2>2, <3>1, ReceiptRows
  <2> QED BY <2>1, <2>2
<1>10. IdsOf(rows) \cup OnItsWay' = Covered
  BY <1>3, <1>5, <1>9 DEF Covered, OnItsWay
<1>11. HolesInv'
  <2>1. holes = {} => Follow(stored, Covered, Covered)
    BY <1>1 DEF HolesInv
  <2> QED BY <1>2, <1>8, <1>9, <1>10, <2>1, ShowCovers
<1>12. ListInv'
  BY <1>3, <1>8, <1>9, Numbers, NewestKeeps DEF ListInv, Show, boundCaches
<1> QED BY <1>3, <1>6, <1>7, <1>11, <1>12 DEF IInv

-----------------------------------------------------------------------------
(* The steps: a send *)

\* What the backend and the TUI do about one send leaves the others alone.
LEMMA OneSend ==
    ASSUME SendsInv, NEW i \in Sends,
           NEW job \in {"none", "asked", "taken", "failed", "stored"},
           NEW tui \in {"none", "waiting", "over"},
           send' = [send EXCEPT ![i] = [id |-> send[i].id, file |-> send[i].file, job |-> job, tui |-> tui]]
    PROVE  /\ send' \in [Sends -> [id : Nat, file : BOOLEAN, job : {"none", "asked", "taken", "failed", "stored"},
                                   tui : {"none", "waiting", "over"}]]
           /\ send'[i].job = job /\ send'[i].tui = tui /\ send'[i].file = send[i].file
           /\ \A j \in Sends : j # i => send'[j] = send[j]
           /\ \A j \in Sends : Real(j)' = Real(j)
<1>1. send[i].id \in Nat /\ send[i].file \in BOOLEAN
  BY DEF SendsInv
<1>2. /\ DOMAIN send = Sends
      /\ send'[i] = [id |-> send[i].id, file |-> send[i].file, job |-> job, tui |-> tui]
      /\ \A j \in Sends : j # i => send'[j] = send[j]
  BY DEF SendsInv
<1>3. send' \in [Sends -> [id : Nat, file : BOOLEAN, job : {"none", "asked", "taken", "failed", "stored"},
                          tui : {"none", "waiting", "over"}]]
  BY <1>1 DEF SendsInv
<1>4. \A j \in Sends : Real(j)' = Real(j)
  BY <1>2 DEF Real
<1> QED BY <1>2, <1>3, <1>4

\* EXCEPT on a field of a send.
LEMMA JobOf ==
    ASSUME SendsInv, NEW i \in Sends, NEW x
    PROVE  /\ [send EXCEPT ![i].job = x] =
                 [send EXCEPT ![i] = [id |-> send[i].id, file |-> send[i].file, job |-> x, tui |-> send[i].tui]]
           /\ [send EXCEPT ![i].tui = x] =
                 [send EXCEPT ![i] = [id |-> send[i].id, file |-> send[i].file, job |-> send[i].job, tui |-> x]]
<1>1. send[i] \in [id : Nat, file : BOOLEAN, job : {"none", "asked", "taken", "failed", "stored"},
                  tui : {"none", "waiting", "over"}]
  BY DEF SendsInv
<1>2. [send[i] EXCEPT !.job = x] = [id |-> send[i].id, file |-> send[i].file, job |-> x, tui |-> send[i].tui]
  BY <1>1
<1>3. [send[i] EXCEPT !.tui = x] = [id |-> send[i].id, file |-> send[i].file, job |-> send[i].job, tui |-> x]
  BY <1>1
<1> QED BY <1>2, <1>3

LEMMA AnswerWhatsApp ==
    ASSUME IInv, NEW i \in Sends, Accept(i) \/ Refuse(i)
    PROVE  IInv'
<1>1. SendsInv /\ StoredInv /\ ListInv /\ EventsInv /\ AsksInv /\ HolesInv /\ TextInv /\ FlagsInv
  BY DEF IInv
<1>2. /\ UNCHANGED <<stored, msgs, loadingOlder, noMoreOlder, ask, events, composer, gone, holes>>
      /\ send[i].job = "asked" /\ wa' \in {wa, wa \cup {i}}
      /\ \E job \in {"taken", "failed"} : send' = [send EXCEPT ![i].job = job] /\ (job = "taken" => i \in wa')
  <2>1. CASE Accept(i)
    BY <2>1 DEF Accept
  <2>2. CASE Refuse(i)
    BY <2>2 DEF Refuse
  <2> QED BY <2>1, <2>2
<1>3. PICK job \in {"taken", "failed"} :
         /\ send' = [send EXCEPT ![i] = [id |-> send[i].id, file |-> send[i].file, job |-> job, tui |-> send[i].tui]]
         /\ job = "taken" => i \in wa'
  BY <1>1, <1>2, JobOf
<1>4. send[i].tui \in {"none", "waiting", "over"} /\ send[i].tui # "none"
  BY <1>1, <1>2 DEF SendsInv
<1>5. /\ send' \in [Sends -> [id : Nat, file : BOOLEAN, job : {"none", "asked", "taken", "failed", "stored"},
                              tui : {"none", "waiting", "over"}]]
      /\ send'[i].job = job /\ send'[i].tui = send[i].tui /\ send'[i].file = send[i].file
      /\ \A j \in Sends : j # i => send'[j] = send[j]
      /\ \A j \in Sends : Real(j)' = Real(j)
  BY <1>1, <1>3, <1>4, OneSend
<1>6. wa \subseteq wa' /\ wa' \subseteq wa \cup {i} /\ wa' \subseteq Sends
  BY <1>1, <1>2 DEF SendsInv
<1>7. Taken \subseteq Taken'
  BY <1>1, <1>5, <1>6 DEF Taken, SendsInv
<1>8. Answering' = Answering
  BY <1>5 DEF Answering
<1>9. SendsInv'
  <2>1. \A j \in Sends : Real(j)' \in {j, Fallback(j)} /\ (Real(j)' \in IdsOf(stored') <=> Real(j) \in IdsOf(stored))
    BY <1>1, <1>2, <1>5 DEF SendsInv
  <2>2. \A j \in Sends :
           /\ send'[j].tui = "none" => send'[j].job = "none"
           /\ j \in wa' => send'[j].job \notin {"none", "asked"}
           /\ send'[j].job \in {"taken", "stored"} => j \in wa'
           /\ send'[j].job = "stored" => Real(j)' \in IdsOf(stored')
    <3> SUFFICES ASSUME NEW j \in Sends
                 PROVE  /\ send'[j].tui = "none" => send'[j].job = "none"
                        /\ j \in wa' => send'[j].job \notin {"none", "asked"}
                        /\ send'[j].job \in {"taken", "stored"} => j \in wa'
                        /\ send'[j].job = "stored" => Real(j)' \in IdsOf(stored')
      OBVIOUS
    <3>1. CASE j = i
      BY <1>3, <1>4, <1>5, <3>1
    <3>2. CASE j # i
      BY <1>1, <1>5, <1>6, <2>1, <3>2 DEF SendsInv
    <3> QED BY <3>1, <3>2
  <2> QED BY <1>5, <1>6, <2>1, <2>2 DEF SendsInv
<1>10. Grown(stored, stored') /\ Len(stored') \in Nat /\ Archived' = Archived
  BY <1>1, <1>2, SameIds DEF StoredInv, Archived
<1>11. StoredInv'
  BY <1>1, <1>2, <1>7, <1>10 DEF StoredInv
<1>12. ListInv'
  <2>1. \A j \in Sends : send[j].tui = "waiting" => send'[j].tui = "waiting"
    BY <1>5
  <2> QED BY <1>1, <1>2, <1>7, <1>10, <2>1, ListStays
<1>13. EventsInv'
  <2> DEFINE S == [type : {"message"}, row : Archived] \cup [type : {"receipt"}, ids : SUBSET Taken, status : Ours]
             T == [type : {"message"}, row : Archived] \cup [type : {"receipt"}, ids : SUBSET Taken', status : Ours]
  <2>1. S \subseteq T
    BY <1>7
  <2> HIDE DEF S, T
  <2>2. events \in Seq(T)
    BY <1>1, <2>1, SeqGrows DEF EventsInv, S
  <2> QED BY <1>2, <1>10, <2>2 DEF EventsInv, T
<1>14. OnItsWay' = OnItsWay
  BY <1>2, <1>8 DEF OnItsWay, Arriving
<1>15. AsksInv'
  BY <1>1, <1>2, <1>10, <1>14, AsksGrow
<1>16. HolesInv'
  BY <1>1, <1>2, <1>14 DEF HolesInv, Covered
<1>17. TextInv'
  <2>1. \A j \in Sends : send'[j].tui = send[j].tui /\ send'[j].file = send[j].file
    BY <1>5
  <2> QED BY <1>1, <1>2, <1>6, <2>1 DEF TextInv, composer
<1>18. FlagsInv'
  BY <1>1, <1>2 DEF FlagsInv
<1> QED BY <1>9, <1>11, <1>12, <1>13, <1>15, <1>16, <1>17, <1>18 DEF IInv

LEMMA StoreStep ==
    ASSUME IInv, NEW i \in Sends, StoreSent(i)
    PROVE  IInv'
<1>1. SendsInv /\ StoredInv /\ ListInv /\ EventsInv /\ AsksInv /\ HolesInv /\ TextInv /\ FlagsInv
  BY DEF IInv
<1>2. /\ UNCHANGED <<msgs, loadingOlder, noMoreOlder, events, wa, composer, gone>>
      /\ send[i].job = "taken" /\ send' = [send EXCEPT ![i].job = "stored"]
      /\ stored' = Upserted(Row(Real(i), now, "sent"))
      /\ IF send[i].tui = "over" THEN Unshown("timeout") ELSE UNCHANGED <<holes, ask>>
  BY DEF StoreSent
<1>3. send' = [send EXCEPT ![i] = [id |-> send[i].id, file |-> send[i].file, job |-> "stored", tui |-> send[i].tui]]
  BY <1>1, <1>2, JobOf
<1>4. send[i].tui \in {"waiting", "over"} /\ i \in wa
  BY <1>1, <1>2 DEF SendsInv
<1>5. /\ send' \in [Sends -> [id : Nat, file : BOOLEAN, job : {"none", "asked", "taken", "failed", "stored"},
                              tui : {"none", "waiting", "over"}]]
      /\ send'[i].job = "stored" /\ send'[i].tui = send[i].tui /\ send'[i].file = send[i].file
      /\ \A j \in Sends : j # i => send'[j] = send[j]
      /\ \A j \in Sends : Real(j)' = Real(j)
  BY <1>1, <1>3, <1>4, OneSend
<1>6. Taken' = Taken /\ Answering' = Answering
  BY <1>1, <1>2, <1>5 DEF Taken, Answering, SendsInv
<1>7. PICK row : row = Row(Real(i), now, "sent")
  OBVIOUS
<1>8. row \in Rows /\ row.id = Real(i) /\ row.at = now /\ ~row.pending
  <2>1. now \in 1 .. now
    BY <1>1 DEF StoredInv, now
  <2> QED BY <1>1, <1>7, <2>1, RowTyped, RealTyped
<1>9. row.id \in Taken
  BY <1>4, <1>8 DEF Taken
<1>10. /\ StoredInv' /\ Grown(stored, stored') /\ Len(stored') \in Nat
       /\ IdsOf(stored') = IdsOf(stored) \cup {Real(i)}
  BY <1>1, <1>2, <1>6, <1>7, <1>8, <1>9, StoredGrows
<1>11. SendsInv'
  <2>1. \A j \in Sends : Real(j)' \in {j, Fallback(j)} /\ (Real(j) \in IdsOf(stored) => Real(j)' \in IdsOf(stored'))
    BY <1>1, <1>5, <1>10 DEF SendsInv
  <2>2. Real(i)' \in IdsOf(stored')
    BY <1>5, <1>10
  <2>3. \A j \in Sends :
           /\ send'[j].tui = "none" => send'[j].job = "none"
           /\ j \in wa' => send'[j].job \notin {"none", "asked"}
           /\ send'[j].job \in {"taken", "stored"} => j \in wa'
           /\ send'[j].job = "stored" => Real(j)' \in IdsOf(stored')
    <3> SUFFICES ASSUME NEW j \in Sends
                 PROVE  /\ send'[j].tui = "none" => send'[j].job = "none"
                        /\ j \in wa' => send'[j].job \notin {"none", "asked"}
                        /\ send'[j].job \in {"taken", "stored"} => j \in wa'
                        /\ send'[j].job = "stored" => Real(j)' \in IdsOf(stored')
      OBVIOUS
    <3>1. CASE j = i
      BY <1>2, <1>4, <1>5, <2>2, <3>1
    <3>2. CASE j # i
      BY <1>1, <1>2, <1>5, <2>1, <3>2 DEF SendsInv
    <3> QED BY <3>1, <3>2
  <2> QED BY <1>1, <1>2, <1>5, <2>1, <2>3 DEF SendsInv
<1>12. ListInv'
  <2>1. \A j \in Sends : send[j].tui = "waiting" => send'[j].tui = "waiting"
    BY <1>5
  <2> QED BY <1>1, <1>2, <1>6, <1>10, <2>1, ListStays
<1>13. EventsInv'
  <2> DEFINE S == [type : {"message"}, row : Archived] \cup [type : {"receipt"}, ids : SUBSET Taken, status : Ours]
             T == [type : {"message"}, row : Archived'] \cup [type : {"receipt"}, ids : SUBSET Taken, status : Ours]
  <2>1. S \subseteq T
    BY <1>1, <1>10, ArchivedGrows
  <2> HIDE DEF S, T
  <2>2. events \in Seq(T)
    BY <1>1, <2>1, SeqGrows DEF EventsInv, S
  <2> QED BY <1>2, <1>6, <2>2 DEF EventsInv, T
<1>14. OnItsWay' = OnItsWay
  BY <1>2, <1>6 DEF OnItsWay, Arriving
<1>15. AsksInv' /\ HolesInv'
  <2>1. CASE send[i].tui = "over"
    <3>1. ask' = Outdated /\ holes' # {}
      BY <1>2, <2>1 DEF Unshown
    <3> QED BY <1>1, <1>10, <3>1, AsksGrow DEF HolesInv
  <2>2. CASE send[i].tui = "waiting"
    <3>1. ask' = ask /\ holes' = holes
      BY <1>2, <2>2
    <3>2. Real(i) \in OnItsWay
      BY <2>2 DEF OnItsWay, Answering
    <3>3. IdsOf(stored') \ IdsOf(stored) \subseteq OnItsWay'
      BY <1>10, <1>14, <3>2
    <3>4. Covered' = Covered /\ OnItsWay' \subseteq Covered'
      BY <1>2, <1>14 DEF Covered
    <3>5. AsksInv'
      BY <1>1, <1>10, <1>14, <3>1, <3>3, AsksGrow
    <3>6. HolesInv'
      BY <1>1, <1>10, <3>1, <3>3, <3>4, CoverStays
    <3> QED BY <3>5, <3>6
  <2> QED BY <1>4, <2>1, <2>2
<1>16. TextInv'
  <2>1. \A j \in Sends : send'[j].tui = send[j].tui /\ send'[j].file = send[j].file
    BY <1>5
  <2> QED BY <1>1, <1>2, <2>1 DEF TextInv, composer
<1>17. FlagsInv'
  BY <1>1, <1>2 DEF FlagsInv
<1> QED BY <1>10, <1>11, <1>12, <1>13, <1>15, <1>16, <1>17 DEF IInv

\* An ID that the archive has or WhatsApp took, and that a send chose, is its real one.
LEMMA ChosenIsReal ==
    ASSUME SendsInv, StoredInv, NEW i \in Sends, i \in IdsOf(stored) \cup Taken
    PROVE  i \in wa /\ Real(i) = i
<1>1. i \in Taken
  BY Numbers DEF StoredInv
<1> QED BY <1>1, RealOnce

\* Rows that do not wait for this send.
Others(i) == {r \in Listable : r.pending => r.id # i}

\* The answer of a send takes the place of its placeholder.
LEMMA AnsweredRows ==
    ASSUME SendsInv, StoredInv, ListInv, NEW i \in Sends, NEW sent \in Archived, sent.id = Real(i)
    PROVE  /\ applySentMessage(i, sent) \in Seq(Others(i)) /\ Distinct(applySentMessage(i, sent))
           /\ IdsOf(applySentMessage(i, sent)) \subseteq IdsOf(msgs) \cup {Real(i)}
           /\ IdsOf(msgs) \ {i} \subseteq IdsOf(applySentMessage(i, sent))
           /\ Real(i) \in IdsOf(applySentMessage(i, sent))
<1> DEFINE rows == applySentMessage(i, sent)
<1>1. msgs \in Seq(Listable) /\ Distinct(msgs) /\ \A n \in DOMAIN msgs : msgs[n] \in Listable
  BY DEF ListInv
<1>2. sent \in Others(i) /\ sent \in Listable
  BY ArchivedListable DEF Others, Archived
<1>3. \A n \in DOMAIN msgs : msgs[n].id # i => msgs[n] \in Others(i)
  BY <1>1 DEF Others
<1>4. ASSUME ~pendingPlaceholder(msgs, i) PROVE msgs \in Seq(Others(i))
  <2>1. \A n \in DOMAIN msgs : msgs[n] \in Others(i)
    BY <1>1, <1>4 DEF Others, pendingPlaceholder
  <2>2. /\ msgs = [n \in 1 .. Len(msgs) |-> msgs[n]] /\ DOMAIN msgs = 1 .. Len(msgs) /\ Len(msgs) \in Nat
    BY <1>1
  <2>3. [n \in 1 .. Len(msgs) |-> msgs[n]] \in Seq(Others(i))
    BY <2>1, <2>2
  <2> QED BY <2>2, <2>3
<1>5. ASSUME i \in IdsOf(msgs), ~pendingPlaceholder(msgs, i) PROVE Real(i) = i
  <2>1. PICK n \in DOMAIN msgs : msgs[n].id = i
    BY <1>5 DEF IdsOf
  <2>2. i \in IdsOf(stored) \cup Taken
    BY <1>1, <1>5, <2>1 DEF Listable, pendingPlaceholder
  <2> QED BY <2>2, ChosenIsReal
<1>6. CASE i \in IdsOf(msgs) /\ pendingPlaceholder(msgs, i) /\ sent.id \in IdsOf(msgs) /\ i # sent.id
  <2>1. rows = Without(msgs, {i})
    BY <1>6 DEF applySentMessage, removeMessage
  <2>2. /\ Without(msgs, {i}) \in Seq(Others(i)) /\ Distinct(Without(msgs, {i}))
        /\ IdsOf(Without(msgs, {i})) = IdsOf(msgs) \ {i}
    BY <1>1, <1>3, WithoutKeeps
  <2> QED BY <1>6, <2>1, <2>2
<1>7. CASE i \in IdsOf(msgs) /\ pendingPlaceholder(msgs, i) /\ ~(sent.id \in IdsOf(msgs) /\ i # sent.id)
  <2>1. rows = Put(msgs, i, sent)
    BY <1>7 DEF applySentMessage
  <2>2. /\ Put(msgs, i, sent) \in Seq(Others(i)) /\ Distinct(Put(msgs, i, sent))
        /\ IdsOf(Put(msgs, i, sent)) = (IdsOf(msgs) \ {i}) \cup {sent.id}
    BY <1>1, <1>2, <1>3, <1>7, PutKeeps
  <2> QED BY <2>1, <2>2
<1>8. CASE i \in IdsOf(msgs) /\ ~pendingPlaceholder(msgs, i)
  <2>1. rows = msgs
    BY <1>8 DEF applySentMessage
  <2> QED BY <1>1, <1>4, <1>5, <1>8, <2>1
<1>9. CASE i \notin IdsOf(msgs)
  <2>1. msgs \in Seq(Others(i))
    BY <1>4, <1>9 DEF pendingPlaceholder, IdsOf
  <2>2. CASE sent.id \in IdsOf(msgs)
    <3>1. rows = msgs
      BY <1>9, <2>2 DEF applySentMessage
    <3> QED BY <1>1, <2>1, <2>2, <3>1
  <2>3. CASE sent.id \notin IdsOf(msgs)
    <3>1. rows = Append(msgs, sent)
      BY <1>9, <2>3 DEF applySentMessage
    <3>2. /\ Append(msgs, sent) \in Seq(Others(i)) /\ Distinct(Append(msgs, sent))
          /\ IdsOf(Append(msgs, sent)) = IdsOf(msgs) \cup {sent.id}
      BY <1>1, <1>2, <2>1, <2>3, AppendKeeps
    <3> QED BY <3>1, <3>2
  <2> QED BY <2>2, <2>3
<1> QED BY <1>6, <1>7, <1>8, <1>9

\* What every end of a send has in common.
LEMMA SendOver ==
    ASSUME IInv, NEW i \in Sends, send[i].tui = "waiting", send' = [send EXCEPT ![i].tui = "over"],
           UNCHANGED <<stored, events, wa>>
    PROVE  /\ SendsInv' /\ StoredInv' /\ EventsInv' /\ Taken' = Taken
           /\ Grown(stored, stored') /\ Len(stored') \in Nat
           /\ Answering' = Answering \ {Real(i)} /\ Real(i) \in Answering /\ Arriving' = Arriving
           /\ Others(i) \subseteq Listable'
           /\ send'[i].tui = "over" /\ \A j \in Sends : j # i => send'[j] = send[j]
           /\ \A j \in Sends : send'[j].file = send[j].file
<1>1. SendsInv /\ StoredInv /\ EventsInv
  BY DEF IInv
<1>2. send' = [send EXCEPT ![i] = [id |-> send[i].id, file |-> send[i].file, job |-> send[i].job, tui |-> "over"]]
  BY <1>1, JobOf
<1>3. send[i].job \in {"none", "asked", "taken", "failed", "stored"}
  BY <1>1 DEF SendsInv
<1>4. /\ send' \in [Sends -> [id : Nat, file : BOOLEAN, job : {"none", "asked", "taken", "failed", "stored"},
                              tui : {"none", "waiting", "over"}]]
      /\ send'[i].job = send[i].job /\ send'[i].tui = "over" /\ send'[i].file = send[i].file
      /\ \A j \in Sends : j # i => send'[j] = send[j]
      /\ \A j \in Sends : Real(j)' = Real(j)
  BY <1>1, <1>2, <1>3, OneSend
<1>5. \A j \in Sends : send'[j].job = send[j].job /\ send'[j].file = send[j].file
                      /\ (send'[j].tui = "none" => send[j].tui = "none")
  BY <1>4
<1>6. SendsInv'
  BY <1>1, <1>4, <1>5 DEF SendsInv
<1>7. Taken' = Taken
  BY <1>1, <1>4 DEF Taken, SendsInv
<1>8. Archived' = Archived /\ Grown(stored, stored') /\ Len(stored') \in Nat
  BY <1>1, SameIds DEF Archived, StoredInv
<1>9. StoredInv' /\ EventsInv'
  BY <1>1, <1>7, <1>8 DEF StoredInv, EventsInv
<1>10. Answering' = Answering \ {Real(i)} /\ Real(i) \in Answering
  <2>1. ASSUME NEW x \in Answering, x # Real(i) PROVE x \in Answering'
    <3>1. PICK j \in Sends : send[j].tui = "waiting" /\ x = Real(j)
      BY DEF Answering
    <3> QED BY <1>4, <2>1, <3>1 DEF Answering
  <2>2. ASSUME NEW x \in Answering' PROVE x \in Answering /\ x # Real(i)
    <3>1. PICK j \in Sends : send'[j].tui = "waiting" /\ x = Real(j)'
      BY DEF Answering
    <3>2. j # i
      BY <1>4, <3>1
    <3>3. Real(j) # Real(i)
      BY <1>1, <3>2, RealOnce
    <3> QED BY <1>4, <3>1, <3>2, <3>3 DEF Answering
  <2>3. Real(i) \in Answering
    BY DEF Answering
  <2> QED BY <2>1, <2>2, <2>3
<1>11. ASSUME NEW r \in Others(i) PROVE r \in Listable'
  <2>1. r \in Listable /\ (r.pending => r.id # i /\ r.id \in Sends /\ send[r.id].tui = "waiting")
    BY DEF Others, Listable
  <2>2. r.pending => send'[r.id].tui = "waiting"
    BY <1>4, <2>1
  <2> QED BY <1>1, <1>7, <1>8, <2>1, <2>2, ListableStays
<1>12. Arriving' = Arriving
  BY DEF Arriving
<1> QED BY <1>4, <1>5, <1>6, <1>7, <1>8, <1>9, <1>10, <1>11, <1>12

LEMMA SentStep ==
    ASSUME IInv, NEW i \in Sends, sentMsg(i)
    PROVE  IInv'
<1>1. SendsInv /\ StoredInv /\ ListInv /\ EventsInv /\ AsksInv /\ HolesInv /\ TextInv /\ FlagsInv
  BY DEF IInv
<1>2. /\ send[i].job = "stored" /\ send[i].tui = "waiting" /\ send' = [send EXCEPT ![i].tui = "over"]
      /\ ask' = Outdated
      /\ UNCHANGED <<stored, loadingOlder, noMoreOlder, events, wa, composer, gone>>
      /\ Show(applySentMessage(i, Row(Real(i), timeOf(Real(i)), "sent")), holes)
  BY DEF sentMsg
<1>3. i \in wa /\ Real(i) \in IdsOf(stored)
  BY <1>1, <1>2 DEF SendsInv
<1>4. /\ SendsInv' /\ StoredInv' /\ EventsInv' /\ Grown(stored, stored') /\ Len(stored') \in Nat
      /\ Answering' = Answering \ {Real(i)} /\ Real(i) \in Answering /\ Arriving' = Arriving
      /\ Others(i) \subseteq Listable'
      /\ \A j \in Sends : j # i => send'[j] = send[j]
  BY <1>2, SendOver
<1>5. timeOf(Real(i)) \in 1 .. Len(stored) /\ Len(stored) \in Nat
  <2>1. \E n \in DOMAIN stored : stored[n].id = Real(i)
    BY <1>3 DEF IdsOf
  <2>2. messageIndex(stored, Real(i)) \in DOMAIN stored
    BY <1>3, <2>1 DEF messageIndex
  <2> QED BY <1>1, <2>2 DEF timeOf, StoredInv
<1>6. PICK sent : sent = Row(Real(i), timeOf(Real(i)), "sent")
  OBVIOUS
<1>7. sent \in Archived /\ sent.id = Real(i)
  <2>1. timeOf(Real(i)) \in 1 .. now
    BY <1>5 DEF now
  <2>2. sent \in Rows /\ sent.id = Real(i) /\ sent.at = timeOf(Real(i)) /\ ~sent.pending
    BY <1>1, <1>6, <2>1, RowTyped, RealTyped
  <2> QED BY <1>3, <1>5, <2>2 DEF Archived
<1>8. PICK rows : rows = applySentMessage(i, sent)
  OBVIOUS
<1>9. /\ rows \in Seq(Others(i)) /\ Distinct(rows) /\ IdsOf(rows) \subseteq IdsOf(msgs) \cup {Real(i)}
      /\ IdsOf(msgs) \ {i} \subseteq IdsOf(rows) /\ Real(i) \in IdsOf(rows)
  BY <1>1, <1>7, <1>8, AnsweredRows
<1>10. rows \in Seq(Listable')
  BY <1>4, <1>9, SeqGrows
<1>11. Show(rows, holes)
  BY <1>2, <1>6, <1>8
<1>12. ListInv'
  BY <1>9, <1>10, <1>11, Numbers, NewestKeeps DEF ListInv, Show, boundCaches
<1>13. AsksInv'
  BY <1>1, <1>2, <1>4, AsksGrow
<1>14. HolesInv'
  <2> DEFINE C == IdsOf(rows) \cup OnItsWay'
  <2>1. i \in IdsOf(stored) => Real(i) = i
    BY <1>1, ChosenIsReal
  <2>2. OnItsWay \subseteq OnItsWay' \cup {Real(i)} /\ OnItsWay' \subseteq OnItsWay /\ Real(i) \in OnItsWay
    BY <1>4 DEF OnItsWay
  <2>3. C \cap IdsOf(stored) \subseteq Covered /\ Covered \cap IdsOf(stored) \subseteq C
    BY <1>9, <2>1, <2>2 DEF Covered
  <2>4. holes = {} => Follow(stored, Covered, Covered)
    BY <1>1 DEF HolesInv
  <2>5. Grown(stored, stored)
    BY <1>2, <1>4
  <2> HIDE DEF C
  <2>6. holes = {} => Follow(stored, C, C)
    BY <2>3, <2>4, <2>5, FollowGrows
  <2> QED BY <1>2, <1>9, <1>11, <2>6, ShowCovers DEF C
<1>15. TextInv'
  BY <1>1, <1>2, <1>3, <1>4 DEF TextInv, composer
<1>16. FlagsInv'
  BY <1>1, <1>2 DEF FlagsInv
<1> QED BY <1>4, <1>12, <1>13, <1>14, <1>15, <1>16 DEF IInv

LEMMA FailedStep ==
    ASSUME IInv, NEW i \in Sends, sentMsgErr(i)
    PROVE  IInv'
<1>1. SendsInv /\ StoredInv /\ ListInv /\ EventsInv /\ AsksInv /\ HolesInv /\ TextInv /\ FlagsInv
  BY DEF IInv
<1>2. /\ send[i].tui = "waiting" /\ send' = [send EXCEPT ![i].tui = "over"]
      /\ UNCHANGED <<stored, loadingOlder, noMoreOlder, events, wa>>
  BY DEF sentMsgErr
<1>3. /\ SendsInv' /\ StoredInv' /\ EventsInv' /\ Grown(stored, stored') /\ Len(stored') \in Nat
      /\ Answering' = Answering \ {Real(i)} /\ Real(i) \in Answering /\ Arriving' = Arriving
      /\ Others(i) \subseteq Listable'
      /\ send'[i].tui = "over" /\ \A j \in Sends : j # i => send'[j] = send[j]
      /\ \A j \in Sends : send'[j].file = send[j].file
  BY <1>2, SendOver
<1>4. OnItsWay \subseteq OnItsWay' \cup {Real(i)} /\ OnItsWay' \subseteq OnItsWay
  BY <1>3 DEF OnItsWay
<1>5. msgs \in Seq(Listable) /\ Distinct(msgs) /\ Len(msgs) <= Cap /\ \A n \in DOMAIN msgs : msgs[n] \in Listable
  BY <1>1 DEF ListInv
<1>6. FlagsInv'
  BY <1>1, <1>2 DEF FlagsInv
<1>7. CASE i \in IdsOf(msgs) /\ ~pendingPlaceholder(msgs, i)
  <2>1. ask' = Outdated /\ UNCHANGED <<msgs, composer, gone, holes>>
    BY <1>7 DEF sentMsgErr
  <2>2. i \in wa /\ Real(i) = i
    <3>1. PICK n \in DOMAIN msgs : msgs[n].id = i
      BY <1>7 DEF IdsOf
    <3>2. i \in IdsOf(stored) \cup Taken
      BY <1>5, <1>7, <3>1 DEF Listable, pendingPlaceholder
    <3> QED BY <1>1, <3>2, ChosenIsReal
  <2>3. ListInv'
    <3>1. \A n \in DOMAIN msgs : msgs[n] \in Others(i)
      BY <1>5, <1>7 DEF Others, pendingPlaceholder
    <3>2. msgs = [n \in 1 .. Len(msgs) |-> msgs[n]] /\ DOMAIN msgs = 1 .. Len(msgs) /\ Len(msgs) \in Nat
      BY <1>5
    <3>3. [n \in 1 .. Len(msgs) |-> msgs[n]] \in Seq(Listable')
      BY <1>3, <3>1, <3>2
    <3> QED BY <1>5, <2>1, <3>2, <3>3 DEF ListInv
  <2>4. AsksInv'
    BY <1>1, <1>3, <2>1, AsksGrow
  <2>5. HolesInv'
    <3>1. Covered' = Covered
      BY <1>4, <1>7, <2>1, <2>2 DEF Covered
    <3> QED BY <1>1, <1>2, <2>1, <3>1 DEF HolesInv
  <2>6. TextInv'
    BY <1>1, <1>2, <1>3, <2>1, <2>2 DEF TextInv, composer
  <2> QED BY <1>3, <1>6, <2>3, <2>4, <2>5, <2>6 DEF IInv
<1>8. CASE ~(i \in IdsOf(msgs) /\ ~pendingPlaceholder(msgs, i))
  <2>1. /\ msgs' = boundCaches(removeMessage(msgs, i))
        /\ IF send[i].file THEN UNCHANGED <<composer, gone>> ELSE restoreFailedSendText(i)
        /\ IF Real(i) \in IdsOf(stored) THEN Unshown("timeout") ELSE UNCHANGED <<holes, ask>>
    BY <1>8 DEF sentMsgErr
  <2>2. \A n \in DOMAIN msgs : msgs[n].id \notin {i} => msgs[n] \in Listable'
    BY <1>3, <1>5 DEF Others
  <2> DEFINE rows == Without(msgs, {i})
  <2>3. /\ rows \in Seq(Listable') /\ Distinct(rows) /\ Len(rows) <= Len(msgs)
        /\ IdsOf(rows) = IdsOf(msgs) \ {i}
    BY <1>5, <2>2, WithoutKeeps
  <2> HIDE DEF rows
  <2>4. msgs' = rows
    <3>1. Len(rows) <= Cap
      BY <1>5, <2>3, Numbers
    <3>2. Newest(rows, Cap) = rows
      BY <2>3, <3>1, Numbers, NewestKeeps
    <3> QED BY <2>1, <3>2 DEF boundCaches, removeMessage, rows
  <2>5. ListInv'
    BY <1>5, <2>3, <2>4, Numbers DEF ListInv
  <2>6. AsksInv' /\ HolesInv'
    <3>1. CASE Real(i) \in IdsOf(stored)
      <4>1. ask' = Outdated /\ holes' # {}
        BY <2>1, <3>1 DEF Unshown
      <4> QED BY <1>1, <1>3, <4>1, AsksGrow DEF HolesInv
    <3>2. CASE Real(i) \notin IdsOf(stored)
      <4>1. ask' = ask /\ holes' = holes /\ IdsOf(stored') \ IdsOf(stored) = {}
        BY <1>2, <2>1, <3>2
      <4>2. i \notin IdsOf(stored)
        BY <1>1, <3>2, ChosenIsReal
      <4>3. OnItsWay \cap IdsOf(stored) \subseteq OnItsWay'
        BY <1>4, <3>2
      <4>4. Covered \cap IdsOf(stored) \subseteq Covered' /\ Covered' \cap IdsOf(stored) \subseteq Covered
        BY <1>4, <2>3, <2>4, <4>2, <4>3 DEF Covered
      <4>5. AsksInv'
        BY <1>1, <1>3, <4>1, <4>3, AsksGrow
      <4>6. HolesInv'
        BY <1>1, <1>3, <4>1, <4>4, CoverStays
      <4> QED BY <4>5, <4>6
    <3> QED BY <3>1, <3>2
  <2>7. TextInv'
    <3>1. \A j \in Sends : j # Blank
      BY Numbers
    <3>2. CASE send[i].file
      BY <1>1, <1>2, <1>3, <2>1, <3>2 DEF TextInv, composer
    <3>3. CASE restoreFailedSendText(i) /\ here
      <4>1. /\ here' = here /\ draft' = draft /\ input' \in {input, i} /\ (input # Blank => input' = input)
            /\ gone \subseteq gone' /\ gone' \subseteq gone \cup {i} /\ i \in gone' \cup {input'}
        BY <3>3 DEF restoreFailedSendText
      <4>2. here = TRUE /\ wa' = wa
        BY <1>1, <1>2, <3>3 DEF TextInv
      <4> QED BY <1>1, <1>3, <3>1, <4>1, <4>2 DEF TextInv
    <3>4. CASE restoreFailedSendText(i) /\ ~here
      <4>1. /\ here' = here /\ input' = input /\ draft' \in {draft, i} /\ (draft # Blank => draft' = draft)
            /\ gone \subseteq gone' /\ gone' \subseteq gone \cup {i} /\ i \in gone' \cup {draft'}
        BY <3>4 DEF restoreFailedSendText
      <4>2. here = FALSE /\ wa' = wa
        BY <1>1, <1>2, <3>4 DEF TextInv
      <4> QED BY <1>1, <1>3, <3>1, <4>1, <4>2 DEF TextInv
    <3> QED BY <2>1, <3>2, <3>3, <3>4
  <2> QED BY <1>3, <1>6, <2>5, <2>6, <2>7 DEF IInv
<1> QED BY <1>7, <1>8

-----------------------------------------------------------------------------
(* The theorems *)

LEMMA StepInv == IInv /\ [Next]_vars => IInv'
<1> SUFFICES ASSUME IInv, [Next]_vars PROVE IInv'
  OBVIOUS
<1>1. CASE Type \/ Clear \/ LeaveChat
  BY <1>1, WritingStep
<1>2. CASE composerSend
  BY <1>2, SendStep
<1>3. CASE Evict
  BY <1>3, EvictStep
<1>4. CASE \E s \in Slots : openSelectedChat(s) \/ maybeLoadOlder(s) \/ getMsgsAround(s)
  BY <1>4, AskStep
<1>5. CASE \E s \in Slots : handleMessages(s)
  BY <1>5, AnswerStep
<1>6. CASE \E s \in Slots : getFails(s)
  BY <1>6, FailStep
<1>7. CASE \E s \in Slots : msgsMsg(s) \/ olderMsgsMsg(s) \/ aroundMsgsMsg(s)
  BY <1>7, PageStep
<1>8. CASE (\E n \in News : ReceiveMessage(n)) \/ (\E i \in Sends : Echo(i))
  BY <1>8, MessageStep
<1>9. CASE ReceiveReceipt
  BY <1>9, ReceiptStep
<1>10. CASE handleWSEvent
  BY <1>10, EventStep
<1>11. CASE \E i \in Sends : Accept(i) \/ Refuse(i)
  BY <1>11, AnswerWhatsApp
<1>12. CASE \E i \in Sends : StoreSent(i)
  BY <1>12, StoreStep
<1>13. CASE \E i \in Sends : sentMsg(i)
  BY <1>13, SentStep
<1>14. CASE \E i \in Sends : sentMsgErr(i)
  BY <1>14, FailedStep
<1>15. CASE UNCHANGED vars
  <2>1. UNCHANGED <<stored, msgs, loadingOlder, noMoreOlder, ask, events, send, wa, composer, gone, holes>>
    BY <1>15 DEF vars
  <2> QED BY <2>1, DataFrame, Frame DEF IInv
<1> QED BY <1>1, <1>2, <1>3, <1>4, <1>5, <1>6, <1>7, <1>8, <1>9, <1>10, <1>11, <1>12, <1>13, <1>14, <1>15
        DEF Next

LEMMA Invariance == Spec => []IInv
<1>1. Init => IInv
  BY InitInv
<1>2. IInv /\ [Next]_vars => IInv'
  BY StepInv
<1> QED BY <1>1, <1>2, PTL DEF Spec

\* No message is listed twice, whichever of placeholder, echo, answer, page and window
\* brings it first.
THEOREM ListedOnceHolds == Spec => []ListedOnce
<1>1. IInv => ListedOnce
  BY DEF IInv, ListInv, Distinct, ListedOnce
<1> QED BY <1>1, Invariance, PTL

\* The text of a send that failed is not lost.
THEOREM NoTextIsLost == Spec => []NoTextLost
<1>1. IInv => NoTextLost
  BY DEF IInv, TextInv, NoTextLost
<1> QED BY <1>1, Invariance, PTL

\* When nothing is on its way, every row that is shown is in the archive.
LEMMA QuietRows ==
    ASSUME IInv, Quiet
    PROVE  OnItsWay = {} /\ IdsOf(msgs) \subseteq IdsOf(stored)
<1>1. events = <<>> /\ (\A i \in Sends : send[i].tui # "waiting") /\ \A i \in wa : Real(i) \in IdsOf(stored)
  BY DEF Quiet
<1>2. OnItsWay = {}
  BY <1>1 DEF OnItsWay, Arriving, Answering
<1>3. ASSUME NEW n \in DOMAIN msgs PROVE msgs[n].id \in IdsOf(stored)
  <2>1. msgs[n] \in Listable
    BY DEF IInv, ListInv
  <2> QED BY <1>1, <2>1 DEF Listable, Taken
<1> QED BY <1>2, <1>3 DEF IdsOf

\* What is shown has no holes: when nothing is on its way, the rows that are shown are
\* the newest of the archive, unless one of the six causes has been met.
THEOREM NoHolesHolds == Spec => []NoHoles
<1>1. ASSUME IInv PROVE NoHoles
  <2> SUFFICES ASSUME Quiet, holes = {}, msgs # <<>>
               PROVE  IdsOf(msgs) = IdsOf(Newest(stored, Len(msgs)))
    BY DEF NoHoles
  <2>0. PICK l, k : l = Len(stored) /\ k = Len(msgs)
    OBVIOUS
  <2> DEFINE places == {n \in 1 .. l : stored[n].id \in IdsOf(msgs)}
  <2>1. /\ stored \in Seq(Archived) /\ l \in Nat /\ DOMAIN stored = 1 .. l /\ Distinct(stored)
        /\ msgs \in Seq(Listable) /\ k \in Nat /\ DOMAIN msgs = 1 .. k /\ Distinct(msgs)
    BY <1>1, <2>0 DEF IInv, StoredInv, ListInv
  <2>2. k # 0
    BY <2>0, <2>1, EmptySeq
  <2>3. OnItsWay = {} /\ IdsOf(msgs) \subseteq IdsOf(stored)
    BY <1>1, QuietRows
  <2>4. Follow(stored, IdsOf(msgs), IdsOf(msgs))
    BY <1>1, <2>3 DEF IInv, HolesInv, Covered
  <2>5. \A m \in places, n \in 1 .. l : m < n => n \in places
    BY <2>1, <2>4 DEF Follow, Precedes
  <2> DEFINE at == [j \in 1 .. k |-> CHOOSE n \in places : stored[n].id = msgs[j].id]
  <2>6. \A j \in 1 .. k : at[j] \in places /\ stored[at[j]].id = msgs[j].id
    <3> SUFFICES ASSUME NEW j \in 1 .. k PROVE \E n \in places : stored[n].id = msgs[j].id
      BY Zenon
    <3>1. msgs[j].id \in IdsOf(msgs)
      BY <2>1 DEF IdsOf
    <3>2. PICK n \in DOMAIN stored : stored[n].id = msgs[j].id
      BY <2>3, <3>1 DEF IdsOf
    <3> QED BY <2>1, <3>1, <3>2
  <2>7. DOMAIN at = 1 .. k /\ at = [j \in 1 .. k |-> at[j]]
    OBVIOUS
  <2>8. \A n \in places : \E j \in 1 .. k : msgs[j].id = stored[n].id
    BY <2>1 DEF IdsOf
  <2>9. places \in SUBSET (1 .. l)
    OBVIOUS
  <2> HIDE DEF at, places
  <2>10. at \in Bijection(1 .. k, places)
    <3>1. at \in [1 .. k -> places]
      BY <2>6, <2>7
    <3>2. \A i, j \in 1 .. k : at[i] = at[j] => i = j
      BY <2>1, <2>6 DEF Distinct
    <3>3. \A n \in places : \E j \in 1 .. k : at[j] = n
      <4> SUFFICES ASSUME NEW n \in places PROVE \E j \in 1 .. k : at[j] = n
        OBVIOUS
      <4>1. PICK j \in 1 .. k : msgs[j].id = stored[n].id
        BY <2>8
      <4>2. at[j] \in DOMAIN stored /\ n \in DOMAIN stored /\ stored[at[j]].id = stored[n].id
        BY <2>1, <2>6, <2>9, <4>1
      <4>3. at[j] = n
        BY <2>1, <4>2 DEF Distinct
      <4> QED BY <4>3
    <3> QED BY <3>1, <3>2, <3>3, Fun_IsBij
  <2>11. Cardinality(places) = k
    <3>1. IsFiniteSet(1 .. k) /\ Cardinality(1 .. k) = k
      BY <2>1, <2>2, FS_Interval
    <3>2. ExistsBijection(1 .. k, places)
      BY <2>10 DEF ExistsBijection
    <3> QED BY <3>1, <3>2, FS_Bijection
  <2>12. places # {}
    BY <2>1, <2>2, <2>6
  <2>13. k \in 1 .. l /\ places = (l - k + 1) .. l
    BY <2>1, <2>5, <2>9, <2>11, <2>12, LastPlaces
  <2> DEFINE new == Newest(stored, k)
             d == l - k
  <2>14. d \in Nat /\ d = IF Len(stored) > k THEN Len(stored) - k ELSE 0
    BY <2>0, <2>1, <2>13
  <2>15. /\ new \in Seq(Archived) /\ Len(new) = l - d
         /\ \A j \in 1 .. l - d : new[j] = stored[j + d]
    <3>1. PICK e \in Nat : e = d
      BY <2>14
    <3>2. stored \in Seq(Archived) /\ k \in Nat
      BY <2>1
    <3>3. e = IF Len(stored) > k THEN Len(stored) - k ELSE 0
      BY <2>14, <3>1
    <3>4. /\ Newest(stored, k) \in Seq(Archived) /\ Len(Newest(stored, k)) = Len(stored) - e
          /\ \A j \in 1 .. Len(stored) - e : Newest(stored, k)[j] = stored[j + e]
      BY <3>2, <3>3, NewestRows, ZenonT(60)
    <3> HIDE DEF d
    <3> QED BY <2>0, <3>1, <3>4
  <2>16. l - d = k /\ DOMAIN new = 1 .. k
    BY <2>1, <2>13, <2>15
  <2> HIDE DEF d, new
  <2>17. ASSUME NEW id \in IdsOf(msgs) PROVE id \in IdsOf(new)
    <3>1. PICK j \in 1 .. k : msgs[j].id = id
      BY <2>1 DEF IdsOf
    <3>2. at[j] \in (l - k + 1) .. l /\ stored[at[j]].id = id
      BY <2>6, <2>13, <3>1
    <3>3. at[j] - d \in 1 .. k /\ (at[j] - d) + d = at[j]
      BY <2>1, <2>13, <3>2 DEF d
    <3>4. new[at[j] - d].id = id
      BY <2>15, <2>16, <3>2, <3>3
    <3> QED BY <2>16, <3>3, <3>4 DEF IdsOf
  <2>18. ASSUME NEW id \in IdsOf(new) PROVE id \in IdsOf(msgs)
    <3>1. PICK j \in 1 .. k : new[j].id = id
      BY <2>16 DEF IdsOf
    <3>2. j + d \in (l - k + 1) .. l
      BY <2>1, <2>13 DEF d
    <3>3. stored[j + d].id = id
      BY <2>15, <2>16, <3>1
    <3>4. j + d \in places
      BY <2>13, <3>2
    <3> QED BY <3>3, <3>4 DEF places
  <2> QED BY <2>0, <2>17, <2>18 DEF new
<1> QED BY <1>1, Invariance, PTL
=============================================================================
