------------------------- MODULE TimeoutQueueProofs -------------------------
(***************************************************************************)
(* The safety of a TimeoutQueue, for any keys, clients and bounds: its     *)
(* index is right whenever it can be read, its timer is set in time, and   *)
(* it implements a DelayQueue.                                             *)
(***************************************************************************)
EXTENDS TimeoutQueue, SequenceTheorems, WellFoundedInduction, TLAPS

-----------------------------------------------------------------------------
(* The inductive invariant. *)

\* The entries that wait, and those that leave, as DelayQueue sees them.
WaitingSet == {data[i] : i \in DOMAIN data}
Out == timeoutCh \o expired

\* The waits on their way to the timer.
Pending == {sending, resetCh, after}

\* The goroutine of the timer holds the mutex from Lock to Unlock in sort; a client
\* holds it only while it sends.
MutexRight ==
    /\ mu = "timer" <=> sorter \in {"sort", "send", "spin"}
    /\ mu \in Clients => sending # << >>
    /\ sorter = "send" => sending # << >>

\* No wait on its way leads to an instant before the first.
WaitsRight == \A s \in Pending : \A i \in DOMAIN s : now + s[i] >= 0

\* An entry is told from the others that wait, and from those to come, by its number.
Numbered ==
    /\ \A i, j \in DOMAIN data : data[i].id = data[j].id => i = j
    /\ \A i \in DOMAIN data : data[i].id < offers
    /\ \A i \in DOMAIN timeoutCh : timeoutCh[i].id < offers
    /\ \A i \in DOMAIN expired : expired[i].id < offers

\* From the loop of sort to the handing over of a batch, the entries are sorted, the
\* batch is due, and the sort after the next entry's is set.
Scanned ==
    /\ sorter \in {"sort", "send", "spin"} => data # << >>
    /\ sorter \in {"send", "spin"} =>
        /\ Sorted(data)
        /\ count \in 0..Len(data)
        /\ \A i \in 1..count : data[i].due <= now
        /\ count < Len(data) => nextSort = data[count + 1].due
    /\ sorter = "send" => count < Len(data)
    /\ sorter = "spin" => count >= 1 /\ (count < Len(data) => resetCh # << >>)

\* A batch is there only while that is signaled, and the channel has room for one.
Delivering == (~signaled => expired = << >>) /\ Len(timeoutCh) <= 1

Inv ==
    /\ TypeOK /\ MutexRight /\ WaitsRight /\ IndexRight
    /\ Numbered /\ Scanned /\ Delivering /\ WakesInTime

-----------------------------------------------------------------------------
(* Facts about numbers and sequences. *)

\* A set of numbers that is not empty has a smallest one.
LEMMA Smallest ==
    ASSUME NEW T, T \subseteq Nat, T # {}
    PROVE  \E n \in T : \A k \in T : n <= k
<1> DEFINE less == {p \in Nat \X Nat : p[1] < p[2]}
<1>1. IsWellFoundedOn(less, Nat)
  BY NatLessThanWellFounded DEF OpToRel
<1> HIDE DEF less
<1>2. PICK n \in T : \A k \in T : ~(<<k, n>> \in less)
  BY <1>1, WFMin
<1>3. ASSUME NEW k \in T
      PROVE  n <= k
  <2>1. k \in Nat /\ n \in Nat
    OBVIOUS
  <2>2. ~(k < n)
    BY <1>2, <2>1 DEF less
  <2>. QED BY <2>1, <2>2
<1>. QED BY <1>3

\* A set of positions up to n has a largest one, if it is not empty.
LEMMA Largest ==
    ASSUME NEW n \in Nat, NEW P, P \subseteq 1..n, P # {}
    PROVE  \E i \in P : \A j \in P : j <= i
<1> DEFINE T == {n - j : j \in P}
<1>1. T \subseteq Nat /\ T # {}
  OBVIOUS
<1>2. PICK k \in T : \A h \in T : k <= h
  BY <1>1, Smallest
<1>3. PICK i \in P : k = n - i
  OBVIOUS
<1>4. ASSUME NEW j \in P
      PROVE  j <= i
  <2>1. n - j \in T
    OBVIOUS
  <2>2. n - i <= n - j
    BY <1>2, <1>3, <2>1
  <2>. QED BY <2>2
<1>. QED BY <1>4

\* The positions of a sequence of entries, and the types of what is there.
LEMMA EntriesTyped ==
    ASSUME NEW s \in Seq(Entry)
    PROVE  /\ DOMAIN s = 1..Len(s) /\ Len(s) \in Nat
           /\ \A i \in 1..Len(s) : s[i] \in Entry /\ s[i].key \in Keys
                                  /\ s[i].id \in Nat /\ s[i].due \in Nat
<1>1. DOMAIN s = 1..Len(s) /\ Len(s) \in Nat /\ \A i \in 1..Len(s) : s[i] \in Entry
  OBVIOUS
<1>2. \A e \in Entry : e.key \in Keys /\ e.id \in Nat /\ e.due \in Nat
  BY DEF Entry
<1>. QED BY <1>1, <1>2

\* In a sorted sequence no entry is due before one in front of it.
LEMMA SortedOrder ==
    ASSUME NEW s \in Seq(Entry), Sorted(s),
           NEW i \in DOMAIN s, NEW j \in DOMAIN s, i <= j
    PROVE  s[i].due <= s[j].due
<1> DEFINE bad == {h \in 1..Len(s) : i <= h /\ s[i].due > s[h].due}
<1>1. DOMAIN s = 1..Len(s) /\ Len(s) \in Nat /\ \A h \in 1..Len(s) : s[h].due \in Int
  BY EntriesTyped
<1>2. ASSUME bad # {}
      PROVE  FALSE
  <2>0. bad \subseteq Nat
    BY <1>1
  <2>1. PICK h \in bad : \A k \in bad : h <= k
    <3> HIDE DEF bad
    <3>. QED BY <1>2, <2>0, Smallest
  <2>2. i < h
    BY <1>1, <2>1
  <2>3. h - 1 \in 1..Len(s) /\ h - 1 \in 1..Len(s) - 1 /\ h - 1 \notin bad /\ (h - 1) + 1 = h
    BY <1>1, <2>1, <2>2
  <2>4. s[i].due <= s[h - 1].due
    BY <1>1, <2>2, <2>3
  <2>5. s[h - 1].due <= s[h].due
    BY <2>3 DEF Sorted
  <2>. QED BY <1>1, <2>1, <2>3, <2>4, <2>5
<1>. QED BY <1>1, <1>2

\* There is a number of entries that are due at the front of any sequence.
LEMMA DueAtFrontProperties ==
    ASSUME NEW s \in Seq(Entry), now \in Nat
    PROVE  /\ DueAtFront(s) \in 0..Len(s)
           /\ \A i \in 1..DueAtFront(s) : s[i].due <= now
           /\ DueAtFront(s) < Len(s) => s[DueAtFront(s) + 1].due > now
<1> DEFINE T == {n \in 0..Len(s) : n < Len(s) => s[n + 1].due > now}
<1>1. DOMAIN s = 1..Len(s) /\ Len(s) \in Nat /\ \A h \in 1..Len(s) : s[h].due \in Int
  BY EntriesTyped
<1>2. Len(s) \in T
  BY <1>1
<1>3. PICK n \in T : \A k \in T : n <= k
  <2>1. T \subseteq Nat
    BY <1>1
  <2> HIDE DEF T
  <2>. QED BY <1>2, <2>1, Smallest
<1>4. ASSUME NEW i \in 1..n
      PROVE  s[i].due <= now
  <2>1. i - 1 \in 0..Len(s) /\ i - 1 < Len(s) /\ ~(n <= i - 1) /\ (i - 1) + 1 = i
    BY <1>1, <1>3
  <2>2. i - 1 \notin T
    BY <1>3, <2>1
  <2>. QED BY <1>1, <2>1, <2>2
<1>. QED BY <1>3, <1>4 DEF DueAtFront

\* What is in front of a position, and what is behind it.
LEMMA CutProperties ==
    ASSUME NEW s \in Seq(Entry), NEW n \in 0..Len(s)
    PROVE  /\ SubSeq(s, 1, n) \in Seq(Entry) /\ Len(SubSeq(s, 1, n)) = n
           /\ \A i \in 1..n : SubSeq(s, 1, n)[i] = s[i]
           /\ SubSeq(s, n + 1, Len(s)) \in Seq(Entry)
           /\ Len(SubSeq(s, n + 1, Len(s))) = Len(s) - n
           /\ \A i \in 1..Len(s) - n : SubSeq(s, n + 1, Len(s))[i] = s[n + i]
<1>1. Len(s) \in Nat /\ n \in Int /\ n + 1 \in Int /\ \A i \in 1..Len(s) : s[i] \in Entry
  OBVIOUS
<1>2. /\ SubSeq(s, 1, n) \in Seq(Entry)
      /\ Len(SubSeq(s, 1, n)) = IF 1 <= n THEN n - 1 + 1 ELSE 0
      /\ \A i \in 1..n - 1 + 1 : SubSeq(s, 1, n)[i] = s[1 + i - 1]
  BY <1>1, SubSeqProperties
<1>3. \A i \in n + 1..Len(s) : s[i] \in Entry
  BY <1>1
<1>4. /\ SubSeq(s, n + 1, Len(s)) \in Seq(Entry)
      /\ Len(SubSeq(s, n + 1, Len(s))) = IF n + 1 <= Len(s) THEN Len(s) - (n + 1) + 1 ELSE 0
      /\ \A i \in 1..Len(s) - (n + 1) + 1 : SubSeq(s, n + 1, Len(s))[i] = s[n + 1 + i - 1]
  BY <1>1, <1>3, SubSeqProperties
<1>5. ASSUME NEW i \in 1..n
      PROVE  SubSeq(s, 1, n)[i] = s[i]
  <2>1. i \in 1..n - 1 + 1 /\ 1 + i - 1 = i
    BY <1>1
  <2>. QED BY <1>2, <2>1
<1>6. ASSUME NEW i \in 1..Len(s) - n
      PROVE  SubSeq(s, n + 1, Len(s))[i] = s[n + i]
  <2>1. i \in 1..Len(s) - (n + 1) + 1 /\ n + 1 + i - 1 = n + i
    BY <1>1
  <2>. QED BY <1>4, <2>1
<1>7. Len(SubSeq(s, 1, n)) = n /\ Len(SubSeq(s, n + 1, Len(s))) = Len(s) - n
  BY <1>1, <1>2, <1>4
<1>. QED BY <1>2, <1>4, <1>5, <1>6, <1>7

\* What is left of a sequence without one of its entries.
LEMMA RemovalProperties ==
    ASSUME NEW s \in Seq(Entry), NEW i \in 1..Len(s), NEW rest,
           rest = SubSeq(s, 1, i - 1) \o SubSeq(s, i + 1, Len(s))
    PROVE  /\ rest \in Seq(Entry) /\ Len(rest) = Len(s) - 1
           /\ \A j \in 1..Len(s) - 1 : rest[j] = IF j < i THEN s[j] ELSE s[j + 1]
<1> DEFINE a == SubSeq(s, 1, i - 1)
           b == SubSeq(s, i + 1, Len(s))
<1>1. Len(s) \in Nat /\ i \in 0..Len(s) /\ i - 1 \in 0..Len(s)
  OBVIOUS
<1>2. a \in Seq(Entry) /\ Len(a) = i - 1 /\ \A j \in 1..i - 1 : a[j] = s[j]
  BY <1>1, CutProperties
<1>3. b \in Seq(Entry) /\ Len(b) = Len(s) - i /\ \A j \in 1..Len(s) - i : b[j] = s[i + j]
  BY <1>1, CutProperties
<1> HIDE DEF a, b
<1>4. /\ a \o b \in Seq(Entry) /\ Len(a \o b) = Len(a) + Len(b)
      /\ \A j \in 1..Len(a) + Len(b) : (a \o b)[j] = IF j <= Len(a) THEN a[j] ELSE b[j - Len(a)]
  BY <1>2, <1>3, ConcatProperties
<1>5. rest = a \o b
  BY DEF a, b
<1>6. ASSUME NEW j \in 1..Len(s) - 1
      PROVE  rest[j] = IF j < i THEN s[j] ELSE s[j + 1]
  <2>1. j \in 1..Len(a) + Len(b)
    BY <1>1, <1>2, <1>3
  <2>2. CASE j < i
    <3>1. j <= Len(a) /\ j \in 1..i - 1
      BY <1>1, <1>2, <2>2
    <3>. QED BY <1>2, <1>4, <1>5, <2>1, <2>2, <3>1
  <2>3. CASE ~(j < i)
    <3>1. ~(j <= Len(a)) /\ j - Len(a) \in 1..Len(s) - i /\ i + (j - Len(a)) = j + 1
      BY <1>1, <1>2, <2>3
    <3>. QED BY <1>3, <1>4, <1>5, <2>1, <2>3, <3>1
  <2>. QED BY <2>2, <2>3
<1>7. rest \in Seq(Entry) /\ Len(rest) = Len(s) - 1
  <2>1. Len(a) + Len(b) = Len(s) - 1
    BY <1>1, <1>2, <1>3
  <2>. QED BY <1>4, <1>5, <2>1
<1>. QED BY <1>6, <1>7

-----------------------------------------------------------------------------
(* The index. *)

\* Exactly the keys that wait have a position, and it is one of theirs.
IsIndex(ix, s) ==
    /\ DOMAIN ix = KeysOf(s)
    /\ \A k \in DOMAIN ix : ix[k] \in DOMAIN s /\ s[ix[k]].key = k

\* Rebuilding the index makes it right, whatever it was, once the keys that do not
\* wait any more are deleted.
LEMMA RebuiltIsIndex ==
    ASSUME NEW s \in Seq(Entry), NEW gone, DOMAIN index \ gone \subseteq KeysOf(s)
    PROVE  IsIndex(Rebuilt(gone, s), s)
<1> DEFINE last(k) == CHOOSE i \in DOMAIN s :
                          s[i].key = k /\ \A j \in DOMAIN s : s[j].key = k => j <= i
<1>1. DOMAIN s = 1..Len(s) /\ Len(s) \in Nat
  OBVIOUS
<1>2. ASSUME NEW k \in KeysOf(s)
      PROVE  last(k) \in DOMAIN s /\ s[last(k)].key = k
  <2> DEFINE P == {i \in DOMAIN s : s[i].key = k}
  <2>1. P \subseteq 1..Len(s) /\ P # {}
    BY <1>1 DEF KeysOf
  <2>2. PICK i \in P : \A j \in P : j <= i
    BY <1>1, <2>1, Largest
  <2>3. i \in DOMAIN s /\ s[i].key = k /\ \A j \in DOMAIN s : s[j].key = k => j <= i
    BY <2>2
  <2>. QED BY <2>3
<1> HIDE DEF last
<1>3. (DOMAIN index \ gone) \cup KeysOf(s) = KeysOf(s)
  OBVIOUS
<1>4. Rebuilt(gone, s) = [k \in KeysOf(s) |-> IF k \in KeysOf(s) THEN last(k) ELSE index[k]]
  BY <1>3 DEF Rebuilt, last
<1>5. Rebuilt(gone, s) = [k \in KeysOf(s) |-> last(k)]
  BY <1>4
<1>. QED BY <1>2, <1>5 DEF IsIndex

-----------------------------------------------------------------------------
(* What the steps that change the slice do to it. *)

\* t has entries of s only, none of them twice.
From(t, s) ==
    \E f \in [DOMAIN t -> DOMAIN s] :
        /\ \A i \in DOMAIN t : t[i] = s[f[i]]
        /\ \A i, j \in DOMAIN t : f[i] = f[j] => i = j

\* OfferWithTime appends the entry, and its key is found at the end.
LEMMA OfferEffect ==
    ASSUME Inv, NEW c, NEW key \in Keys, NEW due \in Nat, OfferWithTime(c, key, due)
    PROVE  /\ data' \in Seq(Entry) /\ Len(data') = Len(data) + 1
           /\ \A i \in 1..Len(data) : data'[i] = data[i]
           /\ data'[Len(data) + 1] = [key |-> key, id |-> offers, due |-> due]
           /\ IsIndex(index', data')
<1> DEFINE e == [key |-> key, id |-> offers, due |-> due]
<1>1. data \in Seq(Entry) /\ offers \in Nat /\ IsIndex(index, data)
  BY DEF Inv, TypeOK, IndexRight, IsIndex
<1>2. DOMAIN data = 1..Len(data) /\ Len(data) \in Nat
  BY <1>1, EntriesTyped
<1>3. e \in Entry /\ e.key = key
  BY <1>1 DEF Entry
<1>4. data' = Append(data, e)
  BY DEF OfferWithTime
<1> HIDE DEF e
<1>5. /\ data' \in Seq(Entry) /\ Len(data') = Len(data) + 1
      /\ \A i \in 1..Len(data) : data'[i] = data[i]
      /\ data'[Len(data) + 1] = e
  BY <1>1, <1>3, <1>4, AppendProperties
<1>6. index' = [k \in DOMAIN index \cup {key} |-> IF k = key THEN Len(data) + 1 ELSE index[k]]
  BY DEF OfferWithTime
<1>7. DOMAIN data' = 1..Len(data) + 1
  BY <1>5, EntriesTyped
<1>8. KeysOf(data') = KeysOf(data) \cup {key}
  <2>1. ASSUME NEW i \in DOMAIN data'
        PROVE  data'[i].key \in KeysOf(data) \cup {key}
    <3>1. CASE i \in 1..Len(data)
      BY <1>2, <1>5, <3>1 DEF KeysOf
    <3>2. CASE i = Len(data) + 1
      BY <1>3, <1>5, <3>2
    <3>. QED BY <1>2, <1>7, <3>1, <3>2
  <2>2. ASSUME NEW i \in DOMAIN data
        PROVE  data[i].key \in KeysOf(data')
    <3>1. i \in DOMAIN data' /\ data'[i] = data[i]
      BY <1>2, <1>5, <1>7
    <3>. QED BY <3>1 DEF KeysOf
  <2>3. key \in KeysOf(data')
    <3>1. Len(data) + 1 \in DOMAIN data' /\ data'[Len(data) + 1].key = key
      BY <1>2, <1>3, <1>5, <1>7
    <3>. QED BY <3>1 DEF KeysOf
  <2>4. KeysOf(data') \subseteq KeysOf(data) \cup {key}
    BY <2>1 DEF KeysOf
  <2>5. KeysOf(data) \subseteq KeysOf(data')
    BY <2>2 DEF KeysOf
  <2>. QED BY <2>3, <2>4, <2>5
<1>9. ASSUME NEW k \in DOMAIN index'
      PROVE  index'[k] \in DOMAIN data' /\ data'[index'[k]].key = k
  <2>1. CASE k = key
    <3>1. index'[k] = Len(data) + 1
      BY <1>6, <2>1
    <3>. QED BY <1>2, <1>3, <1>5, <1>7, <2>1, <3>1
  <2>2. CASE k # key
    <3>1. k \in DOMAIN index /\ index'[k] = index[k]
      BY <1>6, <2>2
    <3>2. index[k] \in 1..Len(data) /\ data[index[k]].key = k
      BY <1>1, <1>2, <3>1 DEF IsIndex
    <3>. QED BY <1>2, <1>5, <1>7, <3>1, <3>2
  <2>. QED BY <2>1, <2>2
<1>. QED BY <1>1, <1>5, <1>6, <1>8, <1>9 DEF e, IsIndex

\* Remove takes out the entry of the key that the index finds, and no other.
LEMMA RemoveEffect ==
    ASSUME Inv, Remove
    PROVE  /\ data' \in Seq(Entry) /\ From(data', data) /\ data # << >>
           /\ \E i \in DOMAIN data :
                 /\ \A h \in DOMAIN data' : data'[h].id # data[i].id
                 /\ \A h \in DOMAIN data : h # i => \E j \in DOMAIN data' : data'[j] = data[h]
           /\ IsIndex(index', data')
<1>1. data \in Seq(Entry) /\ IsIndex(index, data)
  BY DEF Inv, TypeOK, IndexRight, IsIndex
<1>2. DOMAIN data = 1..Len(data) /\ Len(data) \in Nat
  BY <1>1, EntriesTyped
<1>3. PICK key \in DOMAIN index :
          /\ data' = SubSeq(data, 1, index[key] - 1) \o SubSeq(data, index[key] + 1, Len(data))
          /\ index' = Rebuilt({key}, data')
  BY DEF Remove
<1> DEFINE i == index[key]
<1>4. i \in 1..Len(data) /\ data[i].key = key
  BY <1>1, <1>2 DEF IsIndex
<1> HIDE DEF i
<1>5. /\ data' \in Seq(Entry) /\ Len(data') = Len(data) - 1
      /\ \A j \in 1..Len(data) - 1 : data'[j] = IF j < i THEN data[j] ELSE data[j + 1]
  BY <1>1, <1>3, <1>4, RemovalProperties DEF i
<1>6. DOMAIN data' = 1..Len(data) - 1
  BY <1>5, EntriesTyped
<1>7. From(data', data)
  <2> DEFINE f == [j \in DOMAIN data' |-> IF j < i THEN j ELSE j + 1]
  <2>1. f \in [DOMAIN data' -> DOMAIN data]
    BY <1>2, <1>4, <1>6
  <2>2. \A j \in DOMAIN data' : data'[j] = data[f[j]]
    BY <1>5, <1>6
  <2>3. \A j, h \in DOMAIN data' : f[j] = f[h] => j = h
    BY <1>2, <1>4, <1>6
  <2> HIDE DEF f
  <2>. QED BY <2>1, <2>2, <2>3 DEF From
<1>8. ASSUME NEW h \in DOMAIN data, h # i
      PROVE  \E j \in DOMAIN data' : data'[j] = data[h]
  <2>1. CASE h < i
    <3>1. h \in DOMAIN data' /\ data'[h] = data[h]
      BY <1>2, <1>4, <1>5, <1>6, <2>1
    <3>. QED BY <3>1
  <2>2. CASE h > i
    <3>1. h - 1 \in DOMAIN data' /\ ~(h - 1 < i) /\ (h - 1) + 1 = h
      BY <1>2, <1>4, <1>6, <2>2
    <3>2. data'[h - 1] = data[h]
      BY <1>5, <1>6, <3>1
    <3>. QED BY <3>1, <3>2
  <2>. QED BY <1>2, <1>4, <1>8, <2>1, <2>2
<1>9. ASSUME NEW h \in DOMAIN data'
      PROVE  data'[h].id # data[i].id
  <2>1. \A j, k \in DOMAIN data : data[j].id = data[k].id => j = k
    BY DEF Inv, Numbered
  <2>2. CASE h < i
    BY <1>2, <1>4, <1>5, <1>6, <2>1, <2>2
  <2>3. CASE ~(h < i)
    <3>1. h + 1 \in DOMAIN data /\ h + 1 # i /\ data'[h] = data[h + 1]
      BY <1>2, <1>4, <1>5, <1>6, <2>3
    <3>. QED BY <1>2, <1>4, <2>1, <3>1
  <2>. QED BY <2>2, <2>3
<1>10. IsIndex(index', data')
  <2>1. ASSUME NEW k \in DOMAIN index \ {key}
        PROVE  k \in KeysOf(data')
    <3>1. index[k] \in DOMAIN data /\ data[index[k]].key = k
      BY <1>1 DEF IsIndex
    <3>2. index[k] # i
      BY <1>4, <3>1
    <3>. QED BY <1>8, <3>1, <3>2 DEF KeysOf
  <2>2. DOMAIN index \ {key} \subseteq KeysOf(data')
    BY <2>1
  <2>3. IsIndex(Rebuilt({key}, data'), data')
    BY <1>5, <2>2, RebuiltIsIndex
  <2>. QED BY <1>3, <2>3
<1>. QED BY <1>2, <1>4, <1>5, <1>7, <1>8, <1>9, <1>10

\* Swap exchanges two entries, and the index follows.
LEMMA SwapEffect ==
    ASSUME Inv, Swap
    PROVE  /\ data' \in Seq(Entry) /\ Len(data') = Len(data)
           /\ From(data', data) /\ From(data, data')
           /\ IsIndex(index', data')
<1>1. data \in Seq(Entry) /\ IsIndex(index, data)
  BY DEF Inv, TypeOK, IndexRight, IsIndex
<1>2. DOMAIN data = 1..Len(data) /\ Len(data) \in Nat
  BY <1>1, EntriesTyped
<1>3. PICK i \in 1..Len(data) - 1 :
          /\ data' = [data EXCEPT ![i] = data[i + 1], ![i + 1] = data[i]]
          /\ index' = [index EXCEPT ![data[i + 1].key] = i, ![data[i].key] = i + 1]
  BY DEF Swap
<1>4. i \in DOMAIN data /\ i + 1 \in DOMAIN data /\ i # i + 1
  BY <1>2
<1>5. /\ DOMAIN data' = DOMAIN data
      /\ data'[i] = data[i + 1] /\ data'[i + 1] = data[i]
      /\ \A h \in DOMAIN data \ {i, i + 1} : data'[h] = data[h]
  BY <1>3, <1>4
<1>6. data' \in Seq(Entry) /\ Len(data') = Len(data)
  <2>1. \A h \in DOMAIN data : data[h] \in Entry
    BY <1>1
  <2>2. \A h \in DOMAIN data : data'[h] \in Entry
    BY <1>4, <1>5, <2>1
  <2> DEFINE t(h) == data'[h]
  <2>3. data' = [h \in 1..Len(data) |-> t(h)]
    BY <1>2, <1>3
  <2>4. \A h \in 1..Len(data) : t(h) \in Entry
    BY <1>2, <2>2
  <2> HIDE DEF t
  <2>. QED BY <1>2, <2>3, <2>4
<1>7. From(data', data) /\ From(data, data')
  <2> DEFINE f == [h \in DOMAIN data |-> IF h = i THEN i + 1 ELSE IF h = i + 1 THEN i ELSE h]
  <2>1. f \in [DOMAIN data -> DOMAIN data]
    BY <1>4
  <2>2. \A h \in DOMAIN data : data'[h] = data[f[h]] /\ data[h] = data'[f[h]]
    BY <1>4, <1>5
  <2>3. \A h, j \in DOMAIN data : f[h] = f[j] => h = j
    BY <1>4
  <2> HIDE DEF f
  <2>. QED BY <1>5, <2>1, <2>2, <2>3 DEF From
<1>8. KeysOf(data') = KeysOf(data)
  <2>1. ASSUME NEW h \in DOMAIN data
        PROVE  data'[h].key \in KeysOf(data) /\ data[h].key \in KeysOf(data')
    <3>1. CASE h = i
      BY <1>4, <1>5, <3>1 DEF KeysOf
    <3>2. CASE h = i + 1
      BY <1>4, <1>5, <3>2 DEF KeysOf
    <3>3. CASE h \notin {i, i + 1}
      BY <1>5, <3>3 DEF KeysOf
    <3>. QED BY <3>1, <3>2, <3>3
  <2>2. KeysOf(data') \subseteq KeysOf(data) /\ KeysOf(data) \subseteq KeysOf(data')
    BY <1>5, <2>1 DEF KeysOf
  <2>. QED BY <2>2
<1>9. /\ DOMAIN index' = DOMAIN index
      /\ data[i].key \in DOMAIN index /\ index'[data[i].key] = i + 1
      /\ data[i + 1].key \in DOMAIN index
      /\ data[i + 1].key # data[i].key => index'[data[i + 1].key] = i
      /\ \A k \in DOMAIN index \ {data[i].key, data[i + 1].key} : index'[k] = index[k]
  <2>1. data[i].key \in DOMAIN index /\ data[i + 1].key \in DOMAIN index
    BY <1>1, <1>4 DEF IsIndex, KeysOf
  <2> DEFINE ki == data[i].key
             kj == data[i + 1].key
  <2>2. index' = [index EXCEPT ![kj] = i, ![ki] = i + 1]
    BY <1>3
  <2>3. ki \in DOMAIN index /\ kj \in DOMAIN index
    BY <2>1
  <2> HIDE DEF ki, kj
  <2>4. /\ DOMAIN index' = DOMAIN index /\ index'[ki] = i + 1
        /\ kj # ki => index'[kj] = i
        /\ \A k \in DOMAIN index \ {ki, kj} : index'[k] = index[k]
    BY <2>2, <2>3
  <2>. QED BY <2>3, <2>4 DEF ki, kj
<1>10. ASSUME NEW k \in DOMAIN index'
       PROVE  index'[k] \in DOMAIN data' /\ data'[index'[k]].key = k
  <2>1. CASE k = data[i].key
    BY <1>4, <1>5, <1>9, <2>1
  <2>2. CASE k # data[i].key /\ k = data[i + 1].key
    BY <1>4, <1>5, <1>9, <2>2
  <2>3. CASE k # data[i].key /\ k # data[i + 1].key
    <3>1. index'[k] = index[k] /\ index[k] \in DOMAIN data /\ data[index[k]].key = k
      BY <1>1, <1>9, <2>3 DEF IsIndex
    <3>2. index[k] \notin {i, i + 1}
      BY <2>3, <3>1
    <3>. QED BY <1>5, <3>1, <3>2
  <2>. QED BY <2>1, <2>2, <2>3
<1>. QED BY <1>1, <1>6, <1>7, <1>8, <1>9, <1>10 DEF IsIndex

\* HandOver cuts the batch off at the front, and puts nothing else behind what has
\* left: the last batch is gone.
LEMMA HandOverEffect ==
    ASSUME Inv, HandOver
    PROVE  /\ count \in 1..Len(data) /\ expired = << >>
           /\ expired' \in Seq(Entry) /\ Len(expired') = count
           /\ \A i \in 1..count : expired'[i] = data[i]
           /\ data' \in Seq(Entry) /\ Len(data') = Len(data) - count
           /\ \A i \in 1..Len(data) - count : data'[i] = data[count + i]
           /\ From(data', data)
           /\ IsIndex(index', data')
<1>1. data \in Seq(Entry) /\ IsIndex(index, data) /\ index' = Rebuilt(KeysOf(expired'), data')
  BY DEF Inv, TypeOK, IndexRight, IsIndex, HandOver
<1>2. DOMAIN data = 1..Len(data) /\ Len(data) \in Nat
  BY <1>1, EntriesTyped
<1>3. count \in 1..Len(data) /\ expired = << >>
  BY <1>2 DEF Inv, Scanned, Delivering, HandOver
<1>4. expired' = SubSeq(data, 1, count) /\ data' = SubSeq(data, count + 1, Len(data))
  BY DEF HandOver
<1>5. /\ expired' \in Seq(Entry) /\ Len(expired') = count
      /\ \A i \in 1..count : expired'[i] = data[i]
      /\ data' \in Seq(Entry) /\ Len(data') = Len(data) - count
      /\ \A i \in 1..Len(data) - count : data'[i] = data[count + i]
  <2>1. count \in 0..Len(data)
    BY <1>3
  <2>. QED BY <1>1, <1>4, <2>1, CutProperties
<1>6. DOMAIN expired' = 1..count /\ DOMAIN data' = 1..Len(data) - count
  BY <1>5, EntriesTyped
<1>7. From(data', data)
  <2> DEFINE f == [j \in DOMAIN data' |-> count + j]
  <2>1. f \in [DOMAIN data' -> DOMAIN data]
    BY <1>2, <1>3, <1>6
  <2>2. \A j \in DOMAIN data' : data'[j] = data[f[j]]
    BY <1>5, <1>6
  <2>3. \A j, h \in DOMAIN data' : f[j] = f[h] => j = h
    BY <1>2, <1>3, <1>6
  <2> HIDE DEF f
  <2>. QED BY <2>1, <2>2, <2>3 DEF From
<1>8. IsIndex(index', data')
  <2>1. ASSUME NEW k \in DOMAIN index \ KeysOf(expired')
        PROVE  k \in KeysOf(data')
    <3>1. index[k] \in 1..Len(data) /\ data[index[k]].key = k
      BY <1>1, <1>2 DEF IsIndex
    <3>2. CASE index[k] <= count
      <4>1. index[k] \in DOMAIN expired' /\ expired'[index[k]].key = k
        BY <1>2, <1>3, <1>5, <1>6, <3>1, <3>2
      <4>. QED BY <4>1 DEF KeysOf
    <3>3. CASE ~(index[k] <= count)
      <4>1. index[k] - count \in DOMAIN data' /\ count + (index[k] - count) = index[k]
        BY <1>2, <1>3, <1>6, <3>1, <3>3
      <4>2. data'[index[k] - count].key = k
        BY <1>5, <1>6, <3>1, <4>1
      <4>. QED BY <4>1, <4>2 DEF KeysOf
    <3>. QED BY <3>2, <3>3
  <2>2. DOMAIN index \ KeysOf(expired') \subseteq KeysOf(data')
    BY <2>1
  <2>. QED BY <1>1, <1>5, <2>2, RebuiltIsIndex
<1>. QED BY <1>3, <1>5, <1>7, <1>8

\* What is true of every entry, or of every two, is still so of what is left.
LEMMA FromProperties ==
    ASSUME NEW s, NEW t, From(t, s)
    PROVE  /\ \A i \in DOMAIN t : \E h \in DOMAIN s : t[i] = s[h]
           /\ (\A i, j \in DOMAIN s : s[i].id = s[j].id => i = j)
                 => \A i, j \in DOMAIN t : t[i].id = t[j].id => i = j
<1>1. PICK f \in [DOMAIN t -> DOMAIN s] :
          /\ \A i \in DOMAIN t : t[i] = s[f[i]]
          /\ \A i, j \in DOMAIN t : f[i] = f[j] => i = j
  BY DEF From
<1>2. \A i \in DOMAIN t : f[i] \in DOMAIN s
  BY <1>1
<1>. QED BY <1>1, <1>2

-----------------------------------------------------------------------------
(* The invariant is inductive: one lemma for each of its parts. *)

\* The empty sequence has every type of a sequence used here.
LEMMA EmptySeqs ==
    /\ << >> \in Seq(Entry) /\ << >> \in Seq(Int)
    /\ << >> \in Seq(Keys) /\ << >> \in Seq(0..Horizon)
OBVIOUS

\* A new queue, as NewTimeoutQueue makes it, satisfies the invariant.
LEMMA InitInv == Init => Inv
<1> SUFFICES ASSUME Init
             PROVE  Inv
  OBVIOUS
<1>1. TypeOK
  <2>1. DOMAIN index = {}
    BY DEF Init
  <2>2. /\ data \in Seq(Entry) /\ expired \in Seq(Entry) /\ timeoutCh \in Seq(Entry)
        /\ sending \in Seq(Int) /\ resetCh \in Seq(Int) /\ after \in Seq(Int)
        /\ alarm \in Seq(0..Horizon) /\ handling \in Seq(Keys)
    BY EmptySeqs DEF Init
  <2>3. 0 \in 0..Horizon /\ 0 \in 0..MaxOffers /\ 0 \in 0..MaxRemoves
    BY BoundsAssumption
  <2>. QED BY <2>1, <2>2, <2>3 DEF Init, TypeOK
<1>2. IndexRight
  BY DEF Init, IndexRight, KeysOf
<1>3. MutexRight /\ WaitsRight /\ Numbered /\ Scanned /\ Delivering /\ WakesInTime
  BY ConsumerAssumption
     DEF Init, MutexRight, WaitsRight, Pending, Numbered, Scanned, Delivering, WakesInTime
<1>. QED BY <1>1, <1>2, <1>3 DEF Inv

\* A wait on its way sets the timer to an instant of the clock.
LEMMA FiresAtType ==
    ASSUME now \in 0..Horizon, NEW wait \in Int, now + wait >= 0
    PROVE  FiresAt(wait) \in 0..Horizon
BY BoundsAssumption DEF FiresAt

\* What OfferWithTime leaves to Offer and OfferAgain.
LEMMA Offers ==
    ASSUME Inv, Offer \/ OfferAgain
    PROVE  /\ \E c \in Clients, key \in Keys, due \in Nat : OfferWithTime(c, key, due)
           /\ handling' \in {handling, << >>}
<1>1. 0..Horizon \subseteq Nat
  BY BoundsAssumption
<1>2. CASE Offer
  BY <1>1, <1>2 DEF Offer
<1>3. CASE OfferAgain
  <2>1. handling[1] \in Keys
    BY <1>3 DEF Inv, TypeOK, OfferAgain
  <2>. QED BY <1>1, <1>3, <2>1, ConsumerAssumption DEF OfferAgain
<1>. QED BY <1>2, <1>3

\* Positions and keys of an index have their types.
LEMMA IndexTyped ==
    ASSUME NEW ix, NEW s \in Seq(Entry), IsIndex(ix, s)
    PROVE  DOMAIN ix \subseteq Keys /\ \A k \in DOMAIN ix : ix[k] \in Nat
<1>1. DOMAIN s = 1..Len(s) /\ Len(s) \in Nat /\ \A i \in 1..Len(s) : s[i].key \in Keys
  BY EntriesTyped
<1>. QED BY <1>1 DEF IsIndex, KeysOf

\* The end of sort sets the timer to an instant of the clock, if at all.
LEMMA ReturnType ==
    ASSUME Inv, Return
    PROVE  alarm' \in Seq(0..Horizon)
<1>1. CASE after = << >>
  BY <1>1 DEF Inv, TypeOK, Return
<1>2. CASE after # << >>
  <2>1. after[1] \in Int /\ now + after[1] >= 0
    BY <1>2 DEF Inv, TypeOK, WaitsRight, Pending
  <2>2. FiresAt(after[1]) \in 0..Horizon
    BY <2>1, FiresAtType DEF Inv, TypeOK
  <2>3. alarm' = <<FiresAt(after[1])>>
    BY <1>2 DEF Return
  <2>. QED BY <2>2, <2>3
<1>. QED BY <1>1, <1>2

\* No step of a goroutine, a client or the clock breaks the types.
LEMMA TypeStep ==
    ASSUME Inv, [Next]_vars
    PROVE  TypeOK'
<1>. USE BoundsAssumption, EmptySeqs DEF queue, timer, delivery, client
<1>0. TypeOK
  BY DEF Inv
<1>. USE DEF TypeOK
<1>1. CASE Tick
  BY <1>0, <1>1 DEF Tick
<1>2. CASE Offer \/ OfferAgain
  <2>1. PICK c \in Clients, key \in Keys, due \in Nat : OfferWithTime(c, key, due)
    BY <1>0, <1>2, Offers
  <2>2. data' \in Seq(Entry) /\ IsIndex(index', data')
    BY <2>1, OfferEffect
  <2>3. DOMAIN index' \subseteq Keys /\ \A k \in DOMAIN index' : index'[k] \in Nat
    BY <2>2, IndexTyped
  <2>4. offers' \in 0..MaxOffers
    BY <1>0, <2>1 DEF OfferWithTime
  <2>5. <<due - now>> \in Seq(Int)
    <3>1. due - now \in Int
      BY <1>0
    <3>. QED BY <3>1
  <2>6. nextSort' \in Nat /\ mu' \in Clients \cup {"none", "timer"} /\ sending' \in Seq(Int)
    BY <1>0, <2>1, <2>5 DEF OfferWithTime
  <2>7. handling' \in Seq(Keys)
    <3>1. handling' \in {handling, << >>}
      BY <1>0, <1>2, Offers
    <3>. QED BY <1>0, <3>1
  <2>. QED BY <1>0, <2>1, <2>2, <2>3, <2>4, <2>6, <2>7 DEF OfferWithTime
<1>3. CASE Remove
  <2>1. data' \in Seq(Entry) /\ IsIndex(index', data')
    BY <1>0, <1>3, RemoveEffect
  <2>2. DOMAIN index' \subseteq Keys /\ \A k \in DOMAIN index' : index'[k] \in Nat
    BY <2>1, IndexTyped
  <2>3. removes' \in 0..MaxRemoves
    BY <1>0, <1>3 DEF Remove
  <2>. QED BY <1>0, <1>3, <2>1, <2>2, <2>3 DEF Remove
<1>4. CASE Swap
  <2>1. data' \in Seq(Entry) /\ IsIndex(index', data')
    BY <1>0, <1>4, SwapEffect
  <2>2. DOMAIN index' \subseteq Keys /\ \A k \in DOMAIN index' : index'[k] \in Nat
    BY <2>1, IndexTyped
  <2>. QED BY <1>0, <1>4, <2>1, <2>2 DEF Swap
<1>5. CASE HandOver
  <2>1. data' \in Seq(Entry) /\ expired' \in Seq(Entry) /\ IsIndex(index', data')
    BY <1>0, <1>5, HandOverEffect
  <2>2. DOMAIN index' \subseteq Keys /\ \A k \in DOMAIN index' : index'[k] \in Nat
    BY <2>1, IndexTyped
  <2>3. Return => alarm' \in Seq(0..Horizon)
    BY ReturnType
  <2>. QED BY <1>0, <1>5, <2>1, <2>2, <2>3 DEF HandOver, Return
<1>6. CASE Find
  BY <1>0, <1>6 DEF Find
<1>7. CASE Sent
  BY <1>0, <1>7 DEF Sent
<1>8. CASE Take
  <2>1. timeoutCh[1].key \in Keys
    <3>1. timeoutCh \in Seq(Entry) /\ timeoutCh # << >>
      BY <1>0, <1>8 DEF Take
    <3>2. 1 \in 1..Len(timeoutCh)
      BY <3>1
    <3>. QED BY <3>1, <3>2, EntriesTyped
  <2>2. <<timeoutCh[1].key>> \in Seq(Keys)
    BY <2>1
  <2>3. handling' \in Seq(Keys)
    <3>1. handling' = << >> \/ handling' = <<timeoutCh[1].key>>
      BY <1>8 DEF Take
    <3>. QED BY <2>2, <3>1
  <2>. QED BY <1>0, <1>8, <2>3 DEF Take
<1>9. CASE Ring
  BY <1>0, <1>9 DEF Ring
<1>10. CASE Reset
  <2>1. resetCh[1] \in Int /\ now + resetCh[1] >= 0
    <3>1. resetCh \in Seq(Int) /\ resetCh # << >> /\ resetCh \in Pending
      BY <1>0, <1>10 DEF Reset, Pending
    <3>2. 1 \in DOMAIN resetCh
      BY <3>1
    <3>. QED BY <3>1, <3>2 DEF Inv, WaitsRight
  <2>2. <<FiresAt(resetCh[1])>> \in Seq(0..Horizon)
    <3>1. FiresAt(resetCh[1]) \in 0..Horizon
      BY <1>0, <2>1, FiresAtType
    <3>. QED BY <3>1
  <2>3. alarm' \in Seq(0..Horizon)
    BY <1>0, <1>10, <2>2 DEF Reset
  <2>4. sorter' \in {"select", "lock"} /\ after' \in Seq(Int) /\ rung' \in BOOLEAN
    BY <1>0, <1>10 DEF Reset
  <2>. QED BY <1>0, <1>10, <2>3, <2>4 DEF Reset
<1>11. CASE Expire
  BY <1>0, <1>11 DEF Expire
<1>12. CASE SortLock
  <2>1. Return => alarm' \in Seq(0..Horizon)
    BY ReturnType
  <2>2. /\ mu' \in Clients \cup {"none", "timer"}
        /\ alarm' \in Seq(0..Horizon) /\ after' \in Seq(Int) /\ count' \in Nat
        /\ rung' \in BOOLEAN /\ sorter' \in {"select", "lock", "sort", "send", "spin"}
    <3>1. CASE data = << >>
      BY <1>0, <1>12, <2>1, <3>1 DEF SortLock, Return
    <3>2. CASE data # << >>
      BY <1>0, <1>12, <3>2 DEF SortLock
    <3>. QED BY <3>1, <3>2
  <2>. QED BY <1>0, <1>12, <2>2 DEF SortLock
<1>13. CASE Scan
  <2>1. PICK n \in Nat : count' = n /\ n <= Len(data)
    BY <1>0, <1>13, DueAtFrontProperties DEF Scan
  <2>2. CASE n < Len(data)
    <3>1. data[n + 1].due \in Nat
      <4>1. data \in Seq(Entry) /\ Len(data) \in Nat
        BY <1>0
      <4>2. n + 1 \in 1..Len(data)
        BY <2>1, <2>2, <4>1
      <4>. QED BY <4>1, <4>2, EntriesTyped
    <3>2. <<data[n + 1].due - now>> \in Seq(Int)
      <4>1. data[n + 1].due - now \in Int
        BY <1>0, <3>1
      <4>. QED BY <4>1
    <3>3. nextSort' \in Nat /\ sending' \in Seq(Int) /\ sorter' = "send"
      BY <1>13, <2>1, <2>2, <3>1, <3>2 DEF Scan
    <3>. QED BY <1>0, <1>13, <2>1, <3>3 DEF Scan
  <2>3. CASE ~(n < Len(data))
    BY <1>0, <1>13, <2>1, <2>3 DEF Scan
  <2>. QED BY <2>2, <2>3
<1>14. CASE SortSent
  <2>1. Return => alarm' \in Seq(0..Horizon)
    BY ReturnType
  <2>2. alarm' \in Seq(0..Horizon) /\ after' \in Seq(Int) /\ count' \in Nat
        /\ rung' \in BOOLEAN /\ sorter' \in {"select", "lock", "sort", "send", "spin"}
        /\ mu' \in Clients \cup {"none", "timer"}
    BY <1>0, <1>14, <2>1 DEF SortSent, Return
  <2>. QED BY <1>0, <1>14, <2>2 DEF SortSent
<1>15. CASE Deliver
  <2>1. Head(expired) \in Entry /\ Tail(expired) \in Seq(Entry)
    BY <1>0, <1>15, HeadTailProperties DEF Deliver
  <2>. QED BY <1>0, <1>15, <2>1 DEF Deliver
<1>16. CASE Delivered
  BY <1>0, <1>16 DEF Delivered
<1>17. CASE UNCHANGED vars
  BY <1>0, <1>17 DEF vars
<1>. QED BY <1>1, <1>2, <1>3, <1>4, <1>5, <1>6, <1>7, <1>8, <1>9, <1>10, <1>11, <1>12,
           <1>13, <1>14, <1>15, <1>16, <1>17 DEF Next, Timer

\* Lock and Unlock are where the states of the goroutine of the timer say.
LEMMA MutexStep ==
    ASSUME Inv, [Next]_vars
    PROVE  MutexRight'
<1>. USE ConsumerAssumption DEF MutexRight, queue, timer, delivery, client
<1>0. MutexRight
  BY DEF Inv
<1>1. CASE Offer \/ OfferAgain
  <2>1. PICK c \in Clients, key \in Keys, due \in Nat : OfferWithTime(c, key, due)
    BY <1>1, Offers
  <2>2. mu = "none" /\ sorter' = sorter
    BY <2>1 DEF OfferWithTime
  <2>3. mu' = "none" \/ (mu' = c /\ sending' = <<due - now>>)
    BY <2>1 DEF OfferWithTime
  <2>4. c # "timer" /\ "none" \notin Clients
    OBVIOUS
  <2>5. CASE mu' = "none"
    BY <1>0, <2>2, <2>4, <2>5
  <2>6. CASE mu' = c /\ sending' = <<due - now>>
    <3>1. sending' # << >>
      BY <2>6
    <3>2. sorter \notin {"sort", "send", "spin"}
      BY <1>0, <2>2
    <3>. QED BY <2>2, <2>4, <2>6, <3>1, <3>2
  <2>. QED BY <2>3, <2>5, <2>6
<1>2. CASE Tick \/ Find \/ Remove \/ Sent \/ Take \/ Ring
  BY <1>0, <1>2 DEF Tick, Find, Remove, Sent, Take, Ring
<1>3. CASE Reset \/ Expire \/ SortLock \/ Swap
  BY <1>0, <1>3 DEF Reset, Expire, SortLock, Swap, Return
<1>4. CASE Scan \/ SortSent \/ HandOver
  BY <1>0, <1>4 DEF Scan, SortSent, HandOver, Return
<1>5. CASE Deliver \/ Delivered \/ UNCHANGED vars
  BY <1>0, <1>5 DEF Deliver, Delivered, vars
<1>. QED BY <1>1, <1>2, <1>3, <1>4, <1>5 DEF Next, Timer

\* A wait that is sent leads to a time that is due, and the clock only goes on.
LEMMA WaitsStep ==
    ASSUME Inv, [Next]_vars
    PROVE  WaitsRight'
<1>. USE DEF queue, timer, delivery, client
<1> DEFINE Fits(s) == \A i \in DOMAIN s : now + s[i] >= 0
<1>0. /\ Fits(sending) /\ Fits(resetCh) /\ Fits(after)
      /\ sending \in Seq(Int) /\ resetCh \in Seq(Int) /\ after \in Seq(Int) /\ now \in Nat
  BY BoundsAssumption DEF Inv, WaitsRight, Pending, TypeOK
<1>1. ASSUME NEW due \in Nat
      PROVE  Fits(<<due - now>>)
  BY <1>0
<1>2. Fits(<< >>)
  OBVIOUS
<1>3. CASE Tick
  <2>1. ASSUME NEW s \in Seq(Int), Fits(s), NEW i \in DOMAIN s
        PROVE  now + 1 + s[i] >= 0
    BY <1>0, <2>1
  <2>. QED BY <1>0, <1>3, <2>1 DEF Tick, WaitsRight, Pending
<1>4. CASE now' = now /\ sending' \in {sending, << >>, resetCh, after}
           /\ resetCh' \in {sending, << >>, resetCh, after}
           /\ after' \in {sending, << >>, resetCh, after}
  BY <1>0, <1>2, <1>4 DEF WaitsRight, Pending
<1>5. ASSUME NEW due \in Nat, now' = now, sending' = <<due - now>>, UNCHANGED <<resetCh, after>>
      PROVE  WaitsRight'
  BY <1>0, <1>1, <1>5 DEF WaitsRight, Pending
<1>6. CASE Offer \/ OfferAgain
  <2>1. PICK c \in Clients, key \in Keys, due \in Nat : OfferWithTime(c, key, due)
    BY <1>6, Offers
  <2>. QED BY <1>4, <1>5, <2>1 DEF OfferWithTime
<1>7. CASE Scan
  <2>1. PICK n \in Nat : count' = n /\ n <= Len(data)
    BY <1>7, <1>0, DueAtFrontProperties DEF Scan, Inv, TypeOK
  <2>2. CASE n < Len(data)
    <3>1. data[n + 1].due \in Nat
      <4>1. data \in Seq(Entry) /\ Len(data) \in Nat
        BY DEF Inv, TypeOK
      <4>2. n + 1 \in 1..Len(data)
        BY <2>1, <2>2, <4>1
      <4>. QED BY <4>1, <4>2, EntriesTyped
    <3>2. now' = now /\ sending' = <<data[n + 1].due - now>> /\ UNCHANGED <<resetCh, after>>
      BY <1>7, <2>1, <2>2 DEF Scan
    <3>. QED BY <1>5, <3>1, <3>2
  <2>3. CASE ~(n < Len(data))
    BY <1>4, <1>7, <2>1, <2>3 DEF Scan
  <2>. QED BY <2>2, <2>3
<1>8. CASE Find \/ Remove \/ Sent \/ Take \/ Ring
  BY <1>4, <1>8 DEF Find, Remove, Sent, Take, Ring
<1>9. CASE Reset \/ Expire \/ SortLock \/ Swap
  BY <1>4, <1>9 DEF Reset, Expire, SortLock, Swap, Return
<1>10. CASE SortSent \/ HandOver
  BY <1>4, <1>10 DEF SortSent, HandOver, Return
<1>11. CASE Deliver \/ Delivered \/ UNCHANGED vars
  BY <1>4, <1>11 DEF Deliver, Delivered, vars
<1>. QED BY <1>3, <1>6, <1>7, <1>8, <1>9, <1>10, <1>11 DEF Next, Timer

\* Every step that changes the slice leaves a right index, the others leave both.
LEMMA IndexStep ==
    ASSUME Inv, [Next]_vars
    PROVE  IndexRight'
<1>. USE DEF queue
<1>1. ASSUME IsIndex(index', data')
      PROVE  IndexRight'
  BY <1>1 DEF IsIndex, IndexRight
<1>2. CASE UNCHANGED <<data, index>>
  BY <1>2 DEF Inv, IndexRight, KeysOf
<1>3. CASE Offer \/ OfferAgain
  BY <1>1, <1>3, Offers, OfferEffect
<1>4. CASE Remove
  BY <1>1, <1>4, RemoveEffect
<1>5. CASE Swap
  BY <1>1, <1>5, SwapEffect
<1>6. CASE HandOver
  BY <1>1, <1>6, HandOverEffect
<1>7. CASE Tick \/ Find \/ Sent \/ Take \/ Ring
  BY <1>2, <1>7 DEF Tick, Find, Sent, Take, Ring
<1>8. CASE Reset \/ Expire \/ SortLock \/ Scan \/ SortSent
  BY <1>2, <1>8 DEF Reset, Expire, SortLock, Scan, SortSent
<1>9. CASE Deliver \/ Delivered \/ UNCHANGED vars
  BY <1>2, <1>9 DEF Deliver, Delivered, vars
<1>. QED BY <1>3, <1>4, <1>5, <1>6, <1>7, <1>8, <1>9 DEF Next, Timer

\* Offers take a new number, and other steps only move entries on.
LEMMA NumberedStep ==
    ASSUME Inv, [Next]_vars
    PROVE  Numbered'
<1>. USE DEF queue, timer, delivery, client
<1>0. /\ Numbered /\ offers \in Nat
      /\ data \in Seq(Entry) /\ expired \in Seq(Entry) /\ timeoutCh \in Seq(Entry)
  BY BoundsAssumption DEF Inv, TypeOK
<1>1. CASE UNCHANGED <<data, expired, timeoutCh, offers>>
  BY <1>0, <1>1 DEF Numbered
<1>2. CASE From(data', data) /\ UNCHANGED <<expired, timeoutCh, offers>>
  BY <1>0, <1>2, FromProperties DEF Numbered
<1>3. CASE Offer \/ OfferAgain
  <2>1. PICK c \in Clients, key \in Keys, due \in Nat : OfferWithTime(c, key, due)
    BY <1>3, Offers
  <2>2. /\ data' \in Seq(Entry) /\ Len(data') = Len(data) + 1
        /\ \A i \in 1..Len(data) : data'[i] = data[i]
        /\ data'[Len(data) + 1] = [key |-> key, id |-> offers, due |-> due]
    BY <2>1, OfferEffect
  <2>10. data'[Len(data) + 1].id = offers
    BY <2>2
  <2>3. /\ DOMAIN data' = 1..Len(data) + 1 /\ DOMAIN data = 1..Len(data)
        /\ Len(data) \in Nat
        /\ \A i \in DOMAIN data : data[i].id \in Nat
        /\ \A i \in DOMAIN expired : expired[i].id \in Nat
        /\ \A i \in DOMAIN timeoutCh : timeoutCh[i].id \in Nat
    BY <1>0, <2>2, EntriesTyped
  <2>4. offers' = offers + 1 /\ UNCHANGED <<expired, timeoutCh>>
    BY <2>1 DEF OfferWithTime
  <2>5. \A i \in DOMAIN data' : i \in DOMAIN data \/ i = Len(data) + 1
    BY <2>3
  <2>6. /\ \A i \in DOMAIN data : data'[i].id = data[i].id /\ data[i].id < offers
        /\ \A i, j \in DOMAIN data : data[i].id = data[j].id => i = j
    BY <1>0, <2>2, <2>3 DEF Numbered
  <2>7. \A i \in DOMAIN data' : data'[i].id < offers'
    BY <1>0, <2>3, <2>4, <2>5, <2>6, <2>10
  <2>8. ASSUME NEW i \in DOMAIN data', NEW j \in DOMAIN data', data'[i].id = data'[j].id
        PROVE  i = j
    <3>1. CASE i \in DOMAIN data /\ j \in DOMAIN data
      BY <2>6, <2>8, <3>1
    <3>2. CASE i \in DOMAIN data /\ j = Len(data) + 1
      BY <1>0, <2>3, <2>6, <2>8, <2>10, <3>2
    <3>3. CASE i = Len(data) + 1 /\ j \in DOMAIN data
      BY <1>0, <2>3, <2>6, <2>8, <2>10, <3>3
    <3>. QED BY <2>5, <3>1, <3>2, <3>3
  <2>9. /\ \A i \in DOMAIN expired : expired[i].id < offers'
        /\ \A i \in DOMAIN timeoutCh : timeoutCh[i].id < offers'
    BY <1>0, <2>3, <2>4 DEF Numbered
  <2>. QED BY <2>4, <2>7, <2>8, <2>9 DEF Numbered
<1>4. CASE Remove
  <2>1. From(data', data)
    BY <1>4, RemoveEffect
  <2>. QED BY <1>2, <1>4, <2>1 DEF Remove
<1>5. CASE Swap
  <2>1. From(data', data)
    BY <1>5, SwapEffect
  <2>. QED BY <1>2, <1>5, <2>1 DEF Swap
<1>6. CASE HandOver
  <2>1. /\ From(data', data) /\ UNCHANGED <<timeoutCh, offers>>
        /\ count \in 1..Len(data) /\ expired' \in Seq(Entry) /\ Len(expired') = count
        /\ \A i \in 1..count : expired'[i] = data[i]
    BY <1>6, HandOverEffect DEF HandOver
  <2>2. DOMAIN expired' = 1..count /\ DOMAIN data = 1..Len(data) /\ Len(data) \in Nat
    BY <1>0, <2>1, EntriesTyped
  <2>3. \A i \in DOMAIN expired' : i \in DOMAIN data /\ expired'[i] = data[i]
    BY <2>1, <2>2
  <2>4. \A i \in DOMAIN data' : \E h \in DOMAIN data : data'[i] = data[h]
    BY <2>1, FromProperties
  <2>5. \A i, j \in DOMAIN data' : data'[i].id = data'[j].id => i = j
    BY <1>0, <2>1, FromProperties DEF Numbered
  <2>. QED BY <1>0, <2>1, <2>3, <2>4, <2>5 DEF Numbered
<1>7. CASE Deliver
  <2>1. UNCHANGED <<data, offers>>
    BY <1>7 DEF Deliver
  <2>2. expired # << >> /\ timeoutCh' = <<expired[1]>> /\ expired' = Tail(expired)
    BY <1>0, <1>7 DEF Deliver
  <2>3. /\ Tail(expired) \in Seq(Entry) /\ Len(Tail(expired)) = Len(expired) - 1
        /\ \A i \in 1..Len(Tail(expired)) : Tail(expired)[i] = expired[i + 1]
    BY <1>0, <2>2, HeadTailProperties
  <2>4. /\ DOMAIN expired' = 1..Len(expired) - 1 /\ DOMAIN expired = 1..Len(expired)
        /\ Len(expired) \in Nat /\ Len(expired) # 0
    BY <1>0, <2>2, <2>3, EntriesTyped
  <2>5. \A i \in DOMAIN expired' : i + 1 \in DOMAIN expired /\ expired'[i] = expired[i + 1]
    BY <2>2, <2>3, <2>4
  <2>6. DOMAIN timeoutCh' = {1} /\ timeoutCh'[1] = expired[1] /\ 1 \in DOMAIN expired
    BY <2>2, <2>4
  <2>. QED BY <1>0, <2>1, <2>5, <2>6 DEF Numbered
<1>8. CASE Take
  <2>1. DOMAIN timeoutCh' = {} /\ UNCHANGED <<data, expired, offers>>
    BY <1>8 DEF Take
  <2>. QED BY <1>0, <2>1 DEF Numbered
<1>9. CASE Tick \/ Find \/ Sent \/ Ring
  BY <1>1, <1>9 DEF Tick, Find, Sent, Ring
<1>10. CASE Reset \/ Expire \/ SortLock \/ Scan \/ SortSent
  BY <1>1, <1>10 DEF Reset, Expire, SortLock, Scan, SortSent
<1>11. CASE Delivered \/ UNCHANGED vars
  BY <1>1, <1>11 DEF Delivered, vars
<1>. QED BY <1>3, <1>4, <1>5, <1>6, <1>7, <1>8, <1>9, <1>10, <1>11 DEF Next, Timer

\* What the loop of sort finds, with a constant for the count.
LEMMA ScanEffect ==
    ASSUME Inv, Scan
    PROVE  \E n \in 0..Len(data) :
              /\ count' = n /\ \A i \in 1..n : data[i].due <= now
              /\ n < Len(data) =>
                    nextSort' = data[n + 1].due /\ sorter' = "send"
              /\ ~(n < Len(data)) => sorter' = "spin"
<1>1. data \in Seq(Entry) /\ now \in Nat
  BY BoundsAssumption DEF Inv, TypeOK
<1>2. PICK n \in 0..Len(data) : n = DueAtFront(data) /\ \A i \in 1..n : data[i].due <= now
  BY <1>1, DueAtFrontProperties
<1>. QED BY <1>2 DEF Scan

\* Nobody touches the slice while the goroutine of the timer holds the mutex.
LEMMA ScannedStep ==
    ASSUME Inv, [Next]_vars
    PROVE  Scanned'
<1>. USE DEF queue, timer, delivery, client
<1>0. /\ Scanned /\ MutexRight /\ data \in Seq(Entry) /\ now \in Nat /\ count \in Nat
      /\ sorter \in {"select", "lock", "sort", "send", "spin"}
  BY BoundsAssumption DEF Inv, TypeOK
<1>a. /\ Len(data) \in Nat /\ DOMAIN data = 1..Len(data)
       /\ \A i \in 1..Len(data) : data[i].due \in Nat
  BY <1>0, EntriesTyped
<1>1. CASE sorter' \notin {"sort", "send", "spin"}
  BY <1>1 DEF Scanned
<1>2. CASE mu = "none" /\ sorter' = sorter
  BY <1>0, <1>1, <1>2 DEF MutexRight
<1>3. CASE /\ UNCHANGED <<data, nextSort, count, sorter>> /\ now' = now
           /\ (sorter = "spin" => resetCh' = resetCh)
  BY <1>0, <1>3 DEF Scanned, Sorted
<1>4. CASE Offer \/ OfferAgain
  <2>1. PICK c \in Clients, key \in Keys, due \in Nat : OfferWithTime(c, key, due)
    BY <1>4, Offers
  <2>. QED BY <1>2, <2>1 DEF OfferWithTime
<1>5. CASE Remove \/ Find
  BY <1>2, <1>5 DEF Remove, Find
<1>6. CASE Tick
  <2>1. now' = now + 1 /\ UNCHANGED <<data, nextSort, count, sorter, resetCh>>
    BY <1>6 DEF Tick
  <2>2. ASSUME count \in 0..Len(data), \A i \in 1..count : data[i].due <= now
        PROVE  \A i \in 1..count : data[i].due <= now + 1
    BY <1>0, <1>a, <2>2
  <2>. QED BY <1>0, <2>1, <2>2 DEF Scanned, Sorted
<1>7. CASE Sent
  <2>1. sorter' = sorter /\ sorter \notin {"sort", "send", "spin"}
    BY <1>0, <1>7, ConsumerAssumption DEF Sent, MutexRight
  <2>. QED BY <1>1, <2>1
<1>8. CASE Swap
  <2>1. data' \in Seq(Entry) /\ Len(data') = Len(data) /\ sorter = "sort" /\ sorter' = "sort"
    BY <1>8, SwapEffect DEF Swap
  <2>2. data' # << >>
    <3>1. Len(data) # 0
      BY <1>0, <2>1 DEF Scanned
    <3>. QED BY <2>1, <3>1
  <2>. QED BY <2>1, <2>2 DEF Scanned
<1>9. CASE Scan
  <2>1. PICK n \in 0..Len(data) :
              /\ count' = n /\ \A i \in 1..n : data[i].due <= now
              /\ n < Len(data) =>
                    nextSort' = data[n + 1].due /\ sorter' = "send"
              /\ ~(n < Len(data)) => sorter' = "spin"
    BY <1>9, ScanEffect
  <2>2. data' = data /\ now' = now /\ Sorted(data) /\ data # << >>
    BY <1>0, <1>9 DEF Scan, Scanned
  <2>3. Sorted(data')
    BY <2>2 DEF Sorted
  <2>4. Len(data) # 0
    BY <1>0, <2>2
  <2>5. /\ count' \in 0..Len(data') /\ \A i \in 1..count' : data'[i].due <= now'
        /\ count' < Len(data') => nextSort' = data'[count' + 1].due
    BY <2>1, <2>2
  <2>6. /\ sorter' = "send" => count' < Len(data')
        /\ sorter' = "spin" => count' >= 1 /\ ~(count' < Len(data'))
    BY <1>a, <2>1, <2>2, <2>4
  <2>. QED BY <2>2, <2>3, <2>5, <2>6 DEF Scanned
<1>10. CASE SortSent
  <2>1. CASE count = 0
    BY <1>1, <1>10, <2>1 DEF SortSent, Return
  <2>2. CASE count # 0
    <3>1. /\ UNCHANGED <<data, nextSort, count, now>> /\ resetCh' = sending
          /\ sorter = "send" /\ sorter' = "spin" /\ sending # << >>
      BY <1>0, <1>10, <2>2 DEF SortSent, MutexRight
    <3>. QED BY <1>0, <2>2, <3>1 DEF Scanned, Sorted
  <2>. QED BY <2>1, <2>2
<1>11. CASE HandOver
  BY <1>1, <1>11 DEF HandOver, Return
<1>12. CASE Reset \/ Expire
  BY <1>1, <1>12 DEF Reset, Expire
<1>13. CASE SortLock
  <2>1. CASE data = << >>
    BY <1>1, <1>13, <2>1 DEF SortLock, Return
  <2>2. CASE data # << >>
    BY <1>13, <2>2 DEF SortLock, Scanned
  <2>. QED BY <2>1, <2>2
<1>14. CASE Take \/ Ring \/ Deliver \/ Delivered \/ UNCHANGED vars
  BY <1>3, <1>14 DEF Take, Ring, Deliver, Delivered, vars
<1>. QED BY <1>4, <1>5, <1>6, <1>7, <1>8, <1>9, <1>10, <1>11, <1>12, <1>13, <1>14
         DEF Next, Timer

\* A batch is handed over only when the last one is gone.
LEMMA DeliveringStep ==
    ASSUME Inv, [Next]_vars
    PROVE  Delivering'
<1>. USE DEF delivery
<1>0. Delivering
  BY DEF Inv
<1>1. CASE UNCHANGED delivery
  BY <1>0, <1>1 DEF Delivering
<1>2. CASE Take
  BY <1>0, <1>2 DEF Take, Delivering
<1>3. CASE Deliver
  BY <1>0, <1>3 DEF Deliver, Delivering
<1>4. CASE Delivered
  BY <1>0, <1>4 DEF Delivered, Delivering
<1>5. CASE HandOver
  BY <1>0, <1>5 DEF HandOver, Delivering
<1>6. CASE Offer \/ OfferAgain
  BY <1>1, <1>6, Offers DEF OfferWithTime
<1>7. CASE Tick \/ Find \/ Remove \/ Sent \/ Ring
  BY <1>1, <1>7 DEF Tick, Find, Remove, Sent, Ring
<1>8. CASE Reset \/ Expire \/ SortLock \/ Swap \/ Scan \/ SortSent
  BY <1>1, <1>8 DEF Reset, Expire, SortLock, Swap, Scan, SortSent
<1>9. CASE UNCHANGED vars
  BY <1>1, <1>9 DEF vars
<1>. QED BY <1>2, <1>3, <1>4, <1>5, <1>6, <1>7, <1>8, <1>9 DEF Next, Timer

\* The two parts of WakesInTime.
Woken == rung \/ sorter # "select" \/ \E s \in {alarm, resetCh, sending} : s # << >>
Expected == sorter \in {"send", "spin"} \/ \A i \in DOMAIN data : nextSort <= data[i].due

\* Every step that leaves entries leaves something that wakes the goroutine in time.
LEMMA WakesStep ==
    ASSUME Inv, [Next]_vars
    PROVE  WakesInTime'
<1>. USE DEF queue, timer, delivery, client
<1>0. /\ data # << >> => Woken /\ Expected
      /\ Scanned /\ MutexRight /\ data \in Seq(Entry) /\ nextSort \in Nat
      /\ sorter \in {"select", "lock", "sort", "send", "spin"}
  BY DEF Inv, TypeOK, WakesInTime, Woken, Expected
<1>a. /\ Len(data) \in Nat /\ DOMAIN data = 1..Len(data)
       /\ \A i \in 1..Len(data) : data[i].due \in Nat
  BY <1>0, EntriesTyped
<1>1. SUFFICES ASSUME data' # << >>
               PROVE  Woken' /\ Expected'
  BY DEF WakesInTime, Woken, Expected
<1>2. ASSUME UNCHANGED <<data, nextSort>>, sorter \notin {"send", "spin"} \/ sorter' \in {"send", "spin"}
      PROVE  Expected'
  BY <1>0, <1>1, <1>2 DEF Expected
<1>3. CASE UNCHANGED <<data, nextSort, rung, sorter, alarm, resetCh, sending>>
  BY <1>0, <1>1, <1>3 DEF Woken, Expected
<1>4. CASE Offer \/ OfferAgain
  <2>1. PICK c \in Clients, key \in Keys, due \in Nat : OfferWithTime(c, key, due)
    BY <1>4, Offers
  <2>2. /\ data' \in Seq(Entry) /\ Len(data') = Len(data) + 1
        /\ \A i \in 1..Len(data) : data'[i] = data[i]
        /\ data'[Len(data) + 1] = [key |-> key, id |-> offers, due |-> due]
    BY <2>1, OfferEffect
  <2>3. data'[Len(data) + 1].due = due
    BY <2>2
  <2>4. \A i \in DOMAIN data' : i \in 1..Len(data) \/ i = Len(data) + 1
    BY <1>a, <2>2, EntriesTyped
  <2>5. UNCHANGED <<rung, sorter, alarm, resetCh>> /\ mu = "none"
    BY <2>1 DEF OfferWithTime
  <2>6. sorter \notin {"send", "spin"}
    BY <1>0, <2>5 DEF MutexRight
  <2>7. CASE WakesTimer(due)
    <3>1. nextSort' = due /\ sending' = <<due - now>>
      BY <2>1, <2>7 DEF OfferWithTime
    <3>2. sending' # << >>
      BY <3>1
    <3>3. \A i \in 1..Len(data) : due <= data[i].due
      <4>1. CASE data = << >>
        BY <1>a, <4>1
      <4>2. CASE data # << >>
        <5>1. nextSort > due /\ \A i \in 1..Len(data) : nextSort <= data[i].due
          BY <1>0, <1>a, <2>6, <2>7, <4>2 DEF WakesTimer, Expected
        <5>. QED BY <1>0, <1>a, <5>1
      <4>. QED BY <4>1, <4>2
    <3>4. \A i \in DOMAIN data' : nextSort' <= data'[i].due
      BY <2>2, <2>3, <2>4, <3>1, <3>3
    <3>. QED BY <3>2, <3>4 DEF Woken, Expected
  <2>8. CASE ~WakesTimer(due)
    <3>1. data # << >> /\ nextSort <= due /\ UNCHANGED <<nextSort, sending>>
      BY <1>0, <2>1, <2>8 DEF OfferWithTime, WakesTimer
    <3>2. Woken /\ \A i \in 1..Len(data) : nextSort <= data[i].due
      BY <1>0, <1>a, <2>6, <3>1 DEF Expected
    <3>3. \A i \in DOMAIN data' : nextSort' <= data'[i].due
      BY <2>2, <2>3, <2>4, <3>1, <3>2
    <3>. QED BY <2>5, <3>1, <3>2, <3>3 DEF Woken, Expected
  <2>. QED BY <2>7, <2>8
<1>5. CASE From(data', data) /\ data # << >> /\ sorter' = sorter /\ nextSort' = nextSort
      /\ UNCHANGED <<rung, alarm, resetCh, sending>>
  <2>1. \A i \in DOMAIN data' : \E h \in DOMAIN data : data'[i] = data[h]
    BY <1>5, FromProperties
  <2>2. Woken /\ Expected
    BY <1>0, <1>5
  <2>. QED BY <1>5, <2>1, <2>2 DEF Woken, Expected
<1>6. CASE Remove
  <2>1. From(data', data) /\ data # << >>
    BY <1>6, RemoveEffect
  <2>. QED BY <1>5, <1>6, <2>1 DEF Remove
<1>7. CASE Swap
  <2>1. From(data', data) /\ data # << >>
    BY <1>0, <1>7, SwapEffect DEF Swap, Scanned
  <2>. QED BY <1>5, <1>7, <2>1 DEF Swap
<1>8. CASE Sent
  <2>1. resetCh' # << >> /\ UNCHANGED <<data, nextSort, sorter>>
    BY <1>0, <1>8 DEF Sent, MutexRight
  <2>. QED BY <1>2, <2>1 DEF Woken
<1>9. CASE Ring
  BY <1>2, <1>9 DEF Ring, Woken
<1>10. CASE Expire
  BY <1>2, <1>10 DEF Expire, Woken
<1>11. CASE Reset
  <2>1. UNCHANGED <<data, nextSort>> /\ sorter = "select"
    BY <1>11 DEF Reset
  <2>2. Woken'
    <3>1. CASE rung
      BY <1>11, <3>1 DEF Reset, Woken
    <3>2. CASE ~rung
      <4>1. alarm' = <<FiresAt(resetCh[1])>>
        BY <1>11, <3>2 DEF Reset
      <4>2. alarm' # << >>
        BY <4>1
      <4>. QED BY <4>2 DEF Woken
    <3>. QED BY <3>1, <3>2
  <2>. QED BY <1>2, <2>1, <2>2
<1>12. CASE SortLock
  <2>1. UNCHANGED <<data, nextSort>> /\ sorter = "lock" /\ sorter' = "sort"
    BY <1>1, <1>12 DEF SortLock
  <2>. QED BY <1>2, <2>1 DEF Woken
<1>13. CASE Scan
  <2>1. sorter' \in {"send", "spin"}
    BY <1>13 DEF Scan
  <2>. QED BY <2>1 DEF Woken, Expected
<1>14. CASE SortSent
  <2>1. UNCHANGED <<data, nextSort>> /\ resetCh' # << >> /\ sorter = "send"
    BY <1>0, <1>14 DEF SortSent, MutexRight
  <2>2. CASE count = 0
    <3>1. nextSort = data[1].due /\ Sorted(data) /\ 0 < Len(data)
      BY <1>0, <2>1, <2>2 DEF Scanned
    <3>2. \A i \in DOMAIN data : 1 \in DOMAIN data /\ 1 <= i
      BY <1>a
    <3>3. \A i \in DOMAIN data : data[1].due <= data[i].due
      BY <1>0, <3>1, <3>2, SortedOrder
    <3>. QED BY <2>1, <3>1, <3>3 DEF Woken, Expected
  <2>3. CASE count # 0
    <3>1. sorter' = "spin"
      BY <1>14, <2>3 DEF SortSent
    <3>. QED BY <2>1, <3>1 DEF Woken, Expected
  <2>. QED BY <2>2, <2>3
<1>15. CASE HandOver
  <2>1. /\ data' \in Seq(Entry) /\ Len(data') = Len(data) - count /\ count \in 1..Len(data)
        /\ \A i \in 1..Len(data) - count : data'[i] = data[count + i]
    BY <1>15, HandOverEffect
  <2>2. sorter = "spin" /\ UNCHANGED <<nextSort, resetCh>>
    BY <1>15 DEF HandOver
  <2>3. Len(data') # 0 /\ DOMAIN data' = 1..Len(data')
    BY <1>1, <2>1
  <2>4. count < Len(data)
    <3>1. PICK n \in 1..Len(data) : n = count /\ Len(data) - n # 0
      BY <2>1, <2>3
    <3>2. Len(data) \in Nat
      BY <1>a
    <3>3. n < Len(data)
      BY <3>1, <3>2
    <3>. QED BY <3>1, <3>3
  <2>5. Sorted(data) /\ nextSort = data[count + 1].due /\ resetCh # << >>
    BY <1>0, <2>2, <2>4 DEF Scanned
  <2>6. ASSUME NEW i \in DOMAIN data'
        PROVE  nextSort' <= data'[i].due
    <3>1. i \in 1..Len(data) - count
      BY <2>1, <2>3
    <3>2. count + 1 \in DOMAIN data /\ count + i \in DOMAIN data /\ count + 1 <= count + i
      BY <1>a, <2>1, <3>1
    <3>3. data[count + 1].due <= data[count + i].due
      BY <1>0, <2>5, <3>2, SortedOrder
    <3>. QED BY <2>1, <2>2, <2>5, <3>1, <3>3
  <2>. QED BY <2>2, <2>5, <2>6 DEF Woken, Expected
<1>16. CASE Tick \/ Find \/ Take \/ Deliver \/ Delivered \/ UNCHANGED vars
  BY <1>3, <1>16 DEF Tick, Find, Take, Deliver, Delivered, vars
<1>. QED BY <1>4, <1>6, <1>7, <1>8, <1>9, <1>10, <1>11, <1>12, <1>13, <1>14, <1>15, <1>16
         DEF Next, Timer

\* The invariant is inductive.
LEMMA InvStep == Inv /\ [Next]_vars => Inv'
<1> SUFFICES ASSUME Inv, [Next]_vars
             PROVE  Inv'
  OBVIOUS
<1>1. TypeOK' /\ MutexRight' /\ WaitsRight' /\ IndexRight'
  BY TypeStep, MutexStep, WaitsStep, IndexStep
<1>2. Numbered' /\ Scanned' /\ Delivering' /\ WakesInTime'
  BY NumberedStep, ScannedStep, DeliveringStep, WakesStep
<1>. QED BY <1>1, <1>2 DEF Inv

\* The invariant holds in every state.
LEMMA Invariance == Spec => []Inv
BY InitInv, InvStep, PTL DEF Spec

-----------------------------------------------------------------------------
(* The safety of the queue. *)

\* The slice, its index, the timer and the channels keep their types; in particular
\* the timer is never set to an instant before the first, however late a wait computed
\* by OfferWithTime or sort arrives.
THEOREM TypeCorrect == Spec => []TypeOK
<1>1. Inv => TypeOK
  BY DEF Inv
<1>. QED BY <1>1, Invariance, PTL

\* Find and Remove read a position of an entry of their key, and exactly for the keys
\* that wait, whatever sort, Remove and the handing over of a batch did to the slice
\* before: the index is rebuilt with the mutex held.
THEOREM IndexIsRight == Spec => []IndexRight
<1>1. Inv => IndexRight
  BY DEF Inv
<1>. QED BY <1>1, Invariance, PTL

\* While entries wait, the goroutine of the timer will be woken, or is awake, and it
\* is expected not after the first of them is due, although OfferWithTime wakes it for
\* some entries only, Remove never does, and the wait may still be in a channel.
THEOREM TimerIsSetInTime == Spec => []WakesInTime
<1>1. Inv => WakesInTime
  BY DEF Inv
<1>. QED BY <1>1, Invariance, PTL

-----------------------------------------------------------------------------
(* It implements a DelayQueue. *)

\* A new queue is an empty DelayQueue.
LEMMA InitImplements == Init => Abstract!Init
<1> SUFFICES ASSUME Init
             PROVE  Abstract!Init
  OBVIOUS
<1>1. {data[i] : i \in DOMAIN data} = {}
  BY DEF Init
<1>2. timeoutCh \o expired = << >>
  BY EmptySeqs, ConcatEmptySeq DEF Init
<1>. QED BY <1>1, <1>2 DEF Init, Abstract!Init

\* What leaves, entry by entry.
LEMMA OutProperties ==
    ASSUME NEW s \in Seq(Entry), NEW t \in Seq(Entry)
    PROVE  /\ s \o t \in Seq(Entry) /\ DOMAIN (s \o t) = 1..Len(s) + Len(t)
           /\ Len(s \o t) = Len(s) + Len(t)
           /\ \A i \in 1..Len(s) : (s \o t)[i] = s[i]
           /\ \A i \in 1..Len(t) : (s \o t)[Len(s) + i] = t[i]
<1>1. Len(s) \in Nat /\ Len(t) \in Nat
  BY EntriesTyped
<1>2. /\ s \o t \in Seq(Entry) /\ Len(s \o t) = Len(s) + Len(t)
      /\ \A i \in 1..Len(s) + Len(t) :
            (s \o t)[i] = IF i <= Len(s) THEN s[i] ELSE t[i - Len(s)]
  BY ConcatProperties
<1>3. DOMAIN (s \o t) = 1..Len(s) + Len(t)
  BY <1>2, EntriesTyped
<1>4. ASSUME NEW i \in 1..Len(s)
      PROVE  (s \o t)[i] = s[i]
  <2>1. i \in 1..Len(s) + Len(t) /\ i <= Len(s)
    BY <1>1
  <2>. QED BY <1>2, <2>1
<1>5. ASSUME NEW i \in 1..Len(t)
      PROVE  (s \o t)[Len(s) + i] = t[i]
  <2>1. Len(s) + i \in 1..Len(s) + Len(t) /\ ~(Len(s) + i <= Len(s)) /\ Len(s) + i - Len(s) = i
    BY <1>1
  <2>. QED BY <1>2, <2>1
<1>. QED BY <1>2, <1>3, <1>4, <1>5

\* OfferWithTime is an Offer of an entry with a new number.
LEMMA OfferImplements ==
    ASSUME Inv, Offer \/ OfferAgain
    PROVE  Abstract!Offer
<1>1. PICK c \in Clients, key \in Keys, due \in Nat : OfferWithTime(c, key, due)
  BY Offers
<1> DEFINE e == [key |-> key, id |-> offers, due |-> due]
<1>2. /\ data' \in Seq(Entry) /\ Len(data') = Len(data) + 1
      /\ \A i \in 1..Len(data) : data'[i] = data[i]
      /\ data'[Len(data) + 1] = e
  BY <1>1, OfferEffect
<1>3. e \in Abstract!Entry /\ e.id = offers /\ offers \in Nat
  BY BoundsAssumption DEF Inv, TypeOK, Abstract!Entry
<1> HIDE DEF e
<1>4. data \in Seq(Entry) /\ expired \in Seq(Entry) /\ timeoutCh \in Seq(Entry) /\ Numbered
  BY DEF Inv, TypeOK
<1>5. /\ DOMAIN data' = 1..Len(data) + 1 /\ DOMAIN data = 1..Len(data) /\ Len(data) \in Nat
      /\ \A i \in DOMAIN data : data[i].id \in Nat
      /\ DOMAIN expired = 1..Len(expired) /\ \A i \in DOMAIN expired : expired[i].id \in Nat
      /\ DOMAIN timeoutCh = 1..Len(timeoutCh)
      /\ \A i \in DOMAIN timeoutCh : timeoutCh[i].id \in Nat
  BY <1>2, <1>4, EntriesTyped
<1>6. \A w \in WaitingSet : w.id # e.id
  BY <1>3, <1>4, <1>5 DEF Numbered, WaitingSet
<1>7. WaitingSet' = WaitingSet \cup {e}
  <2>1. ASSUME NEW i \in DOMAIN data'
        PROVE  data'[i] \in WaitingSet \cup {e}
    <3>1. CASE i \in DOMAIN data
      BY <1>2, <1>5, <3>1 DEF WaitingSet
    <3>2. CASE i = Len(data) + 1
      BY <1>2, <3>2
    <3>. QED BY <1>5, <3>1, <3>2
  <2>2. ASSUME NEW i \in DOMAIN data
        PROVE  data[i] \in WaitingSet'
    <3>1. i \in DOMAIN data' /\ data'[i] = data[i]
      BY <1>2, <1>5
    <3>. QED BY <3>1 DEF WaitingSet
  <2>3. e \in WaitingSet'
    <3>1. Len(data) + 1 \in DOMAIN data'
      BY <1>5
    <3>. QED BY <1>2, <3>1 DEF WaitingSet
  <2>4. WaitingSet' \subseteq WaitingSet \cup {e}
    BY <2>1 DEF WaitingSet
  <2>5. WaitingSet \subseteq WaitingSet'
    BY <2>2 DEF WaitingSet
  <2>. QED BY <2>3, <2>4, <2>5
<1>8. e \in WaitingSet' \ WaitingSet
  BY <1>6, <1>7
<1>9. ASSUME NEW i \in DOMAIN Out
      PROVE  Out[i].id # e.id
  <2>1. i \in 1..Len(timeoutCh) + Len(expired) /\ Len(timeoutCh) \in Nat /\ Len(expired) \in Nat
    BY <1>4, OutProperties, EntriesTyped DEF Out
  <2>2. CASE i <= Len(timeoutCh)
    <3>1. i \in 1..Len(timeoutCh)
      BY <2>1, <2>2
    <3>2. Out[i] = timeoutCh[i]
      BY <1>4, <3>1, OutProperties DEF Out
    <3>. QED BY <1>3, <1>4, <1>5, <3>1, <3>2 DEF Numbered
  <2>3. CASE ~(i <= Len(timeoutCh))
    <3>1. PICK j \in 1..Len(expired) : i = Len(timeoutCh) + j
      <4>1. i - Len(timeoutCh) \in 1..Len(expired) /\ i = Len(timeoutCh) + (i - Len(timeoutCh))
        BY <2>1, <2>3
      <4>. QED BY <4>1
    <3>2. Out[i] = expired[j]
      BY <1>4, <3>1, OutProperties DEF Out
    <3>. QED BY <1>3, <1>4, <1>5, <3>1, <3>2 DEF Numbered
  <2>. QED BY <2>2, <2>3
<1>10. UNCHANGED <<now, timeoutCh, expired, taken>>
  BY <1>1 DEF OfferWithTime, delivery
<1>. QED BY <1>3, <1>6, <1>7, <1>8, <1>9, <1>10 DEF Abstract!Offer, WaitingSet, Out

\* Remove takes one entry out of those that wait.
LEMMA RemoveImplements ==
    ASSUME Inv, Remove
    PROVE  Abstract!Remove
<1>1. PICK i \in DOMAIN data :
          /\ \A h \in DOMAIN data' : data'[h].id # data[i].id
          /\ \A h \in DOMAIN data : h # i => \E j \in DOMAIN data' : data'[j] = data[h]
  BY RemoveEffect
<1>2. \A h \in DOMAIN data' : \E j \in DOMAIN data : data'[h] = data[j]
  BY RemoveEffect, FromProperties
<1>3. WaitingSet' = WaitingSet \ {data[i]}
  <2>1. WaitingSet' \subseteq WaitingSet \ {data[i]}
    BY <1>1, <1>2 DEF WaitingSet
  <2>2. WaitingSet \ {data[i]} \subseteq WaitingSet'
    BY <1>1 DEF WaitingSet
  <2>. QED BY <2>1, <2>2
<1>4. data[i] \in WaitingSet
  BY DEF WaitingSet
<1>5. UNCHANGED <<now, timeoutCh, expired, taken>>
  BY DEF Remove, delivery, client
<1>. QED BY <1>3, <1>4, <1>5 DEF Abstract!Remove, WaitingSet

\* The batch that sort hands over is a Release: the entries at the front, all due.
LEMMA HandOverImplements ==
    ASSUME Inv, HandOver
    PROVE  Abstract!Release
<1>1. /\ count \in 1..Len(data) /\ expired = << >>
      /\ expired' \in Seq(Entry) /\ Len(expired') = count
      /\ \A i \in 1..count : expired'[i] = data[i]
      /\ data' \in Seq(Entry) /\ Len(data') = Len(data) - count
      /\ \A i \in 1..Len(data) - count : data'[i] = data[count + i]
  BY HandOverEffect
<1>2. data \in Seq(Entry) /\ timeoutCh \in Seq(Entry) /\ UNCHANGED <<now, timeoutCh, taken>>
  BY DEF Inv, TypeOK, HandOver, client
<1>3. /\ DOMAIN data = 1..Len(data) /\ Len(data) \in Nat /\ Len(timeoutCh) \in Nat
      /\ \A i \in 1..Len(data) : data[i].due \in Nat
  BY <1>2, EntriesTyped
<1>4. PICK n \in 1..Len(data) : n = count
  BY <1>1
<1>5. DOMAIN data' = 1..Len(data) - n
  BY <1>1, <1>4, EntriesTyped
<1>6. /\ Sorted(data) /\ \A i \in 1..n : data[i].due <= now
      /\ \A i, j \in DOMAIN data : data[i].id = data[j].id => i = j
  BY <1>4 DEF HandOver, Inv, Scanned, Numbered
<1>7. Out = timeoutCh
  BY <1>1, <1>2, ConcatEmptySeq DEF Out
<1>8. /\ Len(Out') = Len(Out) + n
      /\ \A i \in 1..Len(Out) : Out'[i] = Out[i]
      /\ \A i \in 1..n : Out'[Len(Out) + i] = data[i]
  <2>a. PICK x \in Seq(Entry) : x = expired' /\ Len(x) = n
    BY <1>1, <1>4
  <2>1. Out' = timeoutCh \o x
    BY <1>2, <2>a DEF Out
  <2>2. timeoutCh \in Seq(Entry) /\ Len(x) = n /\ x = expired'
    BY <1>2, <2>a
  <2>3. PICK s \in Seq(Entry) : s = timeoutCh
    BY <2>2
  <2>4. /\ Len(s \o x) = Len(s) + Len(x)
        /\ \A i \in 1..Len(s) : (s \o x)[i] = s[i]
        /\ \A i \in 1..Len(x) : (s \o x)[Len(s) + i] = x[i]
    BY OutProperties
  <2>5. Out' = s \o x /\ Out = s /\ \A i \in 1..n : x[i] = data[i]
    BY <1>1, <1>4, <1>7, <2>1, <2>2, <2>3
  <2>6. Len(Out') = Len(Out) + n /\ \A i \in 1..Len(Out) : Out'[i] = Out[i]
    BY <2>2, <2>4, <2>5
  <2>7. \A i \in 1..n : Out'[Len(Out) + i] = data[i]
    BY <2>2, <2>4, <2>5
  <2>. QED BY <2>6, <2>7
<1>9. n \in 1..Len(Out') - Len(Out)
  BY <1>3, <1>7, <1>8
<1> DEFINE left == {Out'[Len(Out) + i] : i \in 1..n}
<1>10. \A e : e \in left <=> \E i \in 1..n : e = data[i]
  BY <1>8
<1> HIDE DEF left
<1>11. \A w : w \in WaitingSet' <=> \E j \in n + 1..Len(data) : w = data[j]
  <2>1. ASSUME NEW i \in DOMAIN data'
        PROVE  \E j \in n + 1..Len(data) : data'[i] = data[j]
    <3>1. i \in 1..Len(data) - n /\ n + i \in n + 1..Len(data)
      BY <1>3, <1>5
    <3>2. data'[i] = data[n + i]
      BY <1>1, <1>4, <3>1
    <3>. QED BY <3>1, <3>2
  <2>2. ASSUME NEW j \in n + 1..Len(data)
        PROVE  \E i \in DOMAIN data' : data'[i] = data[j]
    <3>1. j - n \in 1..Len(data) - n /\ n + (j - n) = j
      BY <1>3
    <3>2. data'[j - n] = data[j]
      BY <1>1, <1>4, <3>1
    <3>. QED BY <1>5, <3>1, <3>2
  <2>. QED BY <2>1, <2>2 DEF WaitingSet
<1>12. ASSUME NEW i \in 1..n, NEW j \in n + 1..Len(data)
       PROVE  i \in DOMAIN data /\ j \in DOMAIN data /\ i <= j /\ i # j
  BY <1>3
<1>13. left \subseteq WaitingSet
  <2>1. \A i \in 1..n : i \in DOMAIN data
    BY <1>3
  <2>. QED BY <1>10, <2>1 DEF WaitingSet
<1>14. WaitingSet' = WaitingSet \ left
  <2>1. ASSUME NEW w \in WaitingSet'
        PROVE  w \in WaitingSet /\ w \notin left
    <3>1. PICK j \in n + 1..Len(data) : w = data[j]
      BY <1>11
    <3>2. j \in DOMAIN data
      BY <1>3
    <3>3. \A i \in 1..n : data[i] # data[j]
      BY <1>6, <1>12
    <3>. QED BY <1>10, <3>1, <3>2, <3>3 DEF WaitingSet
  <2>2. ASSUME NEW w \in WaitingSet \ left
        PROVE  w \in WaitingSet'
    <3>1. PICK j \in DOMAIN data : w = data[j]
      BY DEF WaitingSet
    <3>2. j \notin 1..n
      BY <1>10, <3>1
    <3>3. j \in n + 1..Len(data)
      BY <1>3, <3>2
    <3>. QED BY <1>11, <3>1, <3>3
  <2>. QED BY <2>1, <2>2
<1>15. \A e \in left : e.due <= now /\ \A w \in WaitingSet' : e.due <= w.due
  <2>1. ASSUME NEW i \in 1..n, NEW j \in n + 1..Len(data)
        PROVE  data[i].due <= data[j].due
    BY <1>2, <1>6, <1>12, SortedOrder
  <2>. QED BY <1>6, <1>10, <1>11, <2>1
<1>16. \A i, j \in 1..n : i <= j => Out'[Len(Out) + i].due <= Out'[Len(Out) + j].due
  <2>1. ASSUME NEW i \in 1..n, NEW j \in 1..n, i <= j
        PROVE  data[i].due <= data[j].due
    <3>1. i \in DOMAIN data /\ j \in DOMAIN data
      BY <1>3
    <3>. QED BY <1>2, <1>6, <2>1, <3>1, SortedOrder
  <2>. QED BY <1>8, <2>1
<1>. QED BY <1>2, <1>8, <1>9, <1>13, <1>14, <1>15, <1>16
         DEF Abstract!Release, WaitingSet, Out, left

\* A receive from TakeCh is a Take.
LEMMA TakeImplements ==
    ASSUME Inv, Take
    PROVE  Abstract!Take
<1>1. /\ timeoutCh \in Seq(Entry) /\ expired \in Seq(Entry) /\ timeoutCh # << >>
      /\ Len(timeoutCh) <= 1
  BY DEF Inv, TypeOK, Delivering, Take
<1>2. Len(timeoutCh) = 1 /\ Len(expired) \in Nat
  <2>1. Len(timeoutCh) # 0
    BY <1>1, EmptySeq
  <2>2. PICK m \in Nat : m = Len(timeoutCh) /\ m <= 1
    BY <1>1, EntriesTyped
  <2>3. m = 1
    BY <2>1, <2>2
  <2>4. Len(expired) \in Nat
    BY <1>1, EntriesTyped
  <2>. QED BY <2>2, <2>3, <2>4
<1>3. UNCHANGED <<now, data, expired>> /\ timeoutCh' = << >> /\ taken' = taken + 1
  BY DEF Take, queue
<1>4. Out' = expired
  BY <1>1, <1>3, ConcatEmptySeq DEF Out
<1>5. /\ Out \in Seq(Entry) /\ Len(Out) = 1 + Len(expired)
      /\ \A i \in 1..Len(expired) : Out[1 + i] = expired[i]
  BY <1>1, <1>2, OutProperties DEF Out
<1>6. Out # << >>
  BY <1>2, <1>5
<1>7. Tail(Out) = expired
  <2>1. /\ Tail(Out) \in Seq(Entry) /\ Len(Tail(Out)) = Len(expired)
        /\ \A i \in 1..Len(Tail(Out)) : Tail(Out)[i] = Out[i + 1]
    BY <1>2, <1>5, <1>6, HeadTailProperties
  <2>2. \A i \in 1..Len(expired) : Tail(Out)[i] = expired[i]
    BY <1>2, <1>5, <2>1
  <2>. QED BY <1>1, <2>1, <2>2, SeqEqual
<1>. QED BY <1>3, <1>4, <1>6, <1>7 DEF Abstract!Take, Out

\* Handing an entry to TakeCh moves it to the front of what leaves, where it was.
LEMMA DeliverStutters ==
    ASSUME Inv, Deliver
    PROVE  Out' = Out
<1>1. expired \in Seq(Entry) /\ expired # << >> /\ timeoutCh = << >>
  BY DEF Inv, TypeOK, Deliver
<1> DEFINE h == Head(expired)
           t == Tail(expired)
<1>2. timeoutCh' = <<h>> /\ expired' = t
  BY DEF Deliver
<1>3. /\ h \in Entry /\ h = expired[1] /\ t \in Seq(Entry) /\ Len(t) = Len(expired) - 1
      /\ \A i \in 1..Len(t) : t[i] = expired[i + 1]
  BY <1>1, HeadTailProperties
<1> HIDE DEF h, t
<1>4. <<h>> \in Seq(Entry) /\ Len(<<h>>) = 1 /\ <<h>>[1] = h
  BY <1>3
<1>5. /\ <<h>> \o t \in Seq(Entry) /\ Len(<<h>> \o t) = 1 + Len(t)
      /\ (<<h>> \o t)[1] = h
      /\ \A i \in 1..Len(t) : (<<h>> \o t)[1 + i] = t[i]
  BY <1>3, <1>4, OutProperties
<1>6. Len(t) \in Nat /\ Len(expired) = 1 + Len(t)
  BY <1>1, <1>3
<1>7. ASSUME NEW i \in 1..Len(expired)
      PROVE  (<<h>> \o t)[i] = expired[i]
  <2>1. CASE i = 1
    BY <1>3, <1>5, <2>1
  <2>2. CASE i # 1
    <3>1. PICK j \in 1..Len(t) : i = 1 + j /\ i = j + 1
      <4>1. i - 1 \in 1..Len(t) /\ i = 1 + (i - 1) /\ i = (i - 1) + 1
        BY <1>6, <2>2
      <4>. QED BY <4>1
    <3>. QED BY <1>3, <1>5, <3>1
  <2>. QED BY <2>1, <2>2
<1>8. <<h>> \o t = expired
  BY <1>1, <1>5, <1>6, <1>7, SeqEqual
<1>9. Out = expired
  BY <1>1, ConcatEmptySeq DEF Out
<1>. QED BY <1>2, <1>8, <1>9 DEF Out

\* Every step is one of a DelayQueue, or a stutter.
LEMMA StepImplements ==
    ASSUME Inv, [Next]_vars
    PROVE  [Abstract!Next]_(Abstract!vars)
<1>. USE DEF queue, timer, delivery, client
<1>1. CASE WaitingSet' = WaitingSet /\ Out' = Out /\ UNCHANGED <<now, taken>>
  BY <1>1 DEF Abstract!vars, WaitingSet, Out
<1>2. CASE UNCHANGED <<data, timeoutCh, expired, now, taken>>
  BY <1>1, <1>2 DEF WaitingSet, Out
<1>3. CASE Tick
  BY <1>3 DEF Tick, Abstract!Next, Abstract!Tick
<1>4. CASE Offer \/ OfferAgain
  BY <1>4, OfferImplements DEF Abstract!Next
<1>5. CASE Remove
  BY <1>5, RemoveImplements DEF Abstract!Next
<1>6. CASE HandOver
  BY <1>6, HandOverImplements DEF Abstract!Next
<1>7. CASE Take
  BY <1>7, TakeImplements DEF Abstract!Next
<1>8. CASE Swap
  <2>1. From(data', data) /\ From(data, data')
    BY <1>8, SwapEffect
  <2>2. /\ \A i \in DOMAIN data' : \E h \in DOMAIN data : data'[i] = data[h]
        /\ \A i \in DOMAIN data : \E h \in DOMAIN data' : data[i] = data'[h]
    BY <2>1, FromProperties
  <2>3. WaitingSet' = WaitingSet
    <3>1. WaitingSet' \subseteq WaitingSet /\ WaitingSet \subseteq WaitingSet'
      BY <2>2 DEF WaitingSet
    <3>. QED BY <3>1
  <2>4. Out' = Out /\ UNCHANGED <<now, taken>>
    BY <1>8 DEF Swap, Out
  <2>. QED BY <1>1, <2>3, <2>4
<1>9. CASE Deliver
  <2>1. WaitingSet' = WaitingSet /\ UNCHANGED <<now, taken>>
    BY <1>9 DEF Deliver, WaitingSet
  <2>. QED BY <1>1, <1>9, <2>1, DeliverStutters
<1>10. CASE Find \/ Sent \/ Ring
  BY <1>2, <1>10 DEF Find, Sent, Ring
<1>11. CASE Reset \/ Expire \/ SortLock \/ Scan \/ SortSent
  BY <1>2, <1>11 DEF Reset, Expire, SortLock, Scan, SortSent
<1>12. CASE Delivered \/ UNCHANGED vars
  BY <1>2, <1>12 DEF Delivered, vars
<1>. QED BY <1>3, <1>4, <1>5, <1>6, <1>7, <1>8, <1>9, <1>10, <1>11, <1>12 DEF Next, Timer

\* TakeCh gives what DelayQueue promises, an entry once, none before it is due, and an
\* earlier batch first: offering, removing, sorting and the two goroutines that deliver
\* do to the entries that wait and to those that leave what one of its actions does, or
\* nothing.
THEOREM IsADelayQueue == Spec => ImplementsDelayQueue
<1>1. Init => Abstract!Init
  BY InitImplements
<1>2. Inv /\ [Next]_vars => [Abstract!Next]_(Abstract!vars)
  BY StepImplements
<1>. QED BY <1>1, <1>2, Invariance, PTL DEF Spec, ImplementsDelayQueue, Abstract!Spec
=============================================================================
