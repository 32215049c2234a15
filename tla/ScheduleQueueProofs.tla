------------------------- MODULE ScheduleQueueProofs -------------------------
(***************************************************************************)
(* The representation invariant of utils.Schedule, for every set of items, *)
(* every assignment of keys and times to them and every sequence of calls. *)
(*                                                                         *)
(* The lemmas up to PoppedProperties say what each operation of            *)
(* ScheduleOps does to the set of queued items and that it keeps the slice *)
(* ordered, free of repetition and consistent with the map.  The theorems  *)
(* combine them into an invariant of ScheduleQueue and a refinement of     *)
(* ScheduleAbstract.                                                       *)
(***************************************************************************)
EXTENDS ScheduleQueue, SequenceTheorems, WellFoundedInduction, TLAPS

-----------------------------------------------------------------------------
(* A nonempty set of naturals has a least element. *)
LEMMA LeastNatural ==
  ASSUME NEW T, T \subseteq Nat, T # {}
  PROVE  \E x \in T : \A y \in T : x <= y
<1> DEFINE R == {ss \in Nat \X Nat : ss[1] < ss[2]}
<1>1. IsWellFoundedOn(R, Nat)
  BY NatLessThanWellFounded, Zenon DEF OpToRel
<1> HIDE DEF R
<1>2. PICK x \in T : \A y \in T : ~(<<y, x>> \in R)
  BY <1>1, WFMin, Zenon
<1>3. ASSUME NEW y \in T
      PROVE  x <= y
  <2>1. <<y, x>> \in Nat \X Nat
    OBVIOUS
  <2>2. ~(y < x)
    BY <1>2, <2>1 DEF R
  <2> QED
    BY <2>2
<1> QED
  BY <1>3

(* r is the slice s with e at position i, and s without its position i. *)
Grown(s, i, e, r) ==
  /\ Len(r) = Len(s) + 1
  /\ \A j \in 1 .. Len(s) + 1 :
       r[j] = IF j < i THEN s[j] ELSE IF j = i THEN e ELSE s[j - 1]

Shrunk(s, i, r) ==
  /\ Len(r) = Len(s) - 1
  /\ \A j \in 1 .. Len(s) - 1 : r[j] = IF j < i THEN s[j] ELSE s[j + 1]

(* InsertAt moves the rest of the slice up by one. *)
LEMMA InsertAtProperties ==
  ASSUME NEW S, NEW s \in Seq(S), NEW i \in 1 .. Len(s) + 1, NEW e \in S
  PROVE  /\ InsertAt(s, i, e) \in Seq(S)
         /\ Grown(s, i, e, InsertAt(s, i, e))
<1> DEFINE a == SubSeq(s, 1, i - 1)
           b == SubSeq(s, i, Len(s))
           c == a \o <<e>>
<1>1. Len(s) \in Nat /\ \A j \in 1 .. Len(s) : s[j] \in S
  BY LenProperties
<1>2. a \in Seq(S) /\ Len(a) = i - 1 /\ \A j \in 1 .. i - 1 : a[j] = s[j]
  <2>1. \A j \in 1 .. i - 1 : s[j] \in S
    BY <1>1
  <2> QED
    BY <2>1, <1>1, SubSeqProperties
<1>3. /\ b \in Seq(S)
      /\ Len(b) = Len(s) - i + 1
      /\ \A j \in 1 .. Len(s) - i + 1 : b[j] = s[i + j - 1]
  <2>1. \A j \in i .. Len(s) : s[j] \in S
    BY <1>1
  <2> QED
    BY <2>1, <1>1, SubSeqProperties
<1>4. InsertAt(s, i, e) = c \o b
  BY DEF InsertAt
<1> HIDE DEF a, b
<1>5. /\ c \in Seq(S)
      /\ Len(c) = i
      /\ \A j \in 1 .. i : c[j] = IF j < i THEN s[j] ELSE e
  <2>1. <<e>> \in Seq(S) /\ Len(<<e>>) = 1 /\ <<e>>[1] = e
    OBVIOUS
  <2>2. /\ c \in Seq(S)
        /\ Len(c) = i
        /\ \A j \in 1 .. i : c[j] = IF j <= i - 1 THEN a[j] ELSE <<e>>[j - (i - 1)]
    BY <1>2, <2>1, ConcatProperties
  <2> QED
    BY <1>2, <2>1, <2>2
<1> HIDE DEF c
<1>6. /\ c \o b \in Seq(S)
      /\ Len(c \o b) = Len(s) + 1
      /\ \A j \in 1 .. Len(s) + 1 : (c \o b)[j] = IF j <= i THEN c[j] ELSE b[j - i]
  <2>1. /\ c \o b \in Seq(S)
        /\ Len(c \o b) = Len(c) + Len(b)
        /\ \A j \in 1 .. Len(c) + Len(b) :
             (c \o b)[j] = IF j <= Len(c) THEN c[j] ELSE b[j - Len(c)]
    BY <1>3, <1>5, ConcatProperties, Zenon
  <2>2. Len(c) = i /\ Len(c) + Len(b) = Len(s) + 1
    BY <1>1, <1>3, <1>5
  <2> QED
    BY <2>1, <2>2
<1> QED
  BY <1>1, <1>3, <1>4, <1>5, <1>6 DEF Grown

(* RemoveAt moves the rest of the slice down by one. *)
LEMMA RemoveAtProperties ==
  ASSUME NEW S, NEW s \in Seq(S), NEW i \in 1 .. Len(s)
  PROVE  /\ RemoveAt(s, i) \in Seq(S)
         /\ Shrunk(s, i, RemoveAt(s, i))
<1> DEFINE a == SubSeq(s, 1, i - 1)
           b == SubSeq(s, i + 1, Len(s))
<1>1. Len(s) \in Nat /\ \A j \in 1 .. Len(s) : s[j] \in S
  BY LenProperties
<1>2. a \in Seq(S) /\ Len(a) = i - 1 /\ \A j \in 1 .. i - 1 : a[j] = s[j]
  <2>1. \A j \in 1 .. i - 1 : s[j] \in S
    BY <1>1
  <2> QED
    BY <2>1, <1>1, SubSeqProperties
<1>3. /\ b \in Seq(S)
      /\ Len(b) = Len(s) - i
      /\ \A j \in 1 .. Len(s) - i : b[j] = s[i + j]
  <2>1. \A j \in i + 1 .. Len(s) : s[j] \in S
    BY <1>1
  <2> QED
    BY <2>1, <1>1, SubSeqProperties
<1>4. RemoveAt(s, i) = a \o b
  BY DEF RemoveAt
<1> HIDE DEF a, b
<1>5. /\ a \o b \in Seq(S)
      /\ Len(a \o b) = Len(s) - 1
      /\ \A j \in 1 .. Len(s) - 1 :
           (a \o b)[j] = IF j <= i - 1 THEN a[j] ELSE b[j - (i - 1)]
  <2>1. /\ a \o b \in Seq(S)
        /\ Len(a \o b) = Len(a) + Len(b)
        /\ \A j \in 1 .. Len(a) + Len(b) :
             (a \o b)[j] = IF j <= Len(a) THEN a[j] ELSE b[j - Len(a)]
    BY <1>2, <1>3, ConcatProperties, Zenon
  <2>2. Len(a) = i - 1 /\ Len(a) + Len(b) = Len(s) - 1
    BY <1>1, <1>2, <1>3
  <2> QED
    BY <2>1, <2>2
<1> QED
  BY <1>1, <1>2, <1>3, <1>4, <1>5 DEF Shrunk

(* sort.Search always finds a place for an item. *)
LEMMA InsertIndexExists ==
  ASSUME NEW s \in Seq(TimedItems), NEW t \in Nat
  PROVE  IsInsertIndex(s, t, insertIndex(s, t))
<1> DEFINE T == {i \in 1 .. Len(s) + 1 : i <= Len(s) => TimeGetter(s[i]) >= t}
<1>1. T \subseteq Nat /\ T # {}
  <2>1. Len(s) \in Nat
    BY LenProperties
  <2>2. Len(s) + 1 \in T
    BY <2>1
  <2> QED
    BY <2>1, <2>2
<1>2. PICK x \in T : \A y \in T : x <= y
  BY <1>1, LeastNatural
<1>3. ASSUME NEW j \in 1 .. x - 1
      PROVE  TimeGetter(s[j]) < t
  <2>1. j \in 1 .. Len(s) /\ j \notin T
    BY <1>2
  <2>2. s[j] \in TimedItems
    BY <2>1, ElementOfSeq
  <2>3. TimeGetter(s[j]) \in Nat
    BY <2>2, ScheduleAssumption DEF TimedItems
  <2> QED
    BY <2>1, <2>3
<1>4. IsInsertIndex(s, t, x)
  BY <1>3 DEF IsInsertIndex
<1>5. x \in 1 .. Len(s) + 1
  OBVIOUS
<1> QED
  BY <1>4, <1>5 DEF insertIndex

-----------------------------------------------------------------------------
(* The facts about a queue that the operations rely on and keep. *)
GoodQueue(q) ==
  /\ q \in QueueOf(TimedItems)
  /\ Sorted(q)
  /\ MapInSlice(q)
  /\ NoTwice(q)

(* The types of a good queue's parts. *)
LEMMA GoodQueueTypes ==
  ASSUME NEW q, GoodQueue(q)
  PROVE  /\ q.schedule \in Seq(TimedItems)
         /\ Len(q.schedule) \in Nat
         /\ q.scheduleMap \in [DOMAIN q.scheduleMap -> TimedItems]
         /\ DOMAIN q.scheduleMap \subseteq {KeyGetter(item) : item \in TimedItems}
         /\ q = [schedule |-> q.schedule, scheduleMap |-> q.scheduleMap]
         /\ \A i \in 1 .. Len(q.schedule) : /\ q.schedule[i] \in TimedItems
                                            /\ TimeGetter(q.schedule[i]) \in Nat
         /\ ToSet(q.schedule) = {q.schedule[i] : i \in 1 .. Len(q.schedule)}
<1>1. q \in QueueOf(TimedItems)
  BY DEF GoodQueue
<1>2. q.schedule \in Seq(TimedItems)
  BY <1>1 DEF QueueOf
<1>3. /\ q.scheduleMap \in [DOMAIN q.scheduleMap -> TimedItems]
      /\ DOMAIN q.scheduleMap \subseteq {KeyGetter(item) : item \in TimedItems}
  BY <1>1 DEF QueueOf
<1>4. q = [schedule |-> q.schedule, scheduleMap |-> q.scheduleMap]
  BY <1>1 DEF QueueOf
<1>5. Len(q.schedule) \in Nat /\ DOMAIN q.schedule = 1 .. Len(q.schedule)
  BY <1>2, LenProperties
<1>6. \A i \in 1 .. Len(q.schedule) : q.schedule[i] \in TimedItems
  BY <1>2, ElementOfSeq
<1>7. \A item \in TimedItems : TimeGetter(item) \in Nat
  BY ScheduleAssumption DEF TimedItems
<1> QED
  BY <1>2, <1>3, <1>4, <1>5, <1>6, <1>7 DEF ToSet

(* A slice with one more item in it: what it holds, and when it stays in   *)
(* order and free of repetition.                                           *)
LEMMA GrownSlice ==
  ASSUME NEW s \in Seq(TimedItems), NEW r \in Seq(TimedItems), NEW item \in TimedItems,
         NEW p \in 1 .. Len(s) + 1, Grown(s, p, item, r)
  PROVE  /\ ToSet(r) = ToSet(s) \cup {item}
         /\ p \in 1 .. Len(r) /\ r[p] = item
         /\ \A i \in 1 .. Len(s) : \E j \in 1 .. Len(r) : r[j] = s[i]
         /\ (item \notin ToSet(s) /\ \A i, j \in 1 .. Len(s) : s[i] = s[j] => i = j)
              => \A i, j \in 1 .. Len(r) : r[i] = r[j] => i = j
         /\ (/\ IsInsertIndex(s, TimeGetter(item), p)
             /\ \A i, j \in 1 .. Len(s) : i < j => TimeGetter(s[i]) <= TimeGetter(s[j]))
              => \A i, j \in 1 .. Len(r) : i < j => TimeGetter(r[i]) <= TimeGetter(r[j])
<1>1. /\ Len(s) \in Nat
      /\ DOMAIN s = 1 .. Len(s)
      /\ DOMAIN r = 1 .. Len(r)
      /\ \A i \in 1 .. Len(s) : s[i] \in TimedItems
      /\ Len(r) = Len(s) + 1
  BY LenProperties, ElementOfSeq DEF Grown
<1>2. p \in 1 .. Len(r) /\ r[p] = item
  BY <1>1 DEF Grown
<1>3. \A i \in 1 .. Len(s) : \E j \in 1 .. Len(r) : r[j] = s[i]
  <2> TAKE i \in 1 .. Len(s)
  <2>1. CASE i < p
    <3>1. i \in 1 .. Len(r) /\ r[i] = s[i]
      BY <1>1, <2>1 DEF Grown
    <3> QED
      BY <3>1
  <2>2. CASE i >= p
    <3>1. i + 1 \in 1 .. Len(r) /\ r[i + 1] = s[i]
      BY <1>1, <2>2 DEF Grown
    <3> QED
      BY <3>1
  <2> QED
    BY <1>1, <2>1, <2>2
<1>4. \A j \in 1 .. Len(r) : r[j] = item \/ \E i \in 1 .. Len(s) : r[j] = s[i]
  <2> TAKE j \in 1 .. Len(r)
  <2>1. CASE j < p
    BY <1>1, <2>1 DEF Grown
  <2>2. CASE j = p
    BY <1>1, <2>2 DEF Grown
  <2>3. CASE j > p
    <3>1. j - 1 \in 1 .. Len(s) /\ r[j] = s[j - 1]
      BY <1>1, <2>3 DEF Grown
    <3> QED
      BY <3>1
  <2> QED
    BY <1>1, <2>1, <2>2, <2>3
<1>5. ToSet(r) = ToSet(s) \cup {item}
  <2>1. ToSet(r) = {r[j] : j \in 1 .. Len(r)} /\ ToSet(s) = {s[i] : i \in 1 .. Len(s)}
    BY <1>1 DEF ToSet
  <2>2. \A x \in ToSet(r) : x \in ToSet(s) \cup {item}
    BY <1>4, <2>1
  <2>3. \A x \in ToSet(s) \cup {item} : x \in ToSet(r)
    BY <1>2, <1>3, <2>1
  <2> QED
    BY <2>2, <2>3
<1>6. ASSUME item \notin ToSet(s), \A i, j \in 1 .. Len(s) : s[i] = s[j] => i = j
      PROVE  \A i, j \in 1 .. Len(r) : r[i] = r[j] => i = j
  <2>1. \A i \in 1 .. Len(s) : s[i] # item
    BY <1>1, <1>6 DEF ToSet
  <2> SUFFICES ASSUME NEW i \in 1 .. Len(r), NEW j \in 1 .. Len(r), i < j
               PROVE  r[i] # r[j]
    BY <1>1
  <2>2. CASE i < p /\ j < p
    BY <1>1, <1>6, <2>2 DEF Grown
  <2>3. CASE i < p /\ j = p
    BY <1>1, <2>1, <2>3 DEF Grown
  <2>4. CASE i < p /\ j > p
    <3>1. PICK b \in 1 .. Len(s) : i \in 1 .. Len(s) /\ r[i] = s[i] /\ r[j] = s[b] /\ i < b
      <4>1. j - 1 \in 1 .. Len(s) /\ i \in 1 .. Len(s) /\ r[i] = s[i] /\ r[j] = s[j - 1] /\ i < j - 1
        BY <1>1, <2>4 DEF Grown
      <4> QED
        BY <4>1
    <3>2. s[i] = s[b] => i = b
      BY <1>6, <3>1, Zenon
    <3> QED
      BY <1>1, <3>1, <3>2
  <2>5. CASE i = p /\ j > p
    <3>1. j - 1 \in 1 .. Len(s) /\ r[i] = item /\ r[j] = s[j - 1]
      BY <1>1, <2>5 DEF Grown
    <3> QED
      BY <2>1, <3>1
  <2>6. CASE i > p /\ j > p
    <3>1. PICK a, b \in 1 .. Len(s) : r[i] = s[a] /\ r[j] = s[b] /\ a < b
      <4>1. /\ i - 1 \in 1 .. Len(s) /\ j - 1 \in 1 .. Len(s)
            /\ r[i] = s[i - 1] /\ r[j] = s[j - 1] /\ i - 1 < j - 1
        BY <1>1, <2>6 DEF Grown
      <4> QED
        BY <4>1
    <3> QED
      BY <1>6, <3>1
  <2> QED
    BY <1>1, <2>2, <2>3, <2>4, <2>5, <2>6
<1>7. ASSUME IsInsertIndex(s, TimeGetter(item), p),
             \A i, j \in 1 .. Len(s) : i < j => TimeGetter(s[i]) <= TimeGetter(s[j])
      PROVE  \A i, j \in 1 .. Len(r) : i < j => TimeGetter(r[i]) <= TimeGetter(r[j])
  <2>1. /\ TimeGetter(item) \in Nat
        /\ \A i \in 1 .. Len(s) : TimeGetter(s[i]) \in Nat
    BY <1>1, ScheduleAssumption DEF TimedItems
  <2>2. /\ \A j \in 1 .. p - 1 : TimeGetter(s[j]) < TimeGetter(item)
        /\ p <= Len(s) => TimeGetter(s[p]) >= TimeGetter(item)
    BY <1>7 DEF IsInsertIndex
  <2> SUFFICES ASSUME NEW i \in 1 .. Len(r), NEW j \in 1 .. Len(r), i < j
               PROVE  TimeGetter(r[i]) <= TimeGetter(r[j])
    OBVIOUS
  <2>3. CASE j < p
    BY <1>1, <1>7, <2>3 DEF Grown
  <2>4. CASE j = p
    <3>1. r[i] = s[i] /\ r[j] = item /\ i \in 1 .. p - 1 /\ i \in 1 .. Len(s)
      BY <1>1, <2>4 DEF Grown
    <3> QED
      BY <2>1, <2>2, <3>1
  <2>5. CASE i < p /\ j > p
    <3>1. PICK b \in 1 .. Len(s) : i \in 1 .. Len(s) /\ r[i] = s[i] /\ r[j] = s[b] /\ i < b
      <4>1. j - 1 \in 1 .. Len(s) /\ i \in 1 .. Len(s) /\ r[i] = s[i] /\ r[j] = s[j - 1] /\ i < j - 1
        BY <1>1, <2>5 DEF Grown
      <4> QED
        BY <4>1
    <3> QED
      BY <1>7, <3>1
  <2>6. CASE i = p /\ j > p
    <3>1. /\ r[i] = item /\ r[j] = s[j - 1] /\ j - 1 \in 1 .. Len(s)
          /\ p \in 1 .. Len(s) /\ (p < j - 1 \/ p = j - 1)
      BY <1>1, <2>6 DEF Grown
    <3>2. PICK b \in 1 .. Len(s) : r[j] = s[b] /\ (p < b \/ p = b)
      BY <3>1
    <3>3. TimeGetter(s[p]) <= TimeGetter(s[b])
      <4>1. CASE p < b
        BY <1>7, <3>1, <4>1
      <4>2. CASE p = b
        BY <2>1, <3>1, <4>2
      <4> QED
        BY <3>2, <4>1, <4>2
    <3> QED
      BY <2>1, <2>2, <3>1, <3>2, <3>3
  <2>7. CASE i > p /\ j > p
    <3>1. PICK a, b \in 1 .. Len(s) : r[i] = s[a] /\ r[j] = s[b] /\ a < b
      <4>1. /\ i - 1 \in 1 .. Len(s) /\ j - 1 \in 1 .. Len(s)
            /\ r[i] = s[i - 1] /\ r[j] = s[j - 1] /\ i - 1 < j - 1
        BY <1>1, <2>7 DEF Grown
      <4> QED
        BY <4>1
    <3> QED
      BY <1>7, <3>1
  <2> QED
    BY <1>1, <2>3, <2>4, <2>5, <2>6, <2>7
<1> QED
  BY <1>2, <1>3, <1>5, <1>6, <1>7

(* insert adds the item, and its key points at it from then on. *)
LEMMA InsertProperties ==
  ASSUME NEW q, GoodQueue(q), NEW item \in TimedItems, item \notin ToSet(q.schedule)
  PROVE  /\ GoodQueue(insert(q, item))
         /\ ToSet(insert(q, item).schedule) = ToSet(q.schedule) \cup {item}
<1>0. PICK s : s = q.schedule
  OBVIOUS
<1>1. PICK p : p = insertIndex(s, TimeGetter(item))
  OBVIOUS
<1>2. PICK r : r = InsertAt(s, p, item)
  OBVIOUS
<1>3. PICK m : m = [k \in DOMAIN q.scheduleMap \cup {KeyGetter(item)} |->
                      IF k = KeyGetter(item) THEN item ELSE q.scheduleMap[k]]
  OBVIOUS
<1>4. insert(q, item) = [schedule |-> r, scheduleMap |-> m]
  BY <1>0, <1>1, <1>2, <1>3 DEF insert
<1>5. s \in Seq(TimedItems) /\ Len(s) \in Nat /\ TimeGetter(item) \in Nat
  BY <1>0, GoodQueueTypes, ScheduleAssumption DEF TimedItems
<1>6. IsInsertIndex(s, TimeGetter(item), p) /\ p \in 1 .. Len(s) + 1
  BY <1>1, <1>5, InsertIndexExists DEF IsInsertIndex
<1>7. /\ r \in Seq(TimedItems)
      /\ Grown(s, p, item, r)
  BY <1>2, <1>5, <1>6, InsertAtProperties
<1>8. /\ ToSet(r) = ToSet(s) \cup {item}
      /\ p \in 1 .. Len(r) /\ r[p] = item
      /\ \A i \in 1 .. Len(s) : \E j \in 1 .. Len(r) : r[j] = s[i]
  BY <1>5, <1>6, <1>7, GrownSlice
<1>9. \A i, j \in 1 .. Len(r) : r[i] = r[j] => i = j
  <2>1. \A i, j \in 1 .. Len(s) : s[i] = s[j] => i = j
    BY <1>0 DEF GoodQueue, NoTwice
  <2> QED
    BY <1>0, <1>5, <1>6, <1>7, <2>1, GrownSlice
<1>10. \A i, j \in 1 .. Len(r) : i < j => TimeGetter(r[i]) <= TimeGetter(r[j])
  <2>1. \A i, j \in 1 .. Len(s) :
          i < j => TimeGetter(s[i]) <= TimeGetter(s[j])
    BY <1>0 DEF GoodQueue, Sorted
  <2> QED
    BY <1>5, <1>6, <1>7, <2>1, GrownSlice
<1>11. /\ m \in [DOMAIN q.scheduleMap \cup {KeyGetter(item)} -> TimedItems]
       /\ DOMAIN q.scheduleMap \cup {KeyGetter(item)} \subseteq {KeyGetter(i) : i \in TimedItems}
  BY <1>3, GoodQueueTypes
<1>12. \A k \in DOMAIN m : KeyGetter(m[k]) = k /\ \E i \in 1 .. Len(r) : r[i] = m[k]
  <2> TAKE k \in DOMAIN m
  <2>1. CASE k = KeyGetter(item)
    BY <1>3, <1>8, <2>1
  <2>2. CASE k # KeyGetter(item)
    <3>1. k \in DOMAIN q.scheduleMap /\ m[k] = q.scheduleMap[k]
      BY <1>3, <2>2
    <3> QED
      BY <1>0, <1>8, <3>1 DEF GoodQueue, MapInSlice
  <2> QED
    BY <2>1, <2>2
<1>13. [schedule |-> r, scheduleMap |-> m] \in QueueOf(TimedItems)
  BY <1>7, <1>11 DEF QueueOf
<1> QED
  BY <1>0, <1>4, <1>8, <1>9, <1>10, <1>12, <1>13 DEF GoodQueue, Sorted, MapInSlice, NoTwice

(* A slice with one item less: what is left, still ordered and still free  *)
(* of repetition.                                                          *)
LEMMA ShrunkSlice ==
  ASSUME NEW s \in Seq(TimedItems), NEW r \in Seq(TimedItems),
         NEW p \in 1 .. Len(s), Shrunk(s, p, r),
         \A i, j \in 1 .. Len(s) : s[i] = s[j] => i = j
  PROVE  /\ ToSet(r) = ToSet(s) \ {s[p]}
         /\ \A i \in 1 .. Len(s) : i # p => \E j \in 1 .. Len(r) : r[j] = s[i]
         /\ \A i, j \in 1 .. Len(r) : r[i] = r[j] => i = j
         /\ (\A i, j \in 1 .. Len(s) : i < j => TimeGetter(s[i]) <= TimeGetter(s[j]))
              => \A i, j \in 1 .. Len(r) : i < j => TimeGetter(r[i]) <= TimeGetter(r[j])
<1>1. /\ Len(s) \in Nat
      /\ DOMAIN s = 1 .. Len(s)
      /\ DOMAIN r = 1 .. Len(r)
      /\ Len(r) = Len(s) - 1
  BY LenProperties DEF Shrunk
<1>2. ASSUME NEW j \in 1 .. Len(r)
      PROVE  \E i \in 1 .. Len(s) : i # p /\ i >= j /\ i <= j + 1 /\ (i = j <=> j < p) /\ r[j] = s[i]
  <2>1. CASE j < p
    BY <1>1, <2>1 DEF Shrunk
  <2>2. CASE j >= p
    <3>1. j + 1 \in 1 .. Len(s) /\ r[j] = s[j + 1]
      BY <1>1, <2>2 DEF Shrunk
    <3> QED
      BY <1>1, <2>2, <3>1
  <2> QED
    BY <1>1, <2>1, <2>2
<1>3. ASSUME NEW i \in 1 .. Len(s), i # p
      PROVE  \E j \in 1 .. Len(r) : r[j] = s[i]
  <2>1. CASE i < p
    BY <1>1, <2>1 DEF Shrunk
  <2>2. CASE i > p
    <3>1. i - 1 \in 1 .. Len(r) /\ r[i - 1] = s[i]
      BY <1>1, <2>2 DEF Shrunk
    <3> QED
      BY <3>1
  <2> QED
    BY <1>1, <1>3, <2>1, <2>2
<1>4. ToSet(r) = ToSet(s) \ {s[p]}
  <2>1. ToSet(r) = {r[j] : j \in 1 .. Len(r)} /\ ToSet(s) = {s[i] : i \in 1 .. Len(s)}
    BY <1>1 DEF ToSet
  <2>2. \A x \in ToSet(r) : x \in ToSet(s) \ {s[p]}
    BY <1>2, <2>1
  <2>3. \A x \in ToSet(s) \ {s[p]} : x \in ToSet(r)
    BY <1>3, <2>1
  <2> QED
    BY <2>2, <2>3
<1>5. ASSUME NEW i \in 1 .. Len(r), NEW j \in 1 .. Len(r), i < j
      PROVE  \E a, b \in 1 .. Len(s) : a < b /\ r[i] = s[a] /\ r[j] = s[b]
  <2>1. PICK a \in 1 .. Len(s) : a <= i + 1 /\ (a = i <=> i < p) /\ a >= i /\ r[i] = s[a]
    BY <1>2
  <2>2. PICK b \in 1 .. Len(s) : b <= j + 1 /\ (b = j <=> j < p) /\ b >= j /\ r[j] = s[b]
    BY <1>2
  <2>3. a < b
    BY <1>1, <1>5, <2>1, <2>2
  <2> QED
    BY <2>1, <2>2, <2>3
<1>6. \A i, j \in 1 .. Len(r) : r[i] = r[j] => i = j
  <2> SUFFICES ASSUME NEW i \in 1 .. Len(r), NEW j \in 1 .. Len(r), i < j
               PROVE  r[i] # r[j]
    BY <1>1
  <2>1. PICK a, b \in 1 .. Len(s) : a < b /\ r[i] = s[a] /\ r[j] = s[b]
    BY <1>5
  <2> QED
    BY <1>1, <2>1
<1>7. ASSUME \A i, j \in 1 .. Len(s) : i < j => TimeGetter(s[i]) <= TimeGetter(s[j]),
             NEW i \in 1 .. Len(r), NEW j \in 1 .. Len(r), i < j
      PROVE  TimeGetter(r[i]) <= TimeGetter(r[j])
  <2>1. PICK a, b \in 1 .. Len(s) : a < b /\ r[i] = s[a] /\ r[j] = s[b]
    BY <1>5, <1>7
  <2> QED
    BY <1>7, <2>1
<1> QED
  BY <1>3, <1>4, <1>6, <1>7

(* A queue that lost the item at position p and the map's entry of its     *)
(* key.                                                                    *)
LEMMA LosesItem ==
  ASSUME NEW q, GoodQueue(q), NEW p \in 1 .. Len(q.schedule), NEW r \in Seq(TimedItems),
         Shrunk(q.schedule, p, r)
  PROVE  /\ GoodQueue([schedule    |-> r,
                       scheduleMap |-> WithoutKey(q.scheduleMap, KeyGetter(q.schedule[p]))])
         /\ ToSet(r) = ToSet(q.schedule) \ {q.schedule[p]}
<1>1. PICK s : s = q.schedule
  OBVIOUS
<1>2. PICK m : m = WithoutKey(q.scheduleMap, KeyGetter(q.schedule[p]))
  OBVIOUS
<1>3. /\ s \in Seq(TimedItems)
      /\ p \in 1 .. Len(s)
      /\ Shrunk(s, p, r)
      /\ \A i, j \in 1 .. Len(s) : s[i] = s[j] => i = j
      /\ \A i, j \in 1 .. Len(s) : i < j => TimeGetter(s[i]) <= TimeGetter(s[j])
  BY <1>1, GoodQueueTypes DEF GoodQueue, Sorted, NoTwice
<1>4. /\ ToSet(r) = ToSet(s) \ {s[p]}
      /\ \A i \in 1 .. Len(s) : i # p => \E j \in 1 .. Len(r) : r[j] = s[i]
      /\ \A i, j \in 1 .. Len(r) : r[i] = r[j] => i = j
      /\ \A i, j \in 1 .. Len(r) : i < j => TimeGetter(r[i]) <= TimeGetter(r[j])
  BY <1>3, ShrunkSlice
<1>5. /\ q.scheduleMap \in [DOMAIN q.scheduleMap -> TimedItems]
      /\ DOMAIN q.scheduleMap \subseteq {KeyGetter(item) : item \in TimedItems}
  BY GoodQueueTypes
<1>6. /\ m \in [DOMAIN q.scheduleMap \ {KeyGetter(s[p])} -> TimedItems]
      /\ \A k \in DOMAIN m : k \in DOMAIN q.scheduleMap /\ k # KeyGetter(s[p]) /\ m[k] = q.scheduleMap[k]
  BY <1>1, <1>2, <1>5 DEF WithoutKey
<1>7. \A k \in DOMAIN m : KeyGetter(m[k]) = k /\ \E j \in 1 .. Len(r) : r[j] = m[k]
  <2> TAKE k \in DOMAIN m
  <2>1. KeyGetter(m[k]) = k /\ \E i \in 1 .. Len(s) : s[i] = m[k]
    BY <1>1, <1>6 DEF GoodQueue, MapInSlice
  <2>2. PICK i \in 1 .. Len(s) : s[i] = m[k]
    BY <2>1
  <2>3. i # p
    BY <1>6, <2>1, <2>2
  <2> QED
    BY <1>4, <2>1, <2>2, <2>3
<1>8. [schedule |-> r, scheduleMap |-> m] \in QueueOf(TimedItems)
  BY <1>5, <1>6 DEF QueueOf
<1> QED
  BY <1>1, <1>2, <1>4, <1>7, <1>8 DEF GoodQueue, Sorted, MapInSlice, NoTwice

(* remove finds the item its key holds and takes out nothing else. *)
LEMMA RemoveProperties ==
  ASSUME NEW q, GoodQueue(q), NEW key
  PROVE  /\ GoodQueue(remove(q, key))
         /\ remove(q, key).scheduleMap = WithoutKey(q.scheduleMap, key)
         /\ ToSet(remove(q, key).schedule) =
              ToSet(q.schedule) \ (IF key \in DOMAIN q.scheduleMap THEN {q.scheduleMap[key]} ELSE {})
<1>1. CASE key \in DOMAIN q.scheduleMap
  <2>1. PICK item : item = q.scheduleMap[key]
    OBVIOUS
  <2>2. PICK p : p = itemIndex(q.schedule, item)
    OBVIOUS
  <2>3. p \in 1 .. Len(q.schedule) /\ q.schedule[p] = item /\ KeyGetter(item) = key
    BY <1>1, <2>1, <2>2 DEF GoodQueue, MapInSlice, itemIndex
  <2>4. PICK r : r = RemoveAt(q.schedule, p)
    OBVIOUS
  <2>5. q.schedule \in Seq(TimedItems)
    BY GoodQueueTypes
  <2>6. r \in Seq(TimedItems) /\ Shrunk(q.schedule, p, r)
    BY <2>3, <2>4, <2>5, RemoveAtProperties
  <2>7. remove(q, key) = [schedule |-> r, scheduleMap |-> WithoutKey(q.scheduleMap, key)]
    BY <1>1, <2>1, <2>2, <2>4 DEF remove, has
  <2>8. /\ GoodQueue([schedule |-> r, scheduleMap |-> WithoutKey(q.scheduleMap, key)])
        /\ ToSet(r) = ToSet(q.schedule) \ {item}
    BY <2>3, <2>6, LosesItem
  <2> QED
    BY <1>1, <2>1, <2>7, <2>8
<1>2. CASE key \notin DOMAIN q.scheduleMap
  <2>1. remove(q, key) = q
    BY <1>2 DEF remove, has
  <2>2. q.scheduleMap = WithoutKey(q.scheduleMap, key)
    <3>1. q.scheduleMap \in [DOMAIN q.scheduleMap -> TimedItems]
      BY GoodQueueTypes
    <3>2. DOMAIN q.scheduleMap = DOMAIN q.scheduleMap \ {key}
      BY <1>2
    <3> QED
      BY <3>1, <3>2 DEF WithoutKey
  <2> QED
    BY <1>2, <2>1, <2>2
<1> QED
  BY <1>1, <1>2

(* TryPopAt takes out the head, which is timed and which nothing precedes. *)
LEMMA PoppedProperties ==
  ASSUME NEW q, GoodQueue(q), q.schedule # <<>>
  PROVE  /\ GoodQueue(Popped(q))
         /\ Head(q.schedule) \in TimedItems
         /\ Head(q.schedule) \in ToSet(q.schedule)
         /\ ToSet(Popped(q).schedule) = ToSet(q.schedule) \ {Head(q.schedule)}
         /\ Popped(q).scheduleMap = WithoutKey(q.scheduleMap, KeyGetter(Head(q.schedule)))
         /\ \A item \in ToSet(q.schedule) : TimeGetter(Head(q.schedule)) <= TimeGetter(item)
<1>1. PICK s : s = q.schedule
  OBVIOUS
<1>2. s \in Seq(TimedItems) /\ s # <<>> /\ Len(s) \in Nat /\ Len(s) > 0
  BY <1>1, GoodQueueTypes, EmptySeq
<1>3. Head(s) = s[1] /\ 1 \in 1 .. Len(s)
  BY <1>2
<1>4. Tail(s) \in Seq(TimedItems) /\ Shrunk(s, 1, Tail(s))
  BY <1>2, HeadTailProperties DEF Shrunk
<1>5. Popped(q) = [schedule |-> Tail(s), scheduleMap |-> WithoutKey(q.scheduleMap, KeyGetter(s[1]))]
  BY <1>1, <1>3 DEF Popped
<1>6. GoodQueue(Popped(q)) /\ ToSet(Tail(s)) = ToSet(s) \ {s[1]}
  <2>1. 1 \in 1 .. Len(q.schedule) /\ Shrunk(q.schedule, 1, Tail(s))
    BY <1>1, <1>3, <1>4
  <2>2. /\ GoodQueue([schedule    |-> Tail(s),
                      scheduleMap |-> WithoutKey(q.scheduleMap, KeyGetter(q.schedule[1]))])
        /\ ToSet(Tail(s)) = ToSet(q.schedule) \ {q.schedule[1]}
    BY <1>4, <2>1, LosesItem
  <2> QED
    BY <1>1, <1>5, <2>2
<1>7. /\ \A i \in 1 .. Len(s) : s[i] \in TimedItems /\ TimeGetter(s[i]) \in Nat
      /\ ToSet(s) = {s[i] : i \in 1 .. Len(s)}
  <2>1. /\ \A i \in 1 .. Len(q.schedule) : /\ q.schedule[i] \in TimedItems
                                           /\ TimeGetter(q.schedule[i]) \in Nat
        /\ ToSet(q.schedule) = {q.schedule[i] : i \in 1 .. Len(q.schedule)}
    BY GoodQueueTypes, Zenon
  <2> QED
    BY <1>1, <2>1, Zenon
<1>8. \A i \in 1 .. Len(s) : TimeGetter(s[1]) <= TimeGetter(s[i])
  <2>1. \A i, j \in 1 .. Len(s) : i < j => TimeGetter(s[i]) <= TimeGetter(s[j])
    BY <1>1 DEF GoodQueue, Sorted
  <2>2. \A i \in 1 .. Len(s) : i = 1 \/ 1 < i
    BY <1>2
  <2> QED
    BY <1>3, <1>7, <2>1, <2>2
<1> QED
  BY <1>1, <1>3, <1>5, <1>6, <1>7, <1>8

-----------------------------------------------------------------------------
(* The inductive invariant: what a caller of a schedule operation can      *)
(* count on when it takes the mutex.                                       *)
ScheduleInv == TypeOK /\ QueueSorted /\ RemoveFindsItem /\ HandedOutOnce

(* The invariant in terms of GoodQueue, in a state and after a step. *)
LEMMA InvUnfolded ==
  /\ ScheduleInv <=> /\ GoodQueue(queue)
                     /\ ToSet(queue.schedule) \subseteq given \ out
                     /\ now \in 0 .. MaxTime
                     /\ out \subseteq given
                     /\ given \subseteq Items
                     /\ out \subseteq TimedItems
  /\ ScheduleInv' <=> /\ GoodQueue(queue')
                      /\ ToSet(queue'.schedule) \subseteq given' \ out'
                      /\ now' \in 0 .. MaxTime
                      /\ out' \subseteq given'
                      /\ given' \subseteq Items
                      /\ out' \subseteq TimedItems
  BY DEF ScheduleInv, TypeOK, QueueSorted, RemoveFindsItem, HandedOutOnce, GoodQueue

(* The empty schedule satisfies the invariant. *)
LEMMA InitEstablishesInv == Init => ScheduleInv
<1> SUFFICES ASSUME Init
             PROVE  ScheduleInv
  OBVIOUS
<1>1. queue.schedule = <<>> /\ queue.scheduleMap = <<>> /\ queue = EmptySchedule
  BY DEF Init, EmptySchedule
<1>2. <<>> \in Seq(TimedItems) /\ Len(<<>>) = 0
  BY EmptySeq
<1>3. <<>> \in [{} -> TimedItems] /\ DOMAIN <<>> = {}
  <2>1. <<>> \in [1 .. 0 -> TimedItems] /\ DOMAIN <<>> = 1 .. 0
    BY <1>2, LenProperties
  <2>2. 1 .. 0 = {}
    OBVIOUS
  <2> QED
    BY <2>1, <2>2
<1>4. queue \in QueueOf(TimedItems)
  <2>1. {} \in SUBSET {KeyGetter(item) : item \in TimedItems}
    OBVIOUS
  <2>2. <<>> \in UNION {[K -> TimedItems] : K \in SUBSET {KeyGetter(item) : item \in TimedItems}}
    BY <1>3, <2>1
  <2> QED
    BY <1>1, <1>2, <2>2 DEF QueueOf, EmptySchedule
<1>5. ToSet(queue.schedule) = {}
  BY <1>1, <1>3 DEF ToSet
<1>6. 1 .. Len(queue.schedule) = {} /\ DOMAIN queue.scheduleMap = {}
  BY <1>1, <1>2, <1>3
<1> QED
  BY <1>4, <1>5, <1>6, ScheduleAssumption
     DEF ScheduleInv, TypeOK, QueueSorted, RemoveFindsItem, HandedOutOnce, Sorted, MapInSlice,
         NoTwice, Init

(* One call of a client, of the Run loop or one second: the invariant is   *)
(* kept, and the abstract pending set takes the corresponding step or      *)
(* none.                                                                   *)
AbstractStep == Abs!Next \/ UNCHANGED <<ToSet(queue.schedule), queue.scheduleMap, now, out>>

(* insert treats the map as the abstract schedule does. *)
LEMMA InsertIsRemembering ==
  ASSUME NEW q, NEW item
  PROVE  insert(q, item).scheduleMap = Abs!Remembering(q.scheduleMap, item)
  BY DEF insert, Abs!Remembering

(* Schedule keeps the invariant, and is Add or, without a time, a stutter. *)
LEMMA ScheduleStep ==
  ASSUME ScheduleInv, NEW item \in Items, ScheduleItem(item)
  PROVE  ScheduleInv' /\ AbstractStep
<1>1. /\ GoodQueue(queue) /\ ToSet(queue.schedule) \subseteq given \ out /\ out \subseteq given
      /\ now \in 0 .. MaxTime /\ given \subseteq Items /\ out \subseteq TimedItems
  BY InvUnfolded
<1>2. /\ item \notin given /\ item \notin ToSet(queue.schedule) /\ item \notin out
      /\ now' = now /\ out' = out /\ given' = given \cup {item}
  BY <1>1 DEF ScheduleItem
<1>3. CASE TimeGetter(item) = NoTime
  <2>1. queue' = queue
    BY <1>3 DEF ScheduleItem, Schedule
  <2> QED
    BY <1>1, <1>2, <2>1, InvUnfolded DEF AbstractStep
<1>4. CASE TimeGetter(item) # NoTime
  <2>1. queue' = insert(queue, item)
    BY <1>4 DEF ScheduleItem, Schedule
  <2>2. item \in TimedItems
    BY <1>4 DEF TimedItems
  <2>3. GoodQueue(queue') /\ ToSet(queue'.schedule) = ToSet(queue.schedule) \cup {item}
    BY <1>1, <1>2, <2>1, <2>2, InsertProperties
  <2>4. queue'.scheduleMap = Abs!Remembering(queue.scheduleMap, item)
    BY <2>1, InsertIsRemembering
  <2>5. Abs!Add(item)
    BY <1>2, <1>4, <2>3, <2>4 DEF Abs!Add
  <2> QED
    BY <1>1, <1>2, <2>3, <2>5, InvUnfolded DEF AbstractStep, Abs!Next
<1> QED
  BY <1>3, <1>4

(* Reschedule keeps the invariant, and is Replace or, without a time,      *)
(* Withdraw.                                                               *)
LEMMA RescheduleStep ==
  ASSUME ScheduleInv, NEW item \in Items, RescheduleItem(item)
  PROVE  ScheduleInv' /\ AbstractStep
<1>1. /\ GoodQueue(queue) /\ ToSet(queue.schedule) \subseteq given \ out /\ out \subseteq given
      /\ now \in 0 .. MaxTime /\ given \subseteq Items /\ out \subseteq TimedItems
  BY InvUnfolded
<1>2. /\ item \notin given /\ item \notin ToSet(queue.schedule) /\ item \notin out
      /\ now' = now /\ out' = out /\ given' = given \cup {item}
  BY <1>1 DEF RescheduleItem
<1>3. PICK q : q = remove(queue, KeyGetter(item))
  OBVIOUS
<1>4. /\ GoodQueue(q)
      /\ q.scheduleMap = WithoutKey(queue.scheduleMap, KeyGetter(item))
      /\ ToSet(q.schedule) = ToSet(queue.schedule) \ Abs!RememberedUnder(KeyGetter(item))
  BY <1>1, <1>3, RemoveProperties DEF Abs!RememberedUnder
<1>5. CASE TimeGetter(item) = NoTime
  <2>1. queue' = q
    BY <1>3, <1>5 DEF RescheduleItem, Reschedule, Schedule
  <2>2. Abs!Withdraw(KeyGetter(item))
    BY <1>2, <1>4, <2>1 DEF Abs!Withdraw, Abs!Forgetting, WithoutKey
  <2> QED
    BY <1>1, <1>2, <1>4, <2>1, <2>2, InvUnfolded DEF AbstractStep, Abs!Next
<1>6. CASE TimeGetter(item) # NoTime
  <2>1. queue' = insert(q, item)
    BY <1>3, <1>6 DEF RescheduleItem, Reschedule, Schedule
  <2>2. item \in TimedItems /\ item \notin ToSet(q.schedule)
    BY <1>2, <1>4, <1>6 DEF TimedItems
  <2>3. GoodQueue(queue') /\ ToSet(queue'.schedule) = ToSet(q.schedule) \cup {item}
    BY <1>4, <2>1, <2>2, InsertProperties
  <2>4. queue'.scheduleMap = Abs!Remembering(queue.scheduleMap, item)
    <3>1. queue'.scheduleMap = Abs!Remembering(q.scheduleMap, item)
      BY <2>1, InsertIsRemembering
    <3>2. DOMAIN q.scheduleMap \cup {KeyGetter(item)} = DOMAIN queue.scheduleMap \cup {KeyGetter(item)}
      BY <1>4 DEF WithoutKey
    <3>3. \A k \in DOMAIN queue.scheduleMap \ {KeyGetter(item)} : q.scheduleMap[k] = queue.scheduleMap[k]
      BY <1>4 DEF WithoutKey
    <3> QED
      BY <3>1, <3>2, <3>3 DEF Abs!Remembering
  <2>5. Abs!Replace(item)
    BY <1>2, <1>4, <1>6, <2>3, <2>4 DEF Abs!Replace
  <2> QED
    BY <1>1, <1>2, <1>4, <2>3, <2>5, InvUnfolded DEF AbstractStep, Abs!Next
<1> QED
  BY <1>5, <1>6

(* remove keeps the invariant and is Withdraw. *)
LEMMA RemoveStep ==
  ASSUME ScheduleInv, NEW key \in Keys, RemoveKey(key)
  PROVE  ScheduleInv' /\ AbstractStep
<1>1. /\ GoodQueue(queue) /\ ToSet(queue.schedule) \subseteq given \ out /\ out \subseteq given
      /\ now \in 0 .. MaxTime /\ given \subseteq Items /\ out \subseteq TimedItems
  BY InvUnfolded
<1>2. queue' = remove(queue, key) /\ now' = now /\ given' = given /\ out' = out
  BY DEF RemoveKey
<1>3. /\ GoodQueue(queue')
      /\ queue'.scheduleMap = WithoutKey(queue.scheduleMap, key)
      /\ ToSet(queue'.schedule) = ToSet(queue.schedule) \ Abs!RememberedUnder(key)
  BY <1>1, <1>2, RemoveProperties DEF Abs!RememberedUnder
<1>4. Abs!Withdraw(key)
  BY <1>2, <1>3 DEF Abs!Withdraw, Abs!Forgetting, WithoutKey
<1>5. PICK item \in Items : key = KeyGetter(item)
  BY DEF Keys
<1> QED
  BY <1>1, <1>2, <1>3, <1>4, <1>5, InvUnfolded DEF AbstractStep, Abs!Next

(* TryPopAt keeps the invariant and is HandOut: the head of an ordered     *)
(* slice is due before everything else in it.                              *)
LEMMA PopStep ==
  ASSUME ScheduleInv, TryPopAt
  PROVE  ScheduleInv' /\ AbstractStep
<1>1. /\ GoodQueue(queue) /\ ToSet(queue.schedule) \subseteq given \ out /\ out \subseteq given
      /\ now \in 0 .. MaxTime /\ given \subseteq Items /\ out \subseteq TimedItems
  BY InvUnfolded
<1>2. PICK item : item = Head(queue.schedule)
  OBVIOUS
<1>3. /\ queue.schedule # <<>> /\ TimeGetter(item) <= now
      /\ queue' = Popped(queue) /\ out' = out \cup {item} /\ now' = now /\ given' = given
  BY <1>2 DEF TryPopAt, Due
<1>4. /\ GoodQueue(queue')
      /\ item \in TimedItems
      /\ item \in ToSet(queue.schedule)
      /\ ToSet(queue'.schedule) = ToSet(queue.schedule) \ {item}
      /\ queue'.scheduleMap = WithoutKey(queue.scheduleMap, KeyGetter(item))
      /\ \A other \in ToSet(queue.schedule) : TimeGetter(item) <= TimeGetter(other)
  BY <1>1, <1>2, <1>3, PoppedProperties
<1>5. Abs!HandOut(item)
  BY <1>3, <1>4 DEF Abs!HandOut, Abs!Forgetting, WithoutKey
<1>6. item \in Items
  BY <1>4 DEF TimedItems
<1> QED
  BY <1>1, <1>3, <1>4, <1>5, <1>6, InvUnfolded DEF AbstractStep, Abs!Next

(* Time passing keeps the invariant and is Elapse. *)
LEMMA TickStep ==
  ASSUME ScheduleInv, Tick
  PROVE  ScheduleInv' /\ AbstractStep
<1>1. now' \in 0 .. MaxTime /\ now' > now /\ queue' = queue /\ given' = given /\ out' = out
  BY InvUnfolded, ScheduleAssumption DEF Tick
<1>2. Abs!Elapse
  BY <1>1 DEF Abs!Elapse
<1> QED
  BY <1>1, <1>2, InvUnfolded DEF AbstractStep, Abs!Next

(* Every step keeps the invariant and is a step or a stutter of the        *)
(* abstract schedule.                                                      *)
LEMMA NextStep ==
  ASSUME ScheduleInv, [Next]_vars
  PROVE  ScheduleInv' /\ AbstractStep
<1>1. CASE UNCHANGED vars
  BY <1>1, InvUnfolded DEF vars, AbstractStep
<1>2. CASE Next
  BY <1>2, ScheduleStep, RescheduleStep, RemoveStep, PopStep, TickStep DEF Next
<1> QED
  BY <1>1, <1>2

-----------------------------------------------------------------------------
(***************************************************************************)
(* Whatever the clients call, the slice stays ordered by time, the map     *)
(* points into the slice, so that remove never slices with index -1        *)
(* (schedule.go:110), nothing is queued twice or handed out twice, and no  *)
(* nil time is dereferenced (schedule.go:88).                              *)
(***************************************************************************)
THEOREM ScheduleInvariant == Spec => []QueueInv
<1>1. Init => ScheduleInv
  BY InitEstablishesInv
<1>2. ScheduleInv /\ [Next]_vars => ScheduleInv'
  BY NextStep
<1> QED
  BY <1>1, <1>2, PTL DEF Spec, ScheduleInv, QueueInv

(***************************************************************************)
(* The schedule implements the abstract pending set: every step of the     *)
(* slice and the map (schedule.go:34-129) is a step of ScheduleAbstract.   *)
(***************************************************************************)
THEOREM ScheduleRefinement == Spec => ImplementsPendingSet
<1>1. Init => Abs!Init
  <2>1. ASSUME Init
        PROVE  ToSet(queue.schedule) = {}
    <3>1. queue.schedule = <<>>
      BY <2>1 DEF Init, EmptySchedule
    <3>2. DOMAIN <<>> = {}
      OBVIOUS
    <3> QED
      BY <3>1, <3>2 DEF ToSet
  <2> QED
    BY <2>1 DEF Init, EmptySchedule, Abs!Init
<1>2. ScheduleInv /\ [Next]_vars => [Abs!Next]_(Abs!vars)
  BY NextStep DEF AbstractStep, Abs!vars
<1>3. Init => ScheduleInv
  BY InitEstablishesInv
<1>4. ScheduleInv /\ [Next]_vars => ScheduleInv'
  BY NextStep
<1> QED
  BY <1>1, <1>2, <1>3, <1>4, PTL DEF Spec, ImplementsPendingSet, Abs!Spec
=============================================================================
