--------------------------- MODULE SchedulerProofs ---------------------------
(***************************************************************************)
(* Proofs about module Scheduler, for any labs, times, requests that       *)
(* overlap and restarts: what is queued follows the rows, and a lab that   *)
(* was deleted stays down.                                                 *)
(*                                                                         *)
(* The first part says what the operations of the two queues do to the set *)
(* of their entries; the rest never looks into a slice again.              *)
(***************************************************************************)
EXTENDS Scheduler, SequenceTheorems, FiniteSetTheorems, WellFoundedInduction, TLAPS

(* The copies of labs the queues hold. *)
Item == [uuid : Labs, start : 0 .. MaxTime, end : Times \cup {NoTime}, copy : Nat]

(* The copies in the slice of a queue. *)
Items(q) == ToSet(q.schedule)

(* What both queues are, whichever time they are ordered by: the map finds *)
(* entries that are in the slice, and no pointer is in it twice.           *)
GoodQueue(q) ==
  /\ q = [schedule |-> q.schedule, scheduleMap |-> q.scheduleMap]
  /\ q.schedule \in Seq(Item)
  /\ \A i, j \in 1 .. Len(q.schedule) : q.schedule[i] = q.schedule[j] => i = j
  /\ q.scheduleMap = [k \in DOMAIN q.scheduleMap |-> q.scheduleMap[k]]
  /\ \A k \in DOMAIN q.scheduleMap : q.scheduleMap[k] \in Items(q) /\ q.scheduleMap[k].uuid = k

-----------------------------------------------------------------------------
(***************************************************************************)
(* The invariant.                                                          *)
(***************************************************************************)
(* The requests a goroutine serves, at the steps they have. *)
Request == [op : {"create", "update", "rename", "delete", "deploy", "destroy", "revive", "restore"},
            pc : {"commit", "deployment", "destruction", "finish", "create"},
            lab : LabCopy]

(* Every entry of the lab in the queue, so the only one, is in the map. *)
OneEntry(q, l) == \A item \in Entries(q, l) : l \in DOMAIN q.scheduleMap /\ q.scheduleMap[l] = item

(* No entry of the queue is indefinite. *)
Timed(q) == \A item \in Items(q) : item.end # NoTime

(* What the parts of the state look like. *)
ShapeOK ==
  /\ req \in [Procs -> Request \cup {Idle}]
  /\ loop.pc # "deploy" => loop.now \in Nat /\ loop.now <= now
  /\ loop.pc = "schedule" => loop.due \in Item
  /\ GoodQueue(dep)
  /\ GoodQueue(des) /\ Timed(des)
  /\ \A k, l \in creating : k = l

(* Goroutine p serves a request on lab l, one of ops and at one of steps. *)
On(p, l) == req[p] # Idle /\ req[p].lab.uuid = l
At(p, l, ops, steps) == On(p, l) /\ req[p].op \in ops /\ req[p].pc \in steps

(* The steps requests go through; a lab that is served has been handed     *)
(* out, and only reviveInstances works before it is done.                  *)
RequestOK(p) ==
  req[p] # Idle =>
    /\ req[p].pc = "finish" => req[p].op \in {"delete", "deploy", "destroy"}
    /\ req[p].pc = "commit" => req[p].op \in {"update", "rename", "delete", "deploy"}
    /\ req[p].op = "rename" => req[p].pc = "commit"
    /\ req[p].pc = "create" => req[p].op = "deploy" /\ creating = {req[p].lab.uuid}
    /\ req[p].lab.uuid \notin unused
    /\ req[p].op \notin {"revive", "restore"} => reviving = {}

(* Nothing is queued or under way that would deploy l. *)
Untouched(l) == ~Busy(l) /\ Entries(dep, l) = {} /\ l \notin Starting

(* A lab that has not been handed out, and one reviveInstances has not     *)
(* come to, are known to nobody.                                           *)
FreshOK(l) ==
  /\ l \in unused => db[l] = NoLab /\ Untouched(l) /\ inst[l] = "none" /\ l \notin waiting
  /\ l \in reviving => db[l] # NoLab /\ Untouched(l) /\ inst[l] = "none" /\ l \notin waiting

(* A lab without a row has no run environment, or never had a row.         *)
DeletedOK(l) ==
  /\ (l \notin unused /\ db[l] = NoLab) => l \notin env \/ Untouched(l)
  /\ \A p \in Procs : At(p, l, {"delete"}, {"deployment", "destruction", "finish"}) => l \notin env

(* The row has an end that is to come; it is queued; so is its start. *)
EndLive(l) == db[l] # NoLab /\ db[l].end # NoTime /\ db[l].end > now
EndQueued(l) == \E item \in Entries(des, l) : item.end = db[l].end
StartQueued(l) == \E item \in Entries(dep, l) : item.start = db[l].start

(* What a request on l knows of the row, as long as it is the only one. *)
RowOK(l) ==
  /\ \A p, q \in Procs : On(p, l) /\ On(q, l) => p = q
  /\ \A p \in Procs : On(p, l) => db[l] # NoLab
  /\ \A p \in Procs : (At(p, l, {"create", "rename", "revive", "restore"}, {"commit", "deployment", "destruction"})
                       \/ At(p, l, {"update"}, {"deployment", "destruction"}))
       => req[p].lab.start = db[l].start /\ req[p].lab.end = db[l].end
  /\ \A p \in Procs : At(p, l, {"deploy"}, {"commit", "deployment", "destruction", "finish", "create"})
       => req[p].lab.start = db[l].start /\ (EndLive(l) => req[p].lab.end = db[l].end)

(* The deployment queue has at most one entry of the lab, which the map    *)
(* finds; it has the end of the row unless a request is about to replace   *)
(* it; and it is gone while the lab is created, withdrawn or deployed.     *)
EntryOK(l) ==
  /\ OneEntry(dep, l)
  /\ \A item \in Entries(dep, l) :
       \/ db[l] # NoLab /\ item.end = db[l].end
       \/ \E p \in Procs : At(p, l, {"update", "deploy"}, {"deployment"})
  /\ \A p \in Procs : \/ At(p, l, {"create", "revive"}, {"deployment"})
                      \/ At(p, l, {"delete", "deploy", "destroy"}, {"destruction", "finish", "create"})
       => Entries(dep, l) = {}

(* A lab that waits for its start is queued, or about to be. *)
WaitingOK(l) ==
  /\ l \in waiting => /\ db[l] # NoLab
                      /\ \/ StartQueued(l)
                         \/ \E p \in Procs : At(p, l, {"create", "update", "revive"}, {"deployment"})
  /\ \A p \in Procs : At(p, l, {"delete", "deploy", "destroy"}, {"destruction", "finish", "create"}) => l \notin waiting

(* A lab that is up, or that the loop is about to deploy, has its end      *)
(* queued; or the loop or a request is about to queue it; or a request is  *)
(* about to destroy the lab.                                               *)
EndOK(l) ==
  /\ (inst[l] = "up" \/ l \in Starting) /\ l \in env /\ EndLive(l) /\ l \notin overtaken =>
       \/ EndQueued(l)
       \/ loop.pc = "schedule" /\ loop.due.uuid = l /\ loop.due.end = db[l].end
       \/ \E p \in Procs : At(p, l, {"create", "update", "deploy", "revive", "restore"}, {"deployment", "destruction"})
       \/ \E p \in Procs : At(p, l, {"destroy"}, {"finish"})
  /\ \A p \in Procs : At(p, l, {"destroy"}, {"finish"}) => l \notin Starting \/ l \in overtaken
  /\ \A p \in Procs : At(p, l, {"deploy"}, {"finish", "create"}) /\ EndLive(l) => EndQueued(l)

(* What holds of a lab no two requests have worked on at once.            *)
LabOK(l) == RowOK(l) /\ EntryOK(l) /\ WaitingOK(l) /\ EndOK(l)

(* The inductive invariant. *)
Inv ==
  /\ TypeOK /\ ShapeOK
  /\ \A p \in Procs : RequestOK(p)
  /\ \A l \in Labs : FreshOK(l) /\ DeletedOK(l)
  /\ \A l \in Labs \ contended : LabOK(l)

-----------------------------------------------------------------------------
(* A nonempty set of naturals has a least element. *)
LEMMA LeastNatural ==
  ASSUME NEW T, T \subseteq Nat, T # {}
  PROVE  \E x \in T : \A y \in T : x <= y
<1> DEFINE R == {ss \in Nat \X Nat : ss[1] < ss[2]}
<1>1. IsWellFoundedOn(R, Nat)
  BY NatLessThanWellFounded, Zenon DEF OpToRel
<1> HIDE DEF R
<1>2. PICK x \in T : \A y \in T : ~(<<y, x>> \in R)
  BY <1>1, WFMin, Zenon
<1>3. ASSUME NEW y \in T
      PROVE  x <= y
  <2>1. <<y, x>> \in Nat \X Nat
    OBVIOUS
  <2>2. ~(y < x)
    BY <1>2, <2>1 DEF R
  <2> QED
    BY <2>2
<1> QED
  BY <1>3

(* r is the slice s with e at position i, and s without its position i. *)
Grown(s, i, e, r) ==
  /\ Len(r) = Len(s) + 1
  /\ \A j \in 1 .. Len(s) + 1 :
       r[j] = IF j < i THEN s[j] ELSE IF j = i THEN e ELSE s[j - 1]

Shrunk(s, i, r) ==
  /\ Len(r) = Len(s) - 1
  /\ \A j \in 1 .. Len(s) - 1 : r[j] = IF j < i THEN s[j] ELSE s[j + 1]

(* InsertAt moves the rest of the slice up by one. *)
LEMMA InsertAtProperties ==
  ASSUME NEW S, NEW s \in Seq(S), NEW i \in 1 .. Len(s) + 1, NEW e \in S
  PROVE  /\ InsertAt(s, i, e) \in Seq(S)
         /\ Grown(s, i, e, InsertAt(s, i, e))
<1> DEFINE a == SubSeq(s, 1, i - 1)
           b == SubSeq(s, i, Len(s))
           c == a \o <<e>>
<1>1. Len(s) \in Nat /\ \A j \in 1 .. Len(s) : s[j] \in S
  BY LenProperties
<1>2. a \in Seq(S) /\ Len(a) = i - 1 /\ \A j \in 1 .. i - 1 : a[j] = s[j]
  <2>1. \A j \in 1 .. i - 1 : s[j] \in S
    BY <1>1
  <2> QED
    BY <2>1, <1>1, SubSeqProperties
<1>3. /\ b \in Seq(S)
      /\ Len(b) = Len(s) - i + 1
      /\ \A j \in 1 .. Len(s) - i + 1 : b[j] = s[i + j - 1]
  <2>1. \A j \in i .. Len(s) : s[j] \in S
    BY <1>1
  <2> QED
    BY <2>1, <1>1, SubSeqProperties
<1>4. InsertAt(s, i, e) = c \o b
  BY DEF InsertAt
<1> HIDE DEF a, b
<1>5. /\ c \in Seq(S)
      /\ Len(c) = i
      /\ \A j \in 1 .. i : c[j] = IF j < i THEN s[j] ELSE e
  <2>1. <<e>> \in Seq(S) /\ Len(<<e>>) = 1 /\ <<e>>[1] = e
    OBVIOUS
  <2>2. /\ c \in Seq(S)
        /\ Len(c) = i
        /\ \A j \in 1 .. i : c[j] = IF j <= i - 1 THEN a[j] ELSE <<e>>[j - (i - 1)]
    BY <1>2, <2>1, ConcatProperties
  <2> QED
    BY <1>2, <2>1, <2>2
<1> HIDE DEF c
<1>6. /\ c \o b \in Seq(S)
      /\ Len(c \o b) = Len(s) + 1
      /\ \A j \in 1 .. Len(s) + 1 : (c \o b)[j] = IF j <= i THEN c[j] ELSE b[j - i]
  <2>1. /\ c \o b \in Seq(S)
        /\ Len(c \o b) = Len(c) + Len(b)
        /\ \A j \in 1 .. Len(c) + Len(b) :
             (c \o b)[j] = IF j <= Len(c) THEN c[j] ELSE b[j - Len(c)]
    BY <1>3, <1>5, ConcatProperties, Zenon
  <2>2. Len(c) = i /\ Len(c) + Len(b) = Len(s) + 1
    BY <1>1, <1>3, <1>5
  <2> QED
    BY <2>1, <2>2
<1> QED
  BY <1>1, <1>3, <1>4, <1>5, <1>6 DEF Grown

(* RemoveAt moves the rest of the slice down by one. *)
LEMMA RemoveAtProperties ==
  ASSUME NEW S, NEW s \in Seq(S), NEW i \in 1 .. Len(s)
  PROVE  /\ RemoveAt(s, i) \in Seq(S)
         /\ Shrunk(s, i, RemoveAt(s, i))
<1> DEFINE a == SubSeq(s, 1, i - 1)
           b == SubSeq(s, i + 1, Len(s))
<1>1. Len(s) \in Nat /\ \A j \in 1 .. Len(s) : s[j] \in S
  BY LenProperties
<1>2. a \in Seq(S) /\ Len(a) = i - 1 /\ \A j \in 1 .. i - 1 : a[j] = s[j]
  <2>1. \A j \in 1 .. i - 1 : s[j] \in S
    BY <1>1
  <2> QED
    BY <2>1, <1>1, SubSeqProperties
<1>3. /\ b \in Seq(S)
      /\ Len(b) = Len(s) - i
      /\ \A j \in 1 .. Len(s) - i : b[j] = s[i + j]
  <2>1. \A j \in i + 1 .. Len(s) : s[j] \in S
    BY <1>1
  <2> QED
    BY <2>1, <1>1, SubSeqProperties
<1>4. RemoveAt(s, i) = a \o b
  BY DEF RemoveAt
<1> HIDE DEF a, b
<1>5. /\ a \o b \in Seq(S)
      /\ Len(a \o b) = Len(s) - 1
      /\ \A j \in 1 .. Len(s) - 1 :
           (a \o b)[j] = IF j <= i - 1 THEN a[j] ELSE b[j - (i - 1)]
  <2>1. /\ a \o b \in Seq(S)
        /\ Len(a \o b) = Len(a) + Len(b)
        /\ \A j \in 1 .. Len(a) + Len(b) :
             (a \o b)[j] = IF j <= Len(a) THEN a[j] ELSE b[j - Len(a)]
    BY <1>2, <1>3, ConcatProperties, Zenon
  <2>2. Len(a) = i - 1 /\ Len(a) + Len(b) = Len(s) - 1
    BY <1>1, <1>2, <1>3
  <2> QED
    BY <2>1, <2>2
<1> QED
  BY <1>1, <1>2, <1>3, <1>4, <1>5 DEF Shrunk

(* A slice with one more item in it: what it holds, and when it stays free *)
(* of repetition.                                                          *)
LEMMA GrownSlice ==
  ASSUME NEW s \in Seq(Item), NEW r \in Seq(Item), NEW item \in Item,
         NEW p \in 1 .. Len(s) + 1, Grown(s, p, item, r)
  PROVE  /\ ToSet(r) = ToSet(s) \cup {item}
         /\ p \in 1 .. Len(r) /\ r[p] = item
         /\ \A i \in 1 .. Len(s) : \E j \in 1 .. Len(r) : r[j] = s[i]
         /\ (item \notin ToSet(s) /\ \A i, j \in 1 .. Len(s) : s[i] = s[j] => i = j)
              => \A i, j \in 1 .. Len(r) : r[i] = r[j] => i = j
<1>1. /\ Len(s) \in Nat
      /\ DOMAIN s = 1 .. Len(s)
      /\ DOMAIN r = 1 .. Len(r)
      /\ \A i \in 1 .. Len(s) : s[i] \in Item
      /\ Len(r) = Len(s) + 1
  BY LenProperties, ElementOfSeq DEF Grown
<1>2. p \in 1 .. Len(r) /\ r[p] = item
  BY <1>1 DEF Grown
<1>3. \A i \in 1 .. Len(s) : \E j \in 1 .. Len(r) : r[j] = s[i]
  <2> TAKE i \in 1 .. Len(s)
  <2>1. CASE i < p
    <3>1. i \in 1 .. Len(r) /\ r[i] = s[i]
      BY <1>1, <2>1 DEF Grown
    <3> QED
      BY <3>1
  <2>2. CASE i >= p
    <3>1. i + 1 \in 1 .. Len(r) /\ r[i + 1] = s[i]
      BY <1>1, <2>2 DEF Grown
    <3> QED
      BY <3>1
  <2> QED
    BY <1>1, <2>1, <2>2
<1>4. \A j \in 1 .. Len(r) : r[j] = item \/ \E i \in 1 .. Len(s) : r[j] = s[i]
  <2> TAKE j \in 1 .. Len(r)
  <2>1. CASE j < p
    BY <1>1, <2>1 DEF Grown
  <2>2. CASE j = p
    BY <1>1, <2>2 DEF Grown
  <2>3. CASE j > p
    <3>1. j - 1 \in 1 .. Len(s) /\ r[j] = s[j - 1]
      BY <1>1, <2>3 DEF Grown
    <3> QED
      BY <3>1
  <2> QED
    BY <1>1, <2>1, <2>2, <2>3
<1>5. ToSet(r) = ToSet(s) \cup {item}
  <2>1. ToSet(r) = {r[j] : j \in 1 .. Len(r)} /\ ToSet(s) = {s[i] : i \in 1 .. Len(s)}
    BY <1>1 DEF ToSet
  <2>2. \A x \in ToSet(r) : x \in ToSet(s) \cup {item}
    BY <1>4, <2>1
  <2>3. \A x \in ToSet(s) \cup {item} : x \in ToSet(r)
    BY <1>2, <1>3, <2>1
  <2> QED
    BY <2>2, <2>3
<1>6. ASSUME item \notin ToSet(s), \A i, j \in 1 .. Len(s) : s[i] = s[j] => i = j
      PROVE  \A i, j \in 1 .. Len(r) : r[i] = r[j] => i = j
  <2>1. \A i \in 1 .. Len(s) : s[i] # item
    BY <1>1, <1>6 DEF ToSet
  <2> SUFFICES ASSUME NEW i \in 1 .. Len(r), NEW j \in 1 .. Len(r), i < j
               PROVE  r[i] # r[j]
    BY <1>1
  <2>2. CASE i < p /\ j < p
    BY <1>1, <1>6, <2>2 DEF Grown
  <2>3. CASE i < p /\ j = p
    BY <1>1, <2>1, <2>3 DEF Grown
  <2>4. CASE i < p /\ j > p
    <3>1. PICK b \in 1 .. Len(s) : i \in 1 .. Len(s) /\ r[i] = s[i] /\ r[j] = s[b] /\ i < b
      <4>1. j - 1 \in 1 .. Len(s) /\ i \in 1 .. Len(s) /\ r[i] = s[i] /\ r[j] = s[j - 1] /\ i < j - 1
        BY <1>1, <2>4 DEF Grown
      <4> QED
        BY <4>1
    <3>2. s[i] = s[b] => i = b
      BY <1>6, <3>1, Zenon
    <3> QED
      BY <1>1, <3>1, <3>2
  <2>5. CASE i = p /\ j > p
    <3>1. j - 1 \in 1 .. Len(s) /\ r[i] = item /\ r[j] = s[j - 1]
      BY <1>1, <2>5 DEF Grown
    <3> QED
      BY <2>1, <3>1
  <2>6. CASE i > p /\ j > p
    <3>1. PICK a, b \in 1 .. Len(s) : r[i] = s[a] /\ r[j] = s[b] /\ a < b
      <4>1. /\ i - 1 \in 1 .. Len(s) /\ j - 1 \in 1 .. Len(s)
            /\ r[i] = s[i - 1] /\ r[j] = s[j - 1] /\ i - 1 < j - 1
        BY <1>1, <2>6 DEF Grown
      <4> QED
        BY <4>1
    <3> QED
      BY <1>6, <3>1
  <2> QED
    BY <1>1, <2>2, <2>3, <2>4, <2>5, <2>6
<1> QED
  BY <1>2, <1>3, <1>5, <1>6

(* A slice with one item less: what is left, and still no repetition.      *)
LEMMA ShrunkSlice ==
  ASSUME NEW s \in Seq(Item), NEW r \in Seq(Item),
         NEW p \in 1 .. Len(s), Shrunk(s, p, r),
         \A i, j \in 1 .. Len(s) : s[i] = s[j] => i = j
  PROVE  /\ ToSet(r) = ToSet(s) \ {s[p]}
         /\ \A i \in 1 .. Len(s) : i # p => \E j \in 1 .. Len(r) : r[j] = s[i]
         /\ \A i, j \in 1 .. Len(r) : r[i] = r[j] => i = j
<1>1. /\ Len(s) \in Nat
      /\ DOMAIN s = 1 .. Len(s)
      /\ DOMAIN r = 1 .. Len(r)
      /\ Len(r) = Len(s) - 1
  BY LenProperties DEF Shrunk
<1>2. ASSUME NEW j \in 1 .. Len(r)
      PROVE  \E i \in 1 .. Len(s) : i # p /\ i >= j /\ i <= j + 1 /\ (i = j <=> j < p) /\ r[j] = s[i]
  <2>1. CASE j < p
    BY <1>1, <2>1 DEF Shrunk
  <2>2. CASE j >= p
    <3>1. j + 1 \in 1 .. Len(s) /\ r[j] = s[j + 1]
      BY <1>1, <2>2 DEF Shrunk
    <3> QED
      BY <1>1, <2>2, <3>1
  <2> QED
    BY <1>1, <2>1, <2>2
<1>3. ASSUME NEW i \in 1 .. Len(s), i # p
      PROVE  \E j \in 1 .. Len(r) : r[j] = s[i]
  <2>1. CASE i < p
    BY <1>1, <2>1 DEF Shrunk
  <2>2. CASE i > p
    <3>1. i - 1 \in 1 .. Len(r) /\ r[i - 1] = s[i]
      BY <1>1, <2>2 DEF Shrunk
    <3> QED
      BY <3>1
  <2> QED
    BY <1>1, <1>3, <2>1, <2>2
<1>4. ToSet(r) = ToSet(s) \ {s[p]}
  <2>1. ToSet(r) = {r[j] : j \in 1 .. Len(r)} /\ ToSet(s) = {s[i] : i \in 1 .. Len(s)}
    BY <1>1 DEF ToSet
  <2>2. \A x \in ToSet(r) : x \in ToSet(s) \ {s[p]}
    BY <1>2, <2>1
  <2>3. \A x \in ToSet(s) \ {s[p]} : x \in ToSet(r)
    BY <1>3, <2>1
  <2> QED
    BY <2>2, <2>3
<1>5. ASSUME NEW i \in 1 .. Len(r), NEW j \in 1 .. Len(r), i < j
      PROVE  \E a, b \in 1 .. Len(s) : a < b /\ r[i] = s[a] /\ r[j] = s[b]
  <2>1. PICK a \in 1 .. Len(s) : a <= i + 1 /\ (a = i <=> i < p) /\ a >= i /\ r[i] = s[a]
    BY <1>2
  <2>2. PICK b \in 1 .. Len(s) : b <= j + 1 /\ (b = j <=> j < p) /\ b >= j /\ r[j] = s[b]
    BY <1>2
  <2>3. a < b
    BY <1>1, <1>5, <2>1, <2>2
  <2> QED
    BY <2>1, <2>2, <2>3
<1>6. \A i, j \in 1 .. Len(r) : r[i] = r[j] => i = j
  <2> SUFFICES ASSUME NEW i \in 1 .. Len(r), NEW j \in 1 .. Len(r), i < j
               PROVE  r[i] # r[j]
    BY <1>1
  <2>1. PICK a, b \in 1 .. Len(s) : a < b /\ r[i] = s[a] /\ r[j] = s[b]
    BY <1>5
  <2> QED
    BY <1>1, <2>1
<1> QED
  BY <1>3, <1>4, <1>6

-----------------------------------------------------------------------------
(* sort.Search always finds a place among times. *)
LEMMA PlaceExists ==
  ASSUME NEW n \in Nat, NEW f \in [1 .. n -> Nat], NEW t \in Nat
  PROVE  \E i \in 1 .. n + 1 : (\A j \in 1 .. i - 1 : f[j] < t) /\ (i <= n => f[i] >= t)
<1> DEFINE T == {i \in 1 .. n + 1 : i <= n => f[i] >= t}
<1>1. n + 1 \in T /\ T \subseteq Nat
  OBVIOUS
<1>2. PICK x \in T : \A y \in T : x <= y
  BY <1>1, LeastNatural
<1>3. ASSUME NEW j \in 1 .. x - 1
      PROVE  f[j] < t
  BY <1>2
<1> QED
  BY <1>2, <1>3

(* The parts of a good queue. *)
LEMMA GoodQueueTypes ==
  ASSUME NEW q, GoodQueue(q)
  PROVE  /\ q.schedule \in Seq(Item)
         /\ Len(q.schedule) \in Nat
         /\ \A i \in 1 .. Len(q.schedule) : q.schedule[i] \in Item
         /\ Items(q) = {q.schedule[i] : i \in 1 .. Len(q.schedule)}
         /\ Items(q) \subseteq Item
<1>1. q.schedule \in Seq(Item)
  BY DEF GoodQueue
<1>2. /\ Len(q.schedule) \in Nat /\ DOMAIN q.schedule = 1 .. Len(q.schedule)
      /\ \A i \in 1 .. Len(q.schedule) : q.schedule[i] \in Item
  BY <1>1, LenProperties, ElementOfSeq
<1> QED
  BY <1>1, <1>2 DEF Items, ToSet

(* The fields of a copy. *)
LEMMA ItemFields ==
  ASSUME NEW item \in Item
  PROVE  /\ item.uuid \in Labs
         /\ item.start \in Nat /\ item.start \in 0 .. MaxTime
         /\ item.end \in Times \cup {NoTime}
         /\ item.end # NoTime => item.end \in Nat
<1>1. item.uuid \in Labs /\ item.start \in 0 .. MaxTime /\ item.end \in Times \cup {NoTime}
  BY DEF Item
<1>2. \A t \in Times : t \in Nat
  BY SchedulerAssumption
<1> QED
  BY <1>1, <1>2

(* The queue of the deployments is searched by start, the queue of the     *)
(* destructions by end.                                                    *)
LEMMA InsertIndexInSlice ==
  ASSUME NEW q, GoodQueue(q), NEW item \in Item
  PROVE  /\ D!insertIndex(q.schedule, StartTime(item)) \in 1 .. Len(q.schedule) + 1
         /\ (item.end # NoTime /\ \A x \in Items(q) : x.end # NoTime)
              => X!insertIndex(q.schedule, EndTime(item)) \in 1 .. Len(q.schedule) + 1
<1>1. PICK s : s = q.schedule
  OBVIOUS
<1>2. /\ Len(s) \in Nat
      /\ \A i \in 1 .. Len(s) : s[i] \in Item /\ s[i] \in Items(q)
  BY <1>1, GoodQueueTypes
<1>3. D!insertIndex(s, item.start) \in 1 .. Len(s) + 1
  <2>1. PICK f : f = [i \in 1 .. Len(s) |-> s[i].start]
    OBVIOUS
  <2>2. f \in [1 .. Len(s) -> Nat] /\ item.start \in Nat /\ \A i \in 1 .. Len(s) : f[i] = s[i].start
    BY <1>2, <2>1, ItemFields
  <2>3. PICK i \in 1 .. Len(s) + 1 : (\A j \in 1 .. i - 1 : f[j] < item.start) /\ (i <= Len(s) => f[i] >= item.start)
    BY <1>2, <2>2, PlaceExists
  <2>4. (\A j \in 1 .. i - 1 : s[j].start < item.start) /\ (i <= Len(s) => s[i].start >= item.start)
    BY <1>2, <2>2, <2>3
  <2>5. D!IsInsertIndex(s, item.start, i)
    BY <2>3, <2>4 DEF D!IsInsertIndex, StartTime
  <2> QED
    BY <2>3, <2>5 DEF D!insertIndex
<1>4. ASSUME item.end # NoTime, \A x \in Items(q) : x.end # NoTime
      PROVE  X!insertIndex(s, item.end) \in 1 .. Len(s) + 1
  <2>1. PICK f : f = [i \in 1 .. Len(s) |-> s[i].end]
    OBVIOUS
  <2>2. f \in [1 .. Len(s) -> Nat] /\ item.end \in Nat /\ \A i \in 1 .. Len(s) : f[i] = s[i].end
    BY <1>2, <1>4, <2>1, ItemFields
  <2>3. PICK i \in 1 .. Len(s) + 1 : (\A j \in 1 .. i - 1 : f[j] < item.end) /\ (i <= Len(s) => f[i] >= item.end)
    BY <1>2, <2>2, PlaceExists
  <2>4. (\A j \in 1 .. i - 1 : s[j].end < item.end) /\ (i <= Len(s) => s[i].end >= item.end)
    BY <1>2, <2>2, <2>3
  <2>5. X!IsInsertIndex(s, item.end, i)
    BY <2>3, <2>4 DEF X!IsInsertIndex, EndTime
  <2> QED
    BY <2>3, <2>5 DEF X!insertIndex
<1> QED
  BY <1>1, <1>3, <1>4 DEF StartTime, EndTime

(* The map with the last pointer of a key, and without a key. *)
Pointing(m, item) == [k \in DOMAIN m \cup {item.uuid} |-> IF k = item.uuid THEN item ELSE m[k]]
Without(m, key) == [k \in DOMAIN m \ {key} |-> m[k]]

(* A queue that got an item at position p. *)
LEMMA GainsItem ==
  ASSUME NEW q, GoodQueue(q), NEW item \in Item, item \notin Items(q),
         NEW p \in 1 .. Len(q.schedule) + 1,
         NEW w, w = [schedule |-> InsertAt(q.schedule, p, item), scheduleMap |-> Pointing(q.scheduleMap, item)]
  PROVE  GoodQueue(w) /\ Items(w) = Items(q) \cup {item}
<1>1. PICK s : s = q.schedule
  OBVIOUS
<1>2. PICK r : r = InsertAt(s, p, item)
  OBVIOUS
<1>3. PICK m : m = Pointing(q.scheduleMap, item)
  OBVIOUS
<1>4. s \in Seq(Item) /\ r \in Seq(Item) /\ Grown(s, p, item, r)
  BY <1>1, <1>2, GoodQueueTypes, InsertAtProperties
<1>5. ToSet(r) = ToSet(s) \cup {item}
  BY <1>1, <1>4, GrownSlice
<1>6. \A i, j \in 1 .. Len(r) : r[i] = r[j] => i = j
  <2>1. item \notin ToSet(s) /\ \A i, j \in 1 .. Len(s) : s[i] = s[j] => i = j
    BY <1>1 DEF GoodQueue, Items
  <2>2. p \in 1 .. Len(s) + 1
    BY <1>1
  <2>3. (item \notin ToSet(s) /\ \A i, j \in 1 .. Len(s) : s[i] = s[j] => i = j)
          => \A i, j \in 1 .. Len(r) : r[i] = r[j] => i = j
    BY <1>4, <2>2, GrownSlice, Zenon
  <2> QED
    BY <2>1, <2>3, Zenon
<1>7. w.schedule = r /\ w.scheduleMap = m /\ w = [schedule |-> r, scheduleMap |-> m]
  BY <1>1, <1>2, <1>3
<1>8. /\ DOMAIN m = DOMAIN q.scheduleMap \cup {item.uuid}
      /\ m = [k \in DOMAIN m |-> m[k]]
      /\ \A k \in DOMAIN m : m[k] = IF k = item.uuid THEN item ELSE q.scheduleMap[k]
  BY <1>3 DEF Pointing
<1>9. \A k \in DOMAIN m : m[k] \in ToSet(r) /\ m[k].uuid = k
  BY <1>1, <1>5, <1>8 DEF GoodQueue, Items
<1> QED
  BY <1>1, <1>4, <1>5, <1>6, <1>7, <1>8, <1>9 DEF GoodQueue, Items

(* A queue that lost the item at position p and the map's entry of its     *)
(* key.                                                                    *)
LEMMA LosesItem ==
  ASSUME NEW q, GoodQueue(q), NEW p \in 1 .. Len(q.schedule), NEW r \in Seq(Item),
         Shrunk(q.schedule, p, r),
         NEW w, w = [schedule |-> r, scheduleMap |-> Without(q.scheduleMap, q.schedule[p].uuid)]
  PROVE  GoodQueue(w) /\ Items(w) = Items(q) \ {q.schedule[p]}
<1>1. PICK s : s = q.schedule
  OBVIOUS
<1>2. PICK m : m = Without(q.scheduleMap, s[p].uuid)
  OBVIOUS
<1>3. s \in Seq(Item) /\ \A i, j \in 1 .. Len(s) : s[i] = s[j] => i = j
  BY <1>1 DEF GoodQueue
<1>4. ToSet(r) = ToSet(s) \ {s[p]} /\ \A i, j \in 1 .. Len(r) : r[i] = r[j] => i = j
  BY <1>1, <1>3, ShrunkSlice
<1>5. w.schedule = r /\ w.scheduleMap = m /\ w = [schedule |-> r, scheduleMap |-> m]
  BY <1>1, <1>2
<1>6. /\ DOMAIN m = DOMAIN q.scheduleMap \ {s[p].uuid}
      /\ m = [k \in DOMAIN m |-> m[k]]
      /\ \A k \in DOMAIN m : m[k] = q.scheduleMap[k]
  BY <1>2 DEF Without
<1>7. \A k \in DOMAIN m : m[k] \in ToSet(r) /\ m[k].uuid = k
  BY <1>1, <1>4, <1>6 DEF GoodQueue, Items
<1> QED
  BY <1>1, <1>4, <1>5, <1>6, <1>7 DEF GoodQueue, Items

-----------------------------------------------------------------------------
(* copyLab makes a pointer the queue does not hold: one of Len + 1 copies  *)
(* is not among the Len that are in the slice.                             *)
LEMMA CopyIsNew ==
  ASSUME NEW q, GoodQueue(q), NEW lab, lab.uuid \in Labs, lab.start \in 0 .. MaxTime,
         lab.end \in Times \cup {NoTime}
  PROVE  /\ copyLab(q, lab) \in Item
         /\ copyLab(q, lab) \notin Items(q)
         /\ copyLab(q, lab).uuid = lab.uuid
         /\ copyLab(q, lab).start = lab.start
         /\ copyLab(q, lab).end = lab.end
<1> DEFINE Copy(n) == [uuid |-> lab.uuid, start |-> lab.start, end |-> lab.end, copy |-> n]
           Unused == {n \in 1 .. Len(q.schedule) + 1 : Copy(n) \notin ToSet(q.schedule)}
<1>1. PICK s : s = q.schedule
  OBVIOUS
<1>2. PICK n : n = Len(s)
  OBVIOUS
<1>3. n \in Nat /\ ToSet(s) = {s[i] : i \in 1 .. n}
  <2>1. Items(q) = ToSet(q.schedule)
    BY DEF Items
  <2> QED
    BY <1>1, <1>2, <2>1, GoodQueueTypes, Zenon
<1>4. Unused # {}
  <2> SUFFICES ASSUME \A i \in 1 .. n + 1 : \E j \in 1 .. n : s[j] = Copy(i)
               PROVE  FALSE
    BY <1>1, <1>2, <1>3
  <2>1. PICK f : f = [i \in 1 .. n + 1 |-> CHOOSE j \in 1 .. n : s[j] = Copy(i)]
    OBVIOUS
  <2>2. f \in [1 .. n + 1 -> 1 .. n] /\ \A i \in 1 .. n + 1 : s[f[i]] = Copy(i)
    BY <2>1
  <2>3. PICK a : a = 1 .. n + 1
    OBVIOUS
  <2>4. PICK b : b = 1 .. n
    OBVIOUS
  <2>5. IsFiniteSet(a) /\ IsFiniteSet(b) /\ Cardinality(a) = n + 1 /\ Cardinality(b) = n
    <3>1. 1 \in Int /\ n \in Int /\ n + 1 \in Int
      BY <1>3
    <3>2. IsFiniteSet(b) /\ Cardinality(b) = IF 1 > n THEN 0 ELSE n - 1 + 1
      BY <2>4, <3>1, FS_Interval
    <3>3. IsFiniteSet(a) /\ Cardinality(a) = IF 1 > n + 1 THEN 0 ELSE (n + 1) - 1 + 1
      BY <2>3, <3>1, FS_Interval
    <3> QED
      BY <1>3, <3>2, <3>3
  <2>6. Cardinality(b) < Cardinality(a) /\ f \in [a -> b]
    BY <1>3, <2>2, <2>3, <2>4, <2>5
  <2>7. PICK x, y \in a : x # y /\ f[x] = f[y]
    <3>1. \E x, y \in a : x # y /\ f[x] = f[y]
      BY <2>5, <2>6, FS_PigeonHole
    <3> QED
      BY <3>1, Zenon
  <2>8. Copy(x) = Copy(y)
    BY <2>2, <2>3, <2>7
  <2>9. Copy(x).copy = x /\ Copy(y).copy = y
    OBVIOUS
  <2> QED
    BY <2>7, <2>8, <2>9
<1>5. Unused \subseteq Nat
  BY <1>1, <1>2, <1>3
<1>6. \E x \in Unused : \A y \in Unused : x <= y
  <2>1. PICK T : T = Unused
    OBVIOUS
  <2>2. \E x \in T : \A y \in T : x <= y
    BY <1>4, <1>5, <2>1, LeastNatural
  <2> QED
    BY <2>1, <2>2
<1>7. PICK k : k = CHOOSE x \in Unused : \A y \in Unused : x <= y
  OBVIOUS
<1>8. k \in Unused /\ k \in Nat
  BY <1>5, <1>6, <1>7
<1>9. copyLab(q, lab) = Copy(k)
  BY <1>7 DEF copyLab
<1> QED
  BY <1>8, <1>9 DEF Item, Items

(* The queue r has one entry more than q, a copy of lab, and the map       *)
(* points at it; r has no longer the entry the map had under key; r has no *)
(* longer its entry item.                                                  *)
Adds(q, r, lab) ==
  \E c \in Item :
    /\ c.uuid = lab.uuid /\ c.start = lab.start /\ c.end = lab.end
    /\ Items(r) = Items(q) \cup {c}
    /\ r.scheduleMap = Pointing(q.scheduleMap, c)

(* r is queue q without the entry the map has for key. *)
Drops(q, r, key) ==
  /\ r.scheduleMap = Without(q.scheduleMap, key)
  /\ Items(r) = Items(q) \ (IF key \in DOMAIN q.scheduleMap THEN {q.scheduleMap[key]} ELSE {})

(* r is queue q after item was popped from it. *)
Pops(q, r, item) ==
  /\ item \in Items(q) /\ item \in Item
  /\ r.scheduleMap = Without(q.scheduleMap, item.uuid)
  /\ Items(r) = Items(q) \ {item}

(* Schedule of a new pointer, a copy of lab, on either queue. *)
LEMMA ScheduleNew ==
  ASSUME NEW q, GoodQueue(q), NEW lab, NEW c \in Item, c \notin Items(q),
         c.uuid = lab.uuid, c.start = lab.start, c.end = lab.end
  PROVE  /\ GoodQueue(D!Schedule(q, c))
         /\ Adds(q, D!Schedule(q, c), lab)
         /\ Timed(q) => /\ GoodQueue(X!Schedule(q, c))
                        /\ Timed(X!Schedule(q, c))
                        /\ IF lab.end = NoTime THEN X!Schedule(q, c) = q
                           ELSE Adds(q, X!Schedule(q, c), lab)
<1>1. c.start # NoTime
  BY ItemFields, SchedulerAssumption
<1>2. ASSUME NEW p \in 1 .. Len(q.schedule) + 1,
             NEW w, w = [schedule |-> InsertAt(q.schedule, p, c), scheduleMap |-> Pointing(q.scheduleMap, c)]
      PROVE  GoodQueue(w) /\ Adds(q, w, lab) /\ Items(w) = Items(q) \cup {c}
  <2>1. GoodQueue(w) /\ Items(w) = Items(q) \cup {c}
    BY <1>2, GainsItem
  <2>2. w.scheduleMap = Pointing(q.scheduleMap, c)
    BY <1>2
  <2> QED
    BY <2>1, <2>2 DEF Adds
<1>3. GoodQueue(D!Schedule(q, c)) /\ Adds(q, D!Schedule(q, c), lab)
  <2>1. PICK p : p = D!insertIndex(q.schedule, StartTime(c))
    OBVIOUS
  <2>2. p \in 1 .. Len(q.schedule) + 1
    BY <2>1, InsertIndexInSlice
  <2>3. D!Schedule(q, c) = [schedule |-> InsertAt(q.schedule, p, c), scheduleMap |-> Pointing(q.scheduleMap, c)]
    BY <1>1, <2>1 DEF D!Schedule, D!insert, D!InsertAt, InsertAt, StartTime, LabKey, Pointing
  <2> QED
    BY <1>2, <2>2, <2>3
<1>4. ASSUME Timed(q)
      PROVE  /\ GoodQueue(X!Schedule(q, c)) /\ Timed(X!Schedule(q, c))
             /\ IF lab.end = NoTime THEN X!Schedule(q, c) = q ELSE Adds(q, X!Schedule(q, c), lab)
  <2>1. CASE lab.end = NoTime
    BY <1>4, <2>1 DEF X!Schedule, EndTime
  <2>2. CASE lab.end # NoTime
    <3>1. PICK p : p = X!insertIndex(q.schedule, EndTime(c))
      OBVIOUS
    <3>2. p \in 1 .. Len(q.schedule) + 1
      BY <1>4, <2>2, <3>1, InsertIndexInSlice DEF Timed
    <3>3. X!Schedule(q, c) = [schedule |-> InsertAt(q.schedule, p, c), scheduleMap |-> Pointing(q.scheduleMap, c)]
      BY <2>2, <3>1 DEF X!Schedule, X!insert, X!InsertAt, InsertAt, EndTime, LabKey, Pointing
    <3>4. /\ GoodQueue(X!Schedule(q, c)) /\ Adds(q, X!Schedule(q, c), lab)
          /\ Items(X!Schedule(q, c)) = Items(q) \cup {c}
      BY <1>2, <3>2, <3>3
    <3> QED
      BY <1>4, <2>2, <3>4 DEF Timed
  <2> QED
    BY <2>1, <2>2
<1> QED
  BY <1>3, <1>4

(* Schedule of a copy of lab. *)
LEMMA ScheduleAdds ==
  ASSUME NEW q, GoodQueue(q), NEW lab, lab.uuid \in Labs, lab.start \in 0 .. MaxTime,
         lab.end \in Times \cup {NoTime}
  PROVE  /\ GoodQueue(D!Schedule(q, copyLab(q, lab)))
         /\ Adds(q, D!Schedule(q, copyLab(q, lab)), lab)
         /\ Timed(q) => /\ GoodQueue(X!Schedule(q, copyLab(q, lab)))
                        /\ Timed(X!Schedule(q, copyLab(q, lab)))
                        /\ IF lab.end = NoTime THEN X!Schedule(q, copyLab(q, lab)) = q
                           ELSE Adds(q, X!Schedule(q, copyLab(q, lab)), lab)
  BY CopyIsNew, ScheduleNew

(* remove on either queue. *)
LEMMA RemoveDrops ==
  ASSUME NEW q, GoodQueue(q), NEW key
  PROVE  /\ GoodQueue(D!remove(q, key))
         /\ Drops(q, D!remove(q, key), key)
         /\ X!remove(q, key) = D!remove(q, key)
         /\ Timed(q) => Timed(D!remove(q, key))
<1>1. X!remove(q, key) = D!remove(q, key)
  BY DEF X!remove, D!remove, X!RemoveAt, D!RemoveAt, X!has, D!has, X!itemIndex, D!itemIndex, X!WithoutKey, D!WithoutKey
<1>2. GoodQueue(D!remove(q, key)) /\ Drops(q, D!remove(q, key), key)
  <2>1. CASE key \in DOMAIN q.scheduleMap
    <3>1. PICK item : item = q.scheduleMap[key]
      OBVIOUS
    <3>2. PICK p : p = D!itemIndex(q.schedule, item)
      OBVIOUS
    <3>3. item \in Items(q) /\ item.uuid = key
      BY <2>1, <3>1 DEF GoodQueue
    <3>4. p \in 1 .. Len(q.schedule) /\ q.schedule[p] = item
      BY <3>2, <3>3, GoodQueueTypes DEF D!itemIndex
    <3>5. PICK r : r = RemoveAt(q.schedule, p)
      OBVIOUS
    <3>6. r \in Seq(Item) /\ Shrunk(q.schedule, p, r)
      BY <3>4, <3>5, GoodQueueTypes, RemoveAtProperties
    <3>7. D!remove(q, key) = [schedule |-> r, scheduleMap |-> Without(q.scheduleMap, key)]
      BY <2>1, <3>1, <3>2, <3>5 DEF D!remove, D!RemoveAt, RemoveAt, D!has, D!WithoutKey, Without
    <3>8. PICK w : w = [schedule |-> r, scheduleMap |-> Without(q.scheduleMap, key)]
      OBVIOUS
    <3>9. GoodQueue(w) /\ Items(w) = Items(q) \ {item}
      BY <3>3, <3>4, <3>6, <3>8, LosesItem
    <3>10. w.scheduleMap = Without(q.scheduleMap, key)
      BY <3>8
    <3> QED
      BY <2>1, <3>1, <3>7, <3>8, <3>9, <3>10 DEF Drops
  <2>2. CASE key \notin DOMAIN q.scheduleMap
    <3>1. D!remove(q, key) = q
      BY <2>2 DEF D!remove, D!has
    <3>2. q.scheduleMap = Without(q.scheduleMap, key)
      <4>1. DOMAIN q.scheduleMap \ {key} = DOMAIN q.scheduleMap
        BY <2>2
      <4> QED
        BY <4>1 DEF Without, GoodQueue
    <3> QED
      BY <2>2, <3>1, <3>2 DEF Drops
  <2> QED
    BY <2>1, <2>2
<1> QED
  BY <1>1, <1>2 DEF Drops, Timed

(* TryPopAt on either queue. *)
LEMMA PopPops ==
  ASSUME NEW q, GoodQueue(q), q.schedule # <<>>
  PROVE  /\ GoodQueue(D!Popped(q))
         /\ Pops(q, D!Popped(q), Head(q.schedule))
         /\ X!Popped(q) = D!Popped(q)
         /\ Timed(q) => Timed(D!Popped(q))
<1>1. X!Popped(q) = D!Popped(q)
  BY DEF X!Popped, D!Popped, X!WithoutKey, D!WithoutKey
<1>2. PICK s : s = q.schedule
  OBVIOUS
<1>3. s \in Seq(Item) /\ s # <<>> /\ Len(s) \in Nat /\ Len(s) > 0
  BY <1>2, GoodQueueTypes, EmptySeq
<1>4. Head(s) = s[1] /\ 1 \in 1 .. Len(s)
  BY <1>3
<1>5. Tail(s) \in Seq(Item) /\ Shrunk(s, 1, Tail(s))
  BY <1>3, HeadTailProperties DEF Shrunk
<1>6. PICK w : w = [schedule |-> Tail(s), scheduleMap |-> Without(q.scheduleMap, s[1].uuid)]
  OBVIOUS
<1>7. D!Popped(q) = w
  BY <1>2, <1>4, <1>6 DEF D!Popped, D!WithoutKey, LabKey, Without
<1>8. GoodQueue(w) /\ Items(w) = Items(q) \ {s[1]}
  <2>1. PICK one \in 1 .. Len(q.schedule) : one = 1
    BY <1>2, <1>4
  <2>2. PICK r \in Seq(Item) : r = Tail(s)
    BY <1>5
  <2>3. Shrunk(q.schedule, one, r)
    BY <1>2, <1>5, <2>1, <2>2
  <2>4. w = [schedule |-> r, scheduleMap |-> Without(q.scheduleMap, q.schedule[one].uuid)]
    BY <1>2, <1>6, <2>1, <2>2
  <2>5. GoodQueue(w) /\ Items(w) = Items(q) \ {q.schedule[one]}
    BY <2>3, <2>4, LosesItem
  <2> QED
    BY <1>2, <2>1, <2>5
<1>9. w.scheduleMap = Without(q.scheduleMap, s[1].uuid)
  BY <1>6
<1>10. s[1] \in Items(q) /\ s[1] \in Item
  BY <1>2, <1>4, GoodQueueTypes
<1> QED
  BY <1>1, <1>2, <1>4, <1>7, <1>8, <1>9, <1>10 DEF Pops, Timed

-----------------------------------------------------------------------------
(***************************************************************************)
(* What the operations do to the entries of one lab.                       *)
(***************************************************************************)
SameEntries(q, r, l) ==
  /\ Entries(r, l) = Entries(q, l)
  /\ l \in DOMAIN q.scheduleMap => l \in DOMAIN r.scheduleMap /\ r.scheduleMap[l] = q.scheduleMap[l]

(* The only entry of the lab in r is a copy of lab. *)
OnlyEntry(r, lab) ==
  \E c \in Item :
    /\ c.uuid = lab.uuid /\ c.start = lab.start /\ c.end = lab.end
    /\ Entries(r, lab.uuid) = {c}
    /\ lab.uuid \in DOMAIN r.scheduleMap /\ r.scheduleMap[lab.uuid] = c

(* Adding a copy of a lab concerns that lab. *)
LEMMA AddsEntries ==
  ASSUME NEW q, NEW r, NEW lab, Adds(q, r, lab)
  PROVE  /\ \A l : l # lab.uuid => SameEntries(q, r, l)
         /\ Entries(q, lab.uuid) \subseteq Entries(r, lab.uuid)
         /\ \E item \in Entries(r, lab.uuid) : item.end = lab.end
         /\ Entries(q, lab.uuid) = {} => OnlyEntry(r, lab)
<1>1. PICK c \in Item : /\ c.uuid = lab.uuid /\ c.start = lab.start /\ c.end = lab.end
                        /\ Items(r) = Items(q) \cup {c}
                        /\ r.scheduleMap = Pointing(q.scheduleMap, c)
  BY DEF Adds
<1>2. /\ DOMAIN r.scheduleMap = DOMAIN q.scheduleMap \cup {c.uuid}
      /\ \A k \in DOMAIN r.scheduleMap : r.scheduleMap[k] = IF k = c.uuid THEN c ELSE q.scheduleMap[k]
  BY <1>1 DEF Pointing
<1>3. \A l : /\ Entries(q, l) = {item \in Items(q) : item.uuid = l}
             /\ Entries(r, l) = {item \in Items(r) : item.uuid = l}
  BY DEF Entries, Items
<1>4. ASSUME NEW l, l # lab.uuid
      PROVE  Entries(r, l) = Entries(q, l)
  <2>1. \A x : x \in Entries(r, l) <=> x \in Entries(q, l)
    BY <1>1, <1>3, <1>4
  <2> QED
    BY <2>1
<1>5. \A l : l # lab.uuid => SameEntries(q, r, l)
  BY <1>1, <1>2, <1>4 DEF SameEntries
<1>6. Entries(r, lab.uuid) = Entries(q, lab.uuid) \cup {c}
  BY <1>1, <1>3
<1>7. Entries(q, lab.uuid) = {} => OnlyEntry(r, lab)
  <2>1. Entries(q, lab.uuid) = {} => Entries(r, lab.uuid) = {c}
    BY <1>6
  <2> QED
    BY <1>1, <1>2, <2>1 DEF OnlyEntry
<1> QED
  BY <1>1, <1>5, <1>6, <1>7

(* Dropping the entry of a key concerns that lab, and takes its only entry. *)
LEMMA DropsEntries ==
  ASSUME NEW q, GoodQueue(q), NEW r, NEW key, Drops(q, r, key)
  PROVE  /\ \A l : l # key => SameEntries(q, r, l)
         /\ OneEntry(q, key) => Entries(r, key) = {}
<1>1. /\ DOMAIN r.scheduleMap = DOMAIN q.scheduleMap \ {key}
      /\ \A k \in DOMAIN r.scheduleMap : r.scheduleMap[k] = q.scheduleMap[k]
  BY DEF Drops, Without
<1>2. \A l : /\ Entries(q, l) = {item \in Items(q) : item.uuid = l}
             /\ Entries(r, l) = {item \in Items(r) : item.uuid = l}
  BY DEF Entries, Items
<1>3. Items(r) = Items(q) \ (IF key \in DOMAIN q.scheduleMap THEN {q.scheduleMap[key]} ELSE {})
  BY DEF Drops
<1>4. key \in DOMAIN q.scheduleMap => q.scheduleMap[key].uuid = key
  BY DEF GoodQueue
<1>5. \A l : l # key => Entries(r, l) = Entries(q, l)
  BY <1>2, <1>3, <1>4
<1>6. \A l : l # key => SameEntries(q, r, l)
  BY <1>1, <1>5 DEF SameEntries
<1>7. OneEntry(q, key) => Entries(r, key) = {}
  BY <1>2, <1>3 DEF OneEntry
<1> QED
  BY <1>6, <1>7

(* Popping an entry concerns its lab, and takes nothing but the entry. *)
LEMMA PopsEntries ==
  ASSUME NEW q, GoodQueue(q), NEW r, NEW item, Pops(q, r, item)
  PROVE  /\ \A l : l # item.uuid => SameEntries(q, r, l)
         /\ item \in Entries(q, item.uuid)
         /\ Entries(r, item.uuid) = Entries(q, item.uuid) \ {item}
         /\ OneEntry(q, item.uuid) => Entries(r, item.uuid) = {}
<1>1. /\ DOMAIN r.scheduleMap = DOMAIN q.scheduleMap \ {item.uuid}
      /\ \A k \in DOMAIN r.scheduleMap : r.scheduleMap[k] = q.scheduleMap[k]
  BY DEF Pops, Without
<1>2. \A l : /\ Entries(q, l) = {x \in Items(q) : x.uuid = l}
             /\ Entries(r, l) = {x \in Items(r) : x.uuid = l}
  BY DEF Entries, Items
<1>3. item \in Items(q) /\ Items(r) = Items(q) \ {item}
  BY DEF Pops
<1>4. \A l : l # item.uuid => Entries(r, l) = Entries(q, l)
  BY <1>2, <1>3
<1>5. \A l : l # item.uuid => SameEntries(q, r, l)
  BY <1>1, <1>4 DEF SameEntries
<1>6. item \in Entries(q, item.uuid) /\ Entries(r, item.uuid) = Entries(q, item.uuid) \ {item}
  BY <1>2, <1>3
<1>7. OneEntry(q, item.uuid) => Entries(r, item.uuid) = {}
  BY <1>6 DEF OneEntry
<1> QED
  BY <1>5, <1>6, <1>7

(* The lab events the scheduler handles. *)
Events == {"lab.created", "lab.moved", "lab.deleted", "lab.manually-deployed", "lab.restored"}

(* The first half of the handlers. *)
LEMMA OnDeploymentEntries ==
  ASSUME GoodQueue(dep), NEW lab \in LabCopy, NEW event \in Events,
         NEW d, d = OnDeployment(event, lab)
  PROVE  /\ GoodQueue(d)
         /\ \A l : l # lab.uuid => SameEntries(dep, d, l)
         /\ event = "lab.restored" => d = dep
         /\ event = "lab.created" /\ Entries(dep, lab.uuid) = {} => OnlyEntry(d, lab)
         /\ event = "lab.moved" /\ OneEntry(dep, lab.uuid) => OnlyEntry(d, lab)
         /\ event \in {"lab.deleted", "lab.manually-deployed"} /\ OneEntry(dep, lab.uuid)
              => Entries(d, lab.uuid) = {}
<1>1. lab.uuid \in Labs /\ lab.start \in 0 .. MaxTime /\ lab.end \in Times \cup {NoTime}
  BY DEF LabCopy
<1>2. CASE event = "lab.created"
  <2>1. d = D!Schedule(dep, copyLab(dep, lab))
    BY <1>2 DEF OnDeployment
  <2>2. GoodQueue(d) /\ Adds(dep, d, lab)
    BY <1>1, <2>1, ScheduleAdds
  <2> QED
    BY <1>2, <2>2, AddsEntries
<1>3. CASE event = "lab.moved"
  <2>1. PICK c : c = copyLab(dep, lab)
    OBVIOUS
  <2>2. PICK e : e = D!remove(dep, lab.uuid)
    OBVIOUS
  <2>3. c \in Item /\ c \notin Items(dep) /\ c.uuid = lab.uuid /\ c.start = lab.start /\ c.end = lab.end
    BY <1>1, <2>1, CopyIsNew
  <2>4. d = D!Schedule(e, c)
    BY <1>3, <2>1, <2>2, <2>3 DEF OnDeployment, D!Reschedule, LabKey
  <2>5. GoodQueue(e) /\ Drops(dep, e, lab.uuid)
    BY <2>2, RemoveDrops
  <2>6. c \notin Items(e)
    BY <2>3, <2>5 DEF Drops
  <2>7. GoodQueue(d) /\ Adds(e, d, lab)
    BY <2>3, <2>4, <2>5, <2>6, ScheduleNew
  <2>8. /\ \A l : l # lab.uuid => SameEntries(dep, e, l)
        /\ OneEntry(dep, lab.uuid) => Entries(e, lab.uuid) = {}
    BY <2>5, DropsEntries
  <2>9. /\ \A l : l # lab.uuid => SameEntries(e, d, l)
        /\ Entries(e, lab.uuid) = {} => OnlyEntry(d, lab)
    BY <2>7, AddsEntries
  <2>10. \A l : l # lab.uuid => SameEntries(dep, d, l)
    BY <2>8, <2>9 DEF SameEntries
  <2> QED
    BY <1>3, <2>7, <2>8, <2>9, <2>10
<1>4. CASE event \in {"lab.deleted", "lab.manually-deployed"}
  <2>1. d = D!remove(dep, lab.uuid)
    BY <1>4 DEF OnDeployment
  <2>2. GoodQueue(d) /\ Drops(dep, d, lab.uuid)
    BY <2>1, RemoveDrops
  <2> QED
    BY <1>4, <2>2, DropsEntries
<1>5. CASE event = "lab.restored"
  <2>1. d = dep
    BY <1>5 DEF OnDeployment
  <2> QED
    BY <1>5, <2>1 DEF SameEntries
<1> QED
  BY <1>2, <1>3, <1>4, <1>5 DEF Events

(* The second half. *)
LEMMA OnDestructionEntries ==
  ASSUME GoodQueue(des), Timed(des), NEW lab \in LabCopy, NEW event \in Events,
         NEW d, d = OnDestruction(event, lab)
  PROVE  /\ GoodQueue(d) /\ Timed(d)
         /\ \A l : l # lab.uuid => Entries(d, l) = Entries(des, l)
         /\ event # "lab.deleted" /\ lab.end # NoTime
              => \E item \in Entries(d, lab.uuid) : item.end = lab.end
<1>1. lab.uuid \in Labs /\ lab.start \in 0 .. MaxTime /\ lab.end \in Times \cup {NoTime}
  BY DEF LabCopy
<1>2. CASE event \in {"lab.created", "lab.manually-deployed", "lab.restored"}
  <2>1. d = X!Schedule(des, copyLab(des, lab))
    BY <1>2 DEF OnDestruction
  <2>2. GoodQueue(d) /\ Timed(d) /\ IF lab.end = NoTime THEN d = des ELSE Adds(des, d, lab)
    BY <1>1, <2>1, ScheduleAdds
  <2> QED
    BY <1>2, <2>2, AddsEntries DEF SameEntries
<1>3. CASE event = "lab.moved"
  <2>1. PICK c : c = copyLab(des, lab)
    OBVIOUS
  <2>2. PICK e : e = D!remove(des, lab.uuid)
    OBVIOUS
  <2>3. c \in Item /\ c \notin Items(des) /\ c.uuid = lab.uuid /\ c.start = lab.start /\ c.end = lab.end
    BY <1>1, <2>1, CopyIsNew
  <2>4. d = X!Schedule(e, c)
    BY <1>3, <2>1, <2>2, <2>3, RemoveDrops DEF OnDestruction, X!Reschedule, LabKey
  <2>5. GoodQueue(e) /\ Drops(des, e, lab.uuid) /\ Timed(e)
    BY <2>2, RemoveDrops
  <2>6. c \notin Items(e)
    BY <2>3, <2>5 DEF Drops
  <2>7. GoodQueue(d) /\ Timed(d) /\ IF lab.end = NoTime THEN d = e ELSE Adds(e, d, lab)
    BY <2>3, <2>4, <2>5, <2>6, ScheduleNew
  <2>8. \A l : l # lab.uuid => SameEntries(des, e, l)
    BY <2>5, DropsEntries
  <2> QED
    BY <1>3, <2>7, <2>8, AddsEntries DEF SameEntries
<1>4. CASE event = "lab.deleted"
  <2>1. d = D!remove(des, lab.uuid)
    BY <1>4, RemoveDrops DEF OnDestruction
  <2>2. GoodQueue(d) /\ Drops(des, d, lab.uuid) /\ Timed(d)
    BY <2>1, RemoveDrops
  <2> QED
    BY <1>4, <2>2, DropsEntries DEF SameEntries
<1> QED
  BY <1>2, <1>3, <1>4 DEF Events

-----------------------------------------------------------------------------
(***************************************************************************)
(* Facts about a state and a step.                                         *)
(***************************************************************************)

(* A goroutine that serves a request is not idle, and one that is idle     *)
(* serves none.                                                            *)
LEMMA RequestFields ==
  /\ \A r \in Request : /\ r # Idle /\ r.op # "idle"
                        /\ r.op \in {"create", "update", "rename", "delete", "deploy", "destroy", "revive", "restore"}
                        /\ r.pc \in {"commit", "deployment", "destruction", "finish", "create"}
                        /\ r.lab \in LabCopy
  /\ Idle.op = "idle"
  BY DEF Request, Idle

(* Copies and rows have a lab, a start and an end. *)
LEMMA LabFields ==
  /\ \A lab \in LabCopy : /\ lab.uuid \in Labs /\ lab.start \in 0 .. MaxTime /\ lab.end \in Times \cup {NoTime}
                          /\ [start |-> lab.start, end |-> lab.end] \in Row
  /\ \A row \in Row : row.start \in 0 .. MaxTime /\ row.end \in Times \cup {NoTime}
                      /\ row = [start |-> row.start, end |-> row.end]
  /\ \A row \in Row : row # NoLab
  /\ \A l \in Labs, row \in Row : Lab(l, row) \in LabCopy /\ Lab(l, row).uuid = l
                                  /\ Lab(l, row).start = row.start /\ Lab(l, row).end = row.end
  /\ \A t \in Times \cup {NoTime} : t # NoTime => t \in Nat
<1>1. \A row \in Row : row # NoLab
  BY SchedulerAssumption DEF Row
<1>2. \A t \in Times \cup {NoTime} : t # NoTime => t \in Nat
  BY SchedulerAssumption
<1> QED
  BY <1>1, <1>2 DEF LabCopy, Row, Lab

(* What On and Busy say of the requests. *)
LEMMA OnFields ==
  ASSUME req \in [Procs -> Request \cup {Idle}]
  PROVE  /\ \A p \in Procs : req[p].op # "idle" <=> req[p] # Idle
         /\ \A p \in Procs : req[p] # Idle => req[p] \in Request
         /\ \A l : Busy(l) <=> \E p \in Procs : On(p, l)
<1>1. \A p \in Procs : req[p] \in Request \cup {Idle}
  OBVIOUS
<1>2. \A p \in Procs : req[p].op # "idle" <=> req[p] # Idle
  BY <1>1, RequestFields
<1> QED
  BY <1>1, <1>2 DEF Busy, On

(* The same after a step. *)
LEMMA OnFieldsNext ==
  ASSUME (req \in [Procs -> Request \cup {Idle}])'
  PROVE  \A l : Busy(l)' <=> \E p \in Procs : On(p, l)'
<1>1. \A p \in Procs : req'[p] \in Request \cup {Idle}
  OBVIOUS
<1>2. \A p \in Procs : req'[p].op # "idle" <=> req'[p] # Idle
  BY <1>1, RequestFields
<1> QED
  BY <1>2 DEF Busy, On

(* A step that has nothing to do with lab l. *)
Elsewhere(l) ==
  /\ db'[l] = db[l] /\ inst'[l] = inst[l]
  /\ l \in env' <=> l \in env
  /\ SameEntries(dep, dep', l)
  /\ Entries(des', l) = Entries(des, l)
  /\ l \in Starting' <=> l \in Starting
  /\ loop.pc = "schedule" /\ loop.due.uuid = l => loop'.pc = "schedule" /\ loop'.due = loop.due
  /\ \A p \in Procs : On(p, l) \/ On(p, l)' => req'[p] = req[p]
  /\ l \in unused' <=> l \in unused
  /\ l \in reviving' => l \in reviving
  /\ l \in waiting' <=> l \in waiting
  /\ l \in overtaken' <=> l \in overtaken
  /\ l \in contended => l \in contended'
  /\ now <= now'

(* The types of a state, as far as one lab is concerned. *)
LEMMA LabTypes ==
  ASSUME TypeOK, NEW l \in Labs
  PROVE  /\ db[l] \in Row \cup {NoLab}
         /\ now \in Nat
         /\ db[l] # NoLab => db[l] \in Row /\ (db[l].end # NoTime => db[l].end \in Nat)
<1>1. db[l] \in Row \cup {NoLab} /\ now \in Nat
  BY SchedulerAssumption DEF TypeOK
<1> QED
  BY <1>1, LabFields

(* Such a step keeps what the invariant says of the lab. *)
LEMMA ElsewhereKeeps ==
  ASSUME TypeOK, TypeOK', ShapeOK, ShapeOK', NEW l \in Labs, Elsewhere(l), FreshOK(l), DeletedOK(l)
  PROVE  /\ FreshOK(l)' /\ DeletedOK(l)'
         /\ LabOK(l) => LabOK(l)'
<1>1. \A p \in Procs : (On(p, l)' <=> On(p, l)) /\ (On(p, l) => req'[p] = req[p])
  BY DEF Elsewhere, On
<1>2. Busy(l)' <=> Busy(l)
  BY <1>1, OnFields, OnFieldsNext DEF ShapeOK
<1>3. Untouched(l)' <=> Untouched(l)
  BY <1>2 DEF Elsewhere, Untouched, SameEntries
<1>4. FreshOK(l)'
  BY <1>3 DEF Elsewhere, FreshOK
<1>5. DeletedOK(l)'
  BY <1>1, <1>3 DEF Elsewhere, DeletedOK, At
<1>6. EndLive(l)' => EndLive(l)
  <2>1. now \in Nat /\ now' \in Nat /\ (db[l] # NoLab /\ db[l].end # NoTime => db[l].end \in Nat)
    BY LabTypes, SchedulerAssumption DEF TypeOK
  <2> QED
    BY <2>1 DEF Elsewhere, EndLive
<1>7. RowOK(l) => RowOK(l)'
  BY <1>1, <1>6 DEF Elsewhere, RowOK, At
<1>8. EntryOK(l) => EntryOK(l)'
  <2>1. OneEntry(dep, l) => OneEntry(dep, l)'
    BY DEF Elsewhere, SameEntries, OneEntry
  <2> QED
    BY <1>1, <2>1 DEF Elsewhere, EntryOK, At, SameEntries
<1>9. WaitingOK(l) => WaitingOK(l)'
  BY <1>1 DEF Elsewhere, WaitingOK, At, StartQueued, SameEntries
<1>10. EndOK(l) => EndOK(l)'
  BY <1>1, <1>6 DEF Elsewhere, EndOK, At, EndQueued
<1> QED
  BY <1>4, <1>5, <1>7, <1>8, <1>9, <1>10 DEF LabOK

(* A step that concerns one lab only. *)
LEMMA StepOfOneLab ==
  ASSUME Inv, TypeOK', ShapeOK', \A p \in Procs : RequestOK(p)',
         NEW l \in Labs, \A k \in Labs \ {l} : Elsewhere(k),
         FreshOK(l)', DeletedOK(l)', l \notin contended' => LabOK(l)'
  PROVE  Inv'
<1>1. \A k \in Labs \ {l} : /\ FreshOK(k)' /\ DeletedOK(k)'
                            /\ k \notin contended' => LabOK(k)'
  BY ElsewhereKeeps DEF Inv, Elsewhere
<1> QED
  BY <1>1 DEF Inv

(* A step that concerns no lab. *)
LEMMA StepOfNoLab ==
  ASSUME Inv, TypeOK', ShapeOK', \A p \in Procs : RequestOK(p)', \A k \in Labs : Elsewhere(k)
  PROVE  Inv'
<1>1. \A k \in Labs : /\ FreshOK(k)' /\ DeletedOK(k)'
                      /\ k \notin contended' => LabOK(k)'
  BY ElsewhereKeeps DEF Inv, Elsewhere
<1> QED
  BY <1>1 DEF Inv

-----------------------------------------------------------------------------
(***************************************************************************)
(* The requests.                                                           *)
(***************************************************************************)

(* A goroutine changes its request, on one lab. *)
LEMMA ServesOne ==
  ASSUME req \in [Procs -> Request \cup {Idle}], NEW p \in Procs, NEW l, NEW r \in Request \cup {Idle},
         req' = [req EXCEPT ![p] = r],
         req[p] # Idle => req[p].lab.uuid = l, r # Idle => r.lab.uuid = l
  PROVE  /\ req' \in [Procs -> Request \cup {Idle}]
         /\ req'[p] = r
         /\ \A q \in Procs : q # p => req'[q] = req[q]
         /\ \A k : k # l => \A q \in Procs : On(q, k) \/ On(q, k)' => req'[q] = req[q]
<1>1. /\ req' \in [Procs -> Request \cup {Idle}]
      /\ req'[p] = r
      /\ \A q \in Procs : q # p => req'[q] = req[q]
  OBVIOUS
<1> QED
  BY <1>1 DEF On

(* Nothing but the requests and the rows changes. *)
Stable == UNCHANGED <<now, inst, creating, containers, dep, des, loop, tasks, reviving, overtaken>>

(* What a stable step leaves as it is, in the terms of the invariant. *)
LEMMA StableFacts ==
  ASSUME Stable
  PROVE  /\ now' = now /\ inst' = inst /\ dep' = dep /\ des' = des /\ loop' = loop /\ tasks' = tasks
         /\ creating' = creating /\ containers' = containers /\ reviving' = reviving /\ overtaken' = overtaken
         /\ Starting' = Starting
         /\ \A l : Entries(dep, l)' = Entries(dep, l) /\ Entries(des, l)' = Entries(des, l)
         /\ \A l : SameEntries(dep, dep', l)
         /\ \A l : OneEntry(dep, l)' <=> OneEntry(dep, l)
  BY DEF Stable, Starting, Entries, SameEntries, OneEntry

(* A request on a stored lab begins. *)
LEMMA BeginKeeps ==
  ASSUME Inv, NEW p \in Procs, NEW l \in Labs, NEW op, NEW pc, NEW lab \in LabCopy,
         lab.uuid = l, Begin(p, op, pc, lab), db[l] # NoLab, UNCHANGED <<unused, env, db, waiting>>,
         \/ op \in {"update", "rename", "delete"} /\ pc = "commit"
         \/ op = "deploy" /\ pc \in {"commit", "deployment"}
         \/ op = "destroy" /\ pc = "deployment",
         op = "rename" => lab.start = db[l].start /\ lab.end = db[l].end,
         op = "deploy" => lab.start = db[l].start /\ (EndLive(l) => lab.end = db[l].end)
  PROVE  Inv'
<1>1. TypeOK /\ ShapeOK /\ FreshOK(l) /\ DeletedOK(l) /\ (l \notin contended => LabOK(l))
  BY DEF Inv
<1>2. PICK r : r = [op |-> op, pc |-> pc, lab |-> lab]
  OBVIOUS
<1>3. /\ r \in Request /\ r # Idle /\ r.op = op /\ r.pc = pc /\ r.lab = lab
  BY <1>2, RequestFields DEF Request
<1>4. /\ req[p] = Idle /\ reviving = {} /\ req' = [req EXCEPT ![p] = r]
      /\ contended' = IF Busy(l) THEN contended \cup {l} ELSE contended
      /\ Stable /\ unused' = unused /\ env' = env /\ db' = db /\ waiting' = waiting
  BY <1>2 DEF Begin, Stable
<1>5. /\ req \in [Procs -> Request \cup {Idle}]
      /\ req' \in [Procs -> Request \cup {Idle}]
      /\ req'[p] = r
      /\ \A q \in Procs : q # p => req'[q] = req[q]
      /\ \A k : k # l => \A q \in Procs : On(q, k) \/ On(q, k)' => req'[q] = req[q]
  BY <1>1, <1>3, <1>4, ServesOne DEF ShapeOK
<1>6. \A q \in Procs : q # p => (On(q, l)' <=> On(q, l))
  BY <1>5 DEF On
<1>7. ShapeOK'
  BY <1>1, <1>4, <1>5, StableFacts DEF ShapeOK
<1>8. TypeOK'
  <2>1. \A q \in Procs : req'[q] # Idle => req'[q].lab \in LabCopy
    BY <1>5, RequestFields
  <2>2. contended' \subseteq Labs
    BY <1>1, <1>4 DEF TypeOK
  <2> QED
    BY <1>1, <1>4, <2>1, <2>2, StableFacts DEF TypeOK
<1>9. \A q \in Procs : RequestOK(q)'
  <2>1. RequestOK(p)'
    BY <1>1, <1>3, <1>4, <1>5, StableFacts DEF RequestOK, FreshOK
  <2>2. \A q \in Procs : q # p => RequestOK(q)'
    BY <1>4, <1>5, StableFacts DEF RequestOK, Inv
  <2> QED
    BY <2>1, <2>2
<1>10. \A k \in Labs \ {l} : Elsewhere(k)
  <2>1. now <= now' /\ \A k \in contended : k \in contended'
    BY <1>1, <1>4, StableFacts, SchedulerAssumption DEF TypeOK
  <2> QED
    BY <1>4, <1>5, <2>1, StableFacts DEF Elsewhere
<1>11. FreshOK(l)'
  BY <1>1, <1>4, StableFacts DEF FreshOK
<1>12. DeletedOK(l)'
  <2>1. ~At(p, l, {"delete"}, {"deployment", "destruction", "finish"})'
    BY <1>3, <1>5 DEF At
  <2>2. \A q \in Procs : q # p /\ At(q, l, {"delete"}, {"deployment", "destruction", "finish"})'
          => At(q, l, {"delete"}, {"deployment", "destruction", "finish"})
    BY <1>5 DEF At, On
  <2> QED
    BY <1>1, <1>4, <2>1, <2>2 DEF DeletedOK
<1>13. ASSUME l \notin contended'
       PROVE  LabOK(l)'
  <2>1. ~Busy(l) /\ LabOK(l)
    BY <1>1, <1>4, <1>13
  <2>2. \A q \in Procs : ~On(q, l) /\ (On(q, l)' => q = p)
    BY <1>5, <1>6, <2>1, OnFields
  <2>3. EndLive(l)' => EndLive(l)
    BY <1>4, StableFacts DEF EndLive
  <2>4. RowOK(l)'
    BY <1>3, <1>4, <1>5, <2>2, <2>3 DEF RowOK, At
  <2>5. EntryOK(l)'
    BY <1>3, <1>4, <1>5, <2>1, <2>2, StableFacts DEF LabOK, EntryOK, At
  <2>6. WaitingOK(l)'
    BY <1>3, <1>4, <1>5, <2>1, <2>2, StableFacts DEF LabOK, WaitingOK, At, StartQueued
  <2>7. EndOK(l)'
    BY <1>3, <1>4, <1>5, <2>1, <2>2, <2>3, StableFacts DEF LabOK, EndOK, At, EndQueued
  <2> QED
    BY <2>4, <2>5, <2>6, <2>7 DEF LabOK
<1> QED
  BY <1>7, <1>8, <1>9, <1>10, <1>11, <1>12, <1>13, StepOfOneLab

(* lab.Service.Update begins. *)
LEMMA BeginUpdateKeeps ==
  ASSUME Inv, NEW p \in Procs, NEW l \in Labs, NEW start \in Times \cup {now}, NEW end \in Times \cup {NoTime},
         BeginUpdate(p, l, start, end)
  PROVE  Inv'
<1>1. PICK row : row = [start |-> start, end |-> end]
  OBVIOUS
<1>2. start \in 0 .. MaxTime
  BY SchedulerAssumption DEF Inv, TypeOK
<1>3. row \in Row
  BY <1>1, <1>2 DEF Row
<1>4. Lab(l, row) \in LabCopy /\ Lab(l, row).uuid = l
  BY <1>3, LabFields
<1> QED
  BY <1>1, <1>4, BeginKeeps DEF BeginUpdate

(* lab.Service.Update of the name begins. *)
LEMMA BeginRenameKeeps ==
  ASSUME Inv, NEW p \in Procs, NEW l \in Labs, BeginRename(p, l)
  PROVE  Inv'
<1>1. db[l] # NoLab /\ db[l] \in Row
  BY LabTypes DEF BeginRename, Inv
<1>2. /\ Lab(l, db[l]) \in LabCopy /\ Lab(l, db[l]).uuid = l
      /\ Lab(l, db[l]).start = db[l].start /\ Lab(l, db[l]).end = db[l].end
  BY <1>1, LabFields
<1> QED
  BY <1>1, <1>2, BeginKeeps DEF BeginRename

(* lab.Service.Delete begins. *)
LEMMA BeginDeleteKeeps ==
  ASSUME Inv, NEW p \in Procs, NEW l \in Labs, BeginDelete(p, l)
  PROVE  Inv'
<1>1. db[l] # NoLab /\ db[l] \in Row
  BY LabTypes DEF BeginDelete, Inv
<1>2. Lab(l, db[l]) \in LabCopy /\ Lab(l, db[l]).uuid = l
  BY <1>1, LabFields
<1> QED
  BY <1>1, <1>2, BeginKeeps DEF BeginDelete

(* DestroyLabCommand begins. *)
LEMMA BeginDestroyKeeps ==
  ASSUME Inv, NEW p \in Procs, NEW l \in Labs, BeginDestroy(p, l)
  PROVE  Inv'
<1>1. db[l] # NoLab /\ db[l] \in Row
  BY LabTypes DEF BeginDestroy, Inv
<1>2. Lab(l, db[l]) \in LabCopy /\ Lab(l, db[l]).uuid = l
  BY <1>1, LabFields
<1> QED
  BY <1>1, <1>2, BeginKeeps DEF BeginDestroy

(* DeployLabCommand begins: the copy it works on has the end of the row as *)
(* long as that is still to come.                                          *)
LEMMA BeginDeployKeeps ==
  ASSUME Inv, NEW p \in Procs, NEW l \in Labs, BeginDeploy(p, l)
  PROVE  Inv'
<1> DEFINE ended == db[l].end # NoTime /\ db[l].end <= now
<1>1. /\ db[l] # NoLab /\ db[l] \in Row /\ now \in Nat
      /\ db[l].end # NoTime => db[l].end \in Nat
  BY LabTypes DEF BeginDeploy, Inv
<1>2. PICK row : row = [db[l] EXCEPT !.end = IF ended THEN NoTime ELSE @]
  OBVIOUS
<1>3. PICK pc : pc = IF ended THEN "commit" ELSE "deployment"
  OBVIOUS
<1>4. row \in Row /\ row.start = db[l].start /\ (~ended => row.end = db[l].end)
  BY <1>1, <1>2 DEF Row
<1>5. EndLive(l) => ~ended
  BY <1>1 DEF EndLive
<1>6. /\ Lab(l, row) \in LabCopy /\ Lab(l, row).uuid = l
      /\ Lab(l, row).start = row.start /\ Lab(l, row).end = row.end
  BY <1>4, LabFields
<1>7. Begin(p, "deploy", pc, Lab(l, row)) /\ UNCHANGED <<unused, env, db, waiting>>
  BY <1>2, <1>3 DEF BeginDeploy
<1>8. pc \in {"commit", "deployment"}
  BY <1>3
<1> HIDE DEF ended
<1> QED
  BY <1>1, <1>4, <1>5, <1>6, <1>7, <1>8, BeginKeeps

(* lab.Service.Create begins, on a lab nobody knows. *)
LEMMA BeginCreateKeeps ==
  ASSUME Inv, NEW p \in Procs, NEW l \in Labs, NEW start \in Times, NEW end \in Times \cup {NoTime},
         BeginCreate(p, l, start, end)
  PROVE  Inv'
<1>1. TypeOK /\ ShapeOK /\ FreshOK(l)
  BY DEF Inv
<1>2. PICK row : row = [start |-> start, end |-> end]
  OBVIOUS
<1>3. row \in Row /\ row.start = start /\ row.end = end /\ row # NoLab
  <2>1. start \in 0 .. MaxTime
    BY SchedulerAssumption
  <2>2. row \in Row
    BY <1>2, <2>1 DEF Row
  <2> QED
    BY <1>2, <2>2, LabFields
<1>4. PICK lab : lab = Lab(l, row)
  OBVIOUS
<1>5. lab \in LabCopy /\ lab.uuid = l /\ lab.start = start /\ lab.end = end
  BY <1>3, <1>4, LabFields
<1>6. PICK r : r = [op |-> "create", pc |-> "deployment", lab |-> lab]
  OBVIOUS
<1>7. /\ r \in Request /\ r # Idle /\ r.op = "create" /\ r.pc = "deployment" /\ r.lab = lab
  BY <1>5, <1>6, RequestFields DEF Request
<1>8. Begin(p, "create", "deployment", lab)
  BY <1>2, <1>4 DEF BeginCreate
<1>9. /\ req[p] = Idle /\ reviving = {} /\ req' = [req EXCEPT ![p] = r]
      /\ contended' = IF Busy(l) THEN contended \cup {l} ELSE contended
      /\ Stable
  BY <1>5, <1>6, <1>8 DEF Begin, Stable
<1>10. /\ l \in unused /\ unused' = unused \ {l} /\ env' = env \cup {l}
       /\ db' = [db EXCEPT ![l] = row] /\ waiting' = waiting \cup {l}
  BY <1>2 DEF BeginCreate
<1>11. /\ req \in [Procs -> Request \cup {Idle}]
       /\ req' \in [Procs -> Request \cup {Idle}]
       /\ req'[p] = r
       /\ \A q \in Procs : q # p => req'[q] = req[q]
       /\ \A k : k # l => \A q \in Procs : On(q, k) \/ On(q, k)' => req'[q] = req[q]
  BY <1>1, <1>5, <1>7, <1>9, ServesOne DEF ShapeOK
<1>12. /\ db[l] = NoLab /\ Untouched(l) /\ inst[l] = "none" /\ ~Busy(l)
       /\ contended' = contended
  BY <1>1, <1>9, <1>10 DEF FreshOK, Untouched
<1>13. db'[l] = row /\ \A k \in Labs : k # l => db'[k] = db[k]
  BY <1>1, <1>10 DEF TypeOK
<1>14. \A q \in Procs : ~On(q, l) /\ (On(q, l)' => q = p)
  <2>1. \A q \in Procs : ~On(q, l)
    BY <1>11, <1>12, OnFields
  <2> QED
    BY <1>11, <2>1 DEF On
<1>15. ShapeOK'
  BY <1>1, <1>9, <1>11, StableFacts DEF ShapeOK
<1>16. TypeOK'
  <2>1. \A q \in Procs : req'[q] # Idle => req'[q].lab \in LabCopy
    BY <1>11, RequestFields
  <2>2. db' \in [Labs -> Row \cup {NoLab}]
    BY <1>1, <1>3, <1>10 DEF TypeOK
  <2>3. unused' \subseteq Labs /\ env' \subseteq Labs /\ waiting' \subseteq Labs
    BY <1>1, <1>10 DEF TypeOK
  <2> QED
    BY <1>1, <1>9, <1>12, <2>1, <2>2, <2>3, StableFacts DEF TypeOK
<1>17. \A q \in Procs : RequestOK(q)'
  <2>1. RequestOK(p)'
    BY <1>5, <1>7, <1>9, <1>10, <1>11, StableFacts DEF RequestOK
  <2>2. \A q \in Procs : q # p => RequestOK(q)'
    BY <1>9, <1>10, <1>11, StableFacts DEF RequestOK, Inv
  <2> QED
    BY <2>1, <2>2
<1>18. \A k \in Labs \ {l} : Elsewhere(k)
  <2>1. now <= now'
    BY <1>1, <1>9, StableFacts, SchedulerAssumption DEF TypeOK
  <2> QED
    BY <1>9, <1>10, <1>11, <1>12, <1>13, <2>1, StableFacts DEF Elsewhere
<1>19. FreshOK(l)'
  BY <1>9, <1>10, StableFacts DEF FreshOK
<1>20. DeletedOK(l)'
  BY <1>3, <1>7, <1>11, <1>13, <1>14 DEF DeletedOK, At
<1>21. LabOK(l)'
  <2>1. Entries(dep, l)' = {} /\ l \notin Starting' /\ inst'[l] = "none"
    BY <1>9, <1>12, StableFacts DEF Untouched
  <2>2. RowOK(l)'
    BY <1>3, <1>5, <1>7, <1>11, <1>13, <1>14 DEF RowOK, At
  <2>3. EntryOK(l)'
    BY <2>1 DEF EntryOK, OneEntry
  <2>4. At(p, l, {"create", "update", "revive"}, {"deployment"})'
    BY <1>5, <1>7, <1>11 DEF At, On
  <2>5. WaitingOK(l)'
    BY <1>3, <1>7, <1>11, <1>13, <1>14, <2>4 DEF WaitingOK, At
  <2>6. EndOK(l)'
    BY <1>7, <1>11, <1>14, <2>1 DEF EndOK, At
  <2> QED
    BY <2>2, <2>3, <2>5, <2>6 DEF LabOK
<1> QED
  BY <1>15, <1>16, <1>17, <1>18, <1>19, <1>20, <1>21, StepOfOneLab

(* A creation that fails leaves a run environment nobody refers to. *)
LEMMA CreateFailsKeeps ==
  ASSUME Inv, NEW l \in Labs, CreateFails(l)
  PROVE  Inv'
<1>1. TypeOK /\ ShapeOK /\ FreshOK(l)
  BY DEF Inv
<1>2. /\ l \in unused /\ reviving = {} /\ unused' = unused \ {l} /\ env' = env \cup {l}
      /\ db' = db /\ req' = req /\ waiting' = waiting /\ contended' = contended
      /\ Stable
  BY DEF CreateFails, Stable, history
<1>3. /\ db[l] = NoLab /\ Untouched(l) /\ inst[l] = "none" /\ l \notin waiting
  BY <1>1, <1>2 DEF FreshOK
<1>4. \A k : \A q \in Procs : On(q, k)' <=> On(q, k)
  BY <1>2 DEF On
<1>5. \A q \in Procs : ~On(q, l) /\ ~On(q, l)'
  BY <1>1, <1>3, <1>4, OnFields DEF Untouched, ShapeOK
<1>6. ShapeOK' /\ TypeOK'
  <2>1. ShapeOK'
    BY <1>1, <1>2, StableFacts DEF ShapeOK
  <2>2. TypeOK'
    BY <1>1, <1>2, StableFacts DEF TypeOK
  <2> QED
    BY <2>1, <2>2
<1>7. \A q \in Procs : RequestOK(q)'
  BY <1>2, StableFacts DEF RequestOK, Inv
<1>8. \A k \in Labs \ {l} : Elsewhere(k)
  <2>1. now <= now'
    BY <1>1, <1>2, StableFacts, SchedulerAssumption DEF TypeOK
  <2> QED
    BY <1>2, <2>1, StableFacts DEF Elsewhere
<1>9. Untouched(l)'
  BY <1>2, <1>3, StableFacts DEF Untouched, Busy
<1>10. FreshOK(l)'
  BY <1>2, StableFacts DEF FreshOK
<1>11. DeletedOK(l)'
  BY <1>5, <1>9 DEF DeletedOK, At
<1>12. LabOK(l)'
  <2>1. Entries(dep, l)' = {} /\ l \notin Starting' /\ inst'[l] = "none" /\ l \notin waiting'
    BY <1>2, <1>3, <1>9, StableFacts DEF Untouched
  <2>2. RowOK(l)'
    BY <1>5 DEF RowOK, At
  <2>3. EntryOK(l)'
    BY <2>1 DEF EntryOK, OneEntry
  <2>4. WaitingOK(l)'
    BY <1>5, <2>1 DEF WaitingOK
  <2>5. EndOK(l)'
    BY <1>5, <2>1 DEF EndOK, At
  <2> QED
    BY <2>2, <2>3, <2>4, <2>5 DEF LabOK
<1> QED
  BY <1>6, <1>7, <1>8, <1>10, <1>11, <1>12, StepOfOneLab

(* What holds of the lab a goroutine serves a request on. *)
LEMMA Serving ==
  ASSUME Inv, NEW p \in Procs, req[p].op # "idle"
  PROVE  /\ req \in [Procs -> Request \cup {Idle}]
         /\ req[p] \in Request /\ req[p] # Idle
         /\ req[p].lab \in LabCopy /\ req[p].lab.uuid \in Labs
         /\ On(p, req[p].lab.uuid) /\ Busy(req[p].lab.uuid)
         /\ req[p].lab.uuid \notin unused /\ req[p].lab.uuid \notin reviving
         /\ req[p].lab.uuid \notin contended =>
              /\ LabOK(req[p].lab.uuid) /\ db[req[p].lab.uuid] # NoLab
              /\ \A q \in Procs : On(q, req[p].lab.uuid) => q = p
<1>1. /\ req \in [Procs -> Request \cup {Idle}]
      /\ req[p] \in Request /\ req[p] # Idle
  BY OnFields DEF Inv, ShapeOK
<1>2. req[p].lab \in LabCopy /\ req[p].lab.uuid \in Labs
  BY <1>1, RequestFields, LabFields
<1>3. On(p, req[p].lab.uuid) /\ Busy(req[p].lab.uuid)
  BY <1>1 DEF On, Busy
<1>4. req[p].lab.uuid \notin unused
  BY <1>1 DEF Inv, RequestOK
<1>5. req[p].lab.uuid \notin reviving
  BY <1>2, <1>3 DEF Inv, FreshOK, Untouched
<1>6. req[p].lab.uuid \notin contended => LabOK(req[p].lab.uuid)
  BY <1>2 DEF Inv
<1>7. req[p].lab.uuid \notin contended =>
        db[req[p].lab.uuid] # NoLab /\ \A q \in Procs : On(q, req[p].lab.uuid) => q = p
  BY <1>3, <1>6 DEF LabOK, RowOK
<1> QED
  BY <1>1, <1>2, <1>3, <1>4, <1>5, <1>6, <1>7

(* The goroutine goes on with its request, or is done with it. *)
GoesOn(p, r) ==
  /\ r \in Request \cup {Idle}
  /\ req' = [req EXCEPT ![p] = r]
  /\ r # Idle => /\ r.lab = req[p].lab /\ r.op = req[p].op
                 /\ r.pc \in {"deployment", "destruction", "finish", "create"} /\ r.op # "rename"
                 /\ r.pc = "create" => r.op = "deploy" /\ creating' = {r.lab.uuid}
                 /\ r.pc = "finish" => r.op \in {"delete", "deploy", "destroy"}

(* Such a step keeps the shape of the requests, and leaves the requests on *)
(* other labs and of other goroutines alone.                               *)
LEMMA GoesOnFacts ==
  ASSUME Inv, NEW p \in Procs, req[p].op # "idle", NEW l, l = req[p].lab.uuid, NEW r, GoesOn(p, r),
         unused' = unused, reviving' = reviving, creating' = creating \/ creating = {}
  PROVE  /\ req' \in [Procs -> Request \cup {Idle}]
         /\ req'[p] = r
         /\ \A q \in Procs : q # p => req'[q] = req[q]
         /\ \A k : k # l => \A q \in Procs : On(q, k) \/ On(q, k)' => req'[q] = req[q]
         /\ \A q \in Procs : q # p => (On(q, l)' <=> On(q, l))
         /\ \A q \in Procs : RequestOK(q)'
         /\ \A q \in Procs : req'[q] # Idle => req'[q].lab \in LabCopy
         /\ FreshOK(l)'
<1>1. /\ req \in [Procs -> Request \cup {Idle}]
      /\ req[p] \in Request /\ req[p] # Idle /\ l \notin unused /\ l \notin reviving
  BY Serving
<1>2. /\ r \in Request \cup {Idle} /\ req' = [req EXCEPT ![p] = r]
      /\ r # Idle => r.lab.uuid = l
  BY DEF GoesOn
<1>3. /\ req' \in [Procs -> Request \cup {Idle}]
      /\ req'[p] = r
      /\ \A q \in Procs : q # p => req'[q] = req[q]
      /\ \A k : k # l => \A q \in Procs : On(q, k) \/ On(q, k)' => req'[q] = req[q]
  BY <1>1, <1>2, ServesOne
<1>4. \A q \in Procs : q # p => (On(q, l)' <=> On(q, l))
  BY <1>3 DEF On
<1>5. RequestOK(p)'
  BY <1>1, <1>3, RequestFields DEF RequestOK, Inv, GoesOn
<1>6. \A q \in Procs : q # p => RequestOK(q)'
  <2>1. \A q \in Procs : req[q] # Idle /\ req[q].pc = "create" => creating' = creating
    BY DEF RequestOK, Inv
  <2> QED
    BY <1>3, <2>1 DEF RequestOK, Inv
<1>7. \A q \in Procs : req'[q] # Idle => req'[q].lab \in LabCopy
  BY <1>3, RequestFields
<1>8. FreshOK(l)'
  BY <1>1 DEF FreshOK
<1> QED
  BY <1>3, <1>4, <1>5, <1>6, <1>7, <1>8

(* The step before the event. *)
LEMMA CommitKeeps ==
  ASSUME Inv, NEW p \in Procs, Commit(p)
  PROVE  Inv'
<1>1. /\ req[p].op # "idle" /\ req[p].pc = "commit" /\ Stable /\ unused' = unused /\ contended' = contended
      /\ reviving' = reviving /\ creating' = creating
  BY DEF Commit, Stable
<1>2. PICK lab : lab = req[p].lab
  OBVIOUS
<1>3. PICK l : l = lab.uuid
  OBVIOUS
<1>4. /\ req \in [Procs -> Request \cup {Idle}]
      /\ req[p] \in Request /\ req[p] # Idle /\ lab \in LabCopy /\ l \in Labs /\ On(p, l) /\ Busy(l)
      /\ l \notin unused /\ l \notin reviving
      /\ l \notin contended => LabOK(l) /\ db[l] # NoLab /\ \A q \in Procs : On(q, l) => q = p
  BY <1>1, <1>2, <1>3, Serving
<1>5. PICK op : op = req[p].op
  OBVIOUS
<1>6. op \in {"update", "rename", "delete", "deploy"}
  BY <1>1, <1>4, <1>5 DEF Inv, RequestOK
<1>7. PICK r : r = IF op = "rename" THEN Idle ELSE [req[p] EXCEPT !.pc = "deployment"]
  OBVIOUS
<1>8. op # "rename" => r \in Request /\ r # Idle /\ r.op = op /\ r.lab = lab /\ r.pc = "deployment"
  <2>1. op # "rename" => r \in Request /\ r.op = op /\ r.lab = lab /\ r.pc = "deployment"
    BY <1>2, <1>4, <1>5, <1>7 DEF Request
  <2> QED
    BY <2>1, RequestFields
<1>9. GoesOn(p, r)
  <2>1. req' = [req EXCEPT ![p] = r]
    BY <1>5, <1>7 DEF Commit
  <2>2. op = "rename" => r = Idle
    BY <1>7
  <2> QED
    BY <1>2, <1>5, <1>8, <2>1, <2>2 DEF GoesOn
<1>10. /\ req' \in [Procs -> Request \cup {Idle}]
       /\ req'[p] = r
       /\ \A q \in Procs : q # p => req'[q] = req[q]
       /\ \A k : k # l => \A q \in Procs : On(q, k) \/ On(q, k)' => req'[q] = req[q]
       /\ \A q \in Procs : q # p => (On(q, l)' <=> On(q, l))
       /\ \A q \in Procs : RequestOK(q)'
       /\ \A q \in Procs : req'[q] # Idle => req'[q].lab \in LabCopy
       /\ FreshOK(l)'
  BY <1>1, <1>2, <1>3, <1>9, GoesOnFacts
<1>11. TypeOK /\ ShapeOK /\ DeletedOK(l)
  BY <1>4 DEF Inv
<1>12. PICK row : row = [start |-> lab.start, end |-> lab.end]
  OBVIOUS
<1>13. row \in Row /\ row # NoLab /\ row.start = lab.start /\ row.end = lab.end
  BY <1>4, <1>12, LabFields
<1>14. /\ op # "delete" => /\ db' = [db EXCEPT ![l] = row] /\ env' = env
                           /\ waiting' = IF op = "update" THEN waiting \cup {l} ELSE waiting
       /\ op = "delete" => env' = env \ {l} /\ db' = db /\ waiting' = waiting
  BY <1>2, <1>3, <1>5, <1>12 DEF Commit
<1>15. /\ \A k \in Labs : k # l => db'[k] = db[k]
       /\ op # "delete" => db'[l] = row
  BY <1>11, <1>4, <1>14 DEF TypeOK
<1>16. ShapeOK'
  BY <1>1, <1>10, <1>11, StableFacts DEF ShapeOK
<1>17. TypeOK'
  <2>1. db' \in [Labs -> Row \cup {NoLab}]
    BY <1>11, <1>13, <1>14 DEF TypeOK
  <2>2. env' \subseteq Labs /\ waiting' \subseteq Labs
    BY <1>4, <1>11, <1>14 DEF TypeOK
  <2> QED
    BY <1>1, <1>10, <1>11, <2>1, <2>2, StableFacts DEF TypeOK
<1>18. \A k \in Labs \ {l} : Elsewhere(k)
  <2>1. now <= now'
    BY <1>1, <1>11, StableFacts, SchedulerAssumption DEF TypeOK
  <2>2. \A k \in Labs \ {l} : (k \in env' <=> k \in env) /\ (k \in waiting' <=> k \in waiting)
    BY <1>14
  <2> QED
    BY <1>1, <1>10, <1>15, <2>1, <2>2, StableFacts DEF Elsewhere
<1>19. DeletedOK(l)'
  <2>1. CASE op = "delete"
    BY <1>14, <2>1 DEF DeletedOK
  <2>2. CASE op # "delete"
    <3>1. \A q \in Procs : At(q, l, {"delete"}, {"deployment", "destruction", "finish"})'
            => At(q, l, {"delete"}, {"deployment", "destruction", "finish"})
      <4>1. ~At(p, l, {"delete"}, {"deployment", "destruction", "finish"})'
        BY <1>8, <1>10, <1>7, <2>2 DEF At, On
      <4> QED
        BY <1>10, <4>1 DEF At, On
    <3> QED
      BY <1>11, <1>13, <1>14, <1>15, <2>2, <3>1 DEF DeletedOK
  <2> QED
    BY <2>1, <2>2
<1>20. ASSUME l \notin contended'
       PROVE  LabOK(l)'
  <2>1. /\ LabOK(l) /\ db[l] # NoLab /\ \A q \in Procs : On(q, l) => q = p
        /\ \A q \in Procs : On(q, l)' => q = p
    BY <1>1, <1>4, <1>10, <1>20
  <2>2. db[l] \in Row
    BY <1>4, <1>11, <2>1, LabTypes
  <2>3. CASE op = "rename"
    <3>1. lab.start = db[l].start /\ lab.end = db[l].end
      BY <1>1, <1>2, <1>4, <1>5, <2>1, <2>3 DEF LabOK, RowOK, At
    <3>2. db'[l] = db[l]
      BY <1>12, <1>15, <2>2, <2>3, <3>1, LabFields
    <3>3. \A q \in Procs : ~On(q, l)'
      BY <1>7, <1>10, <2>1, <2>3 DEF On
    <3>4. env' = env /\ waiting' = waiting
      BY <1>14, <2>3
    <3>5. EndLive(l)' => EndLive(l)
      BY <1>1, <3>2, StableFacts DEF EndLive
    <3>6. RowOK(l)'
      BY <3>3 DEF RowOK, At
    <3>7. EntryOK(l)'
      BY <1>1, <1>5, <2>1, <2>3, <3>2, <3>3, StableFacts DEF LabOK, EntryOK, At
    <3>8. WaitingOK(l)'
      BY <1>1, <1>5, <2>1, <2>3, <3>2, <3>3, <3>4, StableFacts DEF LabOK, WaitingOK, At, StartQueued
    <3>9. EndOK(l)'
      BY <1>1, <1>5, <2>1, <2>3, <3>2, <3>3, <3>4, <3>5, StableFacts DEF LabOK, EndOK, At, EndQueued
    <3> QED
      BY <3>6, <3>7, <3>8, <3>9 DEF LabOK
  <2>4. CASE op \in {"update", "deploy"}
    <3>1. /\ db'[l] = row /\ env' = env
          /\ waiting' = IF op = "update" THEN waiting \cup {l} ELSE waiting
      BY <1>14, <1>15, <2>4
    <3>2. r # Idle /\ r.op = op /\ r.lab = lab /\ r.pc = "deployment"
      BY <1>8, <2>4
    <3>3. On(p, l)'
      BY <1>3, <1>10, <3>2 DEF On
    <3>4. op = "deploy" => lab.start = db[l].start
      BY <1>1, <1>2, <1>4, <1>5, <2>1 DEF LabOK, RowOK, At
    <3>5. RowOK(l)'
      BY <1>10, <1>13, <2>1, <2>4, <3>1, <3>2 DEF RowOK, At
    <3>6. At(p, l, {"update", "deploy"}, {"deployment"})'
      BY <1>10, <2>4, <3>2, <3>3 DEF At
    <3>7. EntryOK(l)'
      BY <1>1, <1>10, <2>1, <3>2, <3>6, StableFacts DEF LabOK, EntryOK, At
    <3>8. WaitingOK(l)'
      <4>1. CASE op = "update"
        BY <1>10, <1>13, <2>1, <3>1, <3>2, <3>3, <4>1 DEF WaitingOK, At
      <4>2. CASE op = "deploy"
        <5>1. l \in waiting => StartQueued(l)
          BY <1>5, <2>1, <4>2 DEF LabOK, WaitingOK, At
        <5>2. StartQueued(l) => StartQueued(l)'
          BY <1>1, <1>13, <3>1, <3>4, <4>2, StableFacts DEF StartQueued
        <5> QED
          BY <1>10, <1>13, <2>1, <3>1, <3>2, <4>2, <5>1, <5>2 DEF WaitingOK, At
      <4> QED
        BY <2>4, <4>1, <4>2
    <3>9. EndOK(l)'
      <4>1. At(p, l, {"create", "update", "deploy", "revive", "restore"}, {"deployment", "destruction"})'
        BY <1>10, <2>4, <3>2, <3>3 DEF At
      <4> QED
        BY <1>10, <2>1, <3>2, <4>1 DEF EndOK, At
    <3> QED
      BY <3>5, <3>7, <3>8, <3>9 DEF LabOK
  <2>5. CASE op = "delete"
    <3>1. l \notin env' /\ db' = db /\ waiting' = waiting
      BY <1>14, <2>5
    <3>2. r # Idle /\ r.op = "delete" /\ r.lab = lab /\ r.pc = "deployment"
      BY <1>8, <2>5
    <3>3. RowOK(l)'
      BY <1>10, <2>1, <3>1, <3>2 DEF RowOK, At
    <3>4. EntryOK(l)'
      BY <1>1, <1>5, <1>10, <2>1, <2>5, <3>1, <3>2, StableFacts DEF LabOK, EntryOK, At
    <3>5. WaitingOK(l)'
      BY <1>1, <1>5, <1>10, <2>1, <2>5, <3>1, <3>2, StableFacts DEF LabOK, WaitingOK, At, StartQueued
    <3>6. EndOK(l)'
      BY <1>10, <2>1, <3>1, <3>2 DEF EndOK, At
    <3> QED
      BY <3>3, <3>4, <3>5, <3>6 DEF LabOK
  <2> QED
    BY <1>6, <2>3, <2>4, <2>5
<1> QED
  BY <1>4, <1>10, <1>16, <1>17, <1>18, <1>19, <1>20, StepOfOneLab

(* The step before the event fails. *)
LEMMA CommitFailsKeeps ==
  ASSUME Inv, NEW p \in Procs, CommitFails(p)
  PROVE  Inv'
<1>1. /\ req[p].op # "idle" /\ req[p].pc = "commit" /\ Stable /\ unused' = unused /\ contended' = contended
      /\ reviving' = reviving /\ creating' = creating /\ db' = db /\ env' = env /\ waiting' = waiting
  BY DEF CommitFails, Stable, history
<1>2. PICK lab : lab = req[p].lab
  OBVIOUS
<1>3. PICK l : l = lab.uuid
  OBVIOUS
<1>4. /\ req \in [Procs -> Request \cup {Idle}]
      /\ req[p] \in Request /\ req[p] # Idle /\ lab \in LabCopy /\ l \in Labs /\ On(p, l) /\ Busy(l)
      /\ l \notin contended => LabOK(l) /\ db[l] # NoLab /\ \A q \in Procs : On(q, l) => q = p
  BY <1>1, <1>2, <1>3, Serving
<1>5. PICK op : op = req[p].op
  OBVIOUS
<1>6. PICK r : r = IF op = "deploy" THEN [req[p] EXCEPT !.pc = "deployment"] ELSE Idle
  OBVIOUS
<1>7. op = "deploy" => r \in Request /\ r # Idle /\ r.op = op /\ r.lab = lab /\ r.pc = "deployment"
  <2>1. op = "deploy" => r \in Request /\ r.op = op /\ r.lab = lab /\ r.pc = "deployment"
    BY <1>2, <1>4, <1>5, <1>6 DEF Request
  <2> QED
    BY <2>1, RequestFields
<1>8. op # "deploy" => r = Idle
  BY <1>6
<1>9. GoesOn(p, r)
  <2>1. req' = [req EXCEPT ![p] = r]
    BY <1>5, <1>6 DEF CommitFails
  <2> QED
    BY <1>2, <1>5, <1>7, <1>8, <2>1 DEF GoesOn
<1>10. /\ req' \in [Procs -> Request \cup {Idle}]
       /\ req'[p] = r
       /\ \A q \in Procs : q # p => req'[q] = req[q]
       /\ \A k : k # l => \A q \in Procs : On(q, k) \/ On(q, k)' => req'[q] = req[q]
       /\ \A q \in Procs : q # p => (On(q, l)' <=> On(q, l))
       /\ \A q \in Procs : RequestOK(q)'
       /\ \A q \in Procs : req'[q] # Idle => req'[q].lab \in LabCopy
       /\ FreshOK(l)'
  BY <1>1, <1>2, <1>3, <1>9, GoesOnFacts
<1>11. TypeOK /\ ShapeOK /\ DeletedOK(l)
  BY <1>4 DEF Inv
<1>12. ShapeOK'
  BY <1>1, <1>10, <1>11, StableFacts DEF ShapeOK
<1>13. TypeOK'
  BY <1>1, <1>10, <1>11, StableFacts DEF TypeOK
<1>14. \A k \in Labs \ {l} : Elsewhere(k)
  <2>1. now <= now'
    BY <1>1, <1>11, StableFacts, SchedulerAssumption DEF TypeOK
  <2> QED
    BY <1>1, <1>10, <2>1, StableFacts DEF Elsewhere
<1>15. DeletedOK(l)'
  <2>1. \A q \in Procs : At(q, l, {"delete"}, {"deployment", "destruction", "finish"})'
          => At(q, l, {"delete"}, {"deployment", "destruction", "finish"})
    BY <1>7, <1>8, <1>10 DEF At, On
  <2>2. Busy(l)
    BY <1>4
  <2> QED
    BY <1>1, <1>11, <2>1, <2>2 DEF DeletedOK, Untouched
<1>16. ASSUME l \notin contended'
       PROVE  LabOK(l)'
  <2>1. /\ LabOK(l) /\ db[l] # NoLab /\ \A q \in Procs : On(q, l) => q = p
        /\ \A q \in Procs : On(q, l)' => q = p
    BY <1>1, <1>4, <1>10, <1>16
  <2>2. EndLive(l)' <=> EndLive(l)
    BY <1>1, StableFacts DEF EndLive
  <2>3. CASE op = "deploy"
    <3>1. r # Idle /\ r.op = op /\ r.lab = lab /\ r.pc = "deployment" /\ On(p, l)'
      BY <1>3, <1>7, <1>10, <2>3 DEF On
    <3>2. lab.start = db[l].start /\ (EndLive(l) => lab.end = db[l].end)
      BY <1>1, <1>2, <1>4, <1>5, <2>1, <2>3 DEF LabOK, RowOK, At
    <3>3. RowOK(l)'
      BY <1>1, <1>10, <2>1, <2>2, <2>3, <3>1, <3>2 DEF RowOK, At
    <3>4. At(p, l, {"update", "deploy"}, {"deployment"})'
      BY <1>10, <2>3, <3>1 DEF At
    <3>5. EntryOK(l)'
      BY <1>1, <1>10, <2>1, <3>1, <3>4, StableFacts DEF LabOK, EntryOK, At
    <3>6. WaitingOK(l)'
      BY <1>1, <1>5, <1>10, <2>1, <2>3, <3>1, StableFacts DEF LabOK, WaitingOK, At, StartQueued
    <3>7. EndOK(l)'
      <4>1. At(p, l, {"create", "update", "deploy", "revive", "restore"}, {"deployment", "destruction"})'
        BY <1>10, <2>3, <3>1 DEF At
      <4> QED
        BY <1>10, <2>1, <3>1, <4>1 DEF EndOK, At
    <3> QED
      BY <3>3, <3>5, <3>6, <3>7 DEF LabOK
  <2>4. CASE op # "deploy"
    <3>1. \A q \in Procs : ~On(q, l)'
      BY <1>8, <1>10, <2>1, <2>4 DEF On
    <3>2. RowOK(l)'
      BY <3>1 DEF RowOK, At
    <3>3. EntryOK(l)'
      BY <1>1, <1>5, <2>1, <3>1, StableFacts DEF LabOK, EntryOK, At
    <3>4. WaitingOK(l)'
      BY <1>1, <1>5, <2>1, <3>1, StableFacts DEF LabOK, WaitingOK, At, StartQueued
    <3>5. EndOK(l)'
      BY <1>1, <1>5, <2>1, <2>2, <3>1, StableFacts DEF LabOK, EndOK, At, EndQueued
    <3> QED
      BY <3>2, <3>3, <3>4, <3>5 DEF LabOK
  <2> QED
    BY <2>3, <2>4
<1> QED
  BY <1>4, <1>10, <1>12, <1>13, <1>14, <1>15, <1>16, StepOfOneLab

(* The first half of the handler. *)
LEMMA HandleDeploymentKeeps ==
  ASSUME Inv, NEW p \in Procs, HandleDeployment(p)
  PROVE  Inv'
<1>1. /\ req[p].op # "idle" /\ req[p].pc = "deployment" /\ now' = now /\ unused' = unused /\ db' = db
      /\ env' = env /\ inst' = inst /\ creating' = creating /\ containers' = containers /\ des' = des /\ loop' = loop
      /\ tasks' = tasks /\ reviving' = reviving /\ overtaken' = overtaken /\ contended' = contended
  BY DEF HandleDeployment
<1>2. PICK lab : lab = req[p].lab
  OBVIOUS
<1>3. PICK l : l = lab.uuid
  OBVIOUS
<1>4. /\ req \in [Procs -> Request \cup {Idle}]
      /\ req[p] \in Request /\ req[p] # Idle /\ lab \in LabCopy /\ l \in Labs /\ On(p, l) /\ Busy(l)
      /\ l \notin contended => LabOK(l) /\ db[l] # NoLab /\ \A q \in Procs : On(q, l) => q = p
  BY <1>1, <1>2, <1>3, Serving
<1>5. PICK op : op = req[p].op
  OBVIOUS
<1>6. op \in {"create", "update", "delete", "deploy", "destroy", "revive", "restore"}
  BY <1>1, <1>4, <1>5, RequestFields DEF Inv, RequestOK
<1>7. PICK r : r = [req[p] EXCEPT !.pc = "destruction"]
  OBVIOUS
<1>8. r \in Request /\ r # Idle /\ r.op = op /\ r.lab = lab /\ r.pc = "destruction"
  <2>1. r \in Request /\ r.op = op /\ r.lab = lab /\ r.pc = "destruction"
    BY <1>2, <1>4, <1>5, <1>7 DEF Request
  <2> QED
    BY <2>1, RequestFields
<1>9. GoesOn(p, r)
  <2>1. req' = [req EXCEPT ![p] = r]
    BY <1>7 DEF HandleDeployment
  <2> QED
    BY <1>2, <1>5, <1>6, <1>8, <2>1 DEF GoesOn
<1>10. /\ req' \in [Procs -> Request \cup {Idle}]
       /\ req'[p] = r
       /\ \A q \in Procs : q # p => req'[q] = req[q]
       /\ \A k : k # l => \A q \in Procs : On(q, k) \/ On(q, k)' => req'[q] = req[q]
       /\ \A q \in Procs : q # p => (On(q, l)' <=> On(q, l))
       /\ \A q \in Procs : RequestOK(q)'
       /\ \A q \in Procs : req'[q] # Idle => req'[q].lab \in LabCopy
       /\ FreshOK(l)'
  BY <1>1, <1>2, <1>3, <1>9, GoesOnFacts
<1>11. TypeOK /\ ShapeOK /\ DeletedOK(l)
  BY <1>4 DEF Inv
<1>12. PICK event : event = EventOf(op)
  OBVIOUS
<1>13. /\ event \in Events
       /\ op \in {"create", "revive"} => event = "lab.created"
       /\ op = "update" => event = "lab.moved"
       /\ op \in {"delete", "destroy"} => event = "lab.deleted"
       /\ op = "deploy" => event = "lab.manually-deployed"
       /\ op = "restore" => event = "lab.restored"
  BY <1>6, <1>12 DEF EventOf, Events
<1>14. /\ dep' = OnDeployment(event, lab)
       /\ waiting' = IF event \in {"lab.deleted", "lab.manually-deployed"} THEN waiting \ {l} ELSE waiting
  BY <1>2, <1>3, <1>5, <1>12 DEF HandleDeployment
<1>15. /\ GoodQueue(dep')
       /\ \A k : k # l => SameEntries(dep, dep', k)
       /\ op = "restore" => dep' = dep
       /\ op \in {"create", "revive"} /\ Entries(dep, l) = {} => OnlyEntry(dep', lab)
       /\ op = "update" /\ OneEntry(dep, l) => OnlyEntry(dep', lab)
       /\ op \in {"delete", "destroy", "deploy"} /\ OneEntry(dep, l) => Entries(dep', l) = {}
  <2>1. GoodQueue(dep)
    BY <1>11 DEF ShapeOK
  <2>2. PICK d : d = OnDeployment(event, lab)
    OBVIOUS
  <2>3. /\ GoodQueue(d)
        /\ \A k : k # l => SameEntries(dep, d, k)
        /\ op = "restore" => d = dep
        /\ op \in {"create", "revive"} /\ Entries(dep, l) = {} => OnlyEntry(d, lab)
        /\ op = "update" /\ OneEntry(dep, l) => OnlyEntry(d, lab)
        /\ op \in {"delete", "destroy", "deploy"} /\ OneEntry(dep, l) => Entries(d, l) = {}
    BY <1>3, <1>4, <1>13, <2>1, <2>2, OnDeploymentEntries
  <2> QED
    BY <1>14, <2>2, <2>3
<1>16. /\ Starting' = Starting /\ \A k : Entries(des, k)' = Entries(des, k)
       /\ \A k : Entries(dep, k)' = Entries(dep', k)
  BY <1>1 DEF Starting, Entries
<1>17. ShapeOK'
  BY <1>1, <1>10, <1>11, <1>15 DEF ShapeOK
<1>18. TypeOK'
  <2>1. waiting' \subseteq Labs
    BY <1>11, <1>14 DEF TypeOK
  <2> QED
    BY <1>1, <1>10, <1>11, <2>1 DEF TypeOK
<1>19. \A k \in Labs \ {l} : Elsewhere(k)
  <2>1. now <= now'
    BY <1>1, <1>11, SchedulerAssumption DEF TypeOK
  <2>2. \A k \in Labs \ {l} : k \in waiting' <=> k \in waiting
    BY <1>14
  <2> QED
    BY <1>1, <1>10, <1>15, <1>16, <2>1, <2>2 DEF Elsewhere
<1>20. DeletedOK(l)'
  <2>1. \A q \in Procs : At(q, l, {"delete"}, {"deployment", "destruction", "finish"})'
          => At(q, l, {"delete"}, {"deployment", "destruction", "finish"})
    BY <1>1, <1>4, <1>5, <1>8, <1>10 DEF At, On
  <2>2. Busy(l)
    BY <1>4
  <2> QED
    BY <1>1, <1>11, <2>1, <2>2 DEF DeletedOK, Untouched
<1>21. ASSUME l \notin contended'
       PROVE  LabOK(l)'
  <2>1. /\ LabOK(l) /\ db[l] # NoLab /\ \A q \in Procs : On(q, l) => q = p
        /\ \A q \in Procs : On(q, l)' => q = p
    BY <1>1, <1>4, <1>10, <1>21
  <2>2. EndLive(l)' <=> EndLive(l)
    BY <1>1 DEF EndLive
  <2>3. On(p, l)'
    BY <1>3, <1>8, <1>10 DEF On
  <2>4. /\ op \in {"create", "update", "revive", "restore"} => lab.start = db[l].start /\ lab.end = db[l].end
        /\ op = "deploy" => lab.start = db[l].start /\ (EndLive(l) => lab.end = db[l].end)
    BY <1>1, <1>2, <1>4, <1>5, <2>1 DEF LabOK, RowOK, At
  <2>5. OneEntry(dep, l) /\ (op \in {"create", "revive"} => Entries(dep, l) = {})
    BY <1>1, <1>4, <1>5, <2>1 DEF LabOK, EntryOK, At
  <2>6. RowOK(l)'
    <3>1. \A q \in Procs : On(q, l)' => q = p /\ req'[q] = r
      BY <1>10, <2>1
    <3>2. op # "deploy" => \A q \in Procs : ~At(q, l, {"deploy"}, {"commit", "deployment", "destruction", "finish", "create"})'
      BY <1>8, <3>1 DEF At
    <3>3. op \in {"deploy", "delete", "destroy"} =>
            \A q \in Procs : /\ ~At(q, l, {"create", "rename", "revive", "restore"}, {"commit", "deployment", "destruction"})'
                            /\ ~At(q, l, {"update"}, {"deployment", "destruction"})'
      BY <1>8, <3>1 DEF At
    <3>4. op \in {"create", "update", "revive", "restore"} => r.lab.start = db'[l].start /\ r.lab.end = db'[l].end
      BY <1>1, <1>8, <2>4
    <3>5. op = "deploy" => r.lab.start = db'[l].start /\ (EndLive(l)' => r.lab.end = db'[l].end)
      BY <1>1, <1>8, <2>2, <2>4
    <3>6. \A q \in Procs : At(q, l, {"deploy"}, {"commit", "deployment", "destruction", "finish", "create"})'
            => req'[q] = r /\ op = "deploy"
      BY <3>1, <3>2 DEF At
    <3>7. \A q \in Procs : (At(q, l, {"create", "rename", "revive", "restore"}, {"commit", "deployment", "destruction"})'
                            \/ At(q, l, {"update"}, {"deployment", "destruction"})')
            => req'[q] = r /\ op \in {"create", "update", "revive", "restore"}
      BY <1>6, <3>1, <3>3 DEF At
    <3>8. db'[l] # NoLab
      BY <1>1, <2>1
    <3> QED
      BY <3>1, <3>4, <3>5, <3>6, <3>7, <3>8 DEF RowOK
  <2>7. EntryOK(l)' /\ WaitingOK(l)'
    <3>1. CASE op \in {"create", "update", "revive"}
      <4>1. PICK c \in Item : /\ c.start = db[l].start /\ c.end = db[l].end
                              /\ Entries(dep', l) = {c}
                              /\ l \in DOMAIN dep'.scheduleMap /\ dep'.scheduleMap[l] = c
        BY <1>3, <1>15, <2>4, <2>5, <3>1 DEF OnlyEntry
      <4>2. Entries(dep, l)' = {c}
        BY <1>16, <4>1
      <4>3. EntryOK(l)'
        <5>1. OneEntry(dep, l)'
          BY <4>1, <4>2 DEF OneEntry
        <5> QED
          BY <1>1, <1>8, <1>10, <2>1, <3>1, <4>1, <4>2, <5>1 DEF EntryOK, At
      <4>4. WaitingOK(l)'
        BY <1>1, <1>8, <1>10, <2>1, <3>1, <4>1, <4>2 DEF WaitingOK, At, StartQueued
      <4> QED
        BY <4>3, <4>4
    <3>2. CASE op \in {"delete", "deploy", "destroy"}
      <4>1. Entries(dep, l)' = {} /\ l \notin waiting'
        BY <1>13, <1>14, <1>15, <1>16, <2>5, <3>2
      <4> QED
        BY <4>1 DEF EntryOK, OneEntry, WaitingOK
    <3>3. CASE op = "restore"
      <4>1. dep' = dep /\ waiting' = waiting
        BY <1>13, <1>14, <1>15, <3>3
      <4>2. EntryOK(l)'
        BY <1>1, <1>5, <1>8, <1>10, <2>1, <3>3, <4>1 DEF LabOK, EntryOK, At, OneEntry, Entries
      <4>3. WaitingOK(l)'
        BY <1>1, <1>5, <1>8, <1>10, <2>1, <3>3, <4>1 DEF LabOK, WaitingOK, At, StartQueued, Entries
      <4> QED
        BY <4>2, <4>3
    <3> QED
      BY <1>6, <3>1, <3>2, <3>3
  <2>8. EndOK(l)'
    <3>1. CASE op \in {"create", "update", "deploy", "revive", "restore"}
      <4>1. At(p, l, {"create", "update", "deploy", "revive", "restore"}, {"deployment", "destruction"})'
        BY <1>8, <1>10, <2>3, <3>1 DEF At
      <4> QED
        BY <1>8, <1>10, <2>1, <4>1 DEF EndOK, At
    <3>2. CASE op = "delete"
      <4>1. l \notin env'
        BY <1>1, <1>4, <1>5, <1>11, <3>2 DEF DeletedOK, At
      <4> QED
        BY <1>8, <1>10, <2>1, <4>1 DEF EndOK, At
    <3>3. CASE op = "destroy"
      BY <1>1, <1>5, <1>8, <1>10, <1>16, <2>1, <2>2, <3>3 DEF LabOK, EndOK, At, EndQueued
    <3> QED
      BY <1>6, <3>1, <3>2, <3>3
  <2> QED
    BY <2>6, <2>7, <2>8 DEF LabOK
<1> QED
  BY <1>4, <1>10, <1>17, <1>18, <1>19, <1>20, <1>21, StepOfOneLab

(* The second half of the handler: whoever queues an end queues the end of *)
(* the row.                                                                *)
LEMMA HandleDestructionKeeps ==
  ASSUME Inv, NEW p \in Procs, HandleDestruction(p)
  PROVE  Inv'
<1>1. /\ req[p].op # "idle" /\ req[p].pc = "destruction" /\ now' = now /\ unused' = unused /\ db' = db
      /\ env' = env /\ inst' = inst /\ creating' = creating /\ containers' = containers /\ dep' = dep /\ loop' = loop
      /\ tasks' = tasks /\ reviving' = reviving /\ waiting' = waiting /\ contended' = contended
  BY DEF HandleDestruction
<1>2. PICK lab : lab = req[p].lab
  OBVIOUS
<1>3. PICK l : l = lab.uuid
  OBVIOUS
<1>4. /\ req \in [Procs -> Request \cup {Idle}]
      /\ req[p] \in Request /\ req[p] # Idle /\ lab \in LabCopy /\ l \in Labs /\ On(p, l) /\ Busy(l)
      /\ l \notin contended => LabOK(l) /\ db[l] # NoLab /\ \A q \in Procs : On(q, l) => q = p
  BY <1>1, <1>2, <1>3, Serving
<1>5. PICK op : op = req[p].op
  OBVIOUS
<1>6. op \in {"create", "update", "delete", "deploy", "destroy", "revive", "restore"}
  BY <1>1, <1>4, <1>5, RequestFields DEF Inv, RequestOK
<1>7. PICK r : r = IF op \in {"delete", "deploy", "destroy"} THEN [req[p] EXCEPT !.pc = "finish"] ELSE Idle
  OBVIOUS
<1>8. op \in {"delete", "deploy", "destroy"} => r \in Request /\ r # Idle /\ r.op = op /\ r.lab = lab /\ r.pc = "finish"
  <2>1. op \in {"delete", "deploy", "destroy"} => r \in Request /\ r.op = op /\ r.lab = lab /\ r.pc = "finish"
    BY <1>2, <1>4, <1>5, <1>7 DEF Request
  <2> QED
    BY <2>1, RequestFields
<1>9. op \notin {"delete", "deploy", "destroy"} => r = Idle
  BY <1>7
<1>10. GoesOn(p, r)
  <2>1. req' = [req EXCEPT ![p] = r]
    BY <1>5, <1>7 DEF HandleDestruction
  <2> QED
    BY <1>2, <1>5, <1>6, <1>8, <1>9, <2>1 DEF GoesOn
<1>11. /\ req' \in [Procs -> Request \cup {Idle}]
       /\ req'[p] = r
       /\ \A q \in Procs : q # p => req'[q] = req[q]
       /\ \A k : k # l => \A q \in Procs : On(q, k) \/ On(q, k)' => req'[q] = req[q]
       /\ \A q \in Procs : q # p => (On(q, l)' <=> On(q, l))
       /\ \A q \in Procs : RequestOK(q)'
       /\ \A q \in Procs : req'[q] # Idle => req'[q].lab \in LabCopy
       /\ FreshOK(l)'
  BY <1>1, <1>2, <1>3, <1>10, GoesOnFacts
<1>12. TypeOK /\ ShapeOK /\ DeletedOK(l)
  BY <1>4 DEF Inv
<1>13. PICK event : event = EventOf(op)
  OBVIOUS
<1>14. event \in Events /\ (event = "lab.deleted" <=> op \in {"delete", "destroy"})
  BY <1>6, <1>13 DEF EventOf, Events
<1>15. /\ des' = OnDestruction(event, lab)
       /\ overtaken' = IF event = "lab.deleted" THEN overtaken \cup ({l} \cap Starting) ELSE overtaken \ {l}
  BY <1>2, <1>3, <1>5, <1>13 DEF HandleDestruction
<1>16. /\ GoodQueue(des') /\ Timed(des')
       /\ \A k : k # l => Entries(des', k) = Entries(des, k)
       /\ op \notin {"delete", "destroy"} /\ lab.end # NoTime => \E item \in Entries(des', l) : item.end = lab.end
  <2>1. GoodQueue(des) /\ Timed(des)
    BY <1>12 DEF ShapeOK
  <2>2. PICK d : d = OnDestruction(event, lab)
    OBVIOUS
  <2>3. /\ GoodQueue(d) /\ Timed(d)
        /\ \A k : k # l => Entries(d, k) = Entries(des, k)
        /\ op \notin {"delete", "destroy"} /\ lab.end # NoTime => \E item \in Entries(d, l) : item.end = lab.end
    BY <1>3, <1>4, <1>14, <2>1, <2>2, OnDestructionEntries
  <2> QED
    BY <1>15, <2>2, <2>3
<1>17. /\ Starting' = Starting /\ \A k : Entries(dep, k)' = Entries(dep, k)
       /\ \A k : Entries(des, k)' = Entries(des', k)
       /\ \A k : OneEntry(dep, k)' <=> OneEntry(dep, k)
       /\ \A k : SameEntries(dep, dep', k)
  BY <1>1 DEF Starting, Entries, OneEntry, SameEntries
<1>18. ShapeOK'
  BY <1>1, <1>11, <1>12, <1>16 DEF ShapeOK
<1>19. TypeOK'
  <2>1. overtaken' \subseteq Labs
    BY <1>4, <1>12, <1>15 DEF TypeOK
  <2> QED
    BY <1>1, <1>11, <1>12, <2>1 DEF TypeOK
<1>20. \A k \in Labs \ {l} : Elsewhere(k)
  <2>1. now <= now'
    BY <1>1, <1>12, SchedulerAssumption DEF TypeOK
  <2>2. \A k \in Labs \ {l} : k \in overtaken' <=> k \in overtaken
    BY <1>15
  <2> QED
    BY <1>1, <1>11, <1>16, <1>17, <2>1, <2>2 DEF Elsewhere
<1>21. DeletedOK(l)'
  <2>1. \A q \in Procs : At(q, l, {"delete"}, {"deployment", "destruction", "finish"})'
          => At(q, l, {"delete"}, {"deployment", "destruction", "finish"})
    BY <1>1, <1>4, <1>5, <1>8, <1>9, <1>11 DEF At, On
  <2>2. Busy(l)
    BY <1>4
  <2> QED
    BY <1>1, <1>12, <2>1, <2>2 DEF DeletedOK, Untouched
<1>22. ASSUME l \notin contended'
       PROVE  LabOK(l)'
  <2>1. /\ LabOK(l) /\ db[l] # NoLab /\ \A q \in Procs : On(q, l) => q = p
        /\ \A q \in Procs : On(q, l)' => q = p /\ req'[q] = r
    BY <1>1, <1>4, <1>11, <1>22
  <2>2. EndLive(l)' <=> EndLive(l)
    BY <1>1 DEF EndLive
  <2>3. /\ op \in {"create", "update", "revive", "restore"} => lab.start = db[l].start /\ lab.end = db[l].end
        /\ op = "deploy" => lab.start = db[l].start /\ (EndLive(l) => lab.end = db[l].end)
    BY <1>1, <1>2, <1>4, <1>5, <2>1 DEF LabOK, RowOK, At
  <2>4. /\ \A item \in Entries(dep, l) : item.end = db[l].end
        /\ op \in {"delete", "deploy", "destroy"} => Entries(dep, l) = {} /\ l \notin waiting
        /\ l \in waiting => StartQueued(l)
    BY <1>1, <1>4, <1>5, <2>1 DEF LabOK, EntryOK, WaitingOK, At
  <2>5. op \notin {"delete", "destroy"} /\ EndLive(l) => EndQueued(l)'
    BY <1>1, <1>6, <1>16, <1>17, <2>3 DEF EndLive, EndQueued
  <2>6. CASE op \in {"create", "update", "revive", "restore"}
    <3>1. \A q \in Procs : ~On(q, l)'
      BY <1>9, <2>1, <2>6 DEF On
    <3>2. RowOK(l)'
      BY <3>1 DEF RowOK, At
    <3>3. EntryOK(l)'
      BY <1>1, <1>17, <2>1, <2>4, <3>1 DEF LabOK, EntryOK, At
    <3>4. WaitingOK(l)'
      BY <1>1, <1>17, <2>1, <2>4, <3>1 DEF WaitingOK, At, StartQueued
    <3>5. EndOK(l)'
      BY <2>2, <2>5, <2>6, <3>1 DEF EndOK, At
    <3> QED
      BY <3>2, <3>3, <3>4, <3>5 DEF LabOK
  <2>7. CASE op \in {"delete", "deploy", "destroy"}
    <3>1. r # Idle /\ r.op = op /\ r.lab = lab /\ r.pc = "finish" /\ On(p, l)'
      BY <1>3, <1>8, <1>11, <2>7 DEF On
    <3>2. RowOK(l)'
      <4>1. \A q \in Procs : /\ ~At(q, l, {"create", "rename", "revive", "restore"}, {"commit", "deployment", "destruction"})'
                             /\ ~At(q, l, {"update"}, {"deployment", "destruction"})'
        BY <2>1, <3>1 DEF At
      <4>2. \A q \in Procs : At(q, l, {"deploy"}, {"commit", "deployment", "destruction", "finish", "create"})'
              => req'[q].lab = lab /\ op = "deploy"
        BY <2>1, <3>1 DEF At
      <4>3. db' = db
        BY <1>1
      <4> QED
        BY <2>1, <2>2, <2>3, <4>1, <4>2, <4>3 DEF RowOK
    <3>3. EntryOK(l)'
      BY <1>17, <2>4, <2>7 DEF EntryOK, OneEntry
    <3>4. WaitingOK(l)'
      BY <1>1, <2>4, <2>7 DEF WaitingOK
    <3>5. EndOK(l)'
      <4>1. CASE op = "delete"
        <5>1. l \notin env'
          BY <1>1, <1>4, <1>5, <1>12, <4>1 DEF DeletedOK, At
        <5> QED
          BY <2>1, <3>1, <4>1, <5>1 DEF EndOK, At
      <4>2. CASE op = "deploy"
        BY <2>1, <2>2, <2>5, <3>1, <4>2 DEF EndOK, At
      <4>3. CASE op = "destroy"
        <5>1. At(p, l, {"destroy"}, {"finish"})'
          BY <1>11, <3>1, <4>3 DEF At
        <5>2. l \notin Starting' \/ l \in overtaken'
          BY <1>14, <1>15, <1>17, <4>3
        <5> QED
          BY <2>1, <3>1, <4>3, <5>1, <5>2 DEF EndOK, At
      <4> QED
        BY <2>7, <4>1, <4>2, <4>3
    <3> QED
      BY <3>2, <3>3, <3>4, <3>5 DEF LabOK
  <2> QED
    BY <1>6, <2>6, <2>7
<1> QED
  BY <1>4, <1>11, <1>18, <1>19, <1>20, <1>21, <1>22, StepOfOneLab

(* DeployLab gives no instance to a lab without one, but may begin to      *)
(* create it if the lab has a run environment.                             *)
LEMMA DeployLabFacts ==
  ASSUME TypeOK, NEW l \in Labs, DeployLab(l)
  PROVE  /\ inst' \in [Labs -> {"none", "up", "failed"}]
         /\ \A k \in Labs : k # l => inst'[k] = inst[k]
         /\ containers' \subseteq Labs
         /\ inst[l] = "none" => inst'[l] = "none"
         /\ creating = {}
         /\ creating' = creating \/ (creating' = {l} /\ inst[l] = "none" /\ l \in env)
<1>1. CASE IsRunning(l) /\ Deployed(l) /\ UNCHANGED creating
  BY <1>1 DEF TypeOK, DeployLab, Deployed, IsRunning, instancesUnlocked
<1>2. CASE ~IsRunning(l) /\ l \in env /\ creating' = {l} /\ UNCHANGED <<inst, containers>>
  BY <1>2 DEF TypeOK, DeployLab, IsRunning, instancesUnlocked
<1>3. CASE UNCHANGED <<inst, creating, containers>>
  BY <1>3 DEF TypeOK, DeployLab, instancesUnlocked
<1> QED
  BY <1>1, <1>2, <1>3 DEF DeployLab

(* DestroyLab never leaves the lab up. *)
LEMMA DestroyLabFacts ==
  ASSUME TypeOK, NEW l \in Labs, DestroyLab(l)
  PROVE  /\ inst' \in [Labs -> {"none", "up", "failed"}]
         /\ \A k \in Labs : k # l => inst'[k] = inst[k]
         /\ containers' \subseteq Labs
         /\ inst'[l] # "up"
         /\ inst[l] = "none" => inst'[l] = "none"
         /\ creating = {} /\ creating' = creating
  BY DEF TypeOK, DestroyLab, IsRunning, instancesUnlocked

(* The step after the event. *)
LEMMA FinishKeeps ==
  ASSUME Inv, NEW p \in Procs, Finish(p)
  PROVE  Inv'
<1>1. /\ req[p].op # "idle" /\ req[p].pc = "finish" /\ now' = now /\ unused' = unused
      /\ env' = env /\ dep' = dep /\ des' = des /\ loop' = loop /\ overtaken' = overtaken
      /\ tasks' = tasks /\ reviving' = reviving /\ waiting' = waiting /\ contended' = contended
  BY DEF Finish, history
<1>2. PICK lab : lab = req[p].lab
  OBVIOUS
<1>3. PICK l : l = lab.uuid
  OBVIOUS
<1>4. /\ req \in [Procs -> Request \cup {Idle}]
      /\ req[p] \in Request /\ req[p] # Idle /\ lab \in LabCopy /\ l \in Labs /\ On(p, l) /\ Busy(l)
      /\ l \notin contended => LabOK(l) /\ db[l] # NoLab /\ \A q \in Procs : On(q, l) => q = p
  BY <1>1, <1>2, <1>3, Serving
<1>5. PICK op : op = req[p].op
  OBVIOUS
<1>6. op \in {"delete", "deploy", "destroy"}
  BY <1>1, <1>4, <1>5 DEF Inv, RequestOK
<1>7. TypeOK /\ ShapeOK /\ DeletedOK(l)
  BY <1>4 DEF Inv
<1>8. /\ op = "delete" => /\ db' = [db EXCEPT ![l] = NoLab] \/ db' = db
                          /\ inst' = inst /\ creating' = creating /\ containers' = containers
      /\ op = "deploy" => DeployLab(l) /\ db' = db
      /\ op = "destroy" => DestroyLab(l) /\ db' = db
  BY <1>2, <1>3, <1>5 DEF Finish
<1>9. /\ inst' \in [Labs -> {"none", "up", "failed"}] /\ containers' \subseteq Labs
      /\ \A k \in Labs : k # l => inst'[k] = inst[k]
      /\ op = "destroy" => inst'[l] # "up"
      /\ creating' = creating \/ (creating = {} /\ creating' = {l} /\ op = "deploy")
  <2>1. CASE op = "delete"
    BY <1>7, <1>8, <2>1 DEF TypeOK
  <2>2. CASE op = "deploy"
    BY <1>4, <1>7, <1>8, <2>2, DeployLabFacts
  <2>3. CASE op = "destroy"
    BY <1>4, <1>7, <1>8, <2>3, DestroyLabFacts
  <2> QED
    BY <1>6, <2>1, <2>2, <2>3
<1>10. PICK r : r = IF creating' # creating THEN [req[p] EXCEPT !.pc = "create"] ELSE Idle
  OBVIOUS
<1>11. creating' # creating => r \in Request /\ r # Idle /\ r.op = op /\ r.lab = lab /\ r.pc = "create"
  <2>1. creating' # creating => r \in Request /\ r.op = op /\ r.lab = lab /\ r.pc = "create"
    BY <1>2, <1>4, <1>5, <1>10 DEF Request
  <2> QED
    BY <2>1, RequestFields
<1>12. creating' = creating => r = Idle
  BY <1>10
<1>13. GoesOn(p, r)
  <2>1. req' = [req EXCEPT ![p] = r]
    BY <1>10 DEF Finish
  <2> QED
    BY <1>2, <1>3, <1>5, <1>9, <1>11, <1>12, <2>1 DEF GoesOn
<1>14. /\ req' \in [Procs -> Request \cup {Idle}]
       /\ req'[p] = r
       /\ \A q \in Procs : q # p => req'[q] = req[q]
       /\ \A k : k # l => \A q \in Procs : On(q, k) \/ On(q, k)' => req'[q] = req[q]
       /\ \A q \in Procs : q # p => (On(q, l)' <=> On(q, l))
       /\ \A q \in Procs : RequestOK(q)'
       /\ \A q \in Procs : req'[q] # Idle => req'[q].lab \in LabCopy
       /\ FreshOK(l)'
  BY <1>1, <1>2, <1>3, <1>9, <1>13, GoesOnFacts
<1>15. /\ db' \in [Labs -> Row \cup {NoLab}]
       /\ \A k \in Labs : k # l => db'[k] = db[k]
       /\ db'[l] = db[l] \/ (op = "delete" /\ db'[l] = NoLab)
  BY <1>4, <1>6, <1>7, <1>8 DEF TypeOK
<1>16. /\ \A k \in Labs \ {l} : k \in Starting' <=> k \in Starting
       /\ creating' = creating => Starting' = Starting
       /\ \A k : Entries(dep, k)' = Entries(dep, k) /\ Entries(des, k)' = Entries(des, k)
       /\ \A k : SameEntries(dep, dep', k)
  BY <1>1, <1>9 DEF Starting, Entries, SameEntries
<1>17. ShapeOK'
  BY <1>1, <1>7, <1>9, <1>14 DEF ShapeOK
<1>18. TypeOK'
  BY <1>1, <1>4, <1>7, <1>9, <1>14, <1>15 DEF TypeOK
<1>19. \A k \in Labs \ {l} : Elsewhere(k)
  <2>1. now <= now'
    BY <1>1, <1>7, SchedulerAssumption DEF TypeOK
  <2> QED
    BY <1>1, <1>9, <1>14, <1>15, <1>16, <2>1 DEF Elsewhere
<1>20. DeletedOK(l)'
  <2>1. \A q \in Procs : At(q, l, {"delete"}, {"deployment", "destruction", "finish"})'
          => At(q, l, {"delete"}, {"deployment", "destruction", "finish"})
    BY <1>11, <1>12, <1>14 DEF At, On
  <2>2. op = "delete" => l \notin env
    BY <1>1, <1>4, <1>5, <1>7 DEF DeletedOK, At
  <2> QED
    BY <1>1, <1>4, <1>7, <1>15, <2>1, <2>2 DEF DeletedOK, Untouched
<1>21. ASSUME l \notin contended'
       PROVE  LabOK(l)'
  <2>1. /\ LabOK(l) /\ db[l] # NoLab /\ \A q \in Procs : On(q, l) => q = p
        /\ \A q \in Procs : On(q, l)' => q = p /\ req'[q] = r /\ r # Idle
    BY <1>1, <1>4, <1>14, <1>21 DEF On
  <2>2. Entries(dep, l) = {} /\ l \notin waiting
    BY <1>1, <1>4, <1>5, <1>6, <2>1 DEF LabOK, EntryOK, WaitingOK, At
  <2>3. EntryOK(l)'
    BY <1>16, <2>2 DEF EntryOK, OneEntry
  <2>4. WaitingOK(l)'
    BY <1>1, <2>2 DEF WaitingOK
  <2>5. op = "deploy" => (EndLive(l) => EndQueued(l))
    BY <1>1, <1>4, <1>5, <2>1 DEF LabOK, EndOK, At
  <2>6. op = "deploy" => (EndLive(l)' <=> EndLive(l)) /\ (EndQueued(l)' <=> EndQueued(l))
    BY <1>1, <1>8, <1>16 DEF EndLive, EndQueued
  <2>7. CASE creating' = creating
    <3>1. \A q \in Procs : ~On(q, l)'
      BY <1>12, <2>1, <2>7
    <3>2. RowOK(l)'
      BY <3>1 DEF RowOK, At
    <3>3. EndOK(l)'
      <4>1. CASE op = "delete"
        <5>1. l \notin env'
          BY <1>1, <1>4, <1>5, <1>7, <4>1 DEF DeletedOK, At
        <5> QED
          BY <3>1, <5>1 DEF EndOK, At
      <4>2. CASE op = "deploy"
        BY <2>5, <2>6, <3>1, <4>2 DEF EndOK, At
      <4>3. CASE op = "destroy"
        <5>1. l \notin Starting \/ l \in overtaken
          BY <1>1, <1>4, <1>5, <2>1, <4>3 DEF LabOK, EndOK, At
        <5> QED
          BY <1>1, <1>9, <1>16, <2>7, <3>1, <4>3, <5>1 DEF EndOK, At
      <4> QED
        BY <1>6, <4>1, <4>2, <4>3
    <3> QED
      BY <2>3, <2>4, <3>2, <3>3 DEF LabOK
  <2>8. CASE creating' # creating
    <3>1. op = "deploy" /\ r.op = op /\ r.lab = lab /\ r.pc = "create" /\ db' = db
      BY <1>8, <1>9, <1>11, <2>8
    <3>2. lab.start = db[l].start /\ (EndLive(l) => lab.end = db[l].end)
      BY <1>1, <1>2, <1>4, <1>5, <2>1, <3>1 DEF LabOK, RowOK, At
    <3>3. RowOK(l)'
      BY <2>1, <2>6, <3>1, <3>2 DEF RowOK, At
    <3>4. EndOK(l)'
      BY <2>1, <2>5, <2>6, <3>1 DEF EndOK, At
    <3> QED
      BY <2>3, <2>4, <3>3, <3>4 DEF LabOK
  <2> QED
    BY <2>7, <2>8
<1> QED
  BY <1>4, <1>14, <1>17, <1>18, <1>19, <1>20, <1>21, StepOfOneLab

-----------------------------------------------------------------------------
(***************************************************************************)
(* The Run loop and the goroutines it starts.                              *)
(***************************************************************************)

(* A goroutine is started, or runs. *)
LEMMA TasksFacts ==
  ASSUME TypeOK, NEW op \in {"deploy", "destroy"}, NEW l \in Labs, NEW n \in Nat,
         tasks' = [tasks EXCEPT ![op][l] = n]
  PROVE  /\ tasks' \in [{"deploy", "destroy"} -> [Labs -> Nat]]
         /\ \A k \in Labs : k # l => tasks'["deploy"][k] = tasks["deploy"][k]
         /\ op = "deploy" => tasks'["deploy"][l] = n
         /\ op = "destroy" => tasks'["deploy"] = tasks["deploy"]
<1>1. tasks \in [{"deploy", "destroy"} -> [Labs -> Nat]]
  BY DEF TypeOK
<1>2. CASE op = "deploy"
  BY <1>1, <1>2
<1>3. CASE op = "destroy"
  BY <1>1, <1>3
<1> QED
  BY <1>2, <1>3

(* The loop pops a deployment: the copy it holds has the end of the row,   *)
(* or a request is about to queue that end.                                *)
LEMMA PopDeploymentKeeps ==
  ASSUME Inv, LoopPopDeployment, D!Due(dep, now)
  PROVE  Inv'
<1>1. /\ loop.pc = "deploy" /\ now' = now /\ unused' = unused /\ db' = db /\ env' = env /\ inst' = inst
      /\ creating' = creating /\ containers' = containers /\ des' = des /\ req' = req /\ reviving' = reviving
      /\ overtaken' = overtaken /\ contended' = contended
  BY DEF LoopPopDeployment
<1>2. PICK lab : lab = Head(dep.schedule)
  OBVIOUS
<1>3. PICK l : l = lab.uuid
  OBVIOUS
<1>4. /\ dep.schedule # <<>>
      /\ tasks' = [tasks EXCEPT !["deploy"][l] = @ + 1]
      /\ loop' = [pc |-> "schedule", now |-> now, due |-> lab]
      /\ waiting' = waiting \ {l}
      /\ dep' = D!Popped(dep)
  BY <1>2, <1>3 DEF LoopPopDeployment, D!Due, Spawn
<1>5. loop'.pc = "schedule" /\ loop'.now = now /\ loop'.due = lab
  BY <1>4
<1>6. TypeOK /\ ShapeOK /\ GoodQueue(dep)
  BY DEF Inv, ShapeOK
<1>7. GoodQueue(dep') /\ Pops(dep, dep', lab)
  BY <1>2, <1>4, <1>6, PopPops
<1>8. /\ lab \in Item /\ l \in Labs
      /\ \A k : k # l => SameEntries(dep, dep', k)
      /\ lab \in Entries(dep, l)
      /\ OneEntry(dep, l) => Entries(dep', l) = {}
  <2>1. lab \in Item
    BY <1>7 DEF Pops
  <2>2. /\ \A k : k # l => SameEntries(dep, dep', k)
        /\ lab \in Entries(dep, l)
        /\ OneEntry(dep, l) => Entries(dep', l) = {}
    BY <1>3, <1>6, <1>7, PopsEntries
  <2> QED
    BY <1>3, <2>1, <2>2, ItemFields
<1>9. /\ tasks' \in [{"deploy", "destroy"} -> [Labs -> Nat]]
      /\ \A k \in Labs : k # l => tasks'["deploy"][k] = tasks["deploy"][k]
      /\ tasks'["deploy"][l] > 0
  <2>1. PICK n : n = tasks["deploy"][l] + 1
    OBVIOUS
  <2>2. n \in Nat /\ n > 0
    BY <1>6, <1>8, <2>1 DEF TypeOK
  <2>3. tasks' = [tasks EXCEPT !["deploy"][l] = n]
    BY <1>4, <2>1
  <2>4. /\ tasks' \in [{"deploy", "destroy"} -> [Labs -> Nat]]
        /\ \A k \in Labs : k # l => tasks'["deploy"][k] = tasks["deploy"][k]
        /\ tasks'["deploy"][l] = n
    BY <1>6, <1>8, <2>2, <2>3, TasksFacts
  <2> QED
    BY <2>2, <2>4
<1>10. /\ l \in Starting'
       /\ \A k \in Labs : k # l => (k \in Starting' <=> k \in Starting)
  BY <1>1, <1>3, <1>5, <1>8, <1>9 DEF Starting
<1>11. /\ \A k, q : On(q, k)' <=> On(q, k)
       /\ \A k, q, ops, steps : At(q, k, ops, steps)' <=> At(q, k, ops, steps)
       /\ \A k : Entries(des, k)' = Entries(des, k) /\ Entries(dep, k)' = Entries(dep', k)
       /\ EndLive(l)' <=> EndLive(l)
       /\ EndQueued(l)' <=> EndQueued(l)
  BY <1>1 DEF On, At, Entries, EndLive, EndQueued
<1>12. ShapeOK'
  <2>1. now \in Nat
    BY <1>6, SchedulerAssumption DEF TypeOK
  <2> QED
    BY <1>1, <1>5, <1>6, <1>7, <1>8, <2>1 DEF ShapeOK
<1>13. TypeOK'
  BY <1>1, <1>4, <1>5, <1>6, <1>9 DEF TypeOK
<1>14. \A q \in Procs : RequestOK(q)'
  BY <1>1 DEF Inv, RequestOK
<1>15. \A k \in Labs \ {l} : Elsewhere(k)
  <2>1. now <= now'
    BY <1>1, <1>6, SchedulerAssumption DEF TypeOK
  <2> QED
    BY <1>1, <1>4, <1>8, <1>10, <1>11, <2>1 DEF Elsewhere
<1>16. ~Untouched(l) /\ l \notin unused /\ l \notin reviving
  BY <1>8 DEF Inv, FreshOK, Untouched
<1>17. FreshOK(l)'
  BY <1>1, <1>16 DEF FreshOK
<1>18. DeletedOK(l)'
  BY <1>1, <1>8, <1>11, <1>16 DEF Inv, DeletedOK
<1>19. ASSUME l \notin contended'
       PROVE  LabOK(l)'
  <2>1. LabOK(l)
    BY <1>1, <1>8, <1>19 DEF Inv
  <2>2. Entries(dep, l)' = {} /\ l \notin waiting'
    BY <1>4, <1>8, <1>11, <2>1 DEF LabOK, EntryOK
  <2>3. RowOK(l)'
    BY <1>1, <1>11, <2>1 DEF LabOK, RowOK
  <2>4. EntryOK(l)'
    BY <2>2 DEF EntryOK, OneEntry
  <2>5. WaitingOK(l)'
    BY <2>2 DEF WaitingOK
  <2>6. EndOK(l)'
    <3>1. \/ lab.end = db[l].end
          \/ \E q \in Procs : At(q, l, {"update", "deploy"}, {"deployment"})
      BY <1>8, <2>1 DEF LabOK, EntryOK
    <3>2. \/ loop'.pc = "schedule" /\ loop'.due.uuid = l /\ loop'.due.end = db'[l].end
          \/ \E q \in Procs : At(q, l, {"create", "update", "deploy", "revive", "restore"}, {"deployment", "destruction"})'
      <4>1. \A q \in Procs : At(q, l, {"update", "deploy"}, {"deployment"})
              => At(q, l, {"create", "update", "deploy", "revive", "restore"}, {"deployment", "destruction"})
        BY DEF At
      <4> QED
        BY <1>1, <1>3, <1>5, <1>11, <3>1, <4>1
    <3>3. \A q \in Procs : ~At(q, l, {"destroy"}, {"finish"})
      BY <1>8, <2>1 DEF LabOK, EntryOK, At
    <3>4. \A q \in Procs : At(q, l, {"deploy"}, {"finish", "create"}) /\ EndLive(l) => EndQueued(l)
      BY <2>1 DEF LabOK, EndOK
    <3> QED
      BY <1>11, <3>2, <3>3, <3>4 DEF EndOK
  <2> QED
    BY <2>3, <2>4, <2>5, <2>6 DEF LabOK
<1> QED
  BY <1>8, <1>12, <1>13, <1>14, <1>15, <1>17, <1>18, <1>19, StepOfOneLab

(* The loop finds no deployment that is due. *)
LEMMA NoPopDeploymentKeeps ==
  ASSUME Inv, LoopPopDeployment, ~D!Due(dep, now)
  PROVE  Inv'
<1>1. /\ loop.pc = "deploy" /\ now' = now /\ unused' = unused /\ db' = db /\ env' = env /\ inst' = inst
      /\ creating' = creating /\ containers' = containers /\ des' = des /\ req' = req /\ reviving' = reviving
      /\ overtaken' = overtaken /\ contended' = contended
      /\ dep' = dep /\ tasks' = tasks /\ waiting' = waiting
      /\ loop' = [pc |-> "destroy", now |-> now]
  BY DEF LoopPopDeployment
<1>2. loop'.pc = "destroy" /\ loop'.now = now
  BY <1>1
<1>3. TypeOK /\ ShapeOK
  BY DEF Inv
<1>4. /\ Starting' = Starting
      /\ \A k : Entries(des, k)' = Entries(des, k) /\ SameEntries(dep, dep', k)
  BY <1>1, <1>2 DEF Starting, Entries, SameEntries
<1>5. now \in Nat /\ now <= now'
  BY <1>1, <1>3, SchedulerAssumption DEF TypeOK
<1>6. ShapeOK'
  BY <1>1, <1>2, <1>3, <1>5 DEF ShapeOK
<1>7. TypeOK'
  BY <1>1, <1>2, <1>3 DEF TypeOK
<1>8. \A q \in Procs : RequestOK(q)'
  BY <1>1 DEF Inv, RequestOK
<1>9. \A k \in Labs : Elsewhere(k)
  BY <1>1, <1>4, <1>5 DEF Elsewhere
<1> QED
  BY <1>6, <1>7, <1>8, <1>9, StepOfNoLab

(* The loop queues the end of the lab it popped. *)
LEMMA ScheduleDestructionKeeps ==
  ASSUME Inv, LoopScheduleDestruction
  PROVE  Inv'
<1>1. /\ loop.pc = "schedule" /\ now' = now /\ unused' = unused /\ db' = db /\ env' = env /\ inst' = inst
      /\ creating' = creating /\ containers' = containers /\ dep' = dep /\ req' = req /\ reviving' = reviving
      /\ overtaken' = overtaken /\ contended' = contended /\ tasks' = tasks /\ waiting' = waiting
      /\ loop' = [pc |-> "destroy", now |-> loop.now]
  BY DEF LoopScheduleDestruction, history
<1>2. loop'.pc = "destroy" /\ loop'.now = loop.now
  BY <1>1
<1>3. PICK lab : lab = loop.due
  OBVIOUS
<1>4. PICK l : l = lab.uuid
  OBVIOUS
<1>5. TypeOK /\ ShapeOK
  BY DEF Inv
<1>6. /\ lab \in Item /\ l \in Labs /\ lab.uuid \in Labs /\ lab.start \in 0 .. MaxTime
      /\ lab.end \in Times \cup {NoTime}
  BY <1>1, <1>3, <1>4, <1>5, ItemFields DEF ShapeOK
<1>7. /\ GoodQueue(des') /\ Timed(des')
      /\ \A k : k # l => Entries(des', k) = Entries(des, k)
      /\ Entries(des, l) \subseteq Entries(des', l)
      /\ lab.end # NoTime => \E item \in Entries(des', l) : item.end = lab.end
  <2>1. GoodQueue(des) /\ Timed(des)
    BY <1>5 DEF ShapeOK
  <2>2. PICK d : d = X!Schedule(des, copyLab(des, lab))
    OBVIOUS
  <2>3. GoodQueue(d) /\ Timed(d) /\ IF lab.end = NoTime THEN d = des ELSE Adds(des, d, lab)
    BY <1>6, <2>1, <2>2, ScheduleAdds
  <2>4. /\ \A k : k # l => Entries(d, k) = Entries(des, k)
        /\ Entries(des, l) \subseteq Entries(d, l)
        /\ lab.end # NoTime => \E item \in Entries(d, l) : item.end = lab.end
    <3>1. CASE lab.end = NoTime
      BY <2>3, <3>1
    <3>2. CASE lab.end # NoTime
      <4>1. Adds(des, d, lab)
        BY <2>3, <3>2
      <4>2. /\ \A k : k # l => SameEntries(des, d, k)
            /\ Entries(des, l) \subseteq Entries(d, l)
            /\ \E item \in Entries(d, l) : item.end = lab.end
        BY <1>4, <4>1, AddsEntries
      <4> QED
        BY <4>2 DEF SameEntries
    <3> QED
      BY <3>1, <3>2
  <2>5. des' = d
    BY <1>3, <2>2 DEF LoopScheduleDestruction
  <2> QED
    BY <2>3, <2>4, <2>5
<1>8. /\ l \in Starting
      /\ \A k \in Labs : k \in Starting' => k \in Starting
      /\ \A k \in Labs : k # l => (k \in Starting' <=> k \in Starting)
  BY <1>1, <1>2, <1>3, <1>4, <1>6 DEF Starting
<1>9. /\ \A k, q : On(q, k)' <=> On(q, k)
      /\ \A k, q, ops, steps : At(q, k, ops, steps)' <=> At(q, k, ops, steps)
      /\ \A k : Entries(des, k)' = Entries(des', k) /\ Entries(dep, k)' = Entries(dep, k)
      /\ \A k : SameEntries(dep, dep', k)
      /\ EndLive(l)' <=> EndLive(l)
  BY <1>1 DEF On, At, Entries, SameEntries, EndLive
<1>10. ShapeOK'
  BY <1>1, <1>2, <1>5, <1>7 DEF ShapeOK
<1>11. TypeOK'
  BY <1>1, <1>2, <1>5 DEF TypeOK
<1>12. \A q \in Procs : RequestOK(q)'
  BY <1>1 DEF Inv, RequestOK
<1>13. \A k \in Labs \ {l} : Elsewhere(k)
  <2>1. now <= now'
    BY <1>1, <1>5, SchedulerAssumption DEF TypeOK
  <2> QED
    BY <1>1, <1>3, <1>4, <1>7, <1>8, <1>9, <2>1 DEF Elsewhere
<1>14. ~Untouched(l) /\ l \notin unused /\ l \notin reviving
  BY <1>6, <1>8 DEF Inv, FreshOK, Untouched
<1>15. FreshOK(l)'
  BY <1>1, <1>14 DEF FreshOK
<1>16. DeletedOK(l)'
  BY <1>1, <1>6, <1>9, <1>14 DEF Inv, DeletedOK
<1>17. ASSUME l \notin contended'
       PROVE  LabOK(l)'
  <2>1. LabOK(l)
    BY <1>1, <1>6, <1>17 DEF Inv
  <2>2. RowOK(l)'
    BY <1>1, <1>9, <2>1 DEF LabOK, RowOK
  <2>3. EntryOK(l)'
    BY <1>1, <1>9, <2>1 DEF LabOK, EntryOK, OneEntry
  <2>4. WaitingOK(l)'
    BY <1>1, <1>9, <2>1 DEF LabOK, WaitingOK, StartQueued
  <2>5. EndQueued(l) => EndQueued(l)'
    BY <1>1, <1>7, <1>9 DEF EndQueued
  <2>6. EndLive(l) /\ lab.end = db[l].end => EndQueued(l)'
    BY <1>1, <1>7, <1>9 DEF EndQueued, EndLive
  <2>7. EndOK(l)'
    BY <1>1, <1>3, <1>8, <1>9, <2>1, <2>5, <2>6 DEF LabOK, EndOK
  <2> QED
    BY <2>2, <2>3, <2>4, <2>7 DEF LabOK
<1> QED
  BY <1>6, <1>10, <1>11, <1>12, <1>13, <1>15, <1>16, <1>17, StepOfOneLab

(* The loop pops a destruction, or none: an end that is still to come      *)
(* stays in the queue.                                                     *)
LEMMA PopDestructionKeeps ==
  ASSUME Inv, LoopPopDestruction
  PROVE  Inv'
<1>1. /\ loop.pc = "destroy" /\ now' = now /\ unused' = unused /\ db' = db /\ env' = env /\ inst' = inst
      /\ creating' = creating /\ containers' = containers /\ dep' = dep /\ req' = req /\ reviving' = reviving
      /\ overtaken' = overtaken /\ contended' = contended /\ waiting' = waiting
      /\ loop' = [pc |-> "deploy"]
  BY DEF LoopPopDestruction, history
<1>2. loop'.pc = "deploy"
  BY <1>1
<1>3. TypeOK /\ ShapeOK /\ GoodQueue(des) /\ Timed(des) /\ loop.now \in Nat /\ loop.now <= now /\ now \in Nat
  BY <1>1, SchedulerAssumption DEF Inv, ShapeOK, TypeOK
<1>4. \A q \in Procs : RequestOK(q)'
  BY <1>1 DEF Inv, RequestOK
<1>5. /\ \A k, q : On(q, k)' <=> On(q, k)
      /\ \A k, q, ops, steps : At(q, k, ops, steps)' <=> At(q, k, ops, steps)
      /\ \A k : Entries(des, k)' = Entries(des', k) /\ Entries(dep, k)' = Entries(dep, k)
      /\ \A k : SameEntries(dep, dep', k)
      /\ \A k : EndLive(k)' <=> EndLive(k)
  BY <1>1 DEF On, At, Entries, SameEntries, EndLive
<1>6. now <= now'
  BY <1>1, <1>3
<1>7. CASE ~X!Due(des, loop.now)
  <2>1. des' = des /\ tasks' = tasks
    BY <1>7 DEF LoopPopDestruction
  <2>2. Starting' = Starting
    BY <1>1, <1>2, <2>1 DEF Starting
  <2>3. ShapeOK'
    BY <1>1, <1>2, <1>3, <2>1 DEF ShapeOK
  <2>4. TypeOK'
    BY <1>1, <1>2, <1>3, <2>1 DEF TypeOK
  <2>5. \A k \in Labs : Elsewhere(k)
    BY <1>1, <1>5, <1>6, <2>1, <2>2 DEF Elsewhere
  <2> QED
    BY <1>4, <2>3, <2>4, <2>5, StepOfNoLab
<1>8. CASE X!Due(des, loop.now)
  <2>1. PICK lab : lab = Head(des.schedule)
    OBVIOUS
  <2>2. PICK l : l = lab.uuid
    OBVIOUS
  <2>3. /\ des.schedule # <<>> /\ lab.end <= loop.now
        /\ des' = X!Popped(des)
        /\ tasks' = [tasks EXCEPT !["destroy"][l] = @ + 1]
    BY <1>8, <2>1, <2>2 DEF LoopPopDestruction, X!Due, EndTime, Spawn
  <2>4. GoodQueue(des') /\ Pops(des, des', lab) /\ Timed(des')
    BY <1>3, <2>1, <2>3, PopPops
  <2>5. /\ lab \in Item /\ l \in Labs /\ lab \in Entries(des, l)
        /\ \A k : k # l => Entries(des', k) = Entries(des, k)
        /\ Entries(des', l) = Entries(des, l) \ {lab}
        /\ lab.end \in Nat
    <3>1. lab \in Item /\ lab \in Items(des)
      BY <2>4 DEF Pops
    <3>2. /\ \A k : k # l => SameEntries(des, des', k)
          /\ lab \in Entries(des, l) /\ Entries(des', l) = Entries(des, l) \ {lab}
      BY <1>3, <2>2, <2>4, PopsEntries
    <3>3. lab.end # NoTime
      BY <1>3, <3>1 DEF Timed
    <3> QED
      BY <2>2, <3>1, <3>2, <3>3, ItemFields DEF SameEntries
  <2>6. tasks' \in [{"deploy", "destroy"} -> [Labs -> Nat]] /\ tasks'["deploy"] = tasks["deploy"]
    <3>1. PICK n : n = tasks["destroy"][l] + 1
      OBVIOUS
    <3>2. n \in Nat
      BY <1>3, <2>5, <3>1 DEF TypeOK
    <3>3. tasks' = [tasks EXCEPT !["destroy"][l] = n]
      BY <2>3, <3>1
    <3> QED
      BY <1>3, <2>5, <3>2, <3>3, TasksFacts
  <2>7. Starting' = Starting
    BY <1>1, <1>2, <2>6 DEF Starting
  <2>8. ShapeOK'
    BY <1>1, <1>2, <1>3, <2>4 DEF ShapeOK
  <2>9. TypeOK'
    BY <1>1, <1>2, <1>3, <2>6 DEF TypeOK
  <2>10. \A k \in Labs \ {l} : Elsewhere(k)
    BY <1>1, <1>5, <1>6, <2>5, <2>7 DEF Elsewhere
  <2>11. FreshOK(l) /\ DeletedOK(l)
    BY <2>5 DEF Inv
  <2>12. Untouched(l)' <=> Untouched(l)
    BY <1>1, <1>5, <2>7 DEF Untouched, Busy
  <2>13. FreshOK(l)'
    BY <1>1, <2>11, <2>12 DEF FreshOK
  <2>14. DeletedOK(l)'
    BY <1>1, <1>5, <2>11, <2>12 DEF DeletedOK
  <2>15. ASSUME l \notin contended'
         PROVE  LabOK(l)'
    <3>1. LabOK(l)
      BY <1>1, <2>5, <2>15 DEF Inv
    <3>2. EndLive(l) /\ EndQueued(l) => EndQueued(l)'
      <4>1. EndLive(l) => db[l].end > now /\ db[l].end \in Nat
        BY <1>3, <2>5, LabTypes DEF EndLive
      <4>2. EndLive(l) => lab.end # db[l].end
        BY <1>3, <2>3, <2>5, <4>1
      <4> QED
        BY <1>1, <1>5, <2>5, <4>2 DEF EndQueued
    <3>3. RowOK(l)'
      BY <1>1, <1>5, <3>1 DEF LabOK, RowOK
    <3>4. EntryOK(l)'
      BY <1>1, <1>5, <3>1 DEF LabOK, EntryOK, OneEntry
    <3>5. WaitingOK(l)'
      BY <1>1, <1>5, <3>1 DEF LabOK, WaitingOK, StartQueued
    <3>6. EndOK(l)'
      BY <1>1, <1>5, <2>7, <3>1, <3>2 DEF LabOK, EndOK
    <3> QED
      BY <3>3, <3>4, <3>5, <3>6 DEF LabOK
  <2> QED
    BY <1>4, <2>5, <2>8, <2>9, <2>10, <2>13, <2>14, <2>15, StepOfOneLab
<1> QED
  BY <1>7, <1>8

(* A goroutine the loop started runs: the end of the lab it deploys was    *)
(* queued, or is about to be, when it was started.                         *)
LEMMA RunTaskKeeps ==
  ASSUME Inv, NEW op \in {"deploy", "destroy"}, NEW l \in Labs, RunTask(op, l)
  PROVE  Inv'
<1>1. /\ tasks[op][l] > 0 /\ now' = now /\ unused' = unused /\ db' = db /\ env' = env
      /\ dep' = dep /\ des' = des /\ loop' = loop /\ req' = req /\ reviving' = reviving
      /\ overtaken' = overtaken /\ contended' = contended /\ waiting' = waiting
      /\ tasks' = [tasks EXCEPT ![op][l] = @ - 1]
      /\ op = "deploy" => DeployLab(l)
      /\ op = "destroy" => DestroyLab(l)
  BY DEF RunTask, history
<1>2. TypeOK /\ ShapeOK /\ FreshOK(l) /\ DeletedOK(l)
  BY DEF Inv
<1>3. /\ tasks' \in [{"deploy", "destroy"} -> [Labs -> Nat]]
      /\ \A k \in Labs : k # l => tasks'["deploy"][k] = tasks["deploy"][k]
      /\ tasks'["deploy"][l] > 0 => tasks["deploy"][l] > 0
      /\ op = "destroy" => tasks'["deploy"] = tasks["deploy"]
  <2>1. PICK n : n = tasks[op][l] - 1
    OBVIOUS
  <2>2. n \in Nat
    BY <1>1, <1>2, <2>1 DEF TypeOK
  <2>3. tasks' = [tasks EXCEPT ![op][l] = n]
    BY <1>1, <2>1
  <2>4. /\ tasks' \in [{"deploy", "destroy"} -> [Labs -> Nat]]
        /\ \A k \in Labs : k # l => tasks'["deploy"][k] = tasks["deploy"][k]
        /\ op = "deploy" => tasks'["deploy"][l] = n
        /\ op = "destroy" => tasks'["deploy"] = tasks["deploy"]
    BY <1>2, <2>2, <2>3, TasksFacts
  <2> QED
    BY <1>1, <2>4
<1>4. /\ inst' \in [Labs -> {"none", "up", "failed"}] /\ containers' \subseteq Labs
      /\ \A k \in Labs : k # l => inst'[k] = inst[k]
      /\ op = "destroy" => inst'[l] # "up" /\ (inst[l] = "none" => inst'[l] = "none") /\ creating' = creating
      /\ creating = {} /\ creating' \subseteq {l}
  <2>1. CASE op = "deploy"
    BY <1>1, <1>2, <2>1, DeployLabFacts
  <2>2. CASE op = "destroy"
    BY <1>1, <1>2, <2>2, DestroyLabFacts
  <2> QED
    BY <2>1, <2>2
<1>5. /\ l \in Starting' => l \in Starting
      /\ \A k \in Labs : k # l => (k \in Starting' <=> k \in Starting)
      /\ op = "destroy" => Starting' = Starting
      /\ op = "deploy" => l \in Starting
  BY <1>1, <1>3, <1>4 DEF Starting
<1>6. /\ \A k, q : On(q, k)' <=> On(q, k)
      /\ \A k, q, ops, steps : At(q, k, ops, steps)' <=> At(q, k, ops, steps)
      /\ \A k : Entries(des, k)' = Entries(des, k) /\ Entries(dep, k)' = Entries(dep, k)
      /\ \A k : SameEntries(dep, dep', k)
      /\ EndLive(l)' <=> EndLive(l)
      /\ EndQueued(l)' <=> EndQueued(l)
      /\ Busy(l)' <=> Busy(l)
  BY <1>1 DEF On, At, Entries, SameEntries, EndLive, EndQueued, Busy
<1>7. ShapeOK'
  BY <1>1, <1>2, <1>4 DEF ShapeOK
<1>8. TypeOK'
  BY <1>1, <1>2, <1>3, <1>4 DEF TypeOK
<1>9. \A q \in Procs : RequestOK(q)'
  <2>1. \A q \in Procs : req[q] # Idle => req[q].pc # "create"
    BY <1>4 DEF Inv, RequestOK
  <2> QED
    BY <1>1, <2>1 DEF Inv, RequestOK
<1>10. \A k \in Labs \ {l} : Elsewhere(k)
  <2>1. now <= now'
    BY <1>1, <1>2, SchedulerAssumption DEF TypeOK
  <2> QED
    BY <1>1, <1>4, <1>5, <1>6, <2>1 DEF Elsewhere
<1>11. /\ Untouched(l) => Untouched(l)'
       /\ op = "deploy" => ~Untouched(l)
  BY <1>5, <1>6 DEF Untouched
<1>12. FreshOK(l)'
  BY <1>1, <1>2, <1>4, <1>11 DEF FreshOK
<1>13. DeletedOK(l)'
  BY <1>1, <1>2, <1>6, <1>11 DEF DeletedOK
<1>14. ASSUME l \notin contended'
       PROVE  LabOK(l)'
  <2>1. LabOK(l)
    BY <1>1, <1>14 DEF Inv
  <2>2. RowOK(l)'
    BY <1>1, <1>6, <2>1 DEF LabOK, RowOK
  <2>3. EntryOK(l)'
    BY <1>1, <1>6, <2>1 DEF LabOK, EntryOK, OneEntry
  <2>4. WaitingOK(l)'
    BY <1>1, <1>6, <2>1 DEF LabOK, WaitingOK, StartQueued
  <2>5. (inst'[l] = "up" \/ l \in Starting') => (inst[l] = "up" \/ l \in Starting)
    BY <1>4, <1>5
  <2>6. EndOK(l)'
    BY <1>1, <1>5, <1>6, <2>1, <2>5 DEF LabOK, EndOK
  <2> QED
    BY <2>2, <2>3, <2>4, <2>6 DEF LabOK
<1> QED
  BY <1>7, <1>8, <1>9, <1>10, <1>12, <1>13, <1>14, StepOfOneLab

(* The instance is created: its end was queued, or is about to be, when    *)
(* DeployLab began.                                                        *)
LEMMA CreateInstanceKeeps ==
  ASSUME Inv, NEW l \in Labs, CreateInstance(l)
  PROVE  Inv'
<1>1. /\ l \in creating /\ creating' = {} /\ now' = now /\ unused' = unused /\ db' = db /\ env' = env
      /\ dep' = dep /\ des' = des /\ loop' = loop /\ tasks' = tasks /\ reviving' = reviving
      /\ overtaken' = overtaken /\ contended' = contended /\ waiting' = waiting
      /\ req' = [p \in Procs |-> IF req[p].op # "idle" /\ req[p].pc = "create" THEN Idle ELSE req[p]]
  BY DEF CreateInstance, history
<1>2. TypeOK /\ ShapeOK /\ FreshOK(l) /\ DeletedOK(l) /\ req \in [Procs -> Request \cup {Idle}]
  BY DEF Inv, ShapeOK
<1>3. /\ inst' \in [Labs -> {"none", "up", "failed"}]
      /\ \A k \in Labs : k # l => inst'[k] = inst[k]
      /\ containers' \subseteq Labs
  BY <1>2 DEF CreateInstance, Deployed, TypeOK
<1>4. creating = {l}
  BY <1>1, <1>2 DEF ShapeOK
<1>5. /\ req' \in [Procs -> Request \cup {Idle}]
      /\ \A p \in Procs : req'[p] = Idle \/ req'[p] = req[p]
      /\ \A p \in Procs : req'[p] # req[p] => req[p] # Idle /\ req[p].pc = "create" /\ req[p].lab.uuid = l
      /\ \A p \in Procs : req'[p] # Idle => req[p] # Idle /\ req'[p] = req[p] /\ req[p].pc # "create"
  <2>1. \A p \in Procs : req[p].op # "idle" <=> req[p] # Idle
    BY <1>2, OnFields
  <2>2. \A p \in Procs : req[p] # Idle /\ req[p].pc = "create" => req[p].lab.uuid = l
    BY <1>4 DEF Inv, RequestOK
  <2> QED
    BY <1>1, <1>2, <2>1, <2>2
<1>6. /\ l \in Starting
      /\ \A k \in Labs \ {l} : k \in Starting' <=> k \in Starting
      /\ \A k : Entries(des, k)' = Entries(des, k) /\ Entries(dep, k)' = Entries(dep, k)
      /\ \A k : SameEntries(dep, dep', k)
  BY <1>1, <1>4 DEF Starting, Entries, SameEntries
<1>7. ~Untouched(l) /\ l \notin unused /\ l \notin reviving
  BY <1>2, <1>6 DEF FreshOK, Untouched
<1>8. ShapeOK'
  BY <1>1, <1>2, <1>5 DEF ShapeOK
<1>9. TypeOK'
  <2>1. \A q \in Procs : req'[q] # Idle => req'[q].lab \in LabCopy
    BY <1>5, RequestFields
  <2> QED
    BY <1>1, <1>2, <1>3, <2>1 DEF TypeOK
<1>10. \A q \in Procs : RequestOK(q)'
  BY <1>1, <1>5 DEF Inv, RequestOK
<1>11. \A k \in Labs \ {l} : Elsewhere(k)
  <2>1. now <= now'
    BY <1>1, <1>2, SchedulerAssumption DEF TypeOK
  <2>2. \A k \in Labs \ {l} : \A q \in Procs : On(q, k) \/ On(q, k)' => req'[q] = req[q]
    BY <1>5 DEF On
  <2> QED
    BY <1>1, <1>3, <1>6, <2>1, <2>2 DEF Elsewhere
<1>12. FreshOK(l)'
  BY <1>1, <1>7 DEF FreshOK
<1>13. /\ \A q \in Procs : On(q, l)' => On(q, l)
       /\ \A q \in Procs : On(q, l)' => req'[q] = req[q]
       /\ \A q \in Procs : \A ops, steps : At(q, l, ops, steps)' => At(q, l, ops, steps)
  BY <1>5 DEF On, At
<1>14. DeletedOK(l)'
  BY <1>1, <1>2, <1>7, <1>13 DEF DeletedOK
<1>15. ASSUME l \notin contended'
       PROVE  LabOK(l)'
  <2>1. LabOK(l)
    BY <1>1, <1>15 DEF Inv
  <2>2. /\ EndLive(l)' <=> EndLive(l)
        /\ EndQueued(l)' <=> EndQueued(l)
        /\ StartQueued(l)' <=> StartQueued(l)
    BY <1>1, <1>6 DEF EndLive, EndQueued, StartQueued
  <2>3. \A q \in Procs : \A ops, steps : On(q, l) /\ At(q, l, ops, steps) /\ "create" \notin steps => At(q, l, ops, steps)'
    BY <1>5 DEF On, At
  <2>4. RowOK(l)'
    BY <1>1, <1>13, <2>1, <2>2 DEF LabOK, RowOK, At
  <2>5. EntryOK(l)'
    <3>1. \A q \in Procs : At(q, l, {"update", "deploy"}, {"deployment"}) => At(q, l, {"update", "deploy"}, {"deployment"})'
      BY <2>3 DEF At
    <3> QED
      BY <1>1, <1>6, <1>13, <2>1, <3>1 DEF LabOK, EntryOK, OneEntry
  <2>6. WaitingOK(l)'
    <3>1. \A q \in Procs : At(q, l, {"create", "update", "revive"}, {"deployment"})
            => At(q, l, {"create", "update", "revive"}, {"deployment"})'
      BY <2>3 DEF At
    <3> QED
      BY <1>1, <1>13, <2>1, <2>2, <3>1 DEF LabOK, WaitingOK
  <2>7. EndOK(l)'
    <3>1. \A q \in Procs :
            /\ At(q, l, {"create", "update", "deploy", "revive", "restore"}, {"deployment", "destruction"})
                 => At(q, l, {"create", "update", "deploy", "revive", "restore"}, {"deployment", "destruction"})'
            /\ At(q, l, {"destroy"}, {"finish"}) => At(q, l, {"destroy"}, {"finish"})'
      BY <2>3 DEF At
    <3>2. \A q \in Procs : At(q, l, {"destroy"}, {"finish"})' => l \in overtaken'
      BY <1>1, <1>6, <1>13, <2>1 DEF LabOK, EndOK
    <3>3. \A q \in Procs : At(q, l, {"deploy"}, {"finish", "create"})' /\ EndLive(l)' => EndQueued(l)'
      BY <1>13, <2>1, <2>2 DEF LabOK, EndOK
    <3> QED
      BY <1>1, <1>6, <2>1, <2>2, <3>1, <3>2, <3>3 DEF LabOK, EndOK
  <2> QED
    BY <2>4, <2>5, <2>6, <2>7 DEF LabOK
<1> QED
  BY <1>8, <1>9, <1>10, <1>11, <1>12, <1>14, <1>15, StepOfOneLab

(* Time passes. *)
LEMMA TickKeeps ==
  ASSUME Inv, Tick
  PROVE  Inv'
<1>1. /\ unused' = unused /\ db' = db /\ env' = env /\ inst' = inst /\ creating' = creating /\ containers' = containers
      /\ dep' = dep /\ des' = des /\ loop' = loop /\ tasks' = tasks /\ req' = req /\ reviving' = reviving
      /\ overtaken' = overtaken /\ contended' = contended /\ waiting' = waiting
      /\ now < MaxTime /\ now' = now + 1
  BY DEF Tick, history
<1>2. TypeOK /\ ShapeOK
  BY DEF Inv
<1>3. now \in Nat /\ now' \in 0 .. MaxTime /\ now <= now' /\ now' \in Nat
  BY <1>1, <1>2, SchedulerAssumption DEF TypeOK
<1>4. /\ Starting' = Starting
      /\ \A k : Entries(des, k)' = Entries(des, k) /\ SameEntries(dep, dep', k)
  BY <1>1 DEF Starting, Entries, SameEntries
<1>5. ShapeOK'
  BY <1>1, <1>2, <1>3 DEF ShapeOK
<1>6. TypeOK'
  BY <1>1, <1>2, <1>3 DEF TypeOK
<1>7. \A q \in Procs : RequestOK(q)'
  BY <1>1 DEF Inv, RequestOK
<1>8. \A k \in Labs : Elsewhere(k)
  BY <1>1, <1>3, <1>4 DEF Elsewhere
<1> QED
  BY <1>5, <1>6, <1>7, <1>8, StepOfNoLab

-----------------------------------------------------------------------------
(***************************************************************************)
(* Start and restart.                                                      *)
(***************************************************************************)

(* The empty queue. *)
LEMMA EmptyQueue ==
  /\ GoodQueue(D!EmptySchedule) /\ Timed(D!EmptySchedule)
  /\ X!EmptySchedule = D!EmptySchedule
  /\ \A l : Entries(D!EmptySchedule, l) = {}
<1>1. X!EmptySchedule = D!EmptySchedule
  BY DEF X!EmptySchedule, D!EmptySchedule
<1>2. PICK q : q = D!EmptySchedule
  OBVIOUS
<1>3. q = [schedule |-> <<>>, scheduleMap |-> <<>>] /\ q.schedule = <<>> /\ q.scheduleMap = <<>>
  BY <1>2 DEF D!EmptySchedule
<1>4. <<>> \in Seq(Item) /\ Len(<<>>) = 0 /\ DOMAIN <<>> = {} /\ <<>> = [k \in DOMAIN <<>> |-> <<>>[k]]
  OBVIOUS
<1>5. Items(q) = {}
  BY <1>3, <1>4 DEF Items, ToSet
<1>6. 1 .. Len(q.schedule) = {}
  BY <1>3, <1>4
<1>7. GoodQueue(q)
  BY <1>3, <1>4, <1>6 DEF GoodQueue
<1>8. Timed(q) /\ \A l : Entries(q, l) = {}
  BY <1>5 DEF Timed, Entries, Items
<1> QED
  BY <1>1, <1>2, <1>7, <1>8

(* Nothing is queued or under way. *)
Blank ==
  /\ inst = [l \in Labs |-> "none"]
  /\ creating = {}
  /\ dep = D!EmptySchedule
  /\ des = X!EmptySchedule
  /\ loop = [pc |-> "deploy"]
  /\ tasks = [op \in {"deploy", "destroy"} |-> [l \in Labs |-> 0]]
  /\ req = [p \in Procs |-> Idle]
  /\ waiting = {}
  /\ overtaken = {}
  /\ contended = {}

(* What a restart leaves as it is: the rows. *)
Stored ==
  /\ now \in 0 .. MaxTime
  /\ unused \subseteq Labs /\ env \subseteq Labs /\ containers \subseteq Labs /\ reviving \subseteq Labs
  /\ db \in [Labs -> Row \cup {NoLab}]
  /\ \A l \in unused : db[l] = NoLab
  /\ \A l \in reviving : db[l] # NoLab

(* Such a state satisfies the invariant. *)
LEMMA BlankIsGood == Blank /\ Stored => Inv
<1> SUFFICES ASSUME Blank, Stored
             PROVE  Inv
  OBVIOUS
<1>1. \A p \in Procs : req[p] = Idle
  BY DEF Blank
<1>2. loop.pc = "deploy"
  BY DEF Blank
<1>3. \A l \in Labs : inst[l] = "none" /\ tasks["deploy"][l] = 0
  BY DEF Blank
<1>4. TypeOK
  <2>1. /\ waiting \subseteq Labs /\ overtaken \subseteq Labs /\ contended \subseteq Labs
        /\ inst \in [Labs -> {"none", "up", "failed"}]
        /\ creating \subseteq Labs
        /\ tasks \in [{"deploy", "destroy"} -> [Labs -> Nat]]
    BY DEF Blank
  <2> QED
    BY <1>1, <1>2, <2>1 DEF TypeOK, Stored
<1>5. ShapeOK
  <2>1. req \in [Procs -> Request \cup {Idle}]
    BY DEF Blank
  <2>2. GoodQueue(dep) /\ GoodQueue(des) /\ Timed(des)
    BY EmptyQueue DEF Blank
  <2>3. creating = {}
    BY DEF Blank
  <2> QED
    BY <1>2, <2>1, <2>2, <2>3 DEF ShapeOK
<1>6. \A l \in Labs : Untouched(l) /\ l \notin waiting /\ l \notin Starting /\ Entries(dep, l) = {}
  <2>1. \A l \in Labs : ~Busy(l)
    BY <1>1, RequestFields DEF Busy
  <2>2. \A l \in Labs : l \notin Starting
    BY <1>2, <1>3 DEF Starting, Blank
  <2>3. \A l \in Labs : Entries(dep, l) = {}
    BY EmptyQueue DEF Blank
  <2> QED
    BY <2>1, <2>2, <2>3 DEF Untouched, Blank
<1>7. \A p \in Procs : RequestOK(p)
  BY <1>1 DEF RequestOK
<1>8. \A p \in Procs, l \in Labs : ~On(p, l)
  BY <1>1 DEF On
<1>9. \A l \in Labs : FreshOK(l)
  BY <1>3, <1>6 DEF FreshOK, Stored
<1>10. \A l \in Labs : DeletedOK(l)
  BY <1>6, <1>8 DEF DeletedOK, At
<1>11. ASSUME NEW l \in Labs
       PROVE  LabOK(l)
  <2>1. RowOK(l)
    BY <1>8 DEF RowOK, At
  <2>2. EntryOK(l)
    BY <1>6 DEF EntryOK, OneEntry
  <2>3. WaitingOK(l)
    BY <1>6 DEF WaitingOK
  <2>4. EndOK(l)
    BY <1>3, <1>6, <1>8 DEF EndOK, At
  <2> QED
    BY <2>1, <2>2, <2>3, <2>4 DEF LabOK
<1> QED
  BY <1>4, <1>5, <1>7, <1>9, <1>10, <1>11 DEF Inv

(* So does the state after a step that leads to such a state. *)
LEMMA BlankIsGoodNext == (Blank /\ Stored)' => Inv'
  BY BlankIsGood, PTL

(* The server starts with an empty table. *)
LEMMA InitInv == Init => Inv
<1> SUFFICES ASSUME Init
             PROVE  Inv
  OBVIOUS
<1>1. Blank
  BY DEF Init, Blank
<1>2. Stored
  BY SchedulerAssumption DEF Init, Stored
<1> QED
  BY <1>1, <1>2, BlankIsGood

(* A restart. *)
LEMMA RestartKeeps ==
  ASSUME Inv, Restart
  PROVE  Inv'
<1>1. Blank'
  BY DEF Restart, Blank
<1>2. /\ now' = now /\ unused' = unused /\ db' = db /\ env' = env /\ containers' = containers
      /\ reviving' = {l \in Labs : db[l] # NoLab}
  BY DEF Restart
<1>3. Stored'
  BY <1>2 DEF Stored, Inv, TypeOK, FreshOK
<1> QED
  BY <1>1, <1>3, BlankIsGoodNext

(* reviveInstances comes to a stored lab. *)
LEMMA ReviveKeeps ==
  ASSUME Inv, NEW p \in Procs, NEW l \in Labs, Revive(p, l)
  PROVE  Inv'
<1>1. /\ now' = now /\ unused' = unused /\ db' = db /\ env' = env /\ creating' = creating /\ containers' = containers
      /\ dep' = dep /\ des' = des /\ loop' = loop /\ tasks' = tasks
      /\ overtaken' = overtaken /\ contended' = contended
      /\ l \in reviving /\ reviving' = reviving \ {l}
      /\ req = [q \in Procs |-> Idle]
  BY DEF Revive
<1>2. TypeOK /\ ShapeOK /\ FreshOK(l)
  BY DEF Inv
<1>3. db[l] # NoLab /\ Untouched(l) /\ inst[l] = "none" /\ l \notin waiting /\ l \notin unused
  BY <1>1, <1>2 DEF FreshOK
<1>4. db[l] \in Row
  BY <1>2, <1>3, LabTypes
<1>5. PICK lab : lab = Lab(l, db[l])
  OBVIOUS
<1>6. lab \in LabCopy /\ lab.uuid = l /\ lab.start = db[l].start /\ lab.end = db[l].end
  BY <1>4, <1>5, LabFields
<1>7. PICK r \in Request \cup {Idle} :
        /\ req' = [req EXCEPT ![p] = r]
        /\ r # Idle => r.op \in {"revive", "restore"} /\ r.pc = "deployment" /\ r.lab = lab
        /\ inst' = inst \/ (inst' = [inst EXCEPT ![l] = "up"] /\ r # Idle)
        /\ waiting' = waiting \/ (waiting' = waiting \cup {l} /\ r # Idle /\ r.op = "revive")
  <2>1. ASSUME NEW op \in {"revive", "restore"}
        PROVE  /\ [op |-> op, pc |-> "deployment", lab |-> lab] \in Request
               /\ [op |-> op, pc |-> "deployment", lab |-> lab].op = op
    BY <1>6 DEF Request
  <2>2. \A x \in Request : x # Idle
    BY RequestFields
  <2>3. CASE req' = req /\ inst' = inst /\ waiting' = waiting
    <3>1. req' = [req EXCEPT ![p] = Idle]
      BY <1>1, <2>3
    <3> QED
      BY <2>3, <3>1
  <2>4. CASE /\ req' = [req EXCEPT ![p] = [op |-> "restore", pc |-> "deployment", lab |-> lab]]
             /\ inst' = [inst EXCEPT ![l] = "up"] /\ waiting' = waiting
    <3>1. PICK x : x = [op |-> "restore", pc |-> "deployment", lab |-> lab]
      OBVIOUS
    <3>2. x \in Request /\ x # Idle /\ x.op = "restore" /\ x.pc = "deployment" /\ x.lab = lab
      BY <2>1, <2>2, <3>1
    <3>3. req' = [req EXCEPT ![p] = x]
      BY <2>4, <3>1
    <3> QED
      BY <2>4, <3>2, <3>3
  <2>5. CASE /\ req' = [req EXCEPT ![p] = [op |-> "revive", pc |-> "deployment", lab |-> lab]]
             /\ inst' = inst /\ waiting' = waiting \cup {l}
    <3>1. PICK x : x = [op |-> "revive", pc |-> "deployment", lab |-> lab]
      OBVIOUS
    <3>2. x \in Request /\ x # Idle /\ x.op = "revive" /\ x.pc = "deployment" /\ x.lab = lab
      BY <2>1, <2>2, <3>1
    <3>3. req' = [req EXCEPT ![p] = x]
      BY <2>5, <3>1
    <3> QED
      BY <2>5, <3>2, <3>3
  <2> QED
    BY <1>5, <2>3, <2>4, <2>5 DEF Revive
<1>8. /\ req \in [Procs -> Request \cup {Idle}]
      /\ \A q \in Procs : req[q] = Idle
  BY <1>1
<1>9. /\ req' \in [Procs -> Request \cup {Idle}]
      /\ req'[p] = r
      /\ \A q \in Procs : q # p => req'[q] = req[q]
      /\ \A k : k # l => \A q \in Procs : On(q, k) \/ On(q, k)' => req'[q] = req[q]
  BY <1>6, <1>7, <1>8, ServesOne
<1>10. /\ Starting' = Starting
       /\ \A k : Entries(des, k)' = Entries(des, k) /\ SameEntries(dep, dep', k)
       /\ \A k : Entries(dep, k)' = Entries(dep, k)
  BY <1>1 DEF Starting, Entries, SameEntries
<1>11. \A q \in Procs : On(q, l)' => q = p /\ req'[q] = r /\ r # Idle
  BY <1>8, <1>9 DEF On
<1>12. ShapeOK'
  BY <1>1, <1>2, <1>9 DEF ShapeOK
<1>13. TypeOK'
  <2>1. \A q \in Procs : req'[q] # Idle => req'[q].lab \in LabCopy
    BY <1>9, RequestFields
  <2>2. inst' \in [Labs -> {"none", "up", "failed"}]
    BY <1>2, <1>7 DEF TypeOK
  <2>3. waiting' \subseteq Labs /\ reviving' \subseteq Labs
    BY <1>1, <1>2, <1>7 DEF TypeOK
  <2> QED
    BY <1>1, <1>2, <2>1, <2>2, <2>3 DEF TypeOK
<1>14. \A q \in Procs : RequestOK(q)'
  BY <1>1, <1>3, <1>6, <1>7, <1>8, <1>9 DEF RequestOK
<1>15. \A k \in Labs \ {l} : Elsewhere(k)
  <2>1. now <= now'
    BY <1>1, <1>2, SchedulerAssumption DEF TypeOK
  <2>2. \A k \in Labs \ {l} : inst'[k] = inst[k] /\ (k \in waiting' <=> k \in waiting)
    BY <1>2, <1>7 DEF TypeOK
  <2> QED
    BY <1>1, <1>9, <1>10, <2>1, <2>2 DEF Elsewhere
<1>16. FreshOK(l)'
  BY <1>1, <1>3 DEF FreshOK
<1>17. DeletedOK(l)'
  BY <1>1, <1>3, <1>7, <1>11 DEF DeletedOK, At
<1>18. LabOK(l)'
  <2>1. Entries(dep, l)' = {} /\ l \notin Starting'
    BY <1>3, <1>10 DEF Untouched
  <2>2. RowOK(l)'
    BY <1>1, <1>3, <1>6, <1>7, <1>11 DEF RowOK, At
  <2>3. EntryOK(l)'
    BY <2>1 DEF EntryOK, OneEntry
  <2>4. r # Idle => On(p, l)'
    BY <1>6, <1>7, <1>9 DEF On
  <2>5. WaitingOK(l)'
    BY <1>1, <1>3, <1>7, <1>9, <1>11, <2>4 DEF WaitingOK, At
  <2>6. EndOK(l)'
    BY <1>1, <1>3, <1>7, <1>9, <1>11, <2>1, <2>4 DEF EndOK, At
  <2> QED
    BY <2>2, <2>3, <2>5, <2>6 DEF LabOK
<1> QED
  BY <1>12, <1>13, <1>14, <1>15, <1>16, <1>17, <1>18, StepOfOneLab

-----------------------------------------------------------------------------
(* Every step keeps the invariant. *)
LEMMA NextKeeps == Inv /\ [Next]_vars => Inv'
<1> SUFFICES ASSUME Inv, [Next]_vars
             PROVE  Inv'
  OBVIOUS
<1>1. CASE UNCHANGED vars
  <2>1. /\ now' = now /\ unused' = unused /\ db' = db /\ env' = env /\ inst' = inst
        /\ creating' = creating /\ containers' = containers /\ dep' = dep /\ des' = des /\ loop' = loop /\ tasks' = tasks
        /\ req' = req /\ reviving' = reviving /\ waiting' = waiting /\ overtaken' = overtaken
        /\ contended' = contended
    BY <1>1 DEF vars, history
  <2>2. TypeOK' /\ ShapeOK'
    BY <2>1 DEF Inv, TypeOK, ShapeOK
  <2>3. \A q \in Procs : RequestOK(q)'
    BY <2>1 DEF Inv, RequestOK
  <2>4. \A k \in Labs : Elsewhere(k)
    <3>1. now <= now'
      BY <2>1, SchedulerAssumption DEF Inv, TypeOK
    <3> QED
      BY <2>1, <3>1 DEF Elsewhere, Starting, SameEntries, Entries
  <2> QED
    BY <2>2, <2>3, <2>4, StepOfNoLab
<1>2. CASE \E p \in Procs, l \in Labs, start \in Times, end \in Times \cup {NoTime} : BeginCreate(p, l, start, end)
  BY <1>2, BeginCreateKeeps
<1>3. CASE \E p \in Procs, l \in Labs, start \in Times \cup {now}, end \in Times \cup {NoTime} : BeginUpdate(p, l, start, end)
  BY <1>3, BeginUpdateKeeps
<1>4. CASE \E p \in Procs, l \in Labs :
             BeginRename(p, l) \/ BeginDelete(p, l) \/ BeginDeploy(p, l) \/ BeginDestroy(p, l) \/ Revive(p, l)
  BY <1>4, BeginRenameKeeps, BeginDeleteKeeps, BeginDeployKeeps, BeginDestroyKeeps, ReviveKeeps
<1>5. CASE \E l \in Labs : CreateFails(l) \/ CreateInstance(l)
  BY <1>5, CreateFailsKeeps, CreateInstanceKeeps
<1>6. CASE \E p \in Procs : Serve(p)
  BY <1>6, CommitKeeps, CommitFailsKeeps, HandleDeploymentKeeps, HandleDestructionKeeps, FinishKeeps DEF Serve
<1>7. CASE Loop
  BY <1>7, PopDeploymentKeeps, NoPopDeploymentKeeps, ScheduleDestructionKeeps, PopDestructionKeeps DEF Loop
<1>8. CASE \E op \in {"deploy", "destroy"}, l \in Labs : RunTask(op, l)
  BY <1>8, RunTaskKeeps
<1>9. CASE Tick
  BY <1>9, TickKeeps
<1>10. CASE Restart
  BY <1>10, RestartKeeps
<1> QED
  BY <1>1, <1>2, <1>3, <1>4, <1>5, <1>6, <1>7, <1>8, <1>9, <1>10 DEF Next

(* The invariant says what the runs check of a state. *)
LEMMA InvImplies == Inv => QueuesFollowRows
<1> SUFFICES ASSUME Inv
             PROVE  QueuesFollowRows
  OBVIOUS
<1>1. TypeOK /\ req \in [Procs -> Request \cup {Idle}]
  BY DEF Inv, ShapeOK
<1>2. \A l : ~Busy(l) => \A p \in Procs : ~On(p, l)
  BY <1>1, OnFields
<1>3. ASSUME NEW l \in waiting \ contended, Quiet(l)
      PROVE  db[l] # NoLab /\ \E item \in Entries(dep, l) : item.start = db[l].start
  <2>1. l \in Labs /\ LabOK(l)
    BY <1>1, <1>3 DEF Inv, TypeOK
  <2>2. \A p \in Procs : ~On(p, l)
    BY <1>2, <1>3 DEF Quiet
  <2> QED
    BY <1>3, <2>1, <2>2 DEF LabOK, WaitingOK, At, StartQueued
<1>4. ASSUME NEW l \in Labs,
             /\ Quiet(l) /\ l \notin overtaken \cup contended /\ inst[l] = "up"
             /\ l \in env /\ db[l] # NoLab /\ db[l].end # NoTime /\ db[l].end > now
      PROVE  \E item \in Entries(des, l) : item.end = db[l].end
  <2>1. LabOK(l)
    BY <1>4 DEF Inv
  <2>2. (\A p \in Procs : ~On(p, l)) /\ ~(loop.pc = "schedule" /\ loop.due.uuid = l)
    BY <1>2, <1>4 DEF Quiet
  <2>3. EndLive(l)
    BY <1>4 DEF EndLive
  <2> QED
    BY <1>4, <2>1, <2>2, <2>3 DEF LabOK, EndOK, At, EndQueued
<1> QED
  BY <1>1, <1>3, <1>4 DEF QueuesFollowRows, PendingStartIsQueued, RunningLabHasItsEnd

(***************************************************************************)
(* For any labs, times and number of requests, restarts and goroutines:    *)
(* the two queues of the scheduler, which are in memory only, say what the *)
(* rows say (scheduler.go:89-178, instance/service.go:1288).  A lab that   *)
(* waits for its start is queued with the start of its row, and the end of *)
(* a lab that is up is queued, but for the two exceptions the property     *)
(* names.                                                                  *)
(***************************************************************************)
THEOREM QueuesFollowRowsHolds == Spec => []QueuesFollowRows
<1>1. Inv /\ [Next]_vars => Inv'
  BY NextKeeps
<1> QED
  BY <1>1, InitInv, InvImplies, PTL DEF Spec

(* A step gives an instance only to a lab that has a row or a run          *)
(* environment, that had an instance, or whose instance was being created. *)
LEMMA DeletedStep ==
  ASSUME Inv, [Next]_vars, NEW l \in Labs \ unused, db[l] = NoLab, inst[l] = "none", l \notin creating
  PROVE  inst'[l] = "none" /\ l \notin creating'
<1>1. TypeOK /\ DeletedOK(l) /\ FreshOK(l)
  BY DEF Inv
<1>2. inst \in [Labs -> {"none", "up", "failed"}]
  BY <1>1 DEF TypeOK
<1>3. ASSUME NEW k \in Labs, DeployLab(k), ~Untouched(k)
      PROVE  inst'[l] = "none" /\ l \notin creating'
  <2>1. CASE k = l
    <3>1. l \notin env
      BY <1>1, <1>3, <2>1 DEF DeletedOK
    <3> QED
      BY <1>1, <1>3, <2>1, <3>1, DeployLabFacts
  <2>2. CASE k # l
    BY <1>1, <1>3, <2>2, DeployLabFacts
  <2> QED
    BY <2>1, <2>2
<1>4. ASSUME NEW k \in Labs, DestroyLab(k)
      PROVE  inst'[l] = "none" /\ l \notin creating'
  <2>1. CASE k = l
    BY <1>1, <1>4, <2>1, DestroyLabFacts
  <2>2. CASE k # l
    BY <1>1, <1>4, <2>2, DestroyLabFacts
  <2> QED
    BY <2>1, <2>2
<1>5. CASE UNCHANGED <<inst, creating>>
  BY <1>5
<1>6. CASE \E p \in Procs : Finish(p)
  <2>1. PICK p \in Procs : Finish(p)
    BY <1>6
  <2>2. req[p].op # "idle"
    BY <2>1 DEF Finish
  <2>3. PICK k : k = req[p].lab.uuid
    OBVIOUS
  <2>4. k \in Labs /\ ~Untouched(k)
    BY <2>2, <2>3, Serving DEF Untouched
  <2>5. UNCHANGED <<inst, creating>> \/ DeployLab(k) \/ DestroyLab(k)
    BY <2>1, <2>3 DEF Finish
  <2> QED
    BY <1>3, <1>4, <1>5, <2>4, <2>5
<1>7. CASE \E op \in {"deploy", "destroy"}, k \in Labs : RunTask(op, k)
  <2>1. PICK op \in {"deploy", "destroy"}, k \in Labs : RunTask(op, k)
    BY <1>7
  <2>2. CASE op = "deploy"
    <3>1. DeployLab(k) /\ tasks["deploy"][k] > 0
      BY <2>1, <2>2 DEF RunTask
    <3>2. ~Untouched(k)
      BY <3>1 DEF Untouched, Starting
    <3> QED
      BY <1>3, <3>1, <3>2
  <2>3. CASE op = "destroy"
    BY <1>4, <2>1, <2>3 DEF RunTask
  <2> QED
    BY <2>2, <2>3
<1>8. CASE Restart
  BY <1>8 DEF Restart
<1>9. CASE \E p \in Procs, k \in Labs : Revive(p, k)
  <2>1. PICK p \in Procs, k \in Labs : Revive(p, k)
    BY <1>9
  <2>2. k \in reviving /\ (inst' = inst \/ inst' = [inst EXCEPT ![k] = "up"]) /\ creating' = creating
    BY <2>1 DEF Revive
  <2>3. k # l
    BY <1>1, <2>2 DEF FreshOK
  <2> QED
    BY <1>2, <2>2, <2>3
<1>10. CASE \E p \in Procs : Commit(p) \/ CommitFails(p) \/ HandleDeployment(p) \/ HandleDestruction(p)
  <2>1. UNCHANGED <<inst, creating>>
    BY <1>10 DEF Commit, CommitFails, HandleDeployment, HandleDestruction
  <2> QED
    BY <1>5, <2>1
<1>11. CASE Loop \/ Tick \/ \E k \in Labs : CreateFails(k)
  <2>1. UNCHANGED <<inst, creating>>
    BY <1>11 DEF Loop, LoopPopDeployment, LoopScheduleDestruction, LoopPopDestruction, Tick, CreateFails
  <2> QED
    BY <1>5, <2>1
<1>12. CASE \/ \E p \in Procs, k \in Labs, start \in Times, end \in Times \cup {NoTime} : BeginCreate(p, k, start, end)
            \/ \E p \in Procs, k \in Labs, start \in Times \cup {now}, end \in Times \cup {NoTime} : BeginUpdate(p, k, start, end)
            \/ \E p \in Procs, k \in Labs : BeginRename(p, k) \/ BeginDelete(p, k) \/ BeginDeploy(p, k) \/ BeginDestroy(p, k)
  <2>1. ASSUME NEW p \in Procs, NEW k \in Labs, NEW start, NEW end, BeginCreate(p, k, start, end)
        PROVE  UNCHANGED <<inst, creating>>
    BY <2>1 DEF BeginCreate, Begin
  <2>2. ASSUME NEW p \in Procs, NEW k \in Labs, NEW start, NEW end, BeginUpdate(p, k, start, end)
        PROVE  UNCHANGED <<inst, creating>>
    BY <2>2 DEF BeginUpdate, Begin
  <2>3. ASSUME NEW p \in Procs, NEW k \in Labs,
               BeginRename(p, k) \/ BeginDelete(p, k) \/ BeginDeploy(p, k) \/ BeginDestroy(p, k)
        PROVE  UNCHANGED <<inst, creating>>
    BY <2>3 DEF BeginRename, BeginDelete, BeginDeploy, BeginDestroy, Begin
  <2>4. UNCHANGED <<inst, creating>>
    BY <1>12, <2>1, <2>2, <2>3
  <2> QED
    BY <1>5, <2>4
<1>13. CASE UNCHANGED vars
  BY <1>5, <1>13 DEF vars
<1>14. CASE \E k \in Labs : CreateInstance(k)
  <2>1. PICK k \in Labs : CreateInstance(k)
    BY <1>14
  <2>2. k # l /\ creating' = {}
    BY <2>1 DEF CreateInstance
  <2>3. inst' = [inst EXCEPT ![k] = "up"] \/ inst' = [inst EXCEPT ![k] = "failed"]
    BY <2>1 DEF CreateInstance, Deployed
  <2> QED
    BY <1>2, <2>2, <2>3
<1> QED
  BY <1>6, <1>7, <1>8, <1>9, <1>10, <1>11, <1>12, <1>13, <1>14 DEF Next, Serve

(***************************************************************************)
(* For any labs, times and number of requests, restarts and goroutines: a  *)
(* lab that was deleted and has no instance never gets one again: not from *)
(* a deployment popped before the deletion, not from a request that        *)
(* overlaps, not from a restart (lab/service.go:340-357).  A deployment    *)
(* that is past the look at the run environment when it is removed still   *)
(* creates the instance (instance/service.go:557-614).                     *)
(***************************************************************************)
THEOREM DeletedStaysDown == Spec => DeletedLabsStayDown
<1>1. Inv /\ [Next]_vars => Inv'
  BY NextKeeps
<1>2. Inv /\ [Next]_vars =>
        [\A l \in Labs \ unused :
           (db[l] = NoLab /\ inst[l] = "none" /\ l \notin creating) => (inst'[l] = "none" /\ l \notin creating')]_vars
  BY DeletedStep
<1> QED
  BY <1>1, <1>2, InitInv, PTL DEF Spec, DeletedLabsStayDown
=============================================================================
