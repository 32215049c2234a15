----------------------------- MODULE ScheduleOps -----------------------------
(***************************************************************************)
(* The operations of utils.Schedule (src/src/utils/schedule.go): a slice   *)
(* of item pointers ordered by time, and a map from an item's key to the   *)
(* pointer that was inserted last under that key.                          *)
(*                                                                         *)
(* Every operation holds the schedule's mutex from its first to its last   *)
(* statement, so each is one operator from the queue before the call to    *)
(* the queue after it.  An item is a value that stands for a pointer: two  *)
(* allocations are two different values, even when they are copies of the  *)
(* same lab.                                                               *)
(***************************************************************************)
EXTENDS Naturals, Sequences, SequencesExt

CONSTANTS
  NoTime,          \* the nil *time.Time: the item is never due
  KeyGetter(_),    \* keyGetter, the key an item is scheduled under
  TimeGetter(_)    \* timeGetter, the second the item is due, or NoTime

(* CreateSchedule: no item, no key. *)
EmptySchedule == [schedule |-> <<>>, scheduleMap |-> <<>>]

(* The queues that hold items of S only. *)
QueueOf(S) ==
  [schedule    : Seq(S),
   scheduleMap : UNION {[K -> S] : K \in SUBSET {KeyGetter(item) : item \in S}}]

has(q, key) == key \in DOMAIN q.scheduleMap

(***************************************************************************)
(* insert: the item goes before the first item that is due at the same     *)
(* time or later (sort.Search), and the map points at it from then on,     *)
(* whatever it pointed at before.                                          *)
(***************************************************************************)
IsInsertIndex(s, t, i) ==
  /\ i \in 1 .. Len(s) + 1
  /\ \A j \in 1 .. i - 1 : TimeGetter(s[j]) < t
  /\ i <= Len(s) => TimeGetter(s[i]) >= t

insertIndex(s, t) == CHOOSE i \in 1 .. Len(s) + 1 : IsInsertIndex(s, t, i)

insert(q, item) ==
  [schedule    |-> InsertAt(q.schedule, insertIndex(q.schedule, TimeGetter(item)), item),
   scheduleMap |-> [k \in DOMAIN q.scheduleMap \cup {KeyGetter(item)} |->
                      IF k = KeyGetter(item) THEN item ELSE q.scheduleMap[k]]]

(***************************************************************************)
(* remove: takes the pointer the map holds out of the map and out of the   *)
(* slice.  An item of the same key that the map no longer points at stays  *)
(* in the slice.  slices.Index answers -1 for a pointer that is not in the *)
(* slice, and slicing with it panics: itemIndex is undefined there, and    *)
(* MapInSlice below is what rules it out.                                  *)
(***************************************************************************)
itemIndex(s, item) == CHOOSE i \in 1 .. Len(s) : s[i] = item

WithoutKey(m, key) == [k \in DOMAIN m \ {key} |-> m[k]]

(* Mutant: the item is forgotten but stays in the slice. *)
removeFromMap(q, key) ==
  IF has(q, key) THEN [q EXCEPT !.scheduleMap = WithoutKey(@, key)] ELSE q

remove(q, key) ==
  IF has(q, key)
  THEN [schedule    |-> RemoveAt(q.schedule, itemIndex(q.schedule, q.scheduleMap[key])),
        scheduleMap |-> WithoutKey(q.scheduleMap, key)]
  ELSE q

(* Schedule: an item without a time is not scheduled. *)
Schedule(q, item) == IF TimeGetter(item) = NoTime THEN q ELSE insert(q, item)

(* Reschedule: the item the map holds makes way for the new one. *)
Reschedule(q, item) == Schedule(remove(q, KeyGetter(item)), item)

(* Mutant: the item is due a second late. *)
DueLate(q, now) == q.schedule # <<>> /\ TimeGetter(Head(q.schedule)) < now

(* TryPopAt: the first item, if it is due at now. *)
Due(q, now) == q.schedule # <<>> /\ TimeGetter(Head(q.schedule)) <= now

(* Mutant: the map keeps pointing at the item that was popped. *)
PoppedStillMapped(q) == [q EXCEPT !.schedule = Tail(@)]

Popped(q) ==
  [schedule    |-> Tail(q.schedule),
   scheduleMap |-> WithoutKey(q.scheduleMap, KeyGetter(Head(q.schedule)))]

-----------------------------------------------------------------------------
(***************************************************************************)
(* The representation invariant of a queue, in parts.                      *)
(***************************************************************************)

(* The slice is ordered by time, as the binary search of insert and the    *)
(* look at the head in TryPopAt take for granted.                          *)
Sorted(q) ==
  \A i, j \in 1 .. Len(q.schedule) :
    i < j => TimeGetter(q.schedule[i]) <= TimeGetter(q.schedule[j])

(* Every pointer of the map is in the slice, under its own key: remove     *)
(* finds what it looks for and does not slice with index -1.               *)
MapInSlice(q) ==
  \A k \in DOMAIN q.scheduleMap :
    /\ KeyGetter(q.scheduleMap[k]) = k
    /\ \E i \in 1 .. Len(q.schedule) : q.schedule[i] = q.scheduleMap[k]

(* A pointer is at most once in the slice. *)
NoTwice(q) ==
  \A i, j \in 1 .. Len(q.schedule) : q.schedule[i] = q.schedule[j] => i = j
=============================================================================
