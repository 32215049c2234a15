---------------------------- MODULE ScheduleQueue ----------------------------
(***************************************************************************)
(* A utils.Schedule and its clients: any number of goroutines call         *)
(* Schedule, Reschedule and Remove, one goroutine polls TryPopAt, and the  *)
(* clock advances.  The mutex makes every call atomic.                     *)
(*                                                                         *)
(* A client never hands over the same pointer twice: the only client, the  *)
(* scheduler, copies the lab (copyLab) for every call.                     *)
(***************************************************************************)
EXTENDS ScheduleOps

CONSTANTS
  Items,           \* the pointers clients can schedule
  MaxTime          \* the clock stops here

ASSUME ScheduleAssumption ==
  /\ MaxTime \in Nat
  /\ NoTime \notin Nat
  /\ \A item \in Items : TimeGetter(item) \in Nat \cup {NoTime}

VARIABLES
  queue,           \* the schedule: its slice and its map
  now,             \* the clock, in seconds
  given,           \* the pointers that were handed to the schedule
  out              \* the items TryPopAt returned

vars == <<queue, now, given, out>>

Keys == {KeyGetter(item) : item \in Items}

TimedItems == {item \in Items : TimeGetter(item) # NoTime}

Init ==
  /\ queue = EmptySchedule
  /\ now = 0
  /\ given = {}
  /\ out = {}

ScheduleItem(item) ==
  /\ item \notin given
  /\ queue' = Schedule(queue, item)
  /\ given' = given \cup {item}
  /\ UNCHANGED <<now, out>>

RescheduleItem(item) ==
  /\ item \notin given
  /\ queue' = Reschedule(queue, item)
  /\ given' = given \cup {item}
  /\ UNCHANGED <<now, out>>

RemoveKey(key) ==
  /\ queue' = remove(queue, key)
  /\ UNCHANGED <<now, given, out>>

TryPopAt ==
  /\ Due(queue, now)
  /\ out' = out \cup {Head(queue.schedule)}
  /\ queue' = Popped(queue)
  /\ UNCHANGED <<now, given>>

Tick ==
  /\ now < MaxTime
  /\ now' = now + 1
  /\ UNCHANGED <<queue, given, out>>

Next ==
  \/ \E item \in Items : ScheduleItem(item) \/ RescheduleItem(item)
  \/ \E key \in Keys : RemoveKey(key)
  \/ TryPopAt
  \/ Tick

Spec == Init /\ [][Next]_vars

(* The Run loop polls for as long as the process lives and time passes;    *)
(* nothing obliges a client to call.                                       *)
FairSpec == Spec /\ WF_vars(TryPopAt) /\ WF_vars(Tick)

-----------------------------------------------------------------------------
(* Every variable holds a value of its type: the slice holds timed items   *)
(* only, so that the time of the head is never nil when TryPopAt           *)
(* dereferences it (schedule.go:88).                                       *)
TypeOK ==
  /\ queue \in QueueOf(TimedItems)
  /\ now \in 0 .. MaxTime
  /\ given \subseteq Items
  /\ out \subseteq TimedItems

(* schedule.go:117 searches the slice by bisection, which finds the place  *)
(* only in an ordered slice: every sequence of calls keeps it ordered by   *)
(* time.                                                                   *)
QueueSorted == Sorted(queue)

(* schedule.go:110 slices with the index it found: the pointer the map     *)
(* holds for a key is always in the slice, also after duplicate            *)
(* scheduling and popping under the same key.                              *)
RemoveFindsItem == MapInSlice(queue)

(* A pointer is queued at most once, and an item that was handed out is    *)
(* never queued again: no lab copy is deployed or destroyed twice by one   *)
(* scheduling (schedule.go:84, 114).                                       *)
HandedOutOnce ==
  /\ NoTwice(queue)
  /\ ToSet(queue.schedule) \subseteq given \ out
  /\ out \subseteq given

(* The representation of a schedule: slice and map are well formed, the    *)
(* slice is ordered, the map points into it, and no item is in it twice or *)
(* once it was handed out (schedule.go:34-129).                            *)
QueueInv ==
  /\ TypeOK
  /\ QueueSorted
  /\ RemoveFindsItem
  /\ HandedOutOnce

(* Every item that is due leaves the queue, popped or removed, however     *)
(* clients keep scheduling (schedule.go:84).                               *)
DueItemsLeave ==
  \A item \in TimedItems :
    (item \in ToSet(queue.schedule) /\ TimeGetter(item) <= now)
      ~> (item \notin ToSet(queue.schedule))

(* The slice and its ordering implement the abstract pending set: every    *)
(* pop hands out a due item that nothing pending precedes, and remove      *)
(* takes out exactly what the key remembers (schedule.go:34-129).          *)
Abs == INSTANCE ScheduleAbstract
         WITH pending <- ToSet(queue.schedule), latest <- queue.scheduleMap

ImplementsPendingSet == Abs!Spec
=============================================================================
