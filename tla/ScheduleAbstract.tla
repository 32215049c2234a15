--------------------------- MODULE ScheduleAbstract ---------------------------
(***************************************************************************)
(* What a client of utils.Schedule may rely on, without the slice and its  *)
(* ordering: a set of pending items, of which each key remembers one.      *)
(* Popping hands out a pending item that is due and that no pending item   *)
(* precedes; removing a key takes out the one item the key remembers.      *)
(***************************************************************************)
EXTENDS Naturals

CONSTANTS
  Items,           \* the pointers clients can schedule
  NoTime,
  KeyGetter(_),
  TimeGetter(_)

VARIABLES
  pending,         \* the items that will still be popped
  latest,          \* the item each scheduled key remembers
  now,             \* the clock, in seconds
  out              \* the items handed out so far

vars == <<pending, latest, now, out>>

Init ==
  /\ pending = {}
  /\ latest = <<>>
  /\ now = 0
  /\ out = {}

Remembering(m, item) ==
  [k \in DOMAIN m \cup {KeyGetter(item)} |-> IF k = KeyGetter(item) THEN item ELSE m[k]]

Forgetting(m, key) == [k \in DOMAIN m \ {key} |-> m[k]]

RememberedUnder(key) == IF key \in DOMAIN latest THEN {latest[key]} ELSE {}

(* A new item becomes pending next to what its key already holds. *)
Add(item) ==
  /\ item \notin pending
  /\ TimeGetter(item) # NoTime
  /\ pending' = pending \cup {item}
  /\ latest' = Remembering(latest, item)
  /\ UNCHANGED <<now, out>>

(* A new item takes the place of the item its key remembers. *)
Replace(item) ==
  /\ item \notin pending
  /\ TimeGetter(item) # NoTime
  /\ pending' = (pending \ RememberedUnder(KeyGetter(item))) \cup {item}
  /\ latest' = Remembering(latest, item)
  /\ UNCHANGED <<now, out>>

(* The item a key remembers is taken out without being handed out. *)
Withdraw(key) ==
  /\ pending' = pending \ RememberedUnder(key)
  /\ latest' = Forgetting(latest, key)
  /\ UNCHANGED <<now, out>>

(* A due item that no pending item precedes is handed out. *)
HandOut(item) ==
  /\ item \in pending
  /\ TimeGetter(item) <= now
  /\ \A other \in pending : TimeGetter(item) <= TimeGetter(other)
  /\ pending' = pending \ {item}
  /\ latest' = Forgetting(latest, KeyGetter(item))
  /\ out' = out \cup {item}
  /\ UNCHANGED now

Elapse ==
  /\ now' > now
  /\ UNCHANGED <<pending, latest, out>>

Next ==
  \/ \E item \in Items : Add(item) \/ Replace(item) \/ HandOut(item)
  \/ \E item \in Items : Withdraw(KeyGetter(item))
  \/ Elapse

Spec == Init /\ [][Next]_vars
=============================================================================
