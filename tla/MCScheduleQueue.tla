--------------------------- MODULE MCScheduleQueue ---------------------------
(* Two keys; each key can be due at time 1, at time 2 or never, and the    *)
(* keys of MCTwice have a second allocation of the item due at time 1.     *)
EXTENDS ScheduleQueue

CONSTANTS MCKeys, MCTimes, MCTwice

MCItems ==
  {item \in [key : MCKeys, time : MCTimes, copy : 1 .. 2] :
     item.copy = 2 => item.key \in MCTwice /\ item.time = 1}

MCKeyGetter(item) == item.key

MCTimeGetter(item) == item.time
=============================================================================
