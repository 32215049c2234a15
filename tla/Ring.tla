--------------------------------- MODULE Ring --------------------------------
(***************************************************************************)
(* The ring buffers that hold the backlog of a namespace                   *)
(* (src/src/utils/ring.go) as operators on records, and what they are      *)
(* meant to hold: a ValueRing the last items added, a ByteRing the last    *)
(* lines.  An item says which message it belongs to and whether it ends a  *)
(* line.                                                                   *)
(***************************************************************************)
EXTENDS Naturals, Sequences, FiniteSets

(* The zero value of a slot. *)
Zero == [msg |-> 0, newline |-> FALSE]

(* The slots of a ring are numbered from 0, as in the code. *)
CreateValueRing(capacity) ==
  [buf |-> [i \in 0 .. capacity - 1 |-> Zero], cap |-> capacity, head |-> 0, size |-> 0]

(* Mutant: a full ring overwrites its newest item. *)
AddOverNewest(r, item) ==
  CASE r.cap = 0     -> r
    [] r.cap # 0 /\ r.size < r.cap ->
         [r EXCEPT !.buf[(r.head + r.size) % r.cap] = item, !.size = @ + 1]
    [] r.cap # 0 /\ r.size >= r.cap ->
         [r EXCEPT !.buf[(r.head + r.size - 1) % r.cap] = item]

ValueRingAdd(r, item) ==
  CASE r.cap = 0     -> r
    [] r.cap # 0 /\ r.size < r.cap ->
         [r EXCEPT !.buf[(r.head + r.size) % r.cap] = item, !.size = @ + 1]
    [] r.cap # 0 /\ r.size >= r.cap ->
         [r EXCEPT !.buf[r.head] = item, !.head = (@ + 1) % r.cap]

ValueRingItems(r) == [i \in 1 .. r.size |-> r.buf[(r.head + i - 1) % r.cap]]

ValueRingClear(r) == CreateValueRing(r.cap)

-----------------------------------------------------------------------------
CreateByteRing(capacity) == [buf |-> <<>>, cap |-> capacity, lines |-> 0]

Newlines(s) == {i \in DOMAIN s : s[i].newline}

(* s without its first n lines. *)
DropLines(s, n) ==
  IF n = 0 THEN s
  ELSE LET cut == CHOOSE i \in Newlines(s) : Cardinality({j \in Newlines(s) : j <= i}) = n
       IN SubSeq(s, cut + 1, Len(s))

(* trim: the first lines go until no more than cap are left. *)
trim(r) ==
  IF r.lines <= r.cap THEN r
  ELSE [r EXCEPT !.buf = DropLines(r.buf, r.lines - r.cap), !.lines = r.cap]

ByteRingAddMany(r, items) ==
  trim([r EXCEPT !.buf = @ \o items, !.lines = @ + Cardinality(Newlines(items))])

-----------------------------------------------------------------------------
(***************************************************************************)
(* What a ring should hold of all that was added since it was cleared.     *)
(***************************************************************************)
LastItems(s, n) == IF Len(s) <= n THEN s ELSE SubSeq(s, Len(s) - n + 1, Len(s))

(* The longest end of s with at most n line ends. *)
LastLines(s, n) ==
  LET fits == {i \in 1 .. Len(s) + 1 : Cardinality(Newlines(SubSeq(s, i, Len(s)))) <= n}
      starts == {i \in fits : i = 1 \/ s[i - 1].newline}
      first == CHOOSE i \in starts : \A j \in starts : i <= j
  IN SubSeq(s, first, Len(s))
=============================================================================
