---------------------------- MODULE StreamProofs ----------------------------
(***************************************************************************)
(* Proofs about what is streamed to clients: module Namespace, for any     *)
(* number of sockets and senders and any capacity of the rings, and module *)
(* Capture, for any number of interfaces, sessions and streams.  The two   *)
(* share no state; each part has an inductive invariant of its own.        *)
(***************************************************************************)
EXTENDS Namespace, Capture, SequenceTheorems, FiniteSetTheorems, WellFoundedInduction, TLAPS

(***************************************************************************)
(* The invariant                                                           *)
(***************************************************************************)
(* The socket has been listed. *)
Listed(s) == handler[s] \in {"callbacks", "replay", "done"}

(* Types, and messages that have been sent. *)
SenderRecord == [pc : {"idle", "add", "emit"}, msg : Nat, left : Seq(Sockets)]

ShapeInv ==
  /\ kind \in Kinds
  /\ connectedClients \in Seq(Sockets)
  /\ connectedClientsMap \in [Users -> Sockets \cup {None}]
  /\ user \in [Sockets -> Users \cup {None}]
  /\ sio \in [Sockets -> {"new", "open", "leaving", "closed"}]
  /\ handler \in [Sockets -> {"none", "list", "callbacks", "replay", "done"}]
  /\ released \in BOOLEAN
  /\ live \in [Sockets -> Seq(Nat)]
  /\ replay \in [Sockets -> SUBSET Nat]
  /\ sender \in [Senders -> SenderRecord]
  /\ sends \in 0 .. MaxSends
  /\ added \in Seq(Items)
  /\ shared \subseteq Users
  /\ everyone \subseteq Messages
  /\ missable \subseteq Sockets \X Messages
  /\ doubled \subseteq Sockets \X Messages
  /\ read \in [Sockets -> SUBSET Nat]

(* Every message has one Send, which has a message until it ends. *)
SenderInv ==
  /\ \A p \in Senders : sender[p].pc = "idle" <=> sender[p].msg = 0
  /\ \A p \in Senders : sender[p].msg <= sends
  /\ \A p, q \in Senders : p # q /\ sender[p].msg = sender[q].msg => sender[p].msg = 0
  /\ \A p \in Senders : sender[p].pc = "idle" => sender[p].left = <<>>
  /\ \A p \in Senders : IsInjective(sender[p].left)
  /\ \A p \in Senders : sender[p].pc = "add" => HasBacklog

(* The list and the map of clients, and the receivers of the messages under *)
(* way, hold listed sockets.                                                *)
ListInv ==
  /\ IsInjective(connectedClients)
  /\ \A s \in Range(connectedClients) : Listed(s)
  /\ \A u \in Users : connectedClientsMap[u] # None => Listed(connectedClientsMap[u])
  /\ \A p \in Senders : \A s \in Range(sender[p].left) : Listed(s)

(* A socket is listed after it has been accepted and until its disconnect   *)
(* callback has run.                                                        *)
SocketInv(s) ==
  /\ Listed(s) /\ sio[s] \in {"open", "leaving"} => s \in Range(connectedClients)
  /\ handler[s] # "none" => user[s] \in Users /\ sio[s] # "new"
  /\ sio[s] = "leaving" => Listed(s)
  /\ sio[s] = "new" => user[s] = None
  /\ handler[s] = "replay" => HasBacklog

(* The message m has not yet been emitted to the socket. *)
Pending(s, m) == \E p \in Senders : sender[p].msg = m /\ s \in Range(sender[p].left)

(* What an open socket has been sent has been sent, or added to the backlog, *)
(* and no message is sent live twice.                                        *)
OutputInv(s) ==
  /\ ~Listed(s) \/ sio[s] # "open" => live[s] = <<>>
  /\ handler[s] # "done" \/ sio[s] # "open" => replay[s] = {}
  /\ replay[s] \subseteq AddedMessages
  /\ read[s] \subseteq AddedMessages
  /\ \A m \in Range(live[s]) : m \in Messages /\ ~Pending(s, m)
  /\ IsInjective(live[s])

(* Every message to everyone is accounted for with every listed client.    *)
Accounted(s, m) ==
  \/ m \in Range(live[s])
  \/ m \in read[s]
  \/ <<s, m>> \in missable
  \/ Pending(s, m)
  \/ handler[s] \in {"callbacks", "replay"} /\ m \in AddedMessages

MissedInv(s) ==
  HasBacklog /\ sio[s] = "open" /\ Listed(s) => \A m \in everyone : Accounted(s, m)

(* What reaches a client live while it has not read the backlog, or also   *)
(* with the backlog, has been sent while it was connecting.                *)
Reaches(s, m) == m \in Range(live[s]) \/ Pending(s, m)

Overlaps(s, m) == (HasBacklog /\ handler[s] \in {"callbacks", "replay"}) \/ m \in replay[s]

TwiceInv(s) ==
  sio[s] = "open" => \A m \in Messages : Reaches(s, m) /\ Overlaps(s, m) => <<s, m>> \in doubled

(* What the backlog holds has been added. *)
AddedInv == \A i \in DOMAIN added : added[i].msg \in AddedMessages

(* The ring. *)
ValueInv(r, s) ==
  /\ r = [buf |-> r.buf, cap |-> r.cap, head |-> r.head, size |-> r.size]
  /\ r.cap \in Nat
  /\ r.size = IF Len(s) <= r.cap THEN Len(s) ELSE r.cap
  /\ r.head \in Nat /\ (r.cap > 0 => r.head < r.cap)
  /\ DOMAIN r.buf = 0 .. r.cap - 1
  /\ \A i \in 1 .. r.size : r.buf[(r.head + i - 1) % r.cap] = s[Len(s) - r.size + i]

ByteInv(r, s) ==
  /\ r = [buf |-> r.buf, cap |-> r.cap, lines |-> r.lines]
  /\ r.cap \in Nat
  /\ r.lines = Cardinality(Newlines(r.buf)) /\ r.lines <= r.cap
  /\ \E k \in 1 .. Len(s) + 1 :
       /\ r.buf = SubSeq(s, k, Len(s))
       /\ k = 1 \/ (s[k - 1].newline /\ r.lines = r.cap)

RingInv == 
  /\ kind = "shell" => ByteInv(backlog, added)
  /\ kind # "shell" => ValueInv(backlog, added)

ClientsInv == \A s \in Sockets : SocketInv(s) /\ OutputInv(s) /\ MissedInv(s) /\ TwiceInv(s)

Inv ==
  /\ ShapeInv /\ SenderInv /\ ListInv /\ ClientsInv /\ AddedInv /\ RingInv
  /\ SingleConnectionIsMapped

-----------------------------------------------------------------------------
(***************************************************************************)
(* ValueRing                                                               *)
(***************************************************************************)
(* A slot number that has passed the end of the ring at most once. *)
LEMMA ModSmall ==
  ASSUME NEW n \in Nat, n > 0, NEW x \in Nat, x < n + n
  PROVE  /\ x < n => x % n = x
         /\ x >= n => x % n = x - n
         /\ x % n \in 0 .. n - 1
<1>1. CASE x < n
  BY <1>1, SMT
<1>2. CASE x >= n
  <2>1. x % n = x - n
    BY <1>2, SMT
  <2> QED BY <1>2, <2>1
<1> QED BY <1>1, <1>2

(* A new ring is empty. *)
LEMMA CreateValueRingInv ==
  ASSUME NEW c \in Nat
  PROVE  ValueInv(CreateValueRing(c), <<>>)
<1> DEFINE r == CreateValueRing(c)
<1>1. /\ r = [buf |-> r.buf, cap |-> r.cap, head |-> r.head, size |-> r.size]
      /\ r.cap = c /\ r.size = 0 /\ r.head = 0 /\ DOMAIN r.buf = 0 .. c - 1
  BY DEF CreateValueRing
<1> HIDE DEF r
<1>2. Len(<<>>) = 0 /\ 1 .. 0 = {}
  OBVIOUS
<1> QED BY <1>1, <1>2 DEF ValueInv, r


(* Two positions less than a round apart are different slots. *)
LEMMA ModDistinct ==
  ASSUME NEW c \in Nat, c > 0, NEW a \in Nat, NEW b \in Nat, a < b, b < a + c, b < c + c
  PROVE  a % c # b % c
<1> PICK m1 : m1 = a % c
  OBVIOUS
<1> PICK m2 : m2 = b % c
  OBVIOUS
<1>1. a < c + c
  OBVIOUS
<1>2. /\ a < c => m1 = a
      /\ a >= c => m1 = a - c
  BY <1>1, ModSmall
<1>3. /\ b < c => m2 = b
      /\ b >= c => m2 = b - c
  BY ModSmall
<1>4. m1 # m2
  BY <1>2, <1>3
<1> QED BY <1>4

(* The window of z slots of b from h on shows the items of s after the first o. *)
Window(b, c, h, z, s, o) == \A i \in 1 .. z : b[(h + i - 1) % c] = s[o + i]

(* While there is room the window grows. *)
LEMMA WindowGrows ==
  ASSUME NEW c \in Nat, NEW h \in Nat, h < c, NEW z \in Nat, z < c,
         NEW b, DOMAIN b = 0 .. c - 1,
         NEW s, NEW t, NEW x, \A i \in 1 .. z : t[i] = s[i], t[z + 1] = x,
         Window(b, c, h, z, s, 0)
  PROVE  Window([b EXCEPT ![(h + z) % c] = x], c, h, z + 1, t, 0)
<1> PICK w : w = (h + z) % c
  OBVIOUS
<1> PICK d : d = [b EXCEPT ![w] = x]
  OBVIOUS
<1>1. w \in 0 .. c - 1
  <2>1. h + z \in Nat /\ h + z < c + c /\ c > 0
    OBVIOUS
  <2> QED BY <2>1, ModSmall
<1>2. ASSUME NEW i \in 1 .. z + 1
      PROVE  d[(h + i - 1) % c] = t[0 + i]
  <2> PICK a : a = h + i - 1
    OBVIOUS
  <2>1. a \in Nat /\ a < c + c /\ 0 + i = i /\ c > 0
    OBVIOUS
  <2>2. a % c \in 0 .. c - 1
    BY <2>1, ModSmall
  <2>3. CASE i = z + 1
    <3>1. a = h + z
      BY <2>3
    <3>2. d[w] = x
      BY <1>1
    <3> QED BY <2>1, <2>3, <3>1, <3>2
  <2>4. CASE i # z + 1
    <3>1. i \in 1 .. z
      BY <2>4
    <3>2. h + z \in Nat /\ a < h + z /\ h + z < a + c /\ h + z < c + c
      BY <3>1
    <3>3. a % c # w
      BY <2>1, <3>2, ModDistinct
    <3>4. d[a % c] = b[a % c]
      BY <2>2, <3>3
    <3>5. b[a % c] = s[0 + i]
      BY <3>1 DEF Window
    <3> QED BY <2>1, <3>1, <3>4, <3>5
  <2> QED BY <2>3, <2>4
<1> QED BY <1>2 DEF Window

(* Once it is full the window moves on by one. *)
LEMMA WindowMoves ==
  ASSUME NEW c \in Nat, NEW h \in Nat, h < c,
         NEW b, DOMAIN b = 0 .. c - 1,
         NEW n \in Nat, n >= c,
         NEW s, NEW t, NEW x, \A i \in 1 .. n : t[i] = s[i], t[n + 1] = x,
         Window(b, c, h, c, s, n - c)
  PROVE  Window([b EXCEPT ![h] = x], c, (h + 1) % c, c, t, n + 1 - c)
<1> PICK d : d = [b EXCEPT ![h] = x]
  OBVIOUS
<1> PICK g : g = (h + 1) % c
  OBVIOUS
<1>1. c > 0 /\ h + 1 \in Nat /\ h + 1 < c + c /\ h \in 0 .. c - 1
  OBVIOUS
<1>2. /\ g \in 0 .. c - 1
      /\ h + 1 < c => g = h + 1
      /\ h + 1 >= c => g = h + 1 - c
  BY <1>1, ModSmall
<1>3. ASSUME NEW i \in 1 .. c
      PROVE  d[(g + i - 1) % c] = t[n + 1 - c + i]
  <2> PICK a : a = g + i - 1
    OBVIOUS
  <2> PICK e : e = h + i
    OBVIOUS
  <2>1. /\ a \in Nat /\ a < c + c
        /\ e \in Nat /\ e < c + c
        /\ e = a \/ e = a + c
    BY <1>1, <1>2
  <2>2. a % c = e % c /\ a % c \in 0 .. c - 1
    <3> PICK m1 : m1 = a % c
      OBVIOUS
    <3> PICK m2 : m2 = e % c
      OBVIOUS
    <3>1. /\ a < c => m1 = a
          /\ a >= c => m1 = a - c
          /\ m1 \in 0 .. c - 1
      BY <1>1, <2>1, ModSmall
    <3>2. /\ e < c => m2 = e
          /\ e >= c => m2 = e - c
      BY <1>1, <2>1, ModSmall
    <3>3. m1 = m2
      BY <1>1, <2>1, <3>1, <3>2
    <3> QED BY <3>1, <3>3
  <2>3. CASE i = c
    <3>1. e % c = h
      <4>1. e >= c /\ e - c = h
        BY <2>3
      <4> QED BY <1>1, <2>1, <4>1, ModSmall
    <3>2. d[h] = x
      BY <1>1
    <3>3. n + 1 - c + i = n + 1
      BY <2>3
    <3> QED BY <2>2, <3>1, <3>2, <3>3
  <2>4. CASE i # c
    <3>1. e % c # h
      <4>1. h < e /\ e < h + c
        BY <2>4
      <4>2. h % c # e % c
        BY <1>1, <2>1, <4>1, ModDistinct
      <4>3. h % c = h
        BY <1>1, ModSmall
      <4> QED BY <4>2, <4>3
    <3>2. d[e % c] = b[e % c]
      BY <2>2, <3>1
    <3> PICK j : j = i + 1
      OBVIOUS
    <3>3. j \in 1 .. c /\ h + j - 1 = e /\ n - c + j = n + 1 - c + i /\ n + 1 - c + i \in 1 .. n
      BY <2>4
    <3>4. b[(h + j - 1) % c] = s[n - c + j]
      BY <3>3 DEF Window
    <3>5. b[e % c] = s[n + 1 - c + i]
      BY <3>3, <3>4
    <3> QED BY <2>2, <3>2, <3>3, <3>5
  <2> QED BY <2>3, <2>4
<1> QED BY <1>3 DEF Window

(* Adding an item keeps the ring at the end of what has been added: while  *)
(* there is room the window grows, then the oldest slot is reused.         *)
LEMMA ValueRingAddInv ==
  ASSUME NEW r, NEW S, NEW s \in Seq(S), NEW x \in S, ValueInv(r, s)
  PROVE  ValueInv(ValueRingAdd(r, x), s \o <<x>>)
<1> PICK t : t = s \o <<x>>
  OBVIOUS
<1> PICK n : n = Len(s)
  OBVIOUS
<1> PICK c : c = r.cap
  OBVIOUS
<1> PICK h : h = r.head
  OBVIOUS
<1> PICK z : z = r.size
  OBVIOUS
<1> PICK b : b = r.buf
  OBVIOUS
<1>1. /\ r = [buf |-> b, cap |-> c, head |-> h, size |-> z]
  BY DEF ValueInv
<1>2. c \in Nat /\ h \in Nat /\ (c > 0 => h < c) /\ DOMAIN b = 0 .. c - 1
  BY DEF ValueInv
<1>3. z = IF n <= c THEN n ELSE c
  BY DEF ValueInv
<1>4. Window(b, c, h, z, s, n - z)
  BY DEF ValueInv, Window
<1>5. /\ n \in Nat /\ Len(t) = n + 1 /\ t[n + 1] = x
      /\ \A i \in 1 .. n : t[i] = s[i]
  <2>1. <<x>> \in Seq(S) /\ Len(<<x>>) = 1 /\ <<x>>[1] = x
    OBVIOUS
  <2>2. n \in Nat
    BY LenProperties
  <2>3. Len(t) = n + 1 /\ \A i \in 1 .. n + 1 : t[i] = IF i <= n THEN s[i] ELSE <<x>>[i - n]
    BY <2>1, <2>2, ConcatProperties
  <2>4. t[n + 1] = x
    BY <2>1, <2>2, <2>3
  <2>5. \A i \in 1 .. n : t[i] = s[i]
    BY <2>2, <2>3
  <2> QED BY <2>2, <2>3, <2>4, <2>5
<1> SUFFICES ValueInv(ValueRingAdd(r, x), t)
  OBVIOUS
<1>6. CASE c = 0
  <2>1. ValueRingAdd(r, x) = r
    BY <1>6 DEF ValueRingAdd
  <2>2. z = 0 /\ (IF n + 1 <= c THEN n + 1 ELSE c) = 0 /\ 1 .. 0 = {}
    BY <1>2, <1>3, <1>5, <1>6
  <2> QED BY <1>1, <1>2, <1>5, <1>6, <2>1, <2>2 DEF ValueInv
<1>7. CASE c > 0 /\ z < c
  <2> PICK w : w = (h + z) % c
    OBVIOUS
  <2> PICK d : d = [b EXCEPT ![w] = x]
    OBVIOUS
  <2>1. ValueRingAdd(r, x) = [buf |-> d, cap |-> c, head |-> h, size |-> z + 1]
    <3>1. r.cap # 0 /\ r.size < r.cap /\ ~(r.size >= r.cap)
      BY <1>2, <1>3, <1>5, <1>7
    <3>2. ValueRingAdd(r, x) = [r EXCEPT !.buf[w] = x, !.size = z + 1]
      BY <3>1 DEF ValueRingAdd
    <3> QED BY <1>1, <3>2
  <2>2. n = z /\ n - z = 0 /\ n + 1 <= c /\ h < c /\ n + 1 - (z + 1) = 0
    BY <1>2, <1>3, <1>5, <1>7
  <2>3. Window(b, c, h, n, s, 0)
    BY <1>4, <2>2
  <2>4. Window(d, c, h, n + 1, t, 0)
    <3>1. d = [b EXCEPT ![(h + n) % c] = x]
      BY <2>2
    <3>2. n < c
      BY <1>7, <2>2
    <3> QED BY ONLY <1>2, <1>5, <2>2, <2>3, <3>1, <3>2, WindowGrows
  <2>5. DOMAIN d = 0 .. c - 1
    BY <1>2
  <2>6. \A i \in 1 .. n + 1 : d[(h + i - 1) % c] = t[0 + i]
    BY <2>4 DEF Window
  <2> PICK q : q = ValueRingAdd(r, x)
    OBVIOUS
  <2>7. /\ q = [buf |-> q.buf, cap |-> q.cap, head |-> q.head, size |-> q.size]
        /\ q.buf = d /\ q.cap = c /\ q.head = h /\ q.size = n + 1
    BY <2>1, <2>2
  <2>8. q.size = IF Len(t) <= q.cap THEN Len(t) ELSE q.cap
    BY <1>5, <2>2, <2>7
  <2>9. \A i \in 1 .. q.size : q.buf[(q.head + i - 1) % q.cap] = t[Len(t) - q.size + i]
    <3>1. Len(t) - q.size = 0
      BY <1>5, <2>7
    <3> QED BY <2>6, <2>7, <3>1
  <2> QED BY <1>2, <2>2, <2>5, <2>7, <2>8, <2>9 DEF ValueInv
<1>8. CASE c > 0 /\ z >= c
  <2> PICK g : g = (h + 1) % c
    OBVIOUS
  <2> PICK d : d = [b EXCEPT ![h] = x]
    OBVIOUS
  <2>1. ValueRingAdd(r, x) = [buf |-> d, cap |-> c, head |-> g, size |-> z]
    <3>1. r.cap # 0 /\ ~(r.size < r.cap) /\ r.size >= r.cap
      BY <1>2, <1>3, <1>5, <1>8
    <3>2. ValueRingAdd(r, x) = [r EXCEPT !.buf[h] = x, !.head = g]
      BY <3>1 DEF ValueRingAdd
    <3> QED BY <1>1, <3>2
  <2>2. z = c /\ n >= c /\ h < c /\ ~(n + 1 <= c)
    BY <1>2, <1>3, <1>5, <1>8
  <2>3. Window(b, c, h, c, s, n - c)
    BY <1>4, <2>2
  <2>4. Window(d, c, g, c, t, n + 1 - c)
    <3>1. Window([b EXCEPT ![h] = x], c, (h + 1) % c, c, t, n + 1 - c)
      BY ONLY <1>2, <1>5, <2>2, <2>3, WindowMoves, Zenon
    <3> QED BY <3>1, Zenon
  <2>5. DOMAIN d = 0 .. c - 1
    BY <1>2
  <2>6. g \in 0 .. c - 1
    <3>1. h + 1 \in Nat /\ h + 1 < c + c
      BY <1>2, <2>2
    <3> QED BY <1>2, <1>8, <3>1, ModSmall
  <2>7. g \in Nat /\ g < c
    BY <1>2, <2>6
  <2>8. \A i \in 1 .. c : d[(g + i - 1) % c] = t[n + 1 - c + i]
    BY <2>4 DEF Window
  <2> PICK q : q = ValueRingAdd(r, x)
    OBVIOUS
  <2>9. /\ q = [buf |-> q.buf, cap |-> q.cap, head |-> q.head, size |-> q.size]
        /\ q.buf = d /\ q.cap = c /\ q.head = g /\ q.size = c
    BY <2>1, <2>2
  <2>10. q.size = IF Len(t) <= q.cap THEN Len(t) ELSE q.cap
    BY <1>5, <2>2, <2>9
  <2>11. \A i \in 1 .. q.size : q.buf[(q.head + i - 1) % q.cap] = t[Len(t) - q.size + i]
    <3>1. Len(t) = n + 1 /\ q.size = c
      BY <1>5, <2>9
    <3>2. q.buf = d /\ q.cap = c /\ q.head = g
      BY <2>9
    <3>3. \A i \in 1 .. c : d[(g + i - 1) % c] = t[((n + 1) - c) + i]
      <4> TAKE i \in 1 .. c
      <4>1. ((n + 1) - c) + i = n + 1 - c + i
        <5>1. n \in Nat /\ c \in Nat
          BY <1>2, <1>5
        <5> QED BY ONLY <5>1, i \in 1 .. c
      <4> QED BY <2>8, <4>1
    <3> QED BY ONLY <3>1, <3>2, <3>3, Zenon
  <2> QED BY <1>2, <2>5, <2>7, <2>9, <2>10, <2>11 DEF ValueInv
<1> QED BY <1>2, <1>3, <1>5, <1>6, <1>7, <1>8

(* What the ring returns is the end of what has been added. *)
LEMMA ValueRingItemsAreTheEnd ==
  ASSUME NEW r, NEW S, NEW s \in Seq(S), ValueInv(r, s)
  PROVE  /\ ValueRingItems(r) = LastItems(s, r.cap)
         /\ \A i \in DOMAIN ValueRingItems(r) : \E j \in DOMAIN s : ValueRingItems(r)[i] = s[j]
<1> PICK n : n = Len(s)
  OBVIOUS
<1> PICK c : c = r.cap
  OBVIOUS
<1> PICK z : z = r.size
  OBVIOUS
<1>1. c \in Nat /\ n \in Nat /\ DOMAIN s = 1 .. n
  BY LenProperties DEF ValueInv
<1>2. z = IF n <= c THEN n ELSE c
  BY DEF ValueInv
<1>3. z \in Nat /\ z <= n
  BY <1>1, <1>2
<1>4. ValueRingItems(r) = [i \in 1 .. z |-> s[n - z + i]]
  BY DEF ValueRingItems, ValueInv
<1>5. LastItems(s, c) = [i \in 1 .. z |-> s[n - z + i]]
  <2>1. CASE n <= c
    <3>1. z = n /\ LastItems(s, c) = s
      BY <1>2, <2>1 DEF LastItems
    <3>2. s = [i \in 1 .. n |-> s[i]]
      BY <1>1
    <3>3. \A i \in 1 .. n : n - z + i = i
      BY <1>1, <3>1
    <3> QED BY <3>1, <3>2, <3>3
  <2>2. CASE n > c
    <3> PICK a : a = n - z + 1
      OBVIOUS
    <3> PICK v : v = SubSeq(s, a, n)
      OBVIOUS
    <3>1. z = c /\ LastItems(s, c) = v
      <4>1. z = c /\ ~(n <= c)
        BY <1>1, <1>2, <2>2
      <4> QED BY <4>1 DEF LastItems
    <3>2. a \in Int /\ n \in Int /\ n - a + 1 = z /\ a .. n \subseteq 1 .. n
      BY <1>1, <1>3
    <3>3. \A i \in a .. n : s[i] \in S
      BY <1>1, <3>2, ElementOfSeq
    <3>4. v \in Seq(S) /\ Len(v) = (IF a <= n THEN n - a + 1 ELSE 0) /\ \A i \in 1 .. n - a + 1 : v[i] = s[a + i - 1]
      BY ONLY <3>2, <3>3, v = SubSeq(s, a, n), SubSeqProperties
    <3>5. Len(v) = z
      <4>1. Len(v) = IF a <= n THEN n - a + 1 ELSE 0
        BY <3>4
      <4>2. (IF a <= n THEN n - a + 1 ELSE 0) = z
        BY ONLY <3>2, <1>3
      <4> QED BY <4>1, <4>2
    <3>6. \A i \in 1 .. z : v[i] = s[n - z + i]
      <4> TAKE i \in 1 .. z
      <4>1. a + i - 1 = n - z + i
        BY <1>1, <1>3
      <4>2. i \in 1 .. n - a + 1
        BY <3>2
      <4> QED BY <3>4, <4>1, <4>2
    <3>7. v = [i \in 1 .. z |-> v[i]]
      BY <3>4, <3>5, LenProperties
    <3> QED BY <3>1, <3>6, <3>7
  <2> QED BY <1>1, <2>1, <2>2
<1>6. ASSUME NEW i \in DOMAIN ValueRingItems(r)
      PROVE  \E j \in DOMAIN s : ValueRingItems(r)[i] = s[j]
  <2>1. i \in 1 .. z
    BY <1>4
  <2>2. n - z + i \in DOMAIN s
    BY <1>1, <1>3, <2>1
  <2>3. ValueRingItems(r)[i] = s[n - z + i]
    BY <1>4, <2>1
  <2> QED BY <2>2, <2>3
<1> QED BY <1>4, <1>5, <1>6
(* A nonempty set of naturals has a least element. *)
LEMMA LeastNatural ==
  ASSUME NEW T, T \subseteq Nat, T # {}
  PROVE  \E x \in T : \A y \in T : x <= y
<1> DEFINE R == {ss \in Nat \X Nat : ss[1] < ss[2]}
<1>1. IsWellFoundedOn(R, Nat)
  BY NatLessThanWellFounded, Zenon DEF OpToRel
<1> HIDE DEF R
<1>2. PICK x \in T : \A y \in T : ~(<<y, x>> \in R)
  BY <1>1, WFMin, Zenon
<1>3. ASSUME NEW y \in T
      PROVE  x <= y
  <2>1. <<y, x>> \in Nat \X Nat
    OBVIOUS
  <2>2. ~(y < x)
    BY <1>2, <2>1 DEF R
  <2> QED
    BY <2>2
<1> QED
  BY <1>3

-----------------------------------------------------------------------------
(***************************************************************************)
(* ByteRing                                                                *)
(***************************************************************************)
(* The line ends of s from position k on, and up to position k. *)
EndsFrom(s, k) == {j \in Newlines(s) : j >= k}
EndsUpTo(s, k) == {j \in Newlines(s) : j <= k}

(* The end of a sequence, item by item. *)
LEMMA EndOfSeq ==
  ASSUME NEW S, NEW s \in Seq(S), NEW k \in 1 .. Len(s) + 1
  PROVE  /\ SubSeq(s, k, Len(s)) \in Seq(S)
         /\ Len(SubSeq(s, k, Len(s))) = Len(s) - k + 1
         /\ \A i \in 1 .. Len(s) - k + 1 : SubSeq(s, k, Len(s))[i] = s[k + i - 1]
<1> PICK n : n = Len(s)
  OBVIOUS
<1>1. n \in Nat
  BY LenProperties
<1>2. k \in Int /\ n \in Int /\ k .. n \subseteq 1 .. n
  BY <1>1
<1>3. \A i \in k .. n : s[i] \in S
  BY <1>2, ElementOfSeq
<1> PICK v : v = SubSeq(s, k, n)
  OBVIOUS
<1>4. /\ v \in Seq(S)
      /\ Len(v) = IF k <= n THEN n - k + 1 ELSE 0
      /\ \A i \in 1 .. n - k + 1 : v[i] = s[k + i - 1]
  BY ONLY <1>2, <1>3, v = SubSeq(s, k, n), SubSeqProperties
<1>5. (IF k <= n THEN n - k + 1 ELSE 0) = n - k + 1
  BY ONLY <1>1, k \in 1 .. n + 1
<1> QED BY <1>4, <1>5

(* The line ends of a finite sequence are finitely many positions. *)
LEMMA EndsAreFinite ==
  ASSUME NEW S, NEW s \in Seq(S)
  PROVE  /\ Newlines(s) \subseteq 1 .. Len(s)
         /\ \A T \in SUBSET Newlines(s) : IsFiniteSet(T) /\ Cardinality(T) \in Nat
<1>1. Newlines(s) \subseteq 1 .. Len(s)
  BY LenProperties DEF Newlines
<1>2. IsFiniteSet(1 .. Len(s))
  BY LenProperties, FS_Interval
<1>3. ASSUME NEW T \in SUBSET Newlines(s)
      PROVE  IsFiniteSet(T) /\ Cardinality(T) \in Nat
  <2>1. IsFiniteSet(T)
    BY <1>1, <1>2, FS_Subset
  <2> QED BY <2>1, FS_CardinalityType
<1> QED BY <1>1, <1>3

(* The line ends before a position and those after it add up. *)
LEMMA EndsAddUp ==
  ASSUME NEW S, NEW s \in Seq(S), NEW k \in 0 .. Len(s)
  PROVE  /\ Cardinality(EndsUpTo(s, k)) \in Nat
         /\ Cardinality(EndsFrom(s, k + 1)) \in Nat
         /\ Cardinality(Newlines(s)) = Cardinality(EndsUpTo(s, k)) + Cardinality(EndsFrom(s, k + 1))
<1> PICK A : A = EndsUpTo(s, k)
  OBVIOUS
<1> PICK B : B = EndsFrom(s, k + 1)
  OBVIOUS
<1>1. Newlines(s) \subseteq 1 .. Len(s)
  BY EndsAreFinite
<1>2. A \subseteq Newlines(s) /\ B \subseteq Newlines(s)
  BY DEF EndsUpTo, EndsFrom
<1>3. Newlines(s) = A \cup B /\ A \cap B = {}
  BY <1>1, LenProperties DEF EndsUpTo, EndsFrom
<1>4. /\ IsFiniteSet(A) /\ IsFiniteSet(B)
      /\ Cardinality(A) \in Nat /\ Cardinality(B) \in Nat
  BY <1>2, EndsAreFinite
<1>5. Cardinality(A \cup B) = Cardinality(A) + Cardinality(B) - Cardinality(A \cap B)
  BY <1>4, FS_Union
<1>6. Cardinality(A \cap B) = 0
  BY <1>3, FS_EmptySet
<1> QED BY <1>3, <1>4, <1>5, <1>6

(* Cutting off the beginning of a sequence keeps the other line ends. *)
LEMMA EndsOfEnd ==
  ASSUME NEW S, NEW s \in Seq(S), NEW k \in 1 .. Len(s) + 1
  PROVE  Cardinality(Newlines(SubSeq(s, k, Len(s)))) = Cardinality(EndsFrom(s, k))
<1> PICK n : n = Len(s)
  OBVIOUS
<1> PICK v : v = SubSeq(s, k, n)
  OBVIOUS
<1>1. n \in Nat /\ DOMAIN s = 1 .. n
  BY LenProperties
<1>2. v \in Seq(S) /\ Len(v) = n - k + 1 /\ \A i \in 1 .. n - k + 1 : v[i] = s[k + i - 1]
  BY EndOfSeq
<1>3. DOMAIN v = 1 .. n - k + 1
  BY <1>2, LenProperties
<1> DEFINE f == [j \in EndsFrom(s, k) |-> j - k + 1]
<1>4. \A j \in EndsFrom(s, k) : j \in k .. n /\ s[j].newline
  BY <1>1 DEF EndsFrom, Newlines
<1>5. \A j \in EndsFrom(s, k) : j - k + 1 \in Newlines(v)
  <2> TAKE j \in EndsFrom(s, k)
  <2>1. j \in k .. n /\ s[j].newline
    BY <1>4
  <2>2. j - k + 1 \in 1 .. n - k + 1 /\ k + (j - k + 1) - 1 = j
    BY <1>1, <2>1
  <2>3. v[j - k + 1] = s[j]
    BY <1>2, <2>2
  <2> QED BY <1>3, <2>1, <2>2, <2>3 DEF Newlines
<1>6. f \in [EndsFrom(s, k) -> Newlines(v)]
  BY <1>5
<1>7. IsInjective(f)
  <2>1. ASSUME NEW a \in EndsFrom(s, k), NEW b \in EndsFrom(s, k), f[a] = f[b]
        PROVE  a = b
    <3>1. a \in k .. n /\ b \in k .. n /\ a - k + 1 = b - k + 1
      BY <1>4, <2>1
    <3> QED BY <1>1, <3>1
  <2> HIDE DEF f
  <2> QED BY <1>6, <2>1 DEF IsInjective
<1>8. \A i \in Newlines(v) : \E j \in EndsFrom(s, k) : f[j] = i
  <2> TAKE i \in Newlines(v)
  <2>1. i \in 1 .. n - k + 1 /\ v[i].newline
    BY <1>3 DEF Newlines
  <2> PICK j : j = k + i - 1
    OBVIOUS
  <2>2. j \in 1 .. n /\ j >= k /\ j - k + 1 = i
    BY <1>1, <2>1
  <2>3. s[j].newline
    BY <1>2, <2>1
  <2>4. j \in EndsFrom(s, k)
    BY <1>1, <2>2, <2>3 DEF EndsFrom, Newlines
  <2> QED BY <2>2, <2>4
<1> HIDE DEF f
<1>9. f \in Bijection(EndsFrom(s, k), Newlines(v))
  BY <1>6, <1>7, <1>8 DEF Bijection, Injection, Surjection
<1>10. IsFiniteSet(EndsFrom(s, k))
  <2>1. EndsFrom(s, k) \in SUBSET Newlines(s)
    BY DEF EndsFrom
  <2> QED BY <2>1, EndsAreFinite
<1>11. ExistsBijection(EndsFrom(s, k), Newlines(v))
  BY <1>9 DEF ExistsBijection
<1> QED BY <1>10, <1>11, FS_Bijection

(* A sequence with at least m line ends has an m-th one. *)
LEMMA EndExists ==
  ASSUME NEW S, NEW s \in Seq(S), NEW m \in Nat, m > 0, m <= Cardinality(Newlines(s))
  PROVE  \E i \in Newlines(s) : Cardinality({j \in Newlines(s) : j <= i}) = m
<1> PICK n : n = Len(s)
  OBVIOUS
<1> DEFINE C(i) == Cardinality(EndsUpTo(s, i))
           T == {i \in 0 .. n : C(i) >= m}
<1>1. n \in Nat /\ Newlines(s) \subseteq 1 .. n
  BY LenProperties, EndsAreFinite
<1>2. EndsUpTo(s, n) = Newlines(s) /\ EndsUpTo(s, 0) = {}
  BY <1>1 DEF EndsUpTo
<1>3. n \in T /\ C(0) = 0
  <2>1. Cardinality(Newlines(s)) \in Nat
    BY EndsAreFinite
  <2>2. C(n) >= m
    BY <1>2, <2>1
  <2>3. C(0) = 0
    BY <1>2, FS_EmptySet
  <2> QED BY <1>1, <2>2, <2>3
<1>4. \A i \in 0 .. n : C(i) \in Nat /\ IsFiniteSet(EndsUpTo(s, i))
  <2> TAKE i \in 0 .. n
  <2>1. EndsUpTo(s, i) \in SUBSET Newlines(s)
    BY DEF EndsUpTo
  <2> QED BY <2>1, EndsAreFinite
<1>5. PICK i \in T : \A y \in T : i <= y
  <2>1. T \subseteq Nat /\ T # {}
    BY <1>1, <1>3
  <2> HIDE DEF T
  <2> QED BY <2>1, LeastNatural
<1>6. i \in 0 .. n /\ C(i) >= m /\ C(i) \in Nat
  BY <1>4, <1>5
<1>7. i # 0
  BY <1>3, <1>6
<1>8. i - 1 \in 0 .. n /\ C(i - 1) \in Nat /\ IsFiniteSet(EndsUpTo(s, i - 1))
  BY <1>1, <1>4, <1>6, <1>7
<1>9. C(i - 1) < m
  <2>1. i - 1 \notin T
    BY <1>1, <1>5, <1>6, <1>7
  <2> QED BY <1>8, <2>1
<1> HIDE DEF T, C
<1>10. CASE i \notin Newlines(s)
  <2>1. EndsUpTo(s, i) = EndsUpTo(s, i - 1)
    BY <1>1, <1>6, <1>10 DEF EndsUpTo
  <2>2. C(i) = C(i - 1)
    BY <2>1 DEF C
  <2> QED BY <1>6, <1>8, <1>9, <2>2
<1>11. CASE i \in Newlines(s)
  <2>1. EndsUpTo(s, i) = EndsUpTo(s, i - 1) \cup {i} /\ i \notin EndsUpTo(s, i - 1)
    BY <1>1, <1>6, <1>11 DEF EndsUpTo
  <2>2. C(i) = C(i - 1) + 1
    BY <1>8, <2>1, FS_AddElement DEF C
  <2>3. C(i) = m
    BY <1>6, <1>8, <1>9, <2>2
  <2> QED BY <1>11, <2>3 DEF C, EndsUpTo
<1> QED BY <1>10, <1>11

(* The end of an end. *)
LEMMA EndOfEnd ==
  ASSUME NEW S, NEW s \in Seq(S), NEW k \in 1 .. Len(s) + 1, NEW v, v = SubSeq(s, k, Len(s)),
         NEW j \in 1 .. Len(v) + 1
  PROVE  /\ k + j - 1 \in 1 .. Len(s) + 1
         /\ SubSeq(v, j, Len(v)) = SubSeq(s, k + j - 1, Len(s))
<1> PICK n : n = Len(s)
  OBVIOUS
<1>1. n \in Nat
  BY LenProperties
<1>2. v \in Seq(S) /\ Len(v) = n - k + 1 /\ \A i \in 1 .. n - k + 1 : v[i] = s[k + i - 1]
  BY EndOfSeq
<1> PICK h : h = k + j - 1
  OBVIOUS
<1>3. j \in 1 .. (n - k + 1) + 1
  BY <1>2
<1>4. h \in 1 .. n + 1 /\ (n - k + 1) - j + 1 = n - h + 1
  BY <1>1, <1>3
<1> PICK a : a = SubSeq(v, j, Len(v))
  OBVIOUS
<1> PICK b : b = SubSeq(s, h, n)
  OBVIOUS
<1>5. a \in Seq(S) /\ Len(a) = Len(v) - j + 1 /\ \A i \in 1 .. Len(v) - j + 1 : a[i] = v[j + i - 1]
  BY <1>2, EndOfSeq
<1>6. b \in Seq(S) /\ Len(b) = n - h + 1 /\ \A i \in 1 .. n - h + 1 : b[i] = s[h + i - 1]
  BY <1>4, EndOfSeq
<1>7. Len(a) = n - h + 1
  BY <1>2, <1>4, <1>5
<1>8. ASSUME NEW i \in 1 .. n - h + 1
      PROVE  a[i] = b[i]
  <2>1. a[i] = v[j + i - 1]
    BY <1>2, <1>4, <1>5
  <2> PICK e : e = j + i - 1
    OBVIOUS
  <2>2. e \in 1 .. n - k + 1 /\ k + e - 1 = h + i - 1
    BY <1>1, <1>3, <1>4
  <2>3. v[e] = s[h + i - 1]
    BY <1>2, <2>2
  <2> QED BY <1>6, <2>1, <2>3
<1>9. a = b
  BY <1>5, <1>6, <1>7, <1>8, SeqEqual
<1> QED BY <1>4, <1>9

(* What is added goes to the end of the end. *)
LEMMA EndGrows ==
  ASSUME NEW S, NEW s \in Seq(S), NEW t \in Seq(S), NEW k \in 1 .. Len(s) + 1
  PROVE  /\ k \in 1 .. Len(s \o t) + 1
         /\ SubSeq(s, k, Len(s)) \o t = SubSeq(s \o t, k, Len(s \o t))
<1> PICK n : n = Len(s)
  OBVIOUS
<1> PICK m : m = Len(t)
  OBVIOUS
<1> PICK u : u = s \o t
  OBVIOUS
<1> PICK v : v = SubSeq(s, k, n)
  OBVIOUS
<1>1. n \in Nat /\ m \in Nat
  BY LenProperties
<1>2. u \in Seq(S) /\ Len(u) = n + m /\ \A i \in 1 .. n + m : u[i] = IF i <= n THEN s[i] ELSE t[i - n]
  BY ConcatProperties
<1>3. v \in Seq(S) /\ Len(v) = n - k + 1 /\ \A i \in 1 .. n - k + 1 : v[i] = s[k + i - 1]
  BY EndOfSeq
<1> PICK l : l = n - k + 1
  OBVIOUS
<1>4. l \in Nat /\ l + m = (n + m) - k + 1 /\ k \in 1 .. (n + m) + 1
  BY <1>1
<1> PICK a : a = v \o t
  OBVIOUS
<1> PICK b : b = SubSeq(u, k, n + m)
  OBVIOUS
<1>5. a \in Seq(S) /\ Len(a) = l + m /\ \A i \in 1 .. l + m : a[i] = IF i <= l THEN v[i] ELSE t[i - l]
  <2>1. Len(v) = l /\ v \in Seq(S)
    BY <1>3
  <2>2. /\ a \in Seq(S)
        /\ Len(a) = Len(v) + Len(t)
        /\ \A i \in 1 .. Len(v) + Len(t) : a[i] = IF i <= Len(v) THEN v[i] ELSE t[i - Len(v)]
    BY ONLY t \in Seq(S), <2>1, a = v \o t, ConcatProperties
  <2> QED BY <2>1, <2>2
<1>6. b \in Seq(S) /\ Len(b) = (n + m) - k + 1 /\ \A i \in 1 .. (n + m) - k + 1 : b[i] = u[k + i - 1]
  BY <1>2, <1>4, EndOfSeq
<1>7. ASSUME NEW i \in 1 .. l + m
      PROVE  a[i] = b[i]
  <2> PICK j : j = k + i - 1
    OBVIOUS
  <2>1. j \in 1 .. n + m
    BY <1>1, <1>4
  <2>2. b[i] = u[j]
    BY <1>4, <1>6
  <2>3. CASE i <= l
    <3>1. j <= n
      BY <1>1, <2>3
    <3>2. i \in 1 .. n - k + 1
      BY <1>4, <2>3
    <3> QED BY <1>2, <1>3, <1>5, <2>1, <2>2, <2>3, <3>1, <3>2
  <2>4. CASE ~(i <= l)
    <3>1. ~(j <= n) /\ j - n = i - l
      BY <1>1, <1>4, <2>4
    <3> QED BY <1>2, <1>5, <2>1, <2>2, <2>4, <3>1
  <2> QED BY <2>3, <2>4
<1>8. Len(a) = Len(b)
  BY <1>4, <1>5, <1>6
<1>9. a = b
  <2>1. a \in Seq(S) /\ b \in Seq(S)
    BY <1>5, <1>6
  <2>2. \A i \in 1 .. Len(a) : a[i] = b[i]
    BY <1>5, <1>7
  <2> QED BY ONLY <1>8, <2>1, <2>2, SeqEqual
<1> QED BY <1>2, <1>4, <1>9

(* The line ends of what is added come on top. *)
LEMMA EndsGrow ==
  ASSUME NEW S, NEW s \in Seq(S), NEW t \in Seq(S)
  PROVE  /\ Cardinality(Newlines(s)) \in Nat
         /\ Cardinality(Newlines(t)) \in Nat
         /\ Cardinality(Newlines(s \o t)) = Cardinality(Newlines(s)) + Cardinality(Newlines(t))
<1> PICK n : n = Len(s)
  OBVIOUS
<1> PICK m : m = Len(t)
  OBVIOUS
<1> PICK u : u = s \o t
  OBVIOUS
<1>1. n \in Nat /\ m \in Nat /\ DOMAIN s = 1 .. n
  BY LenProperties
<1>2. u \in Seq(S) /\ Len(u) = n + m /\ \A i \in 1 .. n + m : u[i] = IF i <= n THEN s[i] ELSE t[i - n]
  BY ConcatProperties
<1>3. DOMAIN u = 1 .. n + m
  BY <1>2, LenProperties
<1>4. EndsUpTo(u, n) = Newlines(s)
  <2>1. ASSUME NEW i
        PROVE  i \in EndsUpTo(u, n) <=> i \in Newlines(s)
    <3>1. CASE i \in 1 .. n
      <4>1. u[i] = s[i] /\ i \in 1 .. n + m /\ i <= n
        BY <1>1, <1>2, <3>1
      <4> QED BY <1>1, <1>3, <3>1, <4>1 DEF EndsUpTo, Newlines
    <3>2. CASE i \notin 1 .. n
      <4>1. i \notin Newlines(s)
        BY <1>1, <3>2 DEF Newlines
      <4>2. i \notin EndsUpTo(u, n)
        BY <1>1, <1>3, <3>2 DEF EndsUpTo, Newlines
      <4> QED BY <4>1, <4>2
    <3> QED BY <3>1, <3>2
  <2> QED BY <2>1
<1>5. SubSeq(u, n + 1, n + m) = t
  <2>1. n + 1 \in 1 .. (n + m) + 1
    BY <1>1
  <2> PICK b : b = SubSeq(u, n + 1, n + m)
    OBVIOUS
  <2> PICK k : k = n + 1
    OBVIOUS
  <2>2. b \in Seq(S) /\ Len(b) = (n + m) - k + 1 /\ \A i \in 1 .. (n + m) - k + 1 : b[i] = u[k + i - 1]
    BY <1>2, <2>1, EndOfSeq
  <2>3. (n + m) - k + 1 = m
    BY <1>1
  <2>4. ASSUME NEW i \in 1 .. m
        PROVE  b[i] = t[i]
    <3> PICK j : j = k + i - 1
      OBVIOUS
    <3>1. j \in 1 .. n + m /\ ~(j <= n) /\ j - n = i
      BY <1>1
    <3>2. b[i] = u[j]
      BY <2>2, <2>3
    <3> QED BY <1>2, <3>1, <3>2
  <2> QED BY <2>2, <2>3, <2>4, SeqEqual
<1>6. Cardinality(EndsFrom(u, n + 1)) = Cardinality(Newlines(t))
  <2>1. n + 1 \in 1 .. Len(u) + 1
    BY <1>1, <1>2
  <2>2. Cardinality(Newlines(SubSeq(u, n + 1, Len(u)))) = Cardinality(EndsFrom(u, n + 1))
    BY <1>2, <2>1, EndsOfEnd
  <2> QED BY <1>2, <1>5, <2>2
<1>7. n \in 0 .. Len(u)
  BY <1>1, <1>2
<1>8. /\ Cardinality(EndsUpTo(u, n)) \in Nat
      /\ Cardinality(EndsFrom(u, n + 1)) \in Nat
      /\ Cardinality(Newlines(u)) = Cardinality(EndsUpTo(u, n)) + Cardinality(EndsFrom(u, n + 1))
  BY <1>2, <1>7, EndsAddUp
<1> QED BY <1>4, <1>6, <1>8

(* A new ring is empty. *)
LEMMA CreateByteRingInv ==
  ASSUME NEW c \in Nat
  PROVE  ByteInv(CreateByteRing(c), <<>>)
<1> PICK r : r = CreateByteRing(c)
  OBVIOUS
<1>1. r = [buf |-> r.buf, cap |-> r.cap, lines |-> r.lines] /\ r.buf = <<>> /\ r.cap = c /\ r.lines = 0
  BY DEF CreateByteRing
<1>2. Newlines(<<>>) = {} /\ Len(<<>>) = 0 /\ 1 \in 1 .. 0 + 1
  BY DEF Newlines
<1>3. SubSeq(<<>>, 1, 0) = <<>>
  BY SubSeqEmpty
<1>4. Cardinality({}) = 0
  BY FS_EmptySet
<1>5. \E k \in 1 .. Len(<<>>) + 1 :
         /\ r.buf = SubSeq(<<>>, k, Len(<<>>))
         /\ k = 1 \/ (<<>>[k - 1].newline /\ r.lines = r.cap)
  <2>1. 1 \in 1 .. Len(<<>>) + 1
    BY <1>2
  <2>2. r.buf = SubSeq(<<>>, 1, Len(<<>>))
    BY <1>1, <1>2, <1>3
  <2> QED BY <2>1, <2>2
<1>6. r.lines = Cardinality(Newlines(r.buf)) /\ r.lines <= r.cap
  <2>1. Newlines(r.buf) = {}
    BY <1>1, <1>2
  <2>2. 0 <= c
    OBVIOUS
  <2> QED BY <1>1, <1>4, <2>1, <2>2
<1> QED BY <1>1, <1>5, <1>6 DEF ByteInv

(* DropLines cuts after a line end and leaves the other line ends. *)
LEMMA DropLinesCuts ==
  ASSUME NEW S, NEW s \in Seq(S), NEW m \in Nat, m > 0, m <= Cardinality(Newlines(s))
  PROVE  \E i \in Newlines(s) :
           /\ i + 1 \in 1 .. Len(s) + 1
           /\ DropLines(s, m) = SubSeq(s, i + 1, Len(s))
           /\ Cardinality(Newlines(DropLines(s, m))) = Cardinality(Newlines(s)) - m
<1> DEFINE i == CHOOSE x \in Newlines(s) : Cardinality({j \in Newlines(s) : j <= x}) = m
<1>1. i \in Newlines(s) /\ Cardinality({j \in Newlines(s) : j <= i}) = m
  BY EndExists
<1>2. DropLines(s, m) = SubSeq(s, i + 1, Len(s))
  <2>1. m # 0
    OBVIOUS
  <2> QED BY <2>1, Zenon DEF DropLines
<1> HIDE DEF i
<1>3. Len(s) \in Nat /\ i \in 1 .. Len(s)
  BY <1>1, LenProperties, EndsAreFinite
<1>4. i + 1 \in 1 .. Len(s) + 1 /\ i \in 0 .. Len(s)
  BY <1>3
<1>5. Cardinality(EndsUpTo(s, i)) = m
  BY <1>1 DEF EndsUpTo
<1>6. /\ Cardinality(EndsFrom(s, i + 1)) \in Nat
      /\ Cardinality(Newlines(s)) = Cardinality(EndsUpTo(s, i)) + Cardinality(EndsFrom(s, i + 1))
  BY <1>4, EndsAddUp
<1>7. Cardinality(Newlines(DropLines(s, m))) = Cardinality(EndsFrom(s, i + 1))
  BY <1>2, <1>4, EndsOfEnd
<1>8. Cardinality(Newlines(DropLines(s, m))) = Cardinality(Newlines(s)) - m
  BY <1>5, <1>6, <1>7
<1> QED BY <1>1, <1>2, <1>4, <1>8

(* Adding keeps the ring at the end of what has been added, cut after a    *)
(* line end and as long as its capacity allows.                            *)
LEMMA ByteRingAddManyInv ==
  ASSUME NEW r, NEW s \in Seq(Items), NEW t \in Seq(Items), ByteInv(r, s)
  PROVE  ByteInv(ByteRingAddMany(r, t), s \o t)
<1> PICK c : c = r.cap
  OBVIOUS
<1> PICK l : l = r.lines
  OBVIOUS
<1> PICK b : b = r.buf
  OBVIOUS
<1> PICK u : u = s \o t
  OBVIOUS
<1> PICK v : v = b \o t
  OBVIOUS
<1> PICK l2 : l2 = l + Cardinality(Newlines(t))
  OBVIOUS
<1> PICK q : q = [buf |-> v, cap |-> c, lines |-> l2]
  OBVIOUS
<1>1. r = [buf |-> b, cap |-> c, lines |-> l] /\ c \in Nat /\ l = Cardinality(Newlines(b)) /\ l <= c
  BY DEF ByteInv
<1>2. PICK k \in 1 .. Len(s) + 1 : b = SubSeq(s, k, Len(s)) /\ (k = 1 \/ (s[k - 1].newline /\ l = c))
  BY DEF ByteInv
<1>3. [r EXCEPT !.buf = @ \o t, !.lines = @ + Cardinality(Newlines(t))] = q
  <2>1. r.buf = b /\ r.lines = l
    OBVIOUS
  <2>2. [r EXCEPT !.buf = @ \o t, !.lines = @ + Cardinality(Newlines(t))] = [r EXCEPT !.buf = v, !.lines = l2]
    BY <2>1
  <2>3. [r EXCEPT !.buf = v, !.lines = l2] = q
    <3>1. r = [buf |-> b, cap |-> c, lines |-> l]
      BY <1>1
    <3> PICK e : e = [r EXCEPT !.buf = v, !.lines = l2]
      OBVIOUS
    <3>2. DOMAIN e = {"buf", "cap", "lines"}
      BY <3>1
    <3>3. e.buf = v /\ e.cap = c /\ e.lines = l2
      BY <3>1
    <3>4. e = [x \in DOMAIN e |-> e[x]]
      OBVIOUS
    <3>5. e = [buf |-> v, cap |-> c, lines |-> l2]
      BY ONLY <3>2, <3>3, <3>4
    <3> QED BY <3>5
  <2> QED BY <2>2, <2>3
<1>4. ByteRingAddMany(r, t) = trim(q)
  BY <1>3 DEF ByteRingAddMany
<1>5. b \in Seq(Items)
  BY <1>2, EndOfSeq
<1>6. v \in Seq(Items) /\ u \in Seq(Items)
  BY <1>5, ConcatProperties
<1>7. l \in Nat /\ Cardinality(Newlines(t)) \in Nat /\ l2 \in Nat /\ Cardinality(Newlines(v)) = l2
  BY <1>1, <1>5, EndsGrow
<1>8. k \in 1 .. Len(u) + 1 /\ v = SubSeq(u, k, Len(u))
  BY <1>2, EndGrows
<1>9. k = 1 \/ u[k - 1] = s[k - 1]
  <2>1. Len(s) \in Nat /\ Len(t) \in Nat
    BY LenProperties
  <2>2. \A i \in 1 .. Len(s) + Len(t) : u[i] = IF i <= Len(s) THEN s[i] ELSE t[i - Len(s)]
    BY ConcatProperties
  <2>3. CASE k # 1
    <3>1. k - 1 \in 1 .. Len(s) + Len(t) /\ k - 1 <= Len(s)
      BY <2>1, <2>3
    <3> QED BY <2>2, <3>1
  <2> QED BY <2>3
<1>10. q.buf = v /\ q.cap = c /\ q.lines = l2
  OBVIOUS
<1>11. CASE l2 <= c
  <2>1. trim(q) = q
    BY <1>10, <1>11 DEF trim
  <2>2. k = 1 \/ (u[k - 1].newline /\ l2 = c)
    BY <1>1, <1>2, <1>7, <1>9, <1>11
  <2> QED BY <1>1, <1>4, <1>7, <1>8, <1>10, <1>11, <2>1, <2>2 DEF ByteInv
<1>12. CASE ~(l2 <= c)
  <2> PICK m : m = l2 - c
    OBVIOUS
  <2>1. m \in Nat /\ m > 0 /\ m <= l2 /\ l2 - m = c
    <3>1. c \in Nat /\ l2 \in Nat
      BY <1>1, <1>7
    <3> QED BY ONLY <1>12, <3>1, m = l2 - c
  <2> PICK w : w = DropLines(v, m)
    OBVIOUS
  <2>2. trim(q) = [buf |-> w, cap |-> c, lines |-> c]
    BY <1>10, <1>12 DEF trim
  <2>3. PICK i \in Newlines(v) : /\ i + 1 \in 1 .. Len(v) + 1
                                 /\ w = SubSeq(v, i + 1, Len(v))
                                 /\ Cardinality(Newlines(w)) = c
    BY <1>6, <1>7, <2>1, DropLinesCuts
  <2> PICK h : h = k + i
    OBVIOUS
  <2>4. Len(v) \in Nat /\ i \in 1 .. Len(v) /\ v[i].newline
    BY <1>6, LenProperties DEF Newlines
  <2>5. k + (i + 1) - 1 = h
    BY <2>4
  <2>6. h \in 1 .. Len(u) + 1 /\ w = SubSeq(u, h, Len(u))
    <3> PICK g : g = i + 1
      OBVIOUS
    <3>1. g \in 1 .. Len(v) + 1 /\ w = SubSeq(v, g, Len(v)) /\ k + g - 1 = h
      BY <2>3, <2>5
    <3>2. k + g - 1 \in 1 .. Len(u) + 1 /\ SubSeq(v, g, Len(v)) = SubSeq(u, k + g - 1, Len(u))
      BY ONLY <1>6, <1>8, <3>1, EndOfEnd
    <3> QED BY <3>1, <3>2
  <2>7. u[h - 1].newline
    <3>1. /\ Len(v) = Len(u) - k + 1
          /\ \A j \in 1 .. Len(u) - k + 1 : v[j] = u[k + j - 1]
      BY <1>6, <1>8, EndOfSeq
    <3>2. k + i - 1 = h - 1
      BY <2>4
    <3>3. v[i] = u[h - 1]
      BY <2>4, <3>1, <3>2
    <3> QED BY <2>4, <3>3
  <2> PICK z : z = trim(q)
    OBVIOUS
  <2>8. z = [buf |-> z.buf, cap |-> z.cap, lines |-> z.lines] /\ z.buf = w /\ z.cap = c /\ z.lines = c
    BY ONLY <2>2, z = trim(q)
  <2>9. c <= c
    BY <1>1
  <2> QED BY <1>1, <1>4, <2>3, <2>6, <2>7, <2>8, <2>9 DEF ByteInv
<1> QED BY <1>11, <1>12

(* What the ring holds is the longest end of what has been added that      *)
(* starts with a line and has no more line ends than the capacity.         *)
LEMMA ByteRingIsTheEnd ==
  ASSUME NEW r, NEW s \in Seq(Items), ByteInv(r, s)
  PROVE  /\ r.buf = LastLines(s, r.cap)
         /\ r.buf \in Seq(Items)
         /\ \A i \in DOMAIN r.buf : \E j \in DOMAIN s : r.buf[i] = s[j]
<1> PICK c : c = r.cap
  OBVIOUS
<1> PICK n : n = Len(s)
  OBVIOUS
<1>1. PICK k \in 1 .. n + 1 : r.buf = SubSeq(s, k, n) /\ (k = 1 \/ (s[k - 1].newline /\ r.lines = c))
  BY DEF ByteInv
<1>2. c \in Nat /\ r.lines = Cardinality(Newlines(r.buf)) /\ r.lines <= c
  BY DEF ByteInv
<1>3. n \in Nat /\ DOMAIN s = 1 .. n
  BY LenProperties
<1> DEFINE fits == {i \in 1 .. Len(s) + 1 : Cardinality(Newlines(SubSeq(s, i, Len(s)))) <= c}
           starts == {i \in fits : i = 1 \/ s[i - 1].newline}
           first == CHOOSE i \in starts : \A j \in starts : i <= j
<1>4. k \in starts
  BY <1>1, <1>2
<1>5. ASSUME NEW j \in starts
      PROVE  k <= j
  <2>1. j \in 1 .. n + 1 /\ Cardinality(Newlines(SubSeq(s, j, n))) <= c
    OBVIOUS
  <2> HIDE DEF starts
  <2> SUFFICES ASSUME j < k
               PROVE  FALSE
    BY <1>3, <2>1
  <2>2. k # 1 /\ s[k - 1].newline /\ r.lines = c
    BY <1>1, <2>1
  <2>3. Cardinality(EndsFrom(s, k)) = c
    BY <1>1, <1>2, <2>2, EndsOfEnd
  <2>4. Cardinality(EndsFrom(s, j)) <= c
    BY <2>1, EndsOfEnd
  <2>5. k - 1 \in EndsFrom(s, j) /\ k - 1 \notin EndsFrom(s, k)
    BY <1>3, <2>1, <2>2 DEF EndsFrom, Newlines
  <2>6. EndsFrom(s, k) \subseteq EndsFrom(s, j)
    <3>1. Newlines(s) \subseteq Nat
      BY <1>3 DEF Newlines
    <3> QED BY <2>1, <3>1 DEF EndsFrom
  <2>7. IsFiniteSet(EndsFrom(s, j)) /\ Cardinality(EndsFrom(s, j)) \in Nat /\ IsFiniteSet(EndsFrom(s, k))
    <3>1. EndsFrom(s, j) \in SUBSET Newlines(s) /\ EndsFrom(s, k) \in SUBSET Newlines(s)
      BY DEF EndsFrom
    <3> QED BY <3>1, EndsAreFinite
  <2> PICK A : A = EndsFrom(s, j)
    OBVIOUS
  <2> PICK B : B = EndsFrom(s, k)
    OBVIOUS
  <2>8. B \in SUBSET A /\ A # B /\ Cardinality(B) <= Cardinality(A) /\ Cardinality(A) # Cardinality(B)
    BY <2>5, <2>6, <2>7, FS_Subset
  <2> QED BY <1>2, <2>3, <2>4, <2>7, <2>8
<1>6. starts \subseteq Nat
  BY <1>3
<1>7. LastLines(s, c) = SubSeq(s, first, n)
  BY DEF LastLines
<1> HIDE DEF starts
<1>8. first = k
  <2>1. first \in starts /\ \A j \in starts : first <= j
    BY <1>4, <1>5
  <2>2. first <= k /\ k <= first /\ first \in Nat /\ k \in Nat
    BY <1>4, <1>5, <1>6, <2>1
  <2> QED BY <2>2
<1> HIDE DEF first
<1>9. r.buf = LastLines(s, c)
  BY <1>1, <1>7, <1>8
<1>10. /\ r.buf \in Seq(Items)
       /\ Len(r.buf) = n - k + 1
       /\ \A i \in 1 .. n - k + 1 : r.buf[i] = s[k + i - 1]
  BY <1>1, EndOfSeq
<1>11. ASSUME NEW i \in DOMAIN r.buf
       PROVE  \E j \in DOMAIN s : r.buf[i] = s[j]
  <2>1. i \in 1 .. n - k + 1
    BY <1>10, LenProperties
  <2>2. k + i - 1 \in DOMAIN s
    BY <1>3, <2>1
  <2> QED BY <1>10, <2>1, <2>2
<1> QED BY <1>9, <1>10, <1>11
-----------------------------------------------------------------------------
(***************************************************************************)
(* Lists of sockets                                                        *)
(***************************************************************************)
(* An element of the range has a position. *)
LEMMA RangeElement ==
  ASSUME NEW S, NEW s \in Seq(S), NEW x
  PROVE  x \in Range(s) <=> (\E i \in 1 .. Len(s) : s[i] = x)
<1>1. DOMAIN s = 1 .. Len(s)
  BY LenProperties
<1> QED BY <1>1, Zenon DEF Range

(* The range of a sequence over S. *)
LEMMA RangeSubset ==
  ASSUME NEW S, NEW s \in Seq(S)
  PROVE  Range(s) \subseteq S
<1>1. \A i \in 1 .. Len(s) : s[i] \in S
  BY ElementOfSeq
<1>2. DOMAIN s = 1 .. Len(s)
  BY LenProperties
<1> QED BY <1>1, <1>2 DEF Range

(* No element has two positions. *)
LEMMA InjectiveSeq ==
  ASSUME NEW S, NEW s \in Seq(S)
  PROVE  IsInjective(s) <=> (\A i, j \in 1 .. Len(s) : s[i] = s[j] => i = j)
<1>1. DOMAIN s = 1 .. Len(s)
  BY LenProperties
<1> QED BY <1>1, Zenon DEF IsInjective

(* The empty list. *)
LEMMA EmptyRange == Range(<<>>) = {} /\ IsInjective(<<>>)
BY DEF Range, IsInjective

(* A new element at the end of the list. *)
LEMMA AppendRange ==
  ASSUME NEW S, NEW s \in Seq(S), NEW x \in S
  PROVE  /\ Append(s, x) \in Seq(S)
         /\ Range(Append(s, x)) = Range(s) \cup {x}
         /\ IsInjective(s) /\ x \notin Range(s) => IsInjective(Append(s, x))
<1> PICK n : n = Len(s)
  OBVIOUS
<1> PICK t : t = Append(s, x)
  OBVIOUS
<1>1. n \in Nat
  BY LenProperties
<1>2. t \in Seq(S) /\ Len(t) = n + 1 /\ t[n + 1] = x /\ \A i \in 1 .. n : t[i] = s[i]
  BY <1>1, AppendProperties
<1>3. \A y : y \in Range(s) <=> (\E i \in 1 .. n : s[i] = y)
  BY RangeElement
<1>4. \A y : y \in Range(t) <=> (\E i \in 1 .. n + 1 : t[i] = y)
  <2>1. t \in Seq(S) /\ Len(t) = n + 1
    BY <1>2
  <2> QED BY ONLY <2>1, RangeElement, Zenon
<1>5. \A i : i \in 1 .. n + 1 <=> i \in 1 .. n \/ i = n + 1
  BY <1>1
<1>6. Range(t) = Range(s) \cup {x}
  <2>1. ASSUME NEW y
        PROVE  y \in Range(t) <=> y \in Range(s) \/ y = x
    <3>1. ASSUME y \in Range(t)
          PROVE  y \in Range(s) \/ y = x
      <4> PICK i \in 1 .. n + 1 : t[i] = y
        BY <1>4, <3>1
      <4> QED BY <1>2, <1>3, <1>5
    <3>2. ASSUME y \in Range(s)
          PROVE  y \in Range(t)
      <4> PICK i \in 1 .. n : s[i] = y
        BY <1>3, <3>2
      <4>1. i \in 1 .. n + 1 /\ t[i] = y
        BY <1>2, <1>5
      <4> QED BY <1>4, <4>1
    <3>3. x \in Range(t)
      BY <1>2, <1>4, <1>5
    <3> QED BY <3>1, <3>2, <3>3
  <2> QED BY <2>1
<1>7. ASSUME IsInjective(s), x \notin Range(s)
      PROVE  IsInjective(t)
  <2>1. \A i, j \in 1 .. n : s[i] = s[j] => i = j
    BY <1>7, InjectiveSeq
  <2>2. \A i \in 1 .. n : s[i] # x
    BY <1>3, <1>7
  <2>3. \A i, j \in 1 .. n + 1 : t[i] = t[j] => i = j
    <3>1. ASSUME NEW i \in 1 .. n + 1, NEW j \in 1 .. n + 1, t[i] = t[j]
          PROVE  i = j
      <4>1. CASE i \in 1 .. n /\ j \in 1 .. n
        BY <1>2, <2>1, <3>1, <4>1
      <4>2. CASE i \in 1 .. n /\ j = n + 1
        BY <1>2, <2>2, <3>1, <4>2
      <4>3. CASE i = n + 1 /\ j \in 1 .. n
        BY <1>2, <2>2, <3>1, <4>3
      <4>4. CASE i = n + 1 /\ j = n + 1
        BY <4>4
      <4> QED BY <1>5, <4>1, <4>2, <4>3, <4>4
    <3> QED BY <3>1
  <2> QED BY <1>2, <2>3, InjectiveSeq
<1> QED BY <1>2, <1>6, <1>7

(* The list without its head. *)
LEMMA TailRange ==
  ASSUME NEW S, NEW s \in Seq(S), s # <<>>, IsInjective(s)
  PROVE  /\ Head(s) \in S /\ Head(s) \in Range(s)
         /\ Tail(s) \in Seq(S)
         /\ IsInjective(Tail(s))
         /\ Range(Tail(s)) = Range(s) \ {Head(s)}
<1> PICK n : n = Len(s)
  OBVIOUS
<1> PICK t : t = Tail(s)
  OBVIOUS
<1>1. n \in Nat /\ n # 0
  BY EmptySeq
<1>2. t \in Seq(S) /\ Len(t) = n - 1 /\ \A i \in 1 .. n - 1 : t[i] = s[i + 1]
  BY HeadTailProperties
<1>3. Head(s) = s[1] /\ Head(s) \in S
  BY HeadTailProperties
<1>4. \A y : y \in Range(s) <=> (\E i \in 1 .. n : s[i] = y)
  BY RangeElement
<1>5. \A y : y \in Range(t) <=> (\E i \in 1 .. n - 1 : t[i] = y)
  <2>1. t \in Seq(S) /\ Len(t) = n - 1
    BY <1>2
  <2> QED BY ONLY <2>1, RangeElement, Zenon
<1>6. \A i, j \in 1 .. n : s[i] = s[j] => i = j
  BY InjectiveSeq
<1>7. Head(s) \in Range(s)
  <2>1. 1 \in 1 .. n
    BY <1>1
  <2> QED BY <1>3, <1>4, <2>1
<1>8. ASSUME NEW y
      PROVE  y \in Range(t) <=> y \in Range(s) /\ y # Head(s)
  <2>1. ASSUME y \in Range(t)
        PROVE  y \in Range(s) /\ y # Head(s)
    <3> PICK i \in 1 .. n - 1 : t[i] = y
      BY <1>5, <2>1
    <3>1. i + 1 \in 1 .. n /\ i + 1 # 1 /\ 1 \in 1 .. n
      BY <1>1
    <3>2. s[i + 1] = y
      BY <1>2
    <3> QED BY <1>3, <1>4, <1>6, <3>1, <3>2
  <2>2. ASSUME y \in Range(s), y # Head(s)
        PROVE  y \in Range(t)
    <3> PICK i \in 1 .. n : s[i] = y
      BY <1>4, <2>2
    <3>1. i # 1
      BY <1>3, <2>2
    <3> PICK j : j = i - 1
      OBVIOUS
    <3>2. j \in 1 .. n - 1 /\ j + 1 = i
      BY <1>1, <3>1
    <3>3. t[j] = y
      BY <1>2, <3>2
    <3> QED BY <1>5, <3>2, <3>3
  <2> QED BY <2>1, <2>2
<1>9. IsInjective(t)
  <2>1. ASSUME NEW i \in 1 .. n - 1, NEW j \in 1 .. n - 1, t[i] = t[j]
        PROVE  i = j
    <3>1. i + 1 \in 1 .. n /\ j + 1 \in 1 .. n
      BY <1>1
    <3>2. s[i + 1] = s[j + 1]
      BY <1>2, <2>1
    <3>3. i + 1 = j + 1
      BY <1>6, <3>1, <3>2
    <3> QED BY <1>1, <3>3
  <2>2. \A i, j \in 1 .. Len(t) : t[i] = t[j] => i = j
    BY <1>2, <2>1
  <2> QED BY <1>2, <2>2, InjectiveSeq
<1> QED BY <1>2, <1>3, <1>7, <1>8, <1>9

(* The list without one of its elements. *)
LEMMA RemoveRange ==
  ASSUME NEW S, NEW s \in Seq(S), IsInjective(s), NEW x \in Range(s)
  PROVE  /\ RemoveFirst(s, x) \in Seq(S)
         /\ IsInjective(RemoveFirst(s, x))
         /\ Range(RemoveFirst(s, x)) = Range(s) \ {x}
<1> PICK n : n = Len(s)
  OBVIOUS
<1>1. n \in Nat
  BY LenProperties
<1>2. \A y : y \in Range(s) <=> (\E i \in 1 .. n : s[i] = y)
  BY RangeElement
<1>3. \A i, j \in 1 .. n : s[i] = s[j] => i = j
  BY InjectiveSeq
<1>4. PICK k \in 1 .. n : s[k] = x
  BY <1>2
<1>5. {i \in 1 .. n : s[i] = x} = {k}
  BY <1>3, <1>4
<1>6. Min({k}) = k
  BY <1>1 DEF Min
<1>7. SelectInSeq(s, LAMBDA v : v = x) = k
  BY <1>5, <1>6 DEF SelectInSeq
<1>8. RemoveFirst(s, x) = RemoveAt(s, k)
  BY <1>4, <1>7 DEF RemoveFirst
<1> PICK a : a = SubSeq(s, 1, k - 1)
  OBVIOUS
<1> PICK b : b = SubSeq(s, k + 1, n)
  OBVIOUS
<1> PICK t : t = a \o b
  OBVIOUS
<1>9. RemoveFirst(s, x) = t
  BY <1>8 DEF RemoveAt
<1>10. \A i \in 1 .. n : s[i] \in S
  BY ElementOfSeq
<1>11. a \in Seq(S) /\ Len(a) = k - 1 /\ \A i \in 1 .. k - 1 : a[i] = s[i]
  <2>1. k - 1 \in Int /\ 1 \in Int /\ 1 .. k - 1 \subseteq 1 .. n
    BY <1>1
  <2> PICK e : e = k - 1
    OBVIOUS
  <2>2. /\ a \in Seq(S)
        /\ Len(a) = IF 1 <= e THEN e - 1 + 1 ELSE 0
        /\ \A i \in 1 .. e - 1 + 1 : a[i] = s[1 + i - 1]
    <3>1. e \in Int /\ \A i \in 1 .. e : s[i] \in S
      BY <1>10, <2>1
    <3> QED BY ONLY <3>1, a = SubSeq(s, 1, k - 1), e = k - 1, SubSeqProperties
  <2>3. e - 1 + 1 = e /\ (IF 1 <= e THEN e - 1 + 1 ELSE 0) = e
    BY <1>1
  <2>4. \A i \in 1 .. e : 1 + i - 1 = i
    BY <1>1
  <2> QED BY <2>2, <2>3, <2>4
<1>12. b \in Seq(S) /\ Len(b) = n - k /\ \A i \in 1 .. n - k : b[i] = s[k + i]
  <2> PICK e : e = k + 1
    OBVIOUS
  <2>1. e \in 1 .. n + 1 /\ n - e + 1 = n - k
    BY <1>1
  <2>2. b \in Seq(S) /\ Len(b) = n - e + 1 /\ \A i \in 1 .. n - e + 1 : b[i] = s[e + i - 1]
    BY <2>1, EndOfSeq
  <2>3. \A i \in 1 .. n - k : e + i - 1 = k + i
    BY <1>1
  <2> QED BY <2>1, <2>2, <2>3
<1>13. t \in Seq(S) /\ Len(t) = Len(a) + Len(b) /\ \A i \in 1 .. Len(a) + Len(b) : t[i] = IF i <= Len(a) THEN a[i] ELSE b[i - Len(a)]
  <2>1. a \in Seq(S) /\ b \in Seq(S)
    BY <1>11, <1>12
  <2> QED BY ONLY <2>1, t = a \o b, ConcatProperties
<1>14. Len(a) + Len(b) = n - 1
  <2>1. Len(a) = k - 1 /\ Len(b) = n - k
    BY <1>11, <1>12
  <2> QED BY ONLY <1>1, <2>1, k \in 1 .. n
<1>15. \A i \in 1 .. n - 1 : t[i] = IF i < k THEN s[i] ELSE s[i + 1]
  <2> TAKE i \in 1 .. n - 1
  <2>1. t[i] = IF i <= k - 1 THEN a[i] ELSE b[i - (k - 1)]
    BY <1>11, <1>13, <1>14
  <2>2. CASE i < k
    <3>1. i <= k - 1 /\ i \in 1 .. k - 1
      BY <1>1, <2>2
    <3> QED BY <1>11, <2>1, <2>2, <3>1
  <2>3. CASE ~(i < k)
    <3> PICK j : j = i - (k - 1)
      OBVIOUS
    <3>1. ~(i <= k - 1) /\ j \in 1 .. n - k /\ k + j = i + 1
      BY <1>1, <2>3
    <3> QED BY <1>12, <2>1, <2>3, <3>1
  <2> QED BY <2>2, <2>3
<1>16. Len(t) = n - 1
  BY <1>13, <1>14
<1>17. \A y : y \in Range(t) <=> (\E i \in 1 .. n - 1 : t[i] = y)
  <2>1. t \in Seq(S)
    BY <1>13
  <2> QED BY ONLY <1>16, <2>1, RangeElement, Zenon
<1>18. ASSUME NEW y
       PROVE  y \in Range(t) <=> y \in Range(s) /\ y # x
  <2>1. ASSUME y \in Range(t)
        PROVE  y \in Range(s) /\ y # x
    <3> PICK i \in 1 .. n - 1 : t[i] = y
      BY <1>17, <2>1
    <3>1. PICK j \in 1 .. n : s[j] = y /\ j # k
      <4>1. i \in 1 .. n /\ i + 1 \in 1 .. n /\ (i < k => i # k) /\ (~(i < k) => i + 1 # k)
        BY <1>1
      <4> QED BY <1>15, <4>1
    <3> QED BY <1>2, <1>3, <1>4, <3>1
  <2>2. ASSUME y \in Range(s), y # x
        PROVE  y \in Range(t)
    <3> PICK j \in 1 .. n : s[j] = y
      BY <1>2, <2>2
    <3>1. j # k
      BY <1>4, <2>2
    <3>2. CASE j < k
      <4>1. j \in 1 .. n - 1
        BY <1>1, <3>2
      <4> QED BY <1>15, <1>17, <3>2, <4>1
    <3>3. CASE ~(j < k)
      <4> PICK i : i = j - 1
        OBVIOUS
      <4>1. i \in 1 .. n - 1 /\ ~(i < k) /\ i + 1 = j
        BY <1>1, <3>1, <3>3
      <4>2. t[i] = y
        BY <1>15, <4>1
      <4> QED BY <1>17, <4>1, <4>2
    <3> QED BY <3>2, <3>3
  <2> QED BY <2>1, <2>2
<1>19. ASSUME NEW i \in 1 .. n - 1, NEW j \in 1 .. n - 1, t[i] = t[j]
       PROVE  i = j
  <2> PICK i2 : i2 = IF i < k THEN i ELSE i + 1
    OBVIOUS
  <2> PICK j2 : j2 = IF j < k THEN j ELSE j + 1
    OBVIOUS
  <2>1. t[i] = s[i2] /\ t[j] = s[j2]
    BY <1>15
  <2>2. i2 \in 1 .. n /\ j2 \in 1 .. n
    BY <1>1
  <2>3. i2 = j2
    BY <1>3, <1>19, <2>1, <2>2
  <2> QED BY <1>1, <2>3
<1>20. IsInjective(t)
  <2>1. t \in Seq(S)
    BY <1>13
  <2>2. \A i, j \in 1 .. Len(t) : t[i] = t[j] => i = j
    <3>1. \A i, j \in 1 .. n - 1 : t[i] = t[j] => i = j
      BY <1>19
    <3> PICK m : m = Len(t)
      OBVIOUS
    <3>2. \A i, j \in 1 .. m : t[i] = t[j] => i = j
      BY ONLY <1>16, <3>1, m = Len(t)
    <3> QED BY ONLY <3>2, m = Len(t)
  <2> QED BY ONLY <2>1, <2>2, InjectiveSeq
<1> QED BY <1>9, <1>13, <1>18, <1>20

(* A set of positions can be listed in increasing order. *)
Listing(f, m, I) ==
  /\ f \in [1 .. m -> I]
  /\ \A i, j \in 1 .. m : i < j => f[i] < f[j]
  /\ \A x \in I : \E i \in 1 .. m : f[i] = x

(* The largest position comes last. *)
LEMMA ListingGrows ==
  ASSUME NEW I, I \subseteq Nat, NEW m \in Nat, NEW f, Listing(f, m, I), NEW k \in Nat, \A x \in I : x < k
  PROVE  \E g : Listing(g, m + 1, I \cup {k})
<1> PICK g : g = [i \in 1 .. m + 1 |-> IF i = m + 1 THEN k ELSE f[i]]
  OBVIOUS
<1>1. \A i \in 1 .. m : f[i] \in I
  BY DEF Listing
<1>2. ASSUME NEW i \in 1 .. m
      PROVE  i \in 1 .. m + 1 /\ i # m + 1 /\ g[i] = f[i] /\ f[i] < k
  <2>1. i \in 1 .. m + 1 /\ i # m + 1
    OBVIOUS
  <2>2. g[i] = f[i]
    BY <2>1
  <2>3. f[i] < k
    BY <1>1
  <2> QED BY <2>1, <2>2, <2>3
<1>3. g[m + 1] = k /\ DOMAIN g = 1 .. m + 1 /\ m + 1 \in 1 .. m + 1
  OBVIOUS
<1>4. \A i \in 1 .. m + 1 : i = m + 1 \/ i \in 1 .. m
  OBVIOUS
<1>5. g \in [1 .. m + 1 -> I \cup {k}]
  <2>1. \A i \in 1 .. m + 1 : g[i] \in I \cup {k}
    BY <1>1, <1>2, <1>3, <1>4
  <2> QED BY <2>1
<1>6. ASSUME NEW i \in 1 .. m + 1, NEW j \in 1 .. m + 1, i < j
      PROVE  g[i] < g[j]
  <2>1. i \in 1 .. m
    BY <1>6
  <2>2. CASE j = m + 1
    BY <1>2, <1>3, <2>1, <2>2
  <2>3. CASE j \in 1 .. m
    <3>1. g[i] = f[i] /\ g[j] = f[j]
      BY <1>2, <2>1, <2>3
    <3> QED BY <1>6, <2>1, <2>3, <3>1 DEF Listing
  <2> QED BY <1>4, <2>2, <2>3
<1>7. ASSUME NEW x \in I \cup {k}
      PROVE  \E i \in 1 .. m + 1 : g[i] = x
  <2>1. CASE x = k
    BY <1>3, <2>1
  <2>2. CASE x \in I
    BY <1>2, <2>2 DEF Listing
  <2> QED BY <2>1, <2>2
<1> QED BY <1>5, <1>6, <1>7 DEF Listing

(* By induction on the largest position: a set that cannot be listed has a *)
(* least bound, and without its largest position it could be.              *)
LEMMA ListingExists ==
  ASSUME NEW n \in Nat, NEW I, I \subseteq 1 .. n
  PROVE  \E m \in Nat : \E f : Listing(f, m, I)
<1> DEFINE Done(k) == \E m \in Nat : \E f : Listing(f, m, {i \in I : i <= k})
           Bad == {k \in Nat : ~Done(k)}
<1>0. \A i \in I : i \in Nat /\ i > 0 /\ i <= n
  OBVIOUS
<1>1. Bad \subseteq Nat /\ \A k \in Nat : k \in Bad <=> ~Done(k)
  OBVIOUS
<1>2. Done(0)
  <2> PICK f : f = [i \in 1 .. 0 |-> 0]
    OBVIOUS
  <2>1. {i \in I : i <= 0} = {} /\ 1 .. 0 = {}
    <3>1. \A i \in I : ~(i <= 0)
      BY <1>0
    <3>2. {i \in I : i <= 0} = {}
      BY <3>1
    <3>3. 1 .. 0 = {}
      OBVIOUS
    <3> QED BY <3>2, <3>3
  <2>2. Listing(f, 0, {})
    BY <2>1 DEF Listing
  <2> QED BY <2>1, <2>2
<1>3. ASSUME NEW l \in Nat, Done(l)
      PROVE  Done(l + 1)
  <2> PICK J : J = {i \in I : i <= l}
    OBVIOUS
  <2> PICK k : k = l + 1
    OBVIOUS
  <2>0. PICK m \in Nat : \E f : Listing(f, m, J)
    BY <1>3
  <2>1. PICK f : Listing(f, m, J)
    BY <2>0
  <2>2. J \subseteq Nat /\ k \in Nat /\ \A x \in J : x < k
    <3>1. k \in Nat
      OBVIOUS
    <3>2. ASSUME NEW x \in J
          PROVE  x \in Nat /\ x < k
      <4>1. x \in I /\ x <= l
        OBVIOUS
      <4>2. x \in Nat
        BY <1>0, <4>1
      <4> QED BY <4>1, <4>2
    <3> QED BY <3>1, <3>2
  <2>5. \A i \in I : i <= l + 1 <=> (i <= l \/ i = k)
    <3> SUFFICES ASSUME NEW i \in I PROVE i <= l + 1 <=> (i <= l \/ i = k)
      OBVIOUS
    <3>1. i \in Nat
      BY <1>0
    <3> QED BY <3>1
  <2>3. CASE k \in I
    <3>1. {i \in I : i <= l + 1} = J \cup {k}
      BY <2>5, <2>3
    <3>2. PICK g : Listing(g, m + 1, J \cup {k})
      BY ONLY m \in Nat, <2>1, <2>2, ListingGrows
    <3>3. m + 1 \in Nat
      OBVIOUS
    <3> QED BY <3>1, <3>2, <3>3
  <2>4. CASE k \notin I
    <3>1. {i \in I : i <= l + 1} = J
      BY <2>5, <2>4
    <3> QED BY <2>1, <3>1
  <2> QED BY <2>3, <2>4
<1> HIDE DEF Bad, Done
<1>4. Bad = {}
  <2> SUFFICES ASSUME Bad # {} PROVE FALSE
    OBVIOUS
  <2>1. PICK k \in Bad : \A y \in Bad : k <= y
    BY <1>1, LeastNatural
  <2>2. k \in Nat /\ k # 0
    BY <1>1, <1>2
  <2> PICK l : l = k - 1
    OBVIOUS
  <2>3. l \in Nat /\ k = l + 1 /\ ~(k <= l)
    BY <2>2
  <2>4. Done(l)
    BY <1>1, <2>1, <2>3
  <2> QED BY <1>1, <1>3, <2>3, <2>4
<1>5. Done(n)
  BY <1>1, <1>4
<1>6. {i \in I : i <= n} = I
  <2>1. \A i \in I : i <= n
    OBVIOUS
  <2> QED BY <2>1
<1> QED BY <1>5, <1>6 DEF Done

(* The listing has as many positions as the set. *)
LEMMA OrderExists ==
  ASSUME NEW n \in Nat, NEW I, I \subseteq 1 .. n
  PROVE  /\ Cardinality(I) \in Nat
         /\ \E f \in [1 .. Cardinality(I) -> I] : \A i, j \in 1 .. Cardinality(I) : i < j => f[i] < f[j]
<1>0. PICK m \in Nat : \E f : Listing(f, m, I)
  BY ListingExists
<1> PICK f : Listing(f, m, I)
  BY <1>0
<1>1. f \in [1 .. m -> I] /\ (\A i, j \in 1 .. m : i < j => f[i] < f[j]) /\ (\A x \in I : \E i \in 1 .. m : f[i] = x)
  BY DEF Listing
<1>2. ASSUME NEW i \in 1 .. m, NEW j \in 1 .. m, f[i] = f[j]
      PROVE  i = j
  <2>1. f[i] \in 1 .. n /\ f[j] \in 1 .. n
    BY <1>1
  <2>2. ~(i < j) /\ ~(j < i)
    BY <1>1, <1>2, <2>1
  <2> QED BY <2>2
<1>3. f \in Bijection(1 .. m, I)
  BY <1>1, <1>2 DEF Bijection, Injection, Surjection, IsInjective
<1>4. Cardinality(I) = m
  <2>1. IsFiniteSet(1 .. m) /\ Cardinality(1 .. m) = m
    BY FS_Interval
  <2>2. ExistsBijection(1 .. m, I)
    BY <1>3 DEF ExistsBijection
  <2> QED BY <2>1, <2>2, FS_Bijection
<1> QED BY <1>1, <1>4

(* The elements of a list at m positions, in their order. *)
Selection(s, order, m) == [i \in 1 .. m |-> s[order[i]]]

(* A list whose positions are picked in increasing order has no element    *)
(* twice if the list has none.                                             *)
LEMMA SelectionList ==
  ASSUME NEW S, NEW s \in Seq(S), IsInjective(s), NEW m \in Nat,
         NEW order \in [1 .. m -> 1 .. Len(s)], \A i, j \in 1 .. m : i < j => order[i] < order[j]
  PROVE  LET t == Selection(s, order, m)
         IN  t \in Seq(S) /\ IsInjective(t) /\ Range(t) \subseteq Range(s)
<1> PICK t : t = Selection(s, order, m)
  OBVIOUS
<1> PICK n : n = Len(s)
  OBVIOUS
<1>0. t = [i \in 1 .. m |-> s[order[i]]]
  BY DEF Selection
<1>1. DOMAIN s = 1 .. n /\ n \in Nat
  BY LenProperties
<1>2. ASSUME NEW i \in 1 .. m
      PROVE  order[i] \in 1 .. n /\ t[i] = s[order[i]] /\ t[i] \in S /\ t[i] \in Range(s)
  <2>1. order[i] \in 1 .. n /\ t[i] = s[order[i]]
    BY <1>0
  <2>2. s[order[i]] \in S
    BY <2>1, ElementOfSeq
  <2>3. s[order[i]] \in Range(s)
    BY <1>1, <2>1 DEF Range
  <2> QED BY <2>1, <2>2, <2>3
<1>3. t \in [1 .. m -> S] /\ DOMAIN t = 1 .. m
  BY <1>0, <1>2
<1>4. t \in Seq(S) /\ Len(t) = m
  BY ONLY <1>3, m \in Nat
<1>5. \A x, y \in 1 .. n : s[x] = s[y] => x = y
  BY InjectiveSeq
<1>6. ASSUME NEW i \in 1 .. m, NEW j \in 1 .. m, t[i] = t[j]
      PROVE  i = j
  <2>1. order[i] \in 1 .. n /\ order[j] \in 1 .. n /\ s[order[i]] = s[order[j]]
    BY <1>2, <1>6
  <2>2. order[i] = order[j]
    BY ONLY <1>5, <2>1
  <2>3. i < j => order[i] < order[j]
    OBVIOUS
  <2>4. j < i => order[j] < order[i]
    OBVIOUS
  <2>5. i \in Int /\ j \in Int /\ order[i] \in Int
    BY <2>1
  <2>6. ~(i < j)
    BY ONLY <2>2, <2>3, <2>5
  <2>7. ~(j < i)
    BY ONLY <2>2, <2>4, <2>5
  <2> QED BY ONLY <2>5, <2>6, <2>7
<1>7. IsInjective(t)
  BY <1>3, <1>6 DEF IsInjective
<1>8. Range(t) \subseteq Range(s)
  <2> SUFFICES ASSUME NEW x \in Range(t) PROVE x \in Range(s)
    OBVIOUS
  <2>1. PICK i \in 1 .. m : t[i] = x
    BY <1>3 DEF Range
  <2> QED BY <1>2, <2>1
<1> QED BY <1>4, <1>7, <1>8

(* SetToSeq lists the elements of a finite set, each of them once. *)
LEMMA SetToSeqList ==
  ASSUME NEW S, IsFiniteSet(S)
  PROVE  SetToSeq(S) \in Seq(S) /\ IsInjective(SetToSeq(S)) /\ Range(SetToSeq(S)) \subseteq S
<1> PICK n : n = Cardinality(S)
  OBVIOUS
<1>1. n \in Nat /\ ExistsBijection(1 .. n, S)
  BY FS_CardinalityType
<1>2. \E f \in [1 .. n -> S] : IsInjective(f)
  BY <1>1 DEF ExistsBijection, Bijection, Injection
<1>3. SetToSeq(S) \in [1 .. n -> S] /\ IsInjective(SetToSeq(S))
  BY <1>2 DEF SetToSeq
<1>4. SetToSeq(S) \in Seq(S)
  BY <1>1, <1>3
<1> QED BY <1>3, <1>4, RangeSubset

-----------------------------------------------------------------------------
(***************************************************************************)
(* Frames                                                                  *)
(***************************************************************************)
(* A step that sends nothing. *)
LEMMA SenderFrame ==
  ASSUME SenderInv, sender' = sender, sends' = sends, kind' = kind
  PROVE  /\ SenderInv'
         /\ AddedMessages' = AddedMessages
         /\ Messages' = Messages
         /\ \A s, m : Pending(s, m)' <=> Pending(s, m)
         /\ HasBacklog' <=> HasBacklog
<1>1. SenderInv'
  BY DEF SenderInv, HasBacklog
<1>2. AddedMessages' = AddedMessages /\ Messages' = Messages
  BY DEF AddedMessages, Messages
<1>3. \A s, m : Pending(s, m)' <=> Pending(s, m)
  BY Zenon DEF Pending
<1>4. HasBacklog' <=> HasBacklog
  BY DEF HasBacklog
<1> QED BY <1>1, <1>2, <1>3, <1>4

(* A step that leaves the socket x alone and sends nothing. *)
LEMMA ClientFrame ==
  ASSUME NEW x \in Sockets, SenderInv,
         sender' = sender, sends' = sends, kind' = kind, everyone' = everyone,
         handler'[x] = handler[x], sio'[x] = sio[x], live'[x] = live[x], replay'[x] = replay[x],
         read'[x] = read[x],
         \A m : <<x, m>> \in missable => <<x, m>> \in missable',
         \A m : <<x, m>> \in doubled => <<x, m>> \in doubled'
  PROVE  /\ OutputInv(x) => OutputInv(x)'
         /\ MissedInv(x) => MissedInv(x)'
         /\ TwiceInv(x) => TwiceInv(x)'
<1>1. /\ AddedMessages' = AddedMessages
      /\ Messages' = Messages
      /\ \A m : Pending(x, m)' <=> Pending(x, m)
      /\ HasBacklog' <=> HasBacklog
  BY SenderFrame
<1>2. Listed(x)' <=> Listed(x)
  BY DEF Listed
<1>3. ASSUME OutputInv(x)
      PROVE  OutputInv(x)'
  BY <1>1, <1>2, <1>3 DEF OutputInv
<1>4. ASSUME MissedInv(x)
      PROVE  MissedInv(x)'
  <2>1. \A m : Accounted(x, m) => Accounted(x, m)'
    BY <1>1 DEF Accounted
  <2> QED BY <1>1, <1>2, <1>4, <2>1 DEF MissedInv
<1>5. ASSUME TwiceInv(x)
      PROVE  TwiceInv(x)'
  <2>1. \A m : (Reaches(x, m)' <=> Reaches(x, m)) /\ (Overlaps(x, m)' <=> Overlaps(x, m))
    BY <1>1 DEF Reaches, Overlaps
  <2> QED BY <1>1, <1>5, <2>1 DEF TwiceInv
<1> QED BY <1>3, <1>4, <1>5

(* A step that leaves the handler of the socket x alone. *)
LEMMA SocketFrame ==
  ASSUME NEW x \in Sockets, SocketInv(x), kind' = kind,
         handler'[x] = handler[x], sio'[x] = sio[x], user'[x] = user[x],
         x \in Range(connectedClients) => x \in Range(connectedClients')
  PROVE  SocketInv(x)'
<1>1. (Listed(x)' <=> Listed(x)) /\ (HasBacklog' <=> HasBacklog)
  BY DEF Listed, HasBacklog
<1>2. Range(connectedClients)' = Range(connectedClients')
  OBVIOUS
<1> QED BY <1>1, <1>2 DEF SocketInv

(* A step that adds nothing and sends nothing. *)
LEMMA RestFrame ==
  ASSUME Inv, sender' = sender, sends' = sends, kind' = kind, added' = added, backlog' = backlog
  PROVE  SenderInv' /\ AddedInv' /\ RingInv'
<1>1. SenderInv' /\ AddedMessages' = AddedMessages
  BY SenderFrame DEF Inv
<1>2. AddedInv'
  BY <1>1 DEF Inv, AddedInv
<1>3. RingInv'
  BY DEF Inv, RingInv, ByteInv, ValueInv
<1> QED BY <1>1, <1>2, <1>3

(* A step that leaves the lists alone. *)
LEMMA ListFrame ==
  ASSUME Inv, sender' = sender, connectedClients' = connectedClients,
         connectedClientsMap' = connectedClientsMap, \A x \in Sockets : Listed(x) => Listed(x)'
  PROVE  ListInv'
<1>1. /\ ListInv
      /\ connectedClients \in Seq(Sockets)
      /\ connectedClientsMap \in [Users -> Sockets \cup {None}]
      /\ sender \in [Senders -> SenderRecord]
  BY DEF Inv, ShapeInv
<1>2. Range(connectedClients) \subseteq Sockets
  BY <1>1, RangeSubset
<1>3. \A p \in Senders : Range(sender[p].left) \subseteq Sockets
  <2> TAKE p \in Senders
  <2>1. sender[p].left \in Seq(Sockets)
    BY <1>1 DEF SenderRecord
  <2> QED BY <2>1, RangeSubset
<1>4. \A u \in Users : connectedClientsMap[u] # None => connectedClientsMap[u] \in Sockets
  BY <1>1
<1>5. IsInjective(connectedClients')
  BY <1>1 DEF ListInv
<1>6. \A s \in Range(connectedClients') : Listed(s)'
  BY <1>1, <1>2 DEF ListInv
<1>7. \A u \in Users : connectedClientsMap'[u] # None => Listed(connectedClientsMap[u])'
  <2> TAKE u \in Users
  <2> HAVE connectedClientsMap'[u] # None
  <2>1. PICK z \in Sockets : z = connectedClientsMap[u] /\ Listed(z)
    BY <1>1, <1>4 DEF ListInv
  <2>2. Listed(z)'
    BY <2>1
  <2> QED BY <2>1, <2>2 DEF Listed
<1>8. \A p \in Senders : \A s \in Range(sender'[p].left) : Listed(s)'
  BY <1>1, <1>3 DEF ListInv
<1> QED BY <1>5, <1>6, <1>7, <1>8 DEF ListInv

(* A step that leaves the whole namespace alone. *)
LEMMA StutterFrame ==
  ASSUME Inv,
         UNCHANGED <<kind, clientVars, backlogVars, user, sio, handler, released, outputVars, sendVars,
                     historyVars>>
  PROVE  Inv'
<1>1. /\ kind' = kind /\ connectedClients' = connectedClients /\ connectedClientsMap' = connectedClientsMap
      /\ shared' = shared /\ backlog' = backlog /\ added' = added /\ user' = user /\ sio' = sio
      /\ handler' = handler /\ released' = released /\ live' = live /\ replay' = replay
      /\ sender' = sender /\ sends' = sends /\ everyone' = everyone /\ missable' = missable
      /\ doubled' = doubled /\ read' = read
  BY DEF clientVars, backlogVars, outputVars, sendVars, historyVars
<1>2. ShapeInv'
  BY <1>1 DEF Inv, ShapeInv, Messages
<1>3. SenderInv' /\ AddedInv' /\ RingInv'
  BY <1>1, RestFrame
<1>4. ListInv'
  <2>1. \A x \in Sockets : Listed(x) => Listed(x)'
    BY <1>1 DEF Listed
  <2> QED BY <1>1, <2>1, ListFrame
<1>5. ClientsInv'
  <2>1. ASSUME NEW x \in Sockets
        PROVE  SocketInv(x)' /\ OutputInv(x)' /\ MissedInv(x)' /\ TwiceInv(x)'
    <3>1. SocketInv(x) /\ OutputInv(x) /\ MissedInv(x) /\ TwiceInv(x) /\ SenderInv
      BY DEF Inv, ClientsInv
    <3>2. SocketInv(x)'
      BY <1>1, <3>1, SocketFrame
    <3> QED BY <1>1, <3>1, <3>2, ClientFrame
  <2> QED BY <2>1 DEF ClientsInv
<1>6. SingleConnectionIsMapped'
  BY <1>1 DEF Inv, SingleConnectionIsMapped, ListedOf
<1> QED BY <1>2, <1>3, <1>4, <1>5, <1>6 DEF Inv

-----------------------------------------------------------------------------
(***************************************************************************)
(* Connecting                                                              *)
(***************************************************************************)
(* Every socket keeps the invariant in a step that leaves all but s alone. *)
LEMMA ClientsKept ==
  ASSUME Inv, NEW s \in Sockets,
         sender' = sender, sends' = sends, kind' = kind, everyone' = everyone,
         \A x \in Sockets \ {s} :
            /\ handler'[x] = handler[x] /\ sio'[x] = sio[x] /\ user'[x] = user[x] /\ live'[x] = live[x]
            /\ replay'[x] = replay[x] /\ read'[x] = read[x]
            /\ x \in Range(connectedClients) => x \in Range(connectedClients')
            /\ \A m : <<x, m>> \in missable => <<x, m>> \in missable'
            /\ \A m : <<x, m>> \in doubled => <<x, m>> \in doubled',
         SocketInv(s)', OutputInv(s)', MissedInv(s)', TwiceInv(s)'
  PROVE  ClientsInv'
<1>1. ASSUME NEW x \in Sockets \ {s}
      PROVE  SocketInv(x)' /\ OutputInv(x)' /\ MissedInv(x)' /\ TwiceInv(x)'
  <2>1. SocketInv(x) /\ OutputInv(x) /\ MissedInv(x) /\ TwiceInv(x) /\ SenderInv
    BY DEF Inv, ClientsInv
  <2>2. /\ handler'[x] = handler[x] /\ sio'[x] = sio[x] /\ user'[x] = user[x] /\ live'[x] = live[x]
        /\ replay'[x] = replay[x] /\ read'[x] = read[x]
        /\ x \in Range(connectedClients) => x \in Range(connectedClients')
        /\ \A m : <<x, m>> \in missable => <<x, m>> \in missable'
        /\ \A m : <<x, m>> \in doubled => <<x, m>> \in doubled'
    OBVIOUS
  <2>3. SocketInv(x)'
    BY <2>1, <2>2, SocketFrame
  <2>4. /\ OutputInv(x) => OutputInv(x)'
        /\ MissedInv(x) => MissedInv(x)'
        /\ TwiceInv(x) => TwiceInv(x)'
    BY <2>1, <2>2, ClientFrame
  <2> QED BY <2>1, <2>3, <2>4
<1> QED BY <1>1 DEF ClientsInv

(* What holds of a socket that has not been listed. *)
LEMMA NotListed ==
  ASSUME Inv, NEW s \in Sockets, ~Listed(s)
  PROVE  /\ s \notin Range(connectedClients)
         /\ live[s] = <<>> /\ replay[s] = {}
         /\ \A m : ~Pending(s, m)
<1>1. ListInv /\ OutputInv(s)
  BY DEF Inv, ClientsInv
<1>2. s \notin Range(connectedClients) /\ \A m : ~Pending(s, m)
  BY <1>1 DEF ListInv, Pending
<1>3. live[s] = <<>>
  BY <1>1 DEF OutputInv
<1>4. replay[s] = {}
  BY <1>1 DEF OutputInv, Listed
<1> QED BY <1>2, <1>3, <1>4

(* A socket that holds nothing keeps the invariant of what it is sent. *)
LEMMA NothingSent ==
  ASSUME Inv, NEW s \in Sockets, sender' = sender, sends' = sends, kind' = kind,
         live'[s] = <<>>, replay'[s] = {}, read'[s] \subseteq AddedMessages
  PROVE  /\ OutputInv(s)'
         /\ (\A m : ~Pending(s, m)) \/ sio'[s] # "open" => TwiceInv(s)'
         /\ sio'[s] # "open" \/ ~Listed(s)' => MissedInv(s)'
<1>1. /\ AddedMessages' = AddedMessages /\ Messages' = Messages
      /\ \A m : Pending(s, m)' <=> Pending(s, m)
  BY SenderFrame DEF Inv
<1>2. Range(<<>>) = {} /\ IsInjective(<<>>)
  BY EmptyRange
<1>3. OutputInv(s)'
  <2>1. Range(live'[s]) = {} /\ IsInjective(live'[s])
    BY <1>2
  <2> QED BY <1>1, <2>1 DEF OutputInv
<1>4. ASSUME \A m : ~Pending(s, m)
      PROVE  TwiceInv(s)'
  <2>1. \A m : ~Reaches(s, m)'
    BY <1>1, <1>2, <1>4 DEF Reaches
  <2> QED BY <2>1 DEF TwiceInv
<1>5. ASSUME sio'[s] # "open"
      PROVE  TwiceInv(s)'
  BY <1>5 DEF TwiceInv
<1>6. ASSUME sio'[s] # "open" \/ ~Listed(s)'
      PROVE  MissedInv(s)'
  BY <1>6 DEF MissedInv
<1> QED BY <1>3, <1>4, <1>5, <1>6

(* A socket is accepted before it is listed. *)
LEMMA AcceptInv ==
  ASSUME Inv, NEW s \in Sockets, NEW u \in Users, Accept(s, u)
  PROVE  Inv'
<1>1. /\ sio[s] = "new"
      /\ user' = [user EXCEPT ![s] = u]
      /\ sio' = [sio EXCEPT ![s] = "open"]
      /\ handler' = [handler EXCEPT ![s] = IF released THEN "none" ELSE "list"]
  BY DEF Accept
<1>2. /\ kind' = kind /\ connectedClients' = connectedClients /\ connectedClientsMap' = connectedClientsMap
      /\ shared' = shared /\ backlog' = backlog /\ added' = added
      /\ released' = released /\ live' = live /\ replay' = replay
      /\ sender' = sender /\ sends' = sends /\ everyone' = everyone /\ missable' = missable
      /\ doubled' = doubled /\ read' = read
  BY DEF Accept, clientVars, backlogVars, outputVars, sendVars, historyVars
<1>3. /\ ShapeInv /\ SocketInv(s) /\ OutputInv(s) /\ SingleConnectionIsMapped
      /\ sio \in [Sockets -> {"new", "open", "leaving", "closed"}]
      /\ handler \in [Sockets -> {"none", "list", "callbacks", "replay", "done"}]
      /\ user \in [Sockets -> Users \cup {None}]
  BY DEF Inv, ClientsInv, ShapeInv
<1>4. handler[s] = "none" /\ ~Listed(s)
  BY <1>1, <1>3 DEF SocketInv, Listed
<1>5. /\ sio'[s] = "open" /\ user'[s] = u /\ handler'[s] \in {"none", "list"}
      /\ \A x \in Sockets \ {s} : sio'[x] = sio[x] /\ user'[x] = user[x] /\ handler'[x] = handler[x]
  BY <1>1, <1>3
<1>6. \A x \in Sockets : Listed(x)' <=> Listed(x)
  BY <1>4, <1>5 DEF Listed
<1>7. ShapeInv'
  <2>1. sio' \in [Sockets -> {"new", "open", "leaving", "closed"}]
    BY <1>1, <1>3
  <2>2. handler' \in [Sockets -> {"none", "list", "callbacks", "replay", "done"}]
    BY <1>1, <1>3
  <2>3. user' \in [Sockets -> Users \cup {None}]
    BY <1>1, <1>3
  <2> QED BY <1>2, <1>3, <2>1, <2>2, <2>3 DEF ShapeInv, Messages
<1>8. SenderInv' /\ AddedInv' /\ RingInv'
  BY <1>2, RestFrame
<1>9. ListInv'
  BY <1>2, <1>6, ListFrame
<1>10. s \notin Range(connectedClients) /\ live[s] = <<>> /\ replay[s] = {} /\ \A m : ~Pending(s, m)
  BY <1>4, NotListed
<1>11. ClientsInv'
  <2>1. SocketInv(s)'
    BY <1>4, <1>5, <1>6 DEF SocketInv
  <2>2. read[s] \subseteq AddedMessages
    BY <1>3 DEF OutputInv
  <2>3. OutputInv(s)' /\ TwiceInv(s)' /\ MissedInv(s)'
    BY <1>2, <1>4, <1>6, <1>10, <2>2, NothingSent
  <2> QED BY <1>2, <1>5, <2>1, <2>3, ClientsKept
<1>12. SingleConnectionIsMapped'
  <2>1. \A w : ListedOf(w)' = ListedOf(w)
    <3>1. Range(connectedClients) \subseteq Sockets
      BY RangeSubset DEF Inv, ShapeInv
    <3>2. \A x \in Range(connectedClients) : user'[x] = user[x]
      BY <1>5, <1>10, <3>1
    <3> QED BY <1>2, <3>2 DEF ListedOf
  <2> QED BY <1>2, <1>3, <2>1 DEF SingleConnectionIsMapped
<1> QED BY <1>7, <1>8, <1>9, <1>11, <1>12 DEF Inv

(* A refused socket was never listed. *)
LEMMA RefuseInv ==
  ASSUME Inv, NEW s \in Sockets, Refuse(s)
  PROVE  Inv'
<1>1. sio[s] = "new" /\ sio' = [sio EXCEPT ![s] = "closed"]
  BY DEF Refuse
<1>2. /\ kind' = kind /\ connectedClients' = connectedClients /\ connectedClientsMap' = connectedClientsMap
      /\ shared' = shared /\ backlog' = backlog /\ added' = added /\ user' = user /\ handler' = handler
      /\ released' = released /\ live' = live /\ replay' = replay
      /\ sender' = sender /\ sends' = sends /\ everyone' = everyone /\ missable' = missable
      /\ doubled' = doubled /\ read' = read
  BY DEF Refuse, clientVars, backlogVars, outputVars, sendVars, historyVars
<1>3. /\ ShapeInv /\ SocketInv(s) /\ OutputInv(s) /\ SingleConnectionIsMapped
      /\ sio \in [Sockets -> {"new", "open", "leaving", "closed"}]
      /\ handler \in [Sockets -> {"none", "list", "callbacks", "replay", "done"}]
  BY DEF Inv, ClientsInv, ShapeInv
<1>4. handler[s] = "none" /\ ~Listed(s)
  BY <1>1, <1>3 DEF SocketInv, Listed
<1>5. sio'[s] = "closed" /\ \A x \in Sockets \ {s} : sio'[x] = sio[x]
  BY <1>1, <1>3
<1>6. \A x \in Sockets : Listed(x)' <=> Listed(x)
  BY <1>2 DEF Listed
<1>7. ShapeInv'
  <2>1. sio' \in [Sockets -> {"new", "open", "leaving", "closed"}]
    BY <1>1, <1>3
  <2> QED BY <1>2, <1>3, <2>1 DEF ShapeInv, Messages
<1>8. SenderInv' /\ AddedInv' /\ RingInv'
  BY <1>2, RestFrame
<1>9. ListInv'
  BY <1>2, <1>6, ListFrame
<1>10. live[s] = <<>> /\ replay[s] = {}
  BY <1>4, NotListed
<1>11. ClientsInv'
  <2>1. SocketInv(s)'
    BY <1>2, <1>4, <1>5, <1>6 DEF SocketInv
  <2>2. read[s] \subseteq AddedMessages
    BY <1>3 DEF OutputInv
  <2>3. OutputInv(s)' /\ TwiceInv(s)' /\ MissedInv(s)'
    <3>1. sio'[s] # "open"
      BY <1>5
    <3> QED BY <1>2, <1>10, <2>2, <3>1, NothingSent
  <2> QED BY <1>2, <1>5, <2>1, <2>3, ClientsKept
<1>12. SingleConnectionIsMapped'
  BY <1>2, <1>3 DEF SingleConnectionIsMapped, ListedOf
<1> QED BY <1>7, <1>8, <1>9, <1>11, <1>12 DEF Inv

(* A socket is listed: what is under way and not yet in the backlog may be *)
(* missed, everything else that was sent to everyone is in the backlog.    *)
LEMMA ListStepInv ==
  ASSUME Inv, NEW s \in Sockets, List(s)
  PROVE  Inv'
<1> PICK u : u = user[s]
  OBVIOUS
<1>1. /\ handler[s] = "list"
      /\ connectedClients' = Append(connectedClients, s)
      /\ connectedClientsMap' = [connectedClientsMap EXCEPT ![u] = s]
      /\ shared' = IF ListedOf(u) = {} THEN shared ELSE shared \cup {u}
      /\ missable' = missable \cup 
           {<<s, sender[p].msg>> : p \in {q \in Senders : sio[s] = "open" /\ sender[q].pc = "add"}}
      /\ handler' = [handler EXCEPT ![s] = "callbacks"]
  BY DEF List
<1>2. /\ kind' = kind /\ backlog' = backlog /\ added' = added /\ user' = user /\ sio' = sio
      /\ released' = released /\ live' = live /\ replay' = replay
      /\ sender' = sender /\ sends' = sends /\ everyone' = everyone
      /\ doubled' = doubled /\ read' = read
  BY DEF List, backlogVars, outputVars, sendVars
<1>3. /\ ShapeInv /\ SenderInv /\ ListInv /\ SocketInv(s) /\ OutputInv(s) /\ SingleConnectionIsMapped
      /\ connectedClients \in Seq(Sockets)
      /\ connectedClientsMap \in [Users -> Sockets \cup {None}]
      /\ handler \in [Sockets -> {"none", "list", "callbacks", "replay", "done"}]
      /\ sender \in [Senders -> SenderRecord]
  BY DEF Inv, ClientsInv, ShapeInv
<1>4. ~Listed(s) /\ u \in Users
  BY <1>1, <1>3 DEF SocketInv, Listed
<1>5. handler'[s] = "callbacks" /\ \A x \in Sockets \ {s} : handler'[x] = handler[x]
  BY <1>1, <1>3
<1>6. Listed(s)' /\ \A x \in Sockets \ {s} : Listed(x)' <=> Listed(x)
  BY <1>5 DEF Listed
<1>7. s \notin Range(connectedClients) /\ live[s] = <<>> /\ replay[s] = {} /\ \A m : ~Pending(s, m)
  BY <1>4, NotListed
<1>8. /\ connectedClients' \in Seq(Sockets)
      /\ Range(connectedClients') = Range(connectedClients) \cup {s}
      /\ IsInjective(connectedClients')
  BY <1>1, <1>3, <1>7, AppendRange DEF ListInv
<1>9. /\ connectedClientsMap' \in [Users -> Sockets \cup {None}]
      /\ connectedClientsMap'[u] = s
      /\ \A w \in Users \ {u} : connectedClientsMap'[w] = connectedClientsMap[w]
  BY <1>1, <1>3, <1>4
<1>10. AddedMessages' = AddedMessages /\ Messages' = Messages
  BY <1>2, <1>3, SenderFrame
<1>11. ShapeInv'
  <2>1. handler' \in [Sockets -> {"none", "list", "callbacks", "replay", "done"}]
    BY <1>1, <1>3
  <2>2. shared' \subseteq Users
    BY <1>1, <1>3, <1>4 DEF ShapeInv
  <2>3. missable' \subseteq Sockets \X Messages
    <3>1. \A p \in Senders : sender[p].pc = "add" => sender[p].msg \in Messages
      <4> TAKE p \in Senders
      <4> HAVE sender[p].pc = "add"
      <4>1. sender[p].msg \in Nat /\ sends \in Nat
        BY <1>3 DEF SenderRecord, ShapeInv
      <4>2. sender[p].msg # 0 /\ sender[p].msg <= sends
        BY <1>3 DEF SenderInv
      <4> QED BY <4>1, <4>2 DEF Messages
    <3>2. missable \subseteq Sockets \X Messages
      BY <1>3 DEF ShapeInv
    <3> QED BY <1>1, <3>1, <3>2
  <2> QED BY <1>2, <1>3, <1>8, <1>9, <1>10, <2>1, <2>2, <2>3 DEF ShapeInv
<1>12. SenderInv' /\ AddedInv' /\ RingInv'
  BY <1>2, RestFrame
<1>13. ListInv'
  <2>1. Range(connectedClients) \subseteq Sockets
    BY <1>3, RangeSubset
  <2>2. \A x \in Range(connectedClients') : Listed(x)'
    BY <1>3, <1>6, <1>8, <2>1 DEF ListInv
  <2>3. \A w \in Users : connectedClientsMap'[w] # None => Listed(connectedClientsMap[w])'
    <3> TAKE w \in Users
    <3> HAVE connectedClientsMap'[w] # None
    <3>1. CASE w = u
      BY <1>6, <1>9, <3>1 DEF Listed
    <3>2. CASE w # u
      <4>1. PICK z \in Sockets : z = connectedClientsMap[w] /\ Listed(z)
        BY <1>3, <1>9, <3>2 DEF ListInv
      <4>2. z = connectedClientsMap'[w] /\ Listed(z)'
        BY <1>6, <1>9, <3>2, <4>1
      <4> QED BY <4>2 DEF Listed
    <3> QED BY <3>1, <3>2
  <2>4. \A p \in Senders : \A x \in Range(sender'[p].left) : Listed(x)'
    <3> TAKE p \in Senders
    <3>1. sender[p].left \in Seq(Sockets)
      BY <1>3 DEF SenderRecord
    <3>2. Range(sender[p].left) \subseteq Sockets
      BY <3>1, RangeSubset
    <3> QED BY <1>2, <1>3, <1>6, <3>2 DEF ListInv
  <2> QED BY <1>8, <2>2, <2>3, <2>4 DEF ListInv
<1>14. ClientsInv'
  <2>1. SocketInv(s)'
    BY <1>1, <1>2, <1>3, <1>4, <1>5, <1>6, <1>8 DEF SocketInv
  <2>2. read[s] \subseteq AddedMessages
    BY <1>3 DEF OutputInv
  <2>3. OutputInv(s)' /\ TwiceInv(s)'
    BY <1>2, <1>7, <2>2, NothingSent
  <2>4. MissedInv(s)'
    <3> SUFFICES ASSUME sio[s] = "open", NEW m \in everyone
                 PROVE  Accounted(s, m)'
      BY <1>2 DEF MissedInv
    <3>1. m \in Messages
      BY <1>3 DEF ShapeInv
    <3>2. CASE m \in AddedMessages
      BY <1>5, <1>10, <3>2 DEF Accounted
    <3>3. CASE m \notin AddedMessages
      <4>1. PICK p \in Senders : sender[p].pc = "add" /\ sender[p].msg = m
        BY <3>1, <3>3 DEF AddedMessages
      <4>2. <<s, m>> \in missable'
        BY <1>1, <4>1
      <4> QED BY <4>2 DEF Accounted
    <3> QED BY <3>2, <3>3
  <2>5. missable \subseteq missable'
    BY <1>1
  <2> QED BY <1>2, <1>5, <1>8, <2>1, <2>3, <2>4, <2>5, ClientsKept
<1>15. SingleConnectionIsMapped'
  <2> SUFFICES ASSUME NEW w \in Users, w \notin shared'
               PROVE  (ListedOf(w) = IF connectedClientsMap[w] = None THEN {} ELSE {connectedClientsMap[w]})'
    BY DEF SingleConnectionIsMapped
  <2>1. ListedOf(w)' = IF w = u THEN ListedOf(w) \cup {s} ELSE ListedOf(w)
    BY <1>2, <1>8 DEF ListedOf
  <2>2. w \notin shared
    BY <1>1
  <2>3. CASE w = u
    <3>1. ListedOf(u) = {}
      BY <1>1, <2>3
    <3>2. s # None
      BY NamespaceAssumption
    <3> QED BY <1>9, <2>1, <2>3, <3>1, <3>2
  <2>4. CASE w # u
    BY <1>3, <1>9, <2>1, <2>2, <2>4 DEF SingleConnectionIsMapped
  <2> QED BY <2>3, <2>4
<1> QED BY <1>11, <1>12, <1>13, <1>14, <1>15 DEF Inv

(* The callbacks are set; with a backlog the client is to read it next. *)
LEMMA SetCallbacksInv ==
  ASSUME Inv, NEW s \in Sockets, SetCallbacks(s)
  PROVE  Inv'
<1>1. /\ handler[s] = "callbacks"
      /\ handler' = [handler EXCEPT ![s] = IF HasBacklog THEN "replay" ELSE "done"]
  BY DEF SetCallbacks
<1>2. /\ kind' = kind /\ connectedClients' = connectedClients /\ connectedClientsMap' = connectedClientsMap
      /\ shared' = shared /\ backlog' = backlog /\ added' = added /\ user' = user /\ sio' = sio
      /\ released' = released /\ live' = live /\ replay' = replay
      /\ sender' = sender /\ sends' = sends /\ everyone' = everyone /\ missable' = missable
      /\ doubled' = doubled /\ read' = read
  BY DEF SetCallbacks, clientVars, backlogVars, outputVars, sendVars, historyVars
<1>3. /\ ShapeInv /\ SenderInv /\ SocketInv(s) /\ OutputInv(s) /\ MissedInv(s) /\ TwiceInv(s)
      /\ SingleConnectionIsMapped
      /\ handler \in [Sockets -> {"none", "list", "callbacks", "replay", "done"}]
  BY DEF Inv, ClientsInv, ShapeInv
<1>4. /\ HasBacklog => handler'[s] = "replay"
      /\ ~HasBacklog => handler'[s] = "done"
      /\ \A x \in Sockets \ {s} : handler'[x] = handler[x]
  BY <1>1, <1>3
<1>5. \A x \in Sockets : Listed(x)' <=> Listed(x)
  BY <1>1, <1>4 DEF Listed
<1>6. ShapeInv'
  <2>1. handler' \in [Sockets -> {"none", "list", "callbacks", "replay", "done"}]
    BY <1>1, <1>3
  <2> QED BY <1>2, <1>3, <2>1 DEF ShapeInv, Messages
<1>7. SenderInv' /\ AddedInv' /\ RingInv'
  BY <1>2, RestFrame
<1>8. ListInv'
  BY <1>2, <1>5, ListFrame
<1>9. /\ AddedMessages' = AddedMessages /\ Messages' = Messages
      /\ \A m : Pending(s, m)' <=> Pending(s, m)
      /\ HasBacklog' <=> HasBacklog
  BY <1>2, <1>3, SenderFrame
<1>10. replay[s] = {}
  BY <1>1, <1>3 DEF OutputInv
<1>11. ClientsInv'
  <2>1. SocketInv(s)'
    BY <1>1, <1>2, <1>3, <1>4, <1>5, <1>9 DEF SocketInv
  <2>2. OutputInv(s)'
    BY <1>2, <1>3, <1>5, <1>9, <1>10 DEF OutputInv
  <2>3. MissedInv(s)'
    <3>1. HasBacklog => \A m : Accounted(s, m) => Accounted(s, m)'
      BY <1>1, <1>2, <1>4, <1>9 DEF Accounted
    <3> QED BY <1>2, <1>3, <1>5, <1>9, <3>1 DEF MissedInv
  <2>4. TwiceInv(s)'
    <3>1. \A m : (Reaches(s, m)' <=> Reaches(s, m)) /\ (Overlaps(s, m)' => Overlaps(s, m))
      BY <1>1, <1>2, <1>4, <1>9 DEF Reaches, Overlaps
    <3> QED BY <1>2, <1>3, <1>9, <3>1 DEF TwiceInv
  <2> QED BY <1>2, <1>4, <2>1, <2>2, <2>3, <2>4, ClientsKept
<1>12. SingleConnectionIsMapped'
  BY <1>2, <1>3 DEF SingleConnectionIsMapped, ListedOf
<1> QED BY <1>6, <1>7, <1>8, <1>11, <1>12 DEF Inv

(* What the backlog returns has been added to it. *)
LEMMA BacklogIsAdded ==
  ASSUME Inv
  PROVE  /\ \A i \in DOMAIN backlogItems : \E j \in DOMAIN added : backlogItems[i] = added[j]
         /\ \A i \in DOMAIN backlogItems : backlogItems[i] \in Items
         /\ BacklogIsTheEnd
<1>1. added \in Seq(Items) /\ RingInv
  BY DEF Inv, ShapeInv
<1>2. \A j \in DOMAIN added : added[j] \in Items
  BY <1>1, LenProperties, ElementOfSeq
<1>3. CASE kind = "shell"
  <2>1. ByteInv(backlog, added)
    BY <1>1, <1>3 DEF RingInv
  <2>2. /\ backlog.buf = LastLines(added, backlog.cap)
        /\ \A i \in DOMAIN backlog.buf : \E j \in DOMAIN added : backlog.buf[i] = added[j]
    BY <1>1, <2>1, ByteRingIsTheEnd
  <2>3. backlogItems = backlog.buf
    BY <1>3 DEF backlogItems
  <2> QED BY <1>2, <1>3, <2>2, <2>3 DEF BacklogIsTheEnd
<1>4. CASE kind # "shell"
  <2>1. ValueInv(backlog, added)
    BY <1>1, <1>4 DEF RingInv
  <2>2. /\ ValueRingItems(backlog) = LastItems(added, backlog.cap)
        /\ \A i \in DOMAIN ValueRingItems(backlog) : \E j \in DOMAIN added : ValueRingItems(backlog)[i] = added[j]
    BY <1>1, <2>1, ValueRingItemsAreTheEnd
  <2>3. backlogItems = ValueRingItems(backlog)
    BY <1>4 DEF backlogItems
  <2> QED BY <1>2, <1>4, <2>2, <2>3 DEF BacklogIsTheEnd
<1> QED BY <1>3, <1>4

(* The client reads the backlog: all that has been added is accounted for. *)
LEMMA ReplayInv ==
  ASSUME Inv, NEW s \in Sockets, Replay(s)
  PROVE  Inv'
<1>1. /\ handler[s] = "replay"
      /\ replay' = [replay EXCEPT ![s] = IF sio[s] = "open" THEN {i.msg : i \in Range(backlogItems)} ELSE @]
      /\ read' = [read EXCEPT ![s] = IF sio[s] = "open" THEN AddedMessages ELSE @]
      /\ handler' = [handler EXCEPT ![s] = "done"]
  BY DEF Replay
<1>2. /\ kind' = kind /\ connectedClients' = connectedClients /\ connectedClientsMap' = connectedClientsMap
      /\ shared' = shared /\ backlog' = backlog /\ added' = added /\ user' = user /\ sio' = sio
      /\ released' = released /\ live' = live
      /\ sender' = sender /\ sends' = sends /\ everyone' = everyone /\ missable' = missable
      /\ doubled' = doubled
  BY DEF Replay, clientVars, backlogVars, sendVars
<1>3. /\ ShapeInv /\ SenderInv /\ SocketInv(s) /\ OutputInv(s) /\ MissedInv(s) /\ TwiceInv(s)
      /\ SingleConnectionIsMapped
      /\ handler \in [Sockets -> {"none", "list", "callbacks", "replay", "done"}]
      /\ replay \in [Sockets -> SUBSET Nat]
      /\ read \in [Sockets -> SUBSET Nat]
  BY DEF Inv, ClientsInv, ShapeInv
<1>4. HasBacklog /\ replay[s] = {}
  BY <1>1, <1>3 DEF SocketInv, OutputInv
<1>5. /\ handler'[s] = "done"
      /\ \A x \in Sockets \ {s} : handler'[x] = handler[x] /\ replay'[x] = replay[x] /\ read'[x] = read[x]
  BY <1>1, <1>3
<1>6. \A x \in Sockets : Listed(x)' <=> Listed(x)
  BY <1>1, <1>5 DEF Listed
<1>7. /\ sio[s] = "open" => replay'[s] \subseteq AddedMessages /\ read'[s] = AddedMessages
      /\ sio[s] # "open" => replay'[s] = {} /\ read'[s] = read[s]
  <2>1. {i.msg : i \in Range(backlogItems)} \subseteq AddedMessages
    <3>1. \A i \in DOMAIN backlogItems : backlogItems[i].msg \in AddedMessages
      BY BacklogIsAdded DEF Inv, AddedInv
    <3> QED BY <3>1 DEF Range
  <2>2. CASE sio[s] = "open"
    BY <1>1, <1>3, <2>1, <2>2
  <2>3. CASE sio[s] # "open"
    BY <1>1, <1>3, <1>4, <2>3
  <2> QED BY <2>2, <2>3
<1>8. /\ AddedMessages' = AddedMessages /\ Messages' = Messages
      /\ \A m : Pending(s, m)' <=> Pending(s, m)
      /\ HasBacklog' <=> HasBacklog
  BY <1>2, <1>3, SenderFrame
<1>9. ShapeInv'
  <2>1. handler' \in [Sockets -> {"none", "list", "callbacks", "replay", "done"}]
    BY <1>1, <1>3
  <2>2. AddedMessages \subseteq Nat
    BY <1>3 DEF AddedMessages, Messages, ShapeInv
  <2>3. replay'[s] \subseteq Nat /\ read'[s] \subseteq Nat
    BY <1>3, <1>7, <2>2
  <2>4. DOMAIN replay' = Sockets /\ DOMAIN read' = Sockets /\ replay' = [x \in Sockets |-> replay'[x]]
        /\ read' = [x \in Sockets |-> read'[x]]
    BY <1>1, <1>3
  <2>5. \A x \in Sockets : replay'[x] \in SUBSET Nat /\ read'[x] \in SUBSET Nat
    BY <1>3, <1>5, <2>3
  <2>6. replay' \in [Sockets -> SUBSET Nat] /\ read' \in [Sockets -> SUBSET Nat]
    BY <2>4, <2>5
  <2> QED BY <1>2, <1>3, <2>1, <2>6 DEF ShapeInv, Messages
<1>10. SenderInv' /\ AddedInv' /\ RingInv'
  BY <1>2, RestFrame
<1>11. ListInv'
  BY <1>2, <1>6, ListFrame
<1>12. ClientsInv'
  <2>1. SocketInv(s)'
    BY <1>1, <1>2, <1>3, <1>5, <1>6, <1>8 DEF SocketInv
  <2>2. OutputInv(s)'
    BY <1>2, <1>3, <1>5, <1>6, <1>7, <1>8 DEF OutputInv
  <2>3. MissedInv(s)'
    <3> SUFFICES ASSUME sio[s] = "open", Listed(s), NEW m \in everyone
                 PROVE  Accounted(s, m)'
      BY <1>2, <1>6 DEF MissedInv
    <3>1. Accounted(s, m)
      BY <1>3, <1>4 DEF MissedInv
    <3>2. read[s] \subseteq AddedMessages /\ read'[s] = AddedMessages
      BY <1>3, <1>7 DEF OutputInv
    <3> QED BY <1>2, <1>8, <3>1, <3>2 DEF Accounted
  <2>4. TwiceInv(s)'
    <3>1. \A m : (Reaches(s, m)' <=> Reaches(s, m)) /\ Overlaps(s, m)
      BY <1>1, <1>2, <1>4, <1>8 DEF Reaches, Overlaps
    <3> QED BY <1>2, <1>3, <1>8, <3>1 DEF TwiceInv
  <2> QED BY <1>2, <1>5, <2>1, <2>2, <2>3, <2>4, ClientsKept
<1>13. SingleConnectionIsMapped'
  BY <1>2, <1>3 DEF SingleConnectionIsMapped, ListedOf
<1> QED BY <1>9, <1>10, <1>11, <1>12, <1>13 DEF Inv

-----------------------------------------------------------------------------
(***************************************************************************)
(* Disconnecting                                                           *)
(***************************************************************************)
(* Connections that are gone hold nothing and leave the list only in their *)
(* disconnect callback.                                                    *)
LEMMA CloseAllInv ==
  ASSUME Inv, NEW cs \in SUBSET Sockets, \A s \in cs : sio[s] = "open", CloseAll(cs), released' \in BOOLEAN,
         UNCHANGED <<kind, clientVars, backlogVars, user, handler, sendVars, everyone>>
  PROVE  Inv'
<1>1. /\ kind' = kind /\ connectedClients' = connectedClients /\ connectedClientsMap' = connectedClientsMap
      /\ shared' = shared /\ backlog' = backlog /\ added' = added /\ user' = user /\ handler' = handler
      /\ sender' = sender /\ sends' = sends /\ everyone' = everyone
  BY DEF clientVars, backlogVars, sendVars
<1>2. \A x \in Sockets \ cs :
        /\ sio'[x] = sio[x] /\ live'[x] = live[x] /\ replay'[x] = replay[x] /\ read'[x] = read[x]
        /\ \A m : <<x, m>> \in missable => <<x, m>> \in missable'
        /\ \A m : <<x, m>> \in doubled => <<x, m>> \in doubled'
  BY DEF CloseAll
<1>3. \A x \in cs :
        /\ sio'[x] \in {"leaving", "closed"} /\ live'[x] = <<>> /\ replay'[x] = {} /\ read'[x] = {}
        /\ sio'[x] = "leaving" => CallbacksSet(x)
  BY DEF CloseAll
<1>4. /\ ShapeInv /\ SenderInv /\ SingleConnectionIsMapped
      /\ sio \in [Sockets -> {"new", "open", "leaving", "closed"}]
      /\ live \in [Sockets -> Seq(Nat)]
      /\ replay \in [Sockets -> SUBSET Nat]
      /\ read \in [Sockets -> SUBSET Nat]
  BY DEF Inv, ShapeInv
<1>5. \A x \in Sockets : Listed(x)' <=> Listed(x)
  BY <1>1 DEF Listed
<1>6. ShapeInv'
  <2>1. sio' \in [Sockets -> {"new", "open", "leaving", "closed"}]
    BY <1>4 DEF CloseAll
  <2>2. live' \in [Sockets -> Seq(Nat)]
    <3>1. <<>> \in Seq(Nat)
      BY EmptySeq
    <3> QED BY <1>4, <3>1 DEF CloseAll
  <2>3. replay' \in [Sockets -> SUBSET Nat] /\ read' \in [Sockets -> SUBSET Nat]
    BY <1>4 DEF CloseAll
  <2>4. missable' \subseteq missable /\ doubled' \subseteq doubled
    BY DEF CloseAll
  <2> QED BY <1>1, <1>4, <2>1, <2>2, <2>3, <2>4 DEF ShapeInv, Messages
<1>7. SenderInv' /\ AddedInv' /\ RingInv'
  BY <1>1, RestFrame
<1>8. ListInv'
  BY <1>1, <1>5, ListFrame
<1>9. ASSUME NEW x \in Sockets
      PROVE  SocketInv(x)' /\ OutputInv(x)' /\ MissedInv(x)' /\ TwiceInv(x)'
  <2>1. SocketInv(x) /\ OutputInv(x) /\ MissedInv(x) /\ TwiceInv(x)
    BY DEF Inv, ClientsInv
  <2>2. CASE x \notin cs
    <3>1. /\ sio'[x] = sio[x] /\ live'[x] = live[x] /\ replay'[x] = replay[x] /\ read'[x] = read[x]
          /\ \A m : <<x, m>> \in missable => <<x, m>> \in missable'
          /\ \A m : <<x, m>> \in doubled => <<x, m>> \in doubled'
      BY <1>2, <2>2
    <3>2. SocketInv(x)'
      BY <1>1, <2>1, <3>1, SocketFrame
    <3> QED BY <1>1, <1>4, <2>1, <3>1, <3>2, ClientFrame
  <2>3. CASE x \in cs
    <3>1. /\ sio'[x] \in {"leaving", "closed"} /\ live'[x] = <<>> /\ replay'[x] = {} /\ read'[x] = {}
          /\ sio'[x] = "leaving" => CallbacksSet(x)
      BY <1>3, <2>3
    <3>2. sio[x] = "open"
      BY <2>3
    <3>3. CallbacksSet(x) => Listed(x)
      BY DEF CallbacksSet, Listed
    <3>4. HasBacklog' <=> HasBacklog
      BY <1>1 DEF HasBacklog
    <3>5. SocketInv(x)'
      BY <1>1, <1>5, <2>1, <3>1, <3>2, <3>3, <3>4 DEF SocketInv
    <3>6. sio'[x] # "open" /\ read'[x] \subseteq AddedMessages
      BY <3>1
    <3>7. OutputInv(x)' /\ TwiceInv(x)' /\ MissedInv(x)'
      BY <1>1, <3>1, <3>6, NothingSent
    <3> QED BY <3>5, <3>7
  <2> QED BY <2>2, <2>3
<1>10. SingleConnectionIsMapped'
  BY <1>1, <1>4 DEF SingleConnectionIsMapped, ListedOf
<1> QED BY <1>6, <1>7, <1>8, <1>9, <1>10 DEF Inv, ClientsInv

(* The connection of one socket is gone. *)
LEMMA CloseInv ==
  ASSUME Inv, NEW s \in Sockets, Close(s)
  PROVE  Inv'
<1>1. /\ sio[s] = "open" /\ CloseAll({s}) /\ released' = released
      /\ UNCHANGED <<kind, clientVars, backlogVars, user, handler, sendVars, everyone>>
  BY DEF Close
<1>2. released \in BOOLEAN
  BY DEF Inv, ShapeInv
<1> QED BY <1>1, <1>2, CloseAllInv

(* Release closes all connections. *)
LEMMA ReleaseInv ==
  ASSUME Inv, Release
  PROVE  Inv'
<1> PICK cs : cs = {s \in Sockets : sio[s] = "open"}
  OBVIOUS
<1>1. /\ CloseAll(cs) /\ released' = TRUE
      /\ UNCHANGED <<kind, clientVars, backlogVars, user, handler, sendVars, everyone>>
  BY DEF Release
<1>2. cs \in SUBSET Sockets /\ \A s \in cs : sio[s] = "open"
  OBVIOUS
<1> QED BY <1>1, <1>2, CloseAllInv

(* The disconnect callback: a user with one connection loses list and map  *)
(* entry together.                                                         *)
LEMMA DisconnectInv ==
  ASSUME Inv, NEW s \in Sockets, Disconnect(s)
  PROVE  Inv'
<1> PICK u : u = user[s]
  OBVIOUS
<1>1. /\ sio[s] = "leaving"
      /\ connectedClients' = RemoveFirst(connectedClients, s)
      /\ connectedClientsMap' = [connectedClientsMap EXCEPT ![u] = None]
      /\ sio' = [sio EXCEPT ![s] = "closed"]
  BY DEF Disconnect
<1>2. /\ kind' = kind /\ shared' = shared /\ backlog' = backlog /\ added' = added /\ user' = user
      /\ handler' = handler /\ released' = released /\ live' = live /\ replay' = replay
      /\ sender' = sender /\ sends' = sends /\ everyone' = everyone /\ missable' = missable
      /\ doubled' = doubled /\ read' = read
  BY DEF Disconnect, backlogVars, outputVars, sendVars, historyVars
<1>3. /\ ShapeInv /\ SenderInv /\ ListInv /\ SocketInv(s) /\ OutputInv(s) /\ SingleConnectionIsMapped
      /\ connectedClients \in Seq(Sockets)
      /\ connectedClientsMap \in [Users -> Sockets \cup {None}]
      /\ sio \in [Sockets -> {"new", "open", "leaving", "closed"}]
  BY DEF Inv, ClientsInv, ShapeInv
<1>4. Listed(s) /\ s \in Range(connectedClients) /\ u \in Users
  BY <1>1, <1>3 DEF SocketInv, Listed
<1>5. sio'[s] = "closed" /\ \A x \in Sockets \ {s} : sio'[x] = sio[x]
  BY <1>1, <1>3
<1>6. \A x \in Sockets : Listed(x)' <=> Listed(x)
  BY <1>2 DEF Listed
<1>7. /\ connectedClients' \in Seq(Sockets)
      /\ Range(connectedClients') = Range(connectedClients) \ {s}
      /\ IsInjective(connectedClients')
  BY <1>1, <1>3, <1>4, RemoveRange DEF ListInv
<1>8. /\ connectedClientsMap' \in [Users -> Sockets \cup {None}]
      /\ connectedClientsMap'[u] = None
      /\ \A w \in Users \ {u} : connectedClientsMap'[w] = connectedClientsMap[w]
  BY <1>1, <1>3, <1>4
<1>9. ShapeInv'
  <2>1. sio' \in [Sockets -> {"new", "open", "leaving", "closed"}]
    BY <1>1, <1>3
  <2> QED BY <1>2, <1>3, <1>7, <1>8, <2>1 DEF ShapeInv, Messages
<1>10. SenderInv' /\ AddedInv' /\ RingInv'
  BY <1>2, RestFrame
<1>11. ListInv'
  <2>1. Range(connectedClients) \subseteq Sockets
    BY <1>3, RangeSubset
  <2>2. \A x \in Range(connectedClients') : Listed(x)'
    BY <1>3, <1>6, <1>7, <2>1 DEF ListInv
  <2>3. \A w \in Users : connectedClientsMap'[w] # None => Listed(connectedClientsMap[w])'
    <3> TAKE w \in Users
    <3> HAVE connectedClientsMap'[w] # None
    <3>1. w # u
      BY <1>8
    <3>2. PICK z \in Sockets : z = connectedClientsMap[w] /\ Listed(z)
      BY <1>3, <1>8, <3>1 DEF ListInv
    <3>3. z = connectedClientsMap'[w] /\ Listed(z)'
      BY <1>6, <1>8, <3>1, <3>2
    <3> QED BY <3>3 DEF Listed
  <2>4. \A p \in Senders : \A x \in Range(sender'[p].left) : Listed(x)'
    <3> TAKE p \in Senders
    <3>1. sender[p].left \in Seq(Sockets)
      BY <1>3 DEF SenderRecord, ShapeInv
    <3>2. Range(sender[p].left) \subseteq Sockets
      BY <3>1, RangeSubset
    <3> QED BY <1>2, <1>3, <1>6, <3>2 DEF ListInv
  <2> QED BY <1>7, <2>2, <2>3, <2>4 DEF ListInv
<1>12. ClientsInv'
  <2>1. SocketInv(s)'
    <3>1. HasBacklog' <=> HasBacklog
      BY <1>2 DEF HasBacklog
    <3> QED BY <1>2, <1>3, <1>4, <1>5, <1>6, <3>1 DEF SocketInv
  <2>2. live[s] = <<>> /\ replay[s] = {} /\ read[s] \subseteq AddedMessages
    BY <1>1, <1>3 DEF OutputInv
  <2>3. sio'[s] # "open"
    BY <1>5
  <2>4. OutputInv(s)' /\ TwiceInv(s)' /\ MissedInv(s)'
    BY <1>2, <2>2, <2>3, NothingSent
  <2>5. \A x \in Sockets \ {s} : x \in Range(connectedClients) => x \in Range(connectedClients')
    BY <1>7
  <2> QED BY <1>2, <1>5, <2>1, <2>4, <2>5, ClientsKept
<1>13. SingleConnectionIsMapped'
  <2> SUFFICES ASSUME NEW w \in Users, w \notin shared'
               PROVE  (ListedOf(w) = IF connectedClientsMap[w] = None THEN {} ELSE {connectedClientsMap[w]})'
    BY DEF SingleConnectionIsMapped
  <2>1. ListedOf(w)' = ListedOf(w) \ {s}
    BY <1>2, <1>7 DEF ListedOf
  <2>2. ListedOf(w) = IF connectedClientsMap[w] = None THEN {} ELSE {connectedClientsMap[w]}
    BY <1>2, <1>3 DEF SingleConnectionIsMapped
  <2>3. CASE w = u
    <3>1. s \in ListedOf(w)
      BY <1>4, <2>3 DEF ListedOf
    <3>2. ListedOf(w)' = {}
      BY <2>1, <2>2, <3>1
    <3> QED BY <1>8, <2>3, <3>2
  <2>4. CASE w # u
    <3>1. s \notin ListedOf(w)
      BY <2>4 DEF ListedOf
    <3> QED BY <1>8, <2>1, <2>2, <2>4, <3>1
  <2> QED BY <2>3, <2>4
<1> QED BY <1>9, <1>10, <1>11, <1>12, <1>13 DEF Inv
-----------------------------------------------------------------------------
(***************************************************************************)
(* Sending                                                                 *)
(***************************************************************************)
(* What the invariant says of one Send. *)
LEMMA SenderShape ==
  ASSUME Inv, NEW p \in Senders
  PROVE  /\ sender[p].pc \in {"idle", "add", "emit"}
         /\ sender[p].msg \in Nat /\ sender[p].msg <= sends
         /\ sender[p].pc = "idle" <=> sender[p].msg = 0
         /\ sender[p].pc = "idle" => sender[p].left = <<>>
         /\ sender[p].left \in Seq(Sockets) /\ IsInjective(sender[p].left)
         /\ sender[p].pc = "add" => HasBacklog
         /\ \A q \in Senders : q # p /\ sender[p].msg = sender[q].msg => sender[p].msg = 0
         /\ \A s \in Range(sender[p].left) : s \in Sockets /\ Listed(s)
<1>1. sender \in [Senders -> SenderRecord] /\ SenderInv /\ ListInv
  BY DEF Inv, ShapeInv
<1>2. sender[p] \in SenderRecord
  BY <1>1
<1>3. sender[p].pc \in {"idle", "add", "emit"} /\ sender[p].msg \in Nat /\ sender[p].left \in Seq(Sockets)
  BY <1>2 DEF SenderRecord
<1>4. \A s \in Range(sender[p].left) : s \in Sockets /\ Listed(s)
  BY <1>1, <1>3, RangeSubset DEF ListInv
<1>5. /\ sender[p].pc = "idle" <=> sender[p].msg = 0
      /\ sender[p].msg <= sends
      /\ sender[p].pc = "idle" => sender[p].left = <<>>
      /\ IsInjective(sender[p].left)
      /\ sender[p].pc = "add" => HasBacklog
      /\ \A q \in Senders : q # p /\ sender[p].msg = sender[q].msg => sender[p].msg = 0
  BY <1>1 DEF SenderInv
<1> QED BY <1>3, <1>4, <1>5

(* The messages in the backlog have been sent. *)
LEMMA AddedAreSent ==
  ASSUME Inv
  PROVE  sends \in Nat /\ AddedMessages \subseteq Messages /\ Messages \subseteq Nat
BY NamespaceAssumption DEF Inv, ShapeInv, AddedMessages, Messages

(* A new message is under way to the sockets that have been copied, and to *)
(* no other.                                                               *)
LEMMA BeginSendInv ==
  ASSUME Inv, NEW p \in Senders, NEW rs \in Seq(Sockets), IsInjective(rs), \A s \in Range(rs) : Listed(s),
         NEW toAll \in BOOLEAN, toAll => rs = connectedClients, BeginSend(p, rs, toAll)
  PROVE  Inv'
<1> PICK n : n = sends + 1
  OBVIOUS
<1> PICK c : c = IF HasBacklog THEN "add" ELSE "emit"
  OBVIOUS
<1>1. /\ sender[p].pc = "idle" /\ sends < MaxSends /\ sends' = n
      /\ sender' = [sender EXCEPT ![p] = [pc |-> c, msg |-> n, left |-> rs]]
      /\ everyone' = IF toAll THEN everyone \cup {n} ELSE everyone
      /\ doubled' = doubled \cup {<<s, n>> :
           s \in {t \in Sockets : HasBacklog /\ sio[t] = "open" /\ handler[t] \in {"callbacks", "replay"}}}
  BY DEF BeginSend
<1>2. /\ kind' = kind /\ connectedClients' = connectedClients /\ connectedClientsMap' = connectedClientsMap
      /\ shared' = shared /\ backlog' = backlog /\ added' = added /\ user' = user /\ sio' = sio
      /\ handler' = handler /\ released' = released /\ live' = live /\ replay' = replay
      /\ missable' = missable /\ read' = read
  BY DEF BeginSend, clientVars, backlogVars, outputVars
<1>3. /\ ShapeInv /\ SenderInv /\ ListInv /\ RingInv /\ AddedInv /\ SingleConnectionIsMapped
      /\ sender \in [Senders -> SenderRecord]
      /\ everyone \subseteq Messages
      /\ missable \subseteq Sockets \X Messages
      /\ doubled \subseteq Sockets \X Messages
      /\ MaxSends \in Nat
  BY NamespaceAssumption DEF Inv, ShapeInv
<1>4. sends \in Nat /\ AddedMessages \subseteq Messages /\ Messages \subseteq Nat
  BY AddedAreSent
<1>5. sender[p].msg = 0 /\ sender[p].left = <<>>
  BY <1>1, SenderShape
<1>6. /\ sender'[p].pc = c /\ sender'[p].msg = n /\ sender'[p].left = rs
      /\ \A q \in Senders \ {p} : sender'[q] = sender[q]
  BY <1>1, <1>3
<1>7. n \in Nat /\ n # 0 /\ n \notin Messages /\ Messages' = Messages \cup {n}
  BY <1>1, <1>4 DEF Messages
<1>8. /\ \A q \in Senders \ {p} : sender[q].msg # n
      /\ \A s \in Sockets : ~Pending(s, n)
  <2>1. ASSUME NEW q \in Senders
        PROVE  sender[q].msg # n
    <3>1. sender[q].msg \in Nat /\ sender[q].msg <= sends
      BY SenderShape
    <3> QED BY <1>4, <3>1
  <2> QED BY <2>1 DEF Pending
<1>9. AddedMessages \subseteq AddedMessages'
  <2> SUFFICES ASSUME NEW m \in AddedMessages
               PROVE  m \in AddedMessages'
    OBVIOUS
  <2>1. m \in Messages' /\ m # n
    BY <1>4, <1>7
  <2>2. ASSUME NEW q \in Senders, sender'[q].pc = "add", sender'[q].msg = m
        PROVE  FALSE
    <3>1. q # p
      BY <1>6, <2>1, <2>2
    <3>2. sender[q].pc = "add" /\ sender[q].msg = m
      BY <1>6, <2>2, <3>1
    <3> QED BY <3>2 DEF AddedMessages
  <2> QED BY <2>1, <2>2 DEF AddedMessages
<1>10. Range(<<>>) = {}
  BY EmptyRange
<1>11. /\ \A s, m : m # n => (Pending(s, m)' <=> Pending(s, m))
       /\ \A s \in Range(rs) : Pending(s, n)'
       /\ \A s : Pending(s, n)' => s \in Range(rs)
  <2>1. ASSUME NEW s, NEW m, m # n, Pending(s, m)
        PROVE  Pending(s, m)'
    <3> PICK q \in Senders : sender[q].msg = m /\ s \in Range(sender[q].left)
      BY <2>1 DEF Pending
    <3>1. q # p
      BY <1>5, <1>10
    <3> QED BY <1>6, <3>1 DEF Pending
  <2>2. ASSUME NEW s, NEW m, m # n, Pending(s, m)'
        PROVE  Pending(s, m)
    <3> PICK q \in Senders : sender'[q].msg = m /\ s \in Range(sender'[q].left)
      BY <2>2 DEF Pending
    <3>1. q # p
      BY <1>6, <2>2
    <3> QED BY <1>6, <3>1 DEF Pending
  <2>3. \A s \in Range(rs) : Pending(s, n)'
    BY <1>6 DEF Pending
  <2>4. \A s : Pending(s, n)' => s \in Range(rs)
    BY <1>6, <1>8 DEF Pending
  <2> QED BY <2>1, <2>2, <2>3, <2>4
<1>12. \A s : Listed(s)' <=> Listed(s)
  BY <1>2 DEF Listed
<1>13. HasBacklog' <=> HasBacklog
  BY <1>2 DEF HasBacklog
<1>14. ShapeInv'
  <2>1. sender' \in [Senders -> SenderRecord]
    <3>1. [pc |-> c, msg |-> n, left |-> rs] \in SenderRecord
      BY <1>7 DEF SenderRecord
    <3> QED BY <1>1, <1>3, <3>1
  <2>2. sends' \in 0 .. MaxSends
    BY <1>1, <1>3, <1>4
  <2>3. everyone' \subseteq Messages'
    BY <1>1, <1>3, <1>7
  <2>4. missable' \subseteq Sockets \X Messages'
    BY <1>2, <1>3, <1>7
  <2>5. doubled' \subseteq Sockets \X Messages'
    BY <1>1, <1>3, <1>7
  <2> QED BY <1>2, <1>3, <2>1, <2>2, <2>3, <2>4, <2>5 DEF ShapeInv
<1>15. SenderInv'
  <2>1. \A q \in Senders : /\ sender'[q].pc = "idle" <=> sender'[q].msg = 0
                           /\ sender'[q].msg <= sends'
                           /\ sender'[q].pc = "idle" => sender'[q].left = <<>>
                           /\ IsInjective(sender'[q].left)
                           /\ sender'[q].pc = "add" => HasBacklog'
    <3> TAKE q \in Senders
    <3>1. CASE q = p
      <4>1. n <= n
        BY <1>7
      <4> QED BY <1>1, <1>6, <1>7, <1>13, <3>1, <4>1
    <3>2. CASE q # p
      <4>1. sender'[q] = sender[q]
        BY <1>6, <3>2
      <4>2. /\ sender[q].msg \in Nat /\ sender[q].msg <= sends
            /\ sender[q].pc = "idle" <=> sender[q].msg = 0
            /\ sender[q].pc = "idle" => sender[q].left = <<>>
            /\ IsInjective(sender[q].left)
            /\ sender[q].pc = "add" => HasBacklog
        BY SenderShape
      <4>3. sender[q].msg <= n
        BY <1>4, <4>2
      <4> QED BY <1>1, <1>13, <4>1, <4>2, <4>3
    <3> QED BY <3>1, <3>2
  <2>2. \A q, r \in Senders : q # r /\ sender'[q].msg = sender'[r].msg => sender'[q].msg = 0
    BY <1>3, <1>6, <1>8 DEF SenderInv
  <2> QED BY <2>1, <2>2 DEF SenderInv
<1>16. ListInv'
  <2>1. \A q \in Senders : \A s \in Range(sender'[q].left) : Listed(s)'
    BY <1>3, <1>6, <1>12 DEF ListInv
  <2>2. \A u \in Users : connectedClientsMap'[u] # None => Listed(connectedClientsMap[u])'
    BY <1>2, <1>3 DEF ListInv, Listed
  <2> QED BY <1>2, <1>3, <1>12, <2>1, <2>2 DEF ListInv
<1>17. ASSUME NEW x \in Sockets
       PROVE  SocketInv(x)' /\ OutputInv(x)' /\ MissedInv(x)' /\ TwiceInv(x)'
  <2>1. SocketInv(x) /\ OutputInv(x) /\ MissedInv(x) /\ TwiceInv(x)
    BY DEF Inv, ClientsInv
  <2>2. SocketInv(x)'
    BY <1>2, <2>1, SocketFrame
  <2>3. OutputInv(x)'
    <3>1. \A m \in Range(live[x]) : m \in Messages' /\ ~Pending(x, m)'
      BY <1>7, <1>11, <2>1 DEF OutputInv
    <3> QED BY <1>2, <1>9, <1>12, <2>1, <3>1 DEF OutputInv
  <2>4. MissedInv(x)'
    <3> SUFFICES ASSUME HasBacklog, sio[x] = "open", Listed(x), NEW m \in everyone'
                 PROVE  Accounted(x, m)'
      BY <1>2, <1>12, <1>13 DEF MissedInv
    <3>1. CASE m # n
      <4>1. m \in everyone
        BY <1>1, <3>1
      <4>2. Accounted(x, m)
        BY <2>1, <4>1 DEF MissedInv
      <4> QED BY <1>2, <1>9, <1>11, <3>1, <4>2 DEF Accounted
    <3>2. CASE m = n
      <4>1. toAll
        BY <1>1, <1>3, <1>7, <3>2
      <4>2. x \in Range(rs)
        BY <2>1, <4>1 DEF SocketInv
      <4> QED BY <1>11, <3>2, <4>2 DEF Accounted
    <3> QED BY <3>1, <3>2
  <2>5. TwiceInv(x)'
    <3> SUFFICES ASSUME sio[x] = "open", NEW m \in Messages', Reaches(x, m)', Overlaps(x, m)'
                 PROVE  <<x, m>> \in doubled'
      BY <1>2 DEF TwiceInv
    <3>1. Overlaps(x, m)
      BY <1>2, <1>13 DEF Overlaps
    <3>2. CASE m # n
      <4>1. m \in Messages
        BY <1>7, <3>2
      <4>2. Reaches(x, m)
        BY <1>2, <1>11, <3>2 DEF Reaches
      <4>3. <<x, m>> \in doubled
        BY <2>1, <3>1, <4>1, <4>2 DEF TwiceInv
      <4> QED BY <1>1, <4>3
    <3>3. CASE m = n
      <4>1. n \notin replay[x]
        BY <1>4, <1>7, <2>1 DEF OutputInv
      <4>2. HasBacklog /\ handler[x] \in {"callbacks", "replay"}
        BY <3>1, <3>3, <4>1 DEF Overlaps
      <4> QED BY <1>1, <3>3, <4>2
    <3> QED BY <3>2, <3>3
  <2> QED BY <2>2, <2>3, <2>4, <2>5
<1>18. AddedInv'
  BY <1>2, <1>3, <1>9 DEF AddedInv
<1>19. RingInv'
  BY <1>2, <1>3 DEF RingInv, ByteInv, ValueInv
<1>20. SingleConnectionIsMapped'
  BY <1>2, <1>3 DEF SingleConnectionIsMapped, ListedOf
<1> QED BY <1>14, <1>15, <1>16, <1>17, <1>18, <1>19, <1>20 DEF Inv, ClientsInv

(* Send copies the list of clients. *)
LEMMA SendInv ==
  ASSUME Inv, NEW p \in Senders, Send(p)
  PROVE  Inv'
<1>1. BeginSend(p, connectedClients, TRUE)
  BY DEF Send, getAllClients
<1>2. connectedClients \in Seq(Sockets) /\ IsInjective(connectedClients)
      /\ \A s \in Range(connectedClients) : Listed(s)
  BY DEF Inv, ShapeInv, ListInv
<1> QED BY <1>1, <1>2, BeginSendInv

(* SendTo takes the sockets of the users from the map. *)
LEMMA SendToInv ==
  ASSUME Inv, NEW p \in Senders, NEW u \in Users, SendTo(p, {u})
  PROVE  Inv'
<1> PICK T : T = {connectedClientsMap[w] : w \in {u}} \ {None}
  OBVIOUS
<1>1. BeginSend(p, SetToSeq(T), FALSE)
  BY DEF SendTo, getClientsFor
<1>2. connectedClientsMap \in [Users -> Sockets \cup {None}] /\ ListInv
  BY DEF Inv, ShapeInv
<1>3. T \subseteq Sockets /\ \A s \in T : Listed(s)
  BY <1>2 DEF ListInv
<1>4. IsFiniteSet(T)
  <2>1. T \in SUBSET {connectedClientsMap[u]}
    OBVIOUS
  <2>2. IsFiniteSet({connectedClientsMap[u]})
    BY FS_Singleton
  <2> QED BY <2>1, <2>2, FS_Subset
<1>5. SetToSeq(T) \in Seq(T) /\ IsInjective(SetToSeq(T)) /\ Range(SetToSeq(T)) \subseteq T
  BY <1>4, SetToSeqList
<1>6. SetToSeq(T) \in Seq(Sockets)
  BY <1>3, <1>5, SeqMonotonic
<1> QED BY <1>1, <1>3, <1>5, <1>6, BeginSendInv

(* SendToAdmins filters the list of clients. *)
LEMMA AdminClients ==
  ASSUME connectedClients \in Seq(Sockets), IsInjective(connectedClients)
  PROVE  /\ getAdminClients \in Seq(Sockets) /\ IsInjective(getAdminClients)
         /\ Range(getAdminClients) \subseteq Range(connectedClients)
<1> DEFINE s == connectedClients
           I == {i \in DOMAIN s : user[s[i]] \in Admins}
           m == Cardinality(I)
           order == CHOOSE f \in [1 .. m -> I] : \A i, j \in 1 .. m : i < j => f[i] < f[j]
           t == [i \in 1 .. m |-> s[order[i]]]
<1>1. getAdminClients = t
  BY DEF getAdminClients
<1>2. PICK n \in Nat : n = Len(s) /\ DOMAIN s = 1 .. n
  BY LenProperties
<1>3. I \subseteq 1 .. n
  BY <1>2
<1> HIDE DEF I
<1>4. m \in Nat /\ \E f \in [1 .. m -> I] : \A i, j \in 1 .. m : i < j => f[i] < f[j]
  BY <1>3, OrderExists
<1> HIDE DEF m
<1>5. order \in [1 .. m -> I] /\ \A i, j \in 1 .. m : i < j => order[i] < order[j]
  BY <1>4
<1> HIDE DEF order
<1>6. order \in [1 .. m -> 1 .. n]
  BY <1>3, <1>5
<1>7. t \in Seq(Sockets) /\ IsInjective(t) /\ Range(t) \subseteq Range(s)
  <2>1. order \in [1 .. m -> 1 .. Len(s)]
    BY <1>2, <1>6
  <2>2. t = Selection(s, order, m)
    BY DEF Selection
  <2> HIDE DEF t
  <2>3. \A i, j \in 1 .. m : i < j => order[i] < order[j]
    BY <1>5
  <2> QED BY <1>4, <2>1, <2>2, <2>3, SelectionList
<1> QED BY <1>1, <1>7

(* So the administrators among the listed clients are its receivers. *)
LEMMA SendToAdminsInv ==
  ASSUME Inv, NEW p \in Senders, SendToAdmins(p)
  PROVE  Inv'
<1> PICK t : t = getAdminClients
  OBVIOUS
<1>1. BeginSend(p, t, FALSE)
  BY DEF SendToAdmins
<1>2. connectedClients \in Seq(Sockets) /\ IsInjective(connectedClients)
      /\ \A x \in Range(connectedClients) : Listed(x)
  BY DEF Inv, ShapeInv, ListInv
<1>3. t \in Seq(Sockets) /\ IsInjective(t) /\ Range(t) \subseteq Range(connectedClients)
  BY <1>2, AdminClients
<1>4. \A x \in Range(t) : Listed(x)
  BY <1>2, <1>3
<1> QED BY <1>1, <1>3, <1>4, BeginSendInv

(* The contents of a message are items of that message. *)
LEMMA ContentsAreItems ==
  ASSUME NEW m \in Nat, NEW items \in Contents(m)
  PROVE  /\ items \in Seq(Items) /\ \A i \in DOMAIN items : items[i].msg = m
         /\ kind = "logs" => items = <<items[1]>> /\ items[1] \in Items
<1> PICK t : t = [msg |-> m, newline |-> FALSE]
  OBVIOUS
<1> PICK e : e = [msg |-> m, newline |-> TRUE]
  OBVIOUS
<1>1. t \in Items /\ e \in Items /\ t.msg = m /\ e.msg = m
  BY DEF Items
<1>2. CASE kind = "logs"
  <2>1. items = <<t>>
    BY <1>2 DEF Contents
  <2> QED BY <1>1, <2>1
<1>3. CASE kind # "logs"
  <2>1. items = <<t>> \/ items = <<e, t>> \/ items = <<t, e, e>>
    BY <1>3 DEF Contents
  <2>2. CASE items = <<t>>
    BY <1>1, <1>3, <2>2
  <2>3. CASE items = <<e, t>>
    BY <1>1, <1>3, <2>3
  <2>4. CASE items = <<t, e, e>>
    BY <1>1, <1>3, <2>4
  <2> QED BY <2>1, <2>2, <2>3, <2>4
<1> QED BY <1>2, <1>3

(* The message joins the backlog: its ring keeps the end of what is added. *)
LEMMA AddToBacklogInv ==
  ASSUME Inv, NEW p \in Senders, AddToBacklog(p)
  PROVE  Inv'
<1> PICK n : n = sender[p].msg
  OBVIOUS
<1>1. sender[p].pc = "add" /\ sender' = [sender EXCEPT ![p].pc = "emit"]
  BY DEF AddToBacklog
<1>2. PICK items \in Contents(n) :
        /\ backlog' = IF kind = "shell" THEN ByteRingAddMany(backlog, items)
                      ELSE ValueRingAdd(backlog, items[1])
        /\ added' = added \o items
  BY DEF AddToBacklog
<1>3. /\ kind' = kind /\ connectedClients' = connectedClients /\ connectedClientsMap' = connectedClientsMap
      /\ shared' = shared /\ user' = user /\ sio' = sio
      /\ handler' = handler /\ released' = released /\ live' = live /\ replay' = replay
      /\ sends' = sends /\ everyone' = everyone /\ missable' = missable
      /\ doubled' = doubled /\ read' = read
  BY DEF AddToBacklog, clientVars, outputVars, historyVars
<1>4. /\ ShapeInv /\ SenderInv /\ ListInv /\ RingInv /\ AddedInv /\ SingleConnectionIsMapped
      /\ sender \in [Senders -> SenderRecord]
      /\ added \in Seq(Items)
  BY DEF Inv, ShapeInv
<1>5. n \in Nat /\ n <= sends /\ n # 0 /\ HasBacklog
  BY <1>1, SenderShape
<1>6. sender[p] \in SenderRecord
  BY <1>4
<1>7. /\ sender'[p].pc = "emit" /\ sender'[p].msg = n /\ sender'[p].left = sender[p].left
      /\ \A q \in Senders \ {p} : sender'[q] = sender[q]
      /\ \A q \in Senders : sender'[q].msg = sender[q].msg /\ sender'[q].left = sender[q].left
  BY <1>1, <1>4, <1>6 DEF SenderRecord
<1>8. sends \in Nat /\ AddedMessages \subseteq Messages /\ Messages \subseteq Nat
  BY AddedAreSent
<1>9. Messages' = Messages /\ n \in Messages
  BY <1>3, <1>5, <1>8 DEF Messages
<1>10. AddedMessages \subseteq AddedMessages' /\ n \in AddedMessages'
  <2>1. \A q \in Senders : sender'[q].pc = "add" => sender[q].pc = "add" /\ q # p
    BY <1>7
  <2>2. AddedMessages \subseteq AddedMessages'
    BY <1>7, <1>9, <2>1 DEF AddedMessages
  <2>3. \A q \in Senders : q # p => sender[q].msg # n
    BY <1>5, SenderShape
  <2>4. n \in AddedMessages'
    BY <1>7, <1>9, <2>1, <2>3 DEF AddedMessages
  <2> QED BY <2>2, <2>4
<1>11. \A s, m : Pending(s, m)' <=> Pending(s, m)
  BY <1>7 DEF Pending
<1>12. \A s : Listed(s)' <=> Listed(s)
  BY <1>3 DEF Listed
<1>13. HasBacklog' <=> HasBacklog
  BY <1>3 DEF HasBacklog
<1>14. /\ items \in Seq(Items) /\ \A i \in DOMAIN items : items[i].msg = n
       /\ kind = "logs" => items = <<items[1]>> /\ items[1] \in Items
  BY <1>2, <1>5, ContentsAreItems
<1>15. /\ added' \in Seq(Items)
       /\ Len(added') = Len(added) + Len(items)
       /\ \A i \in 1 .. Len(added) + Len(items) :
            added'[i] = IF i <= Len(added) THEN added[i] ELSE items[i - Len(added)]
  BY <1>2, <1>4, <1>14, ConcatProperties
<1>16. ShapeInv'
  <2>1. sender' \in [Senders -> SenderRecord]
    BY <1>1, <1>4 DEF SenderRecord
  <2> QED BY <1>3, <1>4, <1>9, <1>15, <2>1 DEF ShapeInv
<1>17. SenderInv'
  <2>1. \A q \in Senders : /\ sender'[q].pc = "idle" <=> sender'[q].msg = 0
                           /\ sender'[q].pc = "idle" => sender'[q].left = <<>>
                           /\ sender'[q].pc = "add" => HasBacklog'
    <3> TAKE q \in Senders
    <3>1. CASE q = p
      BY <1>5, <1>7, <3>1
    <3>2. CASE q # p
      BY <1>4, <1>7, <1>13, <3>2 DEF SenderInv
    <3> QED BY <3>1, <3>2
  <2>2. \A q \in Senders : sender'[q].msg <= sends' /\ IsInjective(sender'[q].left)
    BY <1>3, <1>4, <1>7 DEF SenderInv
  <2>3. \A q, r \in Senders : q # r /\ sender'[q].msg = sender'[r].msg => sender'[q].msg = 0
    BY <1>4, <1>7 DEF SenderInv
  <2> QED BY <2>1, <2>2, <2>3 DEF SenderInv
<1>18. ListInv'
  <2>1. \A q \in Senders : \A s \in Range(sender'[q].left) : Listed(s)'
    BY <1>4, <1>7, <1>12 DEF ListInv
  <2>2. \A u \in Users : connectedClientsMap'[u] # None => Listed(connectedClientsMap[u])'
    BY <1>3, <1>4 DEF ListInv, Listed
  <2> QED BY <1>3, <1>4, <1>12, <2>1, <2>2 DEF ListInv
<1>19. ASSUME NEW x \in Sockets
       PROVE  SocketInv(x)' /\ OutputInv(x)' /\ MissedInv(x)' /\ TwiceInv(x)'
  <2>1. SocketInv(x) /\ OutputInv(x) /\ MissedInv(x) /\ TwiceInv(x)
    BY DEF Inv, ClientsInv
  <2>2. SocketInv(x)'
    BY <1>3, <2>1, SocketFrame
  <2>3. OutputInv(x)'
    BY <1>3, <1>9, <1>10, <1>11, <1>12, <2>1 DEF OutputInv
  <2>4. MissedInv(x)'
    <3>1. \A m : Accounted(x, m) => Accounted(x, m)'
      BY <1>3, <1>10, <1>11 DEF Accounted
    <3> QED BY <1>3, <1>12, <1>13, <2>1, <3>1 DEF MissedInv
  <2>5. TwiceInv(x)'
    <3>1. \A m : (Reaches(x, m)' <=> Reaches(x, m)) /\ (Overlaps(x, m)' <=> Overlaps(x, m))
      BY <1>3, <1>11, <1>13 DEF Reaches, Overlaps
    <3> QED BY <1>3, <1>9, <2>1, <3>1 DEF TwiceInv
  <2> QED BY <2>2, <2>3, <2>4, <2>5
<1>20. AddedInv'
  <2>1. Len(added) \in Nat /\ Len(items) \in Nat /\ DOMAIN added = 1 .. Len(added) /\ DOMAIN items = 1 .. Len(items)
    BY <1>4, <1>14, LenProperties
  <2>2. DOMAIN added' = 1 .. Len(added) + Len(items)
    BY <1>15, LenProperties
  <2> SUFFICES ASSUME NEW i \in 1 .. Len(added) + Len(items)
               PROVE  added'[i].msg \in AddedMessages'
    BY <2>2 DEF AddedInv
  <2>3. CASE i <= Len(added)
    <3>1. i \in DOMAIN added /\ added'[i] = added[i]
      BY <1>15, <2>1, <2>3
    <3> QED BY <1>4, <1>10, <3>1 DEF AddedInv
  <2>4. CASE ~(i <= Len(added))
    <3>1. i - Len(added) \in DOMAIN items
      BY <2>1, <2>4
    <3>2. added'[i] = items[i - Len(added)]
      BY <1>15, <2>4
    <3> QED BY <1>10, <1>14, <3>1, <3>2
  <2> QED BY <2>3, <2>4
<1>21. RingInv'
  <2>1. CASE kind = "shell"
    <3>1. ByteInv(backlog, added)
      BY <1>4, <2>1 DEF RingInv
    <3>2. ByteInv(ByteRingAddMany(backlog, items), added \o items)
      BY <1>4, <1>14, <3>1, ByteRingAddManyInv
    <3>3. backlog' = ByteRingAddMany(backlog, items) /\ added' = added \o items
      BY <1>2, <2>1
    <3>4. ByteInv(backlog', added')
      BY <3>2, <3>3
    <3> QED BY <1>3, <2>1, <3>4 DEF RingInv, ByteInv
  <2>2. CASE kind # "shell"
    <3>1. ValueInv(backlog, added)
      BY <1>4, <2>2 DEF RingInv
    <3>2. kind = "logs"
      BY <1>5, <2>2 DEF HasBacklog
    <3>3. backlog' = ValueRingAdd(backlog, items[1]) /\ added' = added \o <<items[1]>>
      BY <1>2, <1>14, <2>2, <3>2
    <3>4. ValueInv(ValueRingAdd(backlog, items[1]), added \o <<items[1]>>)
      BY <1>4, <1>14, <3>1, <3>2, ValueRingAddInv
    <3>5. ValueInv(backlog', added')
      BY <3>3, <3>4
    <3> QED BY <1>3, <2>2, <3>5 DEF RingInv, ValueInv
  <2> QED BY <2>1, <2>2
<1>22. SingleConnectionIsMapped'
  BY <1>3, <1>4 DEF SingleConnectionIsMapped, ListedOf
<1> QED BY <1>16, <1>17, <1>18, <1>19, <1>20, <1>21, <1>22 DEF Inv, ClientsInv

(* The message reaches the next receiver, for the first time, or its       *)
(* socket is closed.                                                       *)
LEMMA EmitInv ==
  ASSUME Inv, NEW p \in Senders, Emit(p)
  PROVE  Inv'
<1> PICK n : n = sender[p].msg
  OBVIOUS
<1> PICK rs : rs = sender[p].left
  OBVIOUS
<1> PICK s : s = Head(rs)
  OBVIOUS
<1>1. /\ sender[p].pc = "emit" /\ rs # <<>>
      /\ live' = [live EXCEPT ![s] = IF sio[s] = "open" THEN Append(@, n) ELSE @]
      /\ sender' = [sender EXCEPT ![p].left = Tail(@)]
  BY DEF Emit
<1>2. /\ kind' = kind /\ connectedClients' = connectedClients /\ connectedClientsMap' = connectedClientsMap
      /\ shared' = shared /\ backlog' = backlog /\ added' = added /\ user' = user /\ sio' = sio
      /\ handler' = handler /\ released' = released /\ replay' = replay
      /\ sends' = sends /\ everyone' = everyone /\ missable' = missable
      /\ doubled' = doubled /\ read' = read
  BY DEF Emit, clientVars, backlogVars, historyVars
<1>3. /\ ShapeInv /\ SenderInv /\ ListInv /\ RingInv /\ AddedInv /\ SingleConnectionIsMapped
      /\ sender \in [Senders -> SenderRecord]
      /\ live \in [Sockets -> Seq(Nat)]
  BY DEF Inv, ShapeInv
<1>4. /\ n \in Nat /\ n <= sends /\ n # 0
      /\ rs \in Seq(Sockets) /\ IsInjective(rs)
      /\ \A x \in Range(rs) : x \in Sockets /\ Listed(x)
      /\ \A q \in Senders : q # p => sender[q].msg # n
  <2>1. /\ sender[p].msg \in Nat /\ sender[p].msg <= sends
        /\ sender[p].pc = "idle" <=> sender[p].msg = 0
        /\ sender[p].left \in Seq(Sockets) /\ IsInjective(sender[p].left)
        /\ \A q \in Senders : q # p /\ sender[p].msg = sender[q].msg => sender[p].msg = 0
        /\ \A x \in Range(sender[p].left) : x \in Sockets /\ Listed(x)
    BY SenderShape
  <2> QED BY <1>1, <2>1
<1>5. /\ s \in Range(rs) /\ s \in Sockets /\ Listed(s)
      /\ Tail(rs) \in Seq(Sockets) /\ IsInjective(Tail(rs)) /\ Range(Tail(rs)) = Range(rs) \ {s}
  BY <1>1, <1>4, TailRange
<1>6. sender[p] \in SenderRecord
  BY <1>3
<1>7. /\ sender'[p].pc = "emit" /\ sender'[p].msg = n /\ sender'[p].left = Tail(rs)
      /\ \A q \in Senders \ {p} : sender'[q] = sender[q]
  BY <1>1, <1>3, <1>6 DEF SenderRecord
<1>8. /\ \A q \in Senders : sender'[q].pc = sender[q].pc /\ sender'[q].msg = sender[q].msg
      /\ AddedMessages' = AddedMessages /\ Messages' = Messages
  <2>1. \A q \in Senders : sender'[q].pc = sender[q].pc /\ sender'[q].msg = sender[q].msg
    BY <1>1, <1>7
  <2> QED BY <1>2, <2>1 DEF AddedMessages, Messages
<1>9. n \in Messages
  <2>1. sends \in Nat
    BY AddedAreSent
  <2> QED BY <1>4, <2>1 DEF Messages
<1>10. /\ \A x \in Sockets \ {s} : live'[x] = live[x]
       /\ sio[s] = "open" => live'[s] = Append(live[s], n)
       /\ sio[s] # "open" => live'[s] = live[s]
  BY <1>1, <1>3, <1>5
<1>11. live[s] \in Seq(Nat)
  BY <1>3, <1>5
<1>12. Pending(s, n) /\ ~Pending(s, n)'
  <2>1. Pending(s, n)
    BY <1>5 DEF Pending
  <2>2. \A q \in Senders : sender'[q].msg = n => q = p
    BY <1>4, <1>8
  <2> QED BY <1>5, <1>7, <2>1, <2>2 DEF Pending
<1>13. ASSUME NEW x, NEW m, x # s \/ m # n
       PROVE  Pending(x, m)' <=> Pending(x, m)
  <2>1. ASSUME NEW q \in Senders
        PROVE  sender'[q].msg = m /\ x \in Range(sender'[q].left) <=> sender[q].msg = m /\ x \in Range(sender[q].left)
    <3>1. CASE q # p
      BY <1>7, <3>1
    <3>2. CASE q = p
      BY <1>5, <1>7, <1>13, <3>2
    <3> QED BY <3>1, <3>2
  <2> QED BY <2>1 DEF Pending
<1>14. \A x : Listed(x)' <=> Listed(x)
  BY <1>2 DEF Listed
<1>15. HasBacklog' <=> HasBacklog
  BY <1>2 DEF HasBacklog
<1>16. ASSUME sio[s] = "open"
       PROVE  /\ live'[s] \in Seq(Nat) /\ Range(live'[s]) = Range(live[s]) \cup {n}
              /\ n \notin Range(live[s]) /\ IsInjective(live'[s])
  <2>1. n \notin Range(live[s]) /\ IsInjective(live[s])
    BY <1>5, <1>12 DEF Inv, ClientsInv, OutputInv
  <2>2. live'[s] = Append(live[s], n)
    BY <1>10, <1>16
  <2> QED BY <1>4, <1>11, <2>1, <2>2, AppendRange
<1>17. ShapeInv'
  <2>1. sender' \in [Senders -> SenderRecord]
    BY <1>1, <1>3, <1>5, <1>6 DEF SenderRecord
  <2>2. live' \in [Sockets -> Seq(Nat)]
    <3>1. \A x \in Sockets : live'[x] \in Seq(Nat)
      BY <1>3, <1>10, <1>11, <1>16
    <3>2. live' = [x \in Sockets |-> live'[x]]
      BY <1>1, <1>3
    <3> QED BY <3>1, <3>2
  <2> QED BY <1>2, <1>3, <1>8, <2>1, <2>2 DEF ShapeInv
<1>18. SenderInv'
  <2>1. \A q \in Senders : /\ sender'[q].pc = "idle" <=> sender'[q].msg = 0
                           /\ sender'[q].msg <= sends'
                           /\ sender'[q].pc = "add" => HasBacklog'
    BY <1>2, <1>3, <1>8, <1>15 DEF SenderInv
  <2>2. \A q \in Senders : /\ sender'[q].pc = "idle" => sender'[q].left = <<>>
                           /\ IsInjective(sender'[q].left)
    <3> TAKE q \in Senders
    <3>1. CASE q = p
      BY <1>5, <1>7, <3>1
    <3>2. CASE q # p
      BY <1>3, <1>7, <3>2 DEF SenderInv
    <3> QED BY <3>1, <3>2
  <2>3. \A q, r \in Senders : q # r /\ sender'[q].msg = sender'[r].msg => sender'[q].msg = 0
    BY <1>3, <1>8 DEF SenderInv
  <2> QED BY <2>1, <2>2, <2>3 DEF SenderInv
<1>19. ListInv'
  <2>1. \A q \in Senders : \A x \in Range(sender'[q].left) : Listed(x)'
    BY <1>3, <1>4, <1>5, <1>7, <1>14 DEF ListInv
  <2>2. \A u \in Users : connectedClientsMap'[u] # None => Listed(connectedClientsMap[u])'
    BY <1>2, <1>3 DEF ListInv, Listed
  <2> QED BY <1>2, <1>3, <1>14, <2>1, <2>2 DEF ListInv
<1>20. ASSUME NEW x \in Sockets
       PROVE  SocketInv(x)' /\ OutputInv(x)' /\ MissedInv(x)' /\ TwiceInv(x)'
  <2>1. SocketInv(x) /\ OutputInv(x) /\ MissedInv(x) /\ TwiceInv(x)
    BY DEF Inv, ClientsInv
  <2>2. SocketInv(x)'
    BY <1>2, <2>1, SocketFrame
  <2>3. CASE x # s
    <3>1. live'[x] = live[x] /\ \A m : Pending(x, m)' <=> Pending(x, m)
      BY <1>10, <1>13, <2>3
    <3>2. OutputInv(x)'
      BY <1>2, <1>8, <1>14, <2>1, <3>1 DEF OutputInv
    <3>3. MissedInv(x)'
      <4>1. \A m : Accounted(x, m) => Accounted(x, m)'
        BY <1>2, <1>8, <3>1 DEF Accounted
      <4> QED BY <1>2, <1>14, <1>15, <2>1, <4>1 DEF MissedInv
    <3>4. TwiceInv(x)'
      <4>1. \A m : (Reaches(x, m)' <=> Reaches(x, m)) /\ (Overlaps(x, m)' <=> Overlaps(x, m))
        BY <1>2, <1>15, <3>1 DEF Reaches, Overlaps
      <4> QED BY <1>2, <1>8, <2>1, <4>1 DEF TwiceInv
    <3> QED BY <2>2, <3>2, <3>3, <3>4
  <2>4. CASE x = s /\ sio[s] = "open"
    <3>1. /\ Range(live'[x]) = Range(live[x]) \cup {n} /\ IsInjective(live'[x])
      BY <1>16, <2>4
    <3>2. \A m : m # n => (Pending(x, m)' <=> Pending(x, m))
      BY <1>13
    <3>3. OutputInv(x)'
      <4>1. \A m \in Range(live'[x]) : m \in Messages' /\ ~Pending(x, m)'
        BY <1>8, <1>9, <1>12, <2>1, <2>4, <3>1, <3>2 DEF OutputInv
      <4>2. ~Listed(x)' \/ sio'[x] # "open" => live'[x] = <<>>
        BY <1>2, <1>5, <1>14, <2>4
      <4>3. /\ handler[x] # "done" \/ sio[x] # "open" => replay[x] = {}
            /\ replay[x] \subseteq AddedMessages
            /\ read[x] \subseteq AddedMessages
        BY <2>1 DEF OutputInv
      <4> QED BY <1>2, <1>8, <3>1, <4>1, <4>2, <4>3 DEF OutputInv
    <3>4. MissedInv(x)'
      <4>1. \A m : Accounted(x, m) => Accounted(x, m)'
        BY <1>2, <1>8, <3>1, <3>2 DEF Accounted
      <4> QED BY <1>2, <1>14, <1>15, <2>1, <4>1 DEF MissedInv
    <3>5. TwiceInv(x)'
      <4>1. \A m : Reaches(x, m)' => Reaches(x, m)
        BY <1>12, <2>4, <3>1, <3>2 DEF Reaches
      <4>2. \A m : Overlaps(x, m)' <=> Overlaps(x, m)
        BY <1>2, <1>15 DEF Overlaps
      <4> QED BY <1>2, <1>8, <2>1, <4>1, <4>2 DEF TwiceInv
    <3> QED BY <2>2, <3>3, <3>4, <3>5
  <2>5. CASE x = s /\ sio[s] # "open"
    <3>1. live'[x] = live[x] /\ live[x] = <<>>
      BY <1>10, <2>1, <2>5 DEF OutputInv
    <3>2. Range(<<>>) = {}
      BY EmptyRange
    <3>3. OutputInv(x)'
      <4>1. Range(live'[x]) = {}
        BY <3>1, <3>2
      <4> QED BY <1>2, <1>8, <2>1, <3>1, <4>1 DEF OutputInv
    <3>4. MissedInv(x)' /\ TwiceInv(x)'
      BY <1>2, <2>5 DEF MissedInv, TwiceInv
    <3> QED BY <2>2, <3>3, <3>4
  <2> QED BY <2>3, <2>4, <2>5
<1>21. AddedInv'
  BY <1>2, <1>3, <1>8 DEF AddedInv
<1>22. RingInv'
  BY <1>2, <1>3 DEF RingInv, ByteInv, ValueInv
<1>23. SingleConnectionIsMapped'
  BY <1>2, <1>3 DEF SingleConnectionIsMapped, ListedOf
<1> QED BY <1>17, <1>18, <1>19, <1>20, <1>21, <1>22, <1>23 DEF Inv, ClientsInv

(* A Send that has emitted its message to all receivers ends. *)
LEMMA EndSendInv ==
  ASSUME Inv, NEW p \in Senders, EndSend(p)
  PROVE  Inv'
<1>1. sender[p].pc = "emit" /\ sender[p].left = <<>> /\ sender' = [sender EXCEPT ![p] = Idle]
  BY DEF EndSend
<1>2. /\ kind' = kind /\ connectedClients' = connectedClients /\ connectedClientsMap' = connectedClientsMap
      /\ shared' = shared /\ backlog' = backlog /\ added' = added /\ user' = user /\ sio' = sio
      /\ handler' = handler /\ released' = released /\ live' = live /\ replay' = replay
      /\ sends' = sends /\ everyone' = everyone /\ missable' = missable
      /\ doubled' = doubled /\ read' = read
  BY DEF EndSend, clientVars, backlogVars, outputVars, historyVars
<1>3. /\ ShapeInv /\ SenderInv /\ ListInv /\ RingInv /\ AddedInv /\ SingleConnectionIsMapped
      /\ sender \in [Senders -> SenderRecord]
  BY DEF Inv, ShapeInv
<1>4. Range(<<>>) = {} /\ IsInjective(<<>>)
  BY EmptyRange
<1>5. /\ sender'[p].pc = "idle" /\ sender'[p].msg = 0 /\ sender'[p].left = <<>>
      /\ \A q \in Senders \ {p} : sender'[q] = sender[q]
  BY <1>1, <1>3 DEF Idle
<1>6. AddedMessages' = AddedMessages /\ Messages' = Messages
  <2>1. \A q \in Senders : sender'[q].pc = "add" <=> sender[q].pc = "add"
    BY <1>1, <1>5
  <2>2. \A q \in Senders : sender'[q].pc = "add" => sender'[q].msg = sender[q].msg
    BY <1>5
  <2> QED BY <1>2, <2>1, <2>2 DEF AddedMessages, Messages
<1>7. \A s, m : Pending(s, m)' <=> Pending(s, m)
  <2>1. ASSUME NEW s, NEW m, NEW q \in Senders
        PROVE  sender'[q].msg = m /\ s \in Range(sender'[q].left) <=> sender[q].msg = m /\ s \in Range(sender[q].left)
    BY <1>1, <1>4, <1>5
  <2> QED BY <2>1 DEF Pending
<1>8. \A x : Listed(x)' <=> Listed(x)
  BY <1>2 DEF Listed
<1>9. HasBacklog' <=> HasBacklog
  BY <1>2 DEF HasBacklog
<1>10. ShapeInv'
  <2>1. Idle \in SenderRecord
    BY EmptySeq DEF Idle, SenderRecord
  <2>2. sender' \in [Senders -> SenderRecord]
    BY <1>1, <1>3, <2>1
  <2> QED BY <1>2, <1>3, <1>6, <2>2 DEF ShapeInv
<1>11. SenderInv'
  <2>1. sends \in Nat
    BY AddedAreSent
  <2>2. \A q \in Senders : /\ sender'[q].pc = "idle" <=> sender'[q].msg = 0
                           /\ sender'[q].msg <= sends'
                           /\ sender'[q].pc = "add" => HasBacklog'
                           /\ sender'[q].pc = "idle" => sender'[q].left = <<>>
                           /\ IsInjective(sender'[q].left)
    <3> TAKE q \in Senders
    <3>1. CASE q = p
      BY <1>2, <1>4, <1>5, <2>1, <3>1
    <3>2. CASE q # p
      BY <1>2, <1>3, <1>5, <1>9, <3>2 DEF SenderInv
    <3> QED BY <3>1, <3>2
  <2>3. \A q, r \in Senders : q # r /\ sender'[q].msg = sender'[r].msg => sender'[q].msg = 0
    BY <1>3, <1>5 DEF SenderInv
  <2> QED BY <2>2, <2>3 DEF SenderInv
<1>12. ListInv'
  <2>1. \A q \in Senders : \A x \in Range(sender'[q].left) : Listed(x)'
    BY <1>3, <1>4, <1>5, <1>8 DEF ListInv
  <2>2. \A u \in Users : connectedClientsMap'[u] # None => Listed(connectedClientsMap[u])'
    BY <1>2, <1>3 DEF ListInv, Listed
  <2> QED BY <1>2, <1>3, <1>8, <2>1, <2>2 DEF ListInv
<1>13. ASSUME NEW x \in Sockets
       PROVE  SocketInv(x)' /\ OutputInv(x)' /\ MissedInv(x)' /\ TwiceInv(x)'
  <2>1. SocketInv(x) /\ OutputInv(x) /\ MissedInv(x) /\ TwiceInv(x)
    BY DEF Inv, ClientsInv
  <2>2. SocketInv(x)'
    BY <1>2, <2>1, SocketFrame
  <2>3. OutputInv(x)'
    BY <1>2, <1>6, <1>7, <1>8, <2>1 DEF OutputInv
  <2>4. MissedInv(x)'
    <3>1. \A m : Accounted(x, m) => Accounted(x, m)'
      BY <1>2, <1>6, <1>7 DEF Accounted
    <3> QED BY <1>2, <1>8, <1>9, <2>1, <3>1 DEF MissedInv
  <2>5. TwiceInv(x)'
    <3>1. \A m : (Reaches(x, m)' <=> Reaches(x, m)) /\ (Overlaps(x, m)' <=> Overlaps(x, m))
      BY <1>2, <1>7, <1>9 DEF Reaches, Overlaps
    <3> QED BY <1>2, <1>6, <2>1, <3>1 DEF TwiceInv
  <2> QED BY <2>2, <2>3, <2>4, <2>5
<1>14. AddedInv'
  BY <1>2, <1>3, <1>6 DEF AddedInv
<1>15. RingInv'
  BY <1>2, <1>3 DEF RingInv, ByteInv, ValueInv
<1>16. SingleConnectionIsMapped'
  BY <1>2, <1>3 DEF SingleConnectionIsMapped, ListedOf
<1> QED BY <1>10, <1>11, <1>12, <1>13, <1>14, <1>15, <1>16 DEF Inv, ClientsInv

(* Clearing the backlog starts it over. *)
LEMMA ClearBacklogInv ==
  ASSUME Inv, ClearBacklog
  PROVE  Inv'
<1>1. /\ kind = "logs" /\ backlog' = CreateValueRing(backlog.cap) /\ added' = <<>>
      /\ kind' = kind /\ connectedClients' = connectedClients /\ connectedClientsMap' = connectedClientsMap
      /\ shared' = shared /\ user' = user /\ sio' = sio
      /\ handler' = handler /\ released' = released /\ live' = live /\ replay' = replay
      /\ sender' = sender /\ sends' = sends /\ everyone' = everyone /\ missable' = missable
      /\ doubled' = doubled /\ read' = read
  BY DEF ClearBacklog, ValueRingClear, clientVars, outputVars, sendVars, historyVars
<1>2. ShapeInv /\ SenderInv /\ RingInv /\ SingleConnectionIsMapped
  BY DEF Inv
<1>3. ShapeInv'
  <2>1. <<>> \in Seq(Items)
    BY EmptySeq
  <2> QED BY <1>1, <1>2, <2>1 DEF ShapeInv, Messages
<1>4. SenderInv'
  BY <1>1, <1>2, SenderFrame
<1>5. AddedInv'
  BY <1>1 DEF AddedInv
<1>6. RingInv'
  <2>1. backlog.cap \in Nat
    BY <1>1, <1>2 DEF RingInv, ValueInv
  <2>2. ValueInv(CreateValueRing(backlog.cap), <<>>)
    BY <2>1, CreateValueRingInv
  <2>3. ValueInv(backlog', added')
    BY <1>1, <2>2
  <2> QED BY <1>1, <2>3 DEF RingInv, ValueInv
<1>7. ListInv'
  <2>1. \A x \in Sockets : Listed(x) => Listed(x)'
    BY <1>1 DEF Listed
  <2> QED BY <1>1, <2>1, ListFrame
<1>8. ClientsInv'
  <2>1. ASSUME NEW x \in Sockets
        PROVE  SocketInv(x)' /\ OutputInv(x)' /\ MissedInv(x)' /\ TwiceInv(x)'
    <3>1. SocketInv(x) /\ OutputInv(x) /\ MissedInv(x) /\ TwiceInv(x) /\ SenderInv
      BY DEF Inv, ClientsInv
    <3>2. SocketInv(x)'
      BY <1>1, <3>1, SocketFrame
    <3> QED BY <1>1, <3>1, <3>2, ClientFrame
  <2> QED BY <2>1 DEF ClientsInv
<1>9. SingleConnectionIsMapped'
  BY <1>1, <1>2 DEF SingleConnectionIsMapped, ListedOf
<1> QED BY <1>3, <1>4, <1>5, <1>6, <1>7, <1>8, <1>9 DEF Inv

-----------------------------------------------------------------------------
(* A new namespace has no clients, no messages and an empty backlog. *)
LEMMA InitInv ==
  ASSUME Init
  PROVE  Inv
<1>1. Range(<<>>) = {} /\ IsInjective(<<>>)
  BY EmptyRange
<1>2. Messages = {} /\ AddedMessages = {}
  BY DEF Init, Messages, AddedMessages
<1>3. ShapeInv
  <2>1. sender \in [Senders -> SenderRecord]
    <3>1. Idle \in SenderRecord
      BY EmptySeq DEF Idle, SenderRecord
    <3> QED BY <3>1 DEF Init
  <2>2. live \in [Sockets -> Seq(Nat)]
    BY EmptySeq DEF Init
  <2>3. sends \in 0 .. MaxSends
    BY NamespaceAssumption DEF Init
  <2>4. added \in Seq(Items) /\ connectedClients \in Seq(Sockets)
    BY EmptySeq DEF Init
  <2> QED BY <2>1, <2>2, <2>3, <2>4 DEF Init, ShapeInv
<1>4. \A p \in Senders : sender[p].pc = "idle" /\ sender[p].msg = 0 /\ sender[p].left = <<>>
  BY DEF Init, Idle
<1>5. SenderInv
  BY <1>1, <1>4 DEF SenderInv, Init
<1>6. ListInv
  BY <1>1, <1>4 DEF ListInv, Init
<1>7. \A s, m : ~Pending(s, m)
  BY <1>1, <1>4 DEF Pending
<1>8. ASSUME NEW s \in Sockets
      PROVE  SocketInv(s) /\ OutputInv(s) /\ MissedInv(s) /\ TwiceInv(s)
  <2>1. /\ handler[s] = "none" /\ sio[s] = "new" /\ user[s] = None
        /\ live[s] = <<>> /\ replay[s] = {} /\ read[s] = {}
    BY DEF Init
  <2>2. SocketInv(s)
    BY <2>1 DEF SocketInv, Listed
  <2>3. OutputInv(s)
    BY <1>1, <2>1 DEF OutputInv
  <2>4. MissedInv(s) /\ TwiceInv(s)
    BY <2>1 DEF MissedInv, TwiceInv
  <2> QED BY <2>2, <2>3, <2>4
<1>9. AddedInv
  BY DEF Init, AddedInv
<1>10. RingInv
  <2>1. PICK c \in Capacities : backlog = IF kind = "shell" THEN CreateByteRing(c) ELSE CreateValueRing(c)
    BY DEF Init
  <2>2. c \in Nat
    BY NamespaceAssumption
  <2>3. ByteInv(CreateByteRing(c), <<>>) /\ ValueInv(CreateValueRing(c), <<>>)
    BY <2>2, CreateByteRingInv, CreateValueRingInv
  <2>4. added = <<>>
    BY DEF Init
  <2>5. CASE kind = "shell"
    <3>1. ByteInv(backlog, added)
      BY <2>1, <2>3, <2>4, <2>5
    <3> QED BY <2>5, <3>1 DEF RingInv
  <2>6. CASE kind # "shell"
    <3>1. ValueInv(backlog, added)
      BY <2>1, <2>3, <2>4, <2>6
    <3> QED BY <2>6, <3>1 DEF RingInv
  <2> QED BY <2>5, <2>6
<1>11. SingleConnectionIsMapped
  BY <1>1 DEF SingleConnectionIsMapped, ListedOf, Init
<1> QED BY <1>3, <1>5, <1>6, <1>8, <1>9, <1>10, <1>11 DEF Inv, ClientsInv

(* Every step of the namespace keeps the invariant. *)
LEMMA NextInv ==
  ASSUME Inv, [Next]_vars
  PROVE  Inv'
<1>1. CASE UNCHANGED vars
  BY <1>1, StutterFrame DEF vars
<1>2. ASSUME NEW s \in Sockets, Connection(s)
      PROVE  Inv'
  BY <1>2, AcceptInv, RefuseInv, ListStepInv, SetCallbacksInv, ReplayInv, CloseInv, DisconnectInv DEF Connection
<1>3. ASSUME NEW p \in Senders, Sending(p)
      PROVE  Inv'
  BY <1>3, SendInv, SendToInv, SendToAdminsInv, AddToBacklogInv, EmitInv, EndSendInv DEF Sending
<1> QED BY <1>1, <1>2, <1>3, ClearBacklogInv, ReleaseInv DEF Next

(* The invariant holds throughout. *)
LEMMA Invariance == Spec => []Inv
<1>1. Init => Inv
  BY InitInv
<1>2. Inv /\ [Next]_vars => Inv'
  BY NextInv
<1> QED BY <1>1, <1>2, PTL DEF Spec

(* The list and the map of clients are well formed in every behaviour, and *)
(* a user who has only ever had one connection at a time is in the map     *)
(* exactly while it is listed (namespace.go:274-361).                      *)
THEOREM ClientsAreMapped == Spec => []ClientInv
<1>1. Inv => ClientInv
  <2> SUFFICES ASSUME Inv
               PROVE  ClientInv
    OBVIOUS
  <2>1. ShapeInv /\ ClientsInv /\ SingleConnectionIsMapped
    BY DEF Inv
  <2>2. \A i \in DOMAIN backlogItems : backlogItems[i] \in Items
    BY BacklogIsAdded
  <2>3. \A s \in Sockets : handler[s] # "none" => user[s] \in Users
    BY <2>1 DEF ClientsInv, SocketInv
  <2>4. \A s \in Sockets : replay[s] \subseteq Messages /\ read[s] \subseteq Messages
    BY <2>1, AddedAreSent DEF ClientsInv, OutputInv
  <2>5. replay \in [Sockets -> SUBSET Messages] /\ read \in [Sockets -> SUBSET Messages]
    BY <2>1, <2>4 DEF ShapeInv
  <2>6. TypeOK
    BY <2>1, <2>2, <2>3, <2>5 DEF TypeOK, ShapeInv, SenderRecord
  <2> QED BY <2>1, <2>6 DEF ClientInv
<1> QED BY <1>1, Invariance, PTL

(* Whatever the capacity of the ring and however it has wrapped around or  *)
(* been trimmed, the backlog is the last items, or the last lines, of what *)
(* has been added since it was cleared (ring.go:55-98, 105-148).           *)
THEOREM BacklogStaysTheEnd == Spec => []BacklogIsTheEnd
<1>1. Inv => BacklogIsTheEnd
  BY BacklogIsAdded
<1> QED BY <1>1, Invariance, PTL

(* A client that stays connected is sent every message, and none twice,    *)
(* but for the two windows between the mutexes                             *)
(* (namespace.go:229-272, 274-375).                                        *)
THEOREM DeliveryIsOnce == Spec => []DeliveryInv
<1>1. Inv => DeliveryInv
  <2> SUFFICES ASSUME Inv
               PROVE  DeliveryInv
    OBVIOUS
  <2>1. MissedOnlyUnderWay
    <3> SUFFICES ASSUME NEW s \in Sockets, NEW m \in Messages, sio[s] = "open", HasBacklog,
                        handler[s] = "done", m \in everyone, Finished(m)
                 PROVE  m \in Range(live[s]) \/ m \in read[s] \/ <<s, m>> \in missable
      BY DEF MissedOnlyUnderWay
    <3>1. Accounted(s, m)
      <4>1. MissedInv(s) /\ Listed(s)
        BY DEF Inv, ClientsInv, Listed
      <4> QED BY <4>1 DEF MissedInv
    <3>2. ~Pending(s, m)
      BY DEF Pending, Finished
    <3> QED BY <3>1, <3>2 DEF Accounted
  <2>2. ASSUME NEW s \in Sockets
        PROVE  /\ \A i, j \in DOMAIN live[s] : i # j => live[s][i] # live[s][j]
               /\ \A m \in Range(live[s]) \cap replay[s] : <<s, m>> \in doubled
    <3>1. OutputInv(s) /\ TwiceInv(s)
      BY DEF Inv, ClientsInv
    <3>2. \A i, j \in DOMAIN live[s] : i # j => live[s][i] # live[s][j]
      BY <3>1 DEF OutputInv, IsInjective
    <3>3. ASSUME NEW m \in Range(live[s]) \cap replay[s]
          PROVE  <<s, m>> \in doubled
      <4>1. sio[s] = "open" /\ m \in Messages
        BY <3>1 DEF OutputInv
      <4>2. Reaches(s, m) /\ Overlaps(s, m)
        BY DEF Reaches, Overlaps
      <4> QED BY <3>1, <4>1, <4>2 DEF TwiceInv
    <3> QED BY <3>2, <3>3
  <2> QED BY <2>1, <2>2 DEF DeliveryInv, TwiceOnlyWhileConnecting
<1> QED BY <1>1, Invariance, PTL

-----------------------------------------------------------------------------
(***************************************************************************)
(* Packet captures                                                         *)
(***************************************************************************)

Subscribed == {"waiting", "writing", "watching"}

(* The receivers of a stream are the sessions that have subscribed to it.  *)
ReceiversInv ==
  \A s \in Streams, p \in Sessions : p \in receivers[s] <=> (pc[p] \in Subscribed /\ watched[p] = s)

(* A stream that has not been allocated has no goroutine and no source.    *)
UnusedInv ==
  \A s \in Streams \ Allocated :
    opener[s] = "none" /\ openErr[s] = "none" /\ reader[s] = "none" /\ source[s] = "none" /\ once[s] = "new"

(* How far openStream is says what there is of the stream: its source is   *)
(* installed before the reader starts, and never once done is closed.      *)
OpenerInv ==
  \A s \in Allocated :
    /\ opener[s] # "none"
    /\ opener[s] \in {"opening", "check", "discard", "shutdown"} => s \notin installed
    /\ opener[s] \in {"opening", "shutdown"} => source[s] = "none"
    /\ opener[s] = "discard" => s \in done
    /\ opener[s] = "start" => s \in installed
    /\ reader[s] # "none" => s \in installed /\ opener[s] \in {"signal", "over"}
    /\ source[s] = "open" /\ opener[s] \in {"signal", "over"} => s \in installed

(* shutdown has closed done, and in the end the source it found.           *)
ShutdownInv ==
  \A s \in Allocated :
    /\ s \in done <=> once[s] # "new"
    /\ s \in installed /\ once[s] = "over" => source[s] = "closed"

(* A stream that is not in the registry is shut down by somebody.          *)
Owned ==
  \A s \in Allocated : openStreams[key[s]] = s \/ ShutdownCalled(s) \/ once[s] # "new"

(* Nobody watches a stream that its last session has left, and a stream    *)
(* that is shut down before its source is installed is one that nobody     *)
(* watches, or Close has been called.                                      *)
AbandonedInv ==
  /\ \A k \in Interfaces : openStreams[k] # NoStream => openStreams[k] \in Allocated
  /\ closed <=> server = "closing"
  /\ \A p \in Sessions : pc[p] = "shutdown" => receivers[watched[p]] = {}
  /\ \A s \in Allocated :
       \/ closed \/ receivers[s] = {}
       \/ /\ s \in done => opener[s] \notin {"opening", "check", "discard"}
          /\ openErr[s] # "closed"

CaptureIndInv ==
  /\ CaptureTypeOK /\ RegisteredStreamsAreLive /\ RefusedOnlyByClose
  /\ ReceiversInv /\ UnusedInv /\ OpenerInv /\ ShutdownInv /\ Owned /\ AbandonedInv

-----------------------------------------------------------------------------
USE CaptureAssumption DEF registry, streamVars, openVars, sessionVars, closeVars, shutdownVars, Allocated,
        Join, Subscribed

(* A session is refused only by a service that has been closed.             *)
LEMMA SubscribeRefusedStep ==
  ASSUME CaptureIndInv, NEW p \in Sessions, SubscribeRefused(p)
  PROVE  CaptureIndInv'
<1>1. CaptureTypeOK'
  BY DEF CaptureIndInv, CaptureTypeOK, SubscribeRefused
<1>2. RegisteredStreamsAreLive'
  BY DEF CaptureIndInv, CaptureTypeOK, RegisteredStreamsAreLive, ShutdownCalled, SubscribeRefused
<1>3. RefusedOnlyByClose'
  BY DEF CaptureIndInv, CaptureTypeOK, RefusedOnlyByClose, SubscribeRefused
<1>4. ReceiversInv'
  BY DEF CaptureIndInv, CaptureTypeOK, ReceiversInv, SubscribeRefused
<1>5. Owned'
  BY DEF CaptureIndInv, CaptureTypeOK, Owned, ShutdownCalled, SubscribeRefused
<1>6. AbandonedInv'
  BY DEF CaptureIndInv, CaptureTypeOK, AbandonedInv, SubscribeRefused
<1>7. UnusedInv' /\ OpenerInv' /\ ShutdownInv'
  BY DEF CaptureIndInv, UnusedInv, OpenerInv, ShutdownInv, SubscribeRefused
<1> QED BY <1>1, <1>2, <1>3, <1>4, <1>5, <1>6, <1>7 DEF CaptureIndInv

(* A session whose capture has been opened stays a receiver.                *)
LEMMA WaitEndsStep ==
  ASSUME CaptureIndInv, NEW p \in Sessions, WaitEnds(p)
  PROVE  CaptureIndInv'
<1>1. CaptureTypeOK'
  BY DEF CaptureIndInv, CaptureTypeOK, WaitEnds
<1>2. RegisteredStreamsAreLive'
  BY DEF CaptureIndInv, CaptureTypeOK, RegisteredStreamsAreLive, ShutdownCalled, WaitEnds
<1>3. ReceiversInv'
  BY DEF CaptureIndInv, CaptureTypeOK, ReceiversInv, WaitEnds
<1>4. Owned'
  BY DEF CaptureIndInv, CaptureTypeOK, Owned, ShutdownCalled, WaitEnds
<1>5. AbandonedInv'
  BY DEF CaptureIndInv, CaptureTypeOK, AbandonedInv, WaitEnds
<1>6. RefusedOnlyByClose' /\ UnusedInv' /\ OpenerInv' /\ ShutdownInv'
  BY DEF CaptureIndInv, RefusedOnlyByClose, UnusedInv, OpenerInv, ShutdownInv, WaitEnds
<1> QED BY <1>1, <1>2, <1>3, <1>4, <1>5, <1>6 DEF CaptureIndInv

(* A session that returns from shutdown leaves a stream that has been shut  *)
(* down.                                                                    *)
LEMMA SessionEndsStep ==
  ASSUME CaptureIndInv, NEW p \in Sessions, SessionEnds(p)
  PROVE  CaptureIndInv'
<1>1. CaptureTypeOK'
  BY DEF CaptureIndInv, CaptureTypeOK, SessionEnds
<1>2. RegisteredStreamsAreLive'
  BY DEF CaptureIndInv, CaptureTypeOK, RegisteredStreamsAreLive, ShutdownCalled, SessionEnds
<1>3. ReceiversInv'
  BY DEF CaptureIndInv, CaptureTypeOK, ReceiversInv, SessionEnds
<1>4. Owned'
  BY DEF CaptureIndInv, CaptureTypeOK, Owned, ShutdownCalled, SessionEnds
<1>5. AbandonedInv'
  BY DEF CaptureIndInv, CaptureTypeOK, AbandonedInv, SessionEnds
<1>6. RefusedOnlyByClose' /\ UnusedInv' /\ OpenerInv' /\ ShutdownInv'
  BY DEF CaptureIndInv, RefusedOnlyByClose, UnusedInv, OpenerInv, ShutdownInv, SessionEnds
<1> QED BY <1>1, <1>2, <1>3, <1>4, <1>5, <1>6 DEF CaptureIndInv

(* A session that writes a packet stays a receiver.                         *)
LEMMA TakePacketStep ==
  ASSUME CaptureIndInv, NEW p \in Sessions, TakePacket(p)
  PROVE  CaptureIndInv'
<1>1. CaptureTypeOK'
  BY DEF CaptureIndInv, CaptureTypeOK, TakePacket
<1>2. RegisteredStreamsAreLive'
  BY DEF CaptureIndInv, CaptureTypeOK, RegisteredStreamsAreLive, ShutdownCalled, TakePacket
<1>3. ReceiversInv'
  BY DEF CaptureIndInv, CaptureTypeOK, ReceiversInv, TakePacket
<1>4. Owned'
  BY DEF CaptureIndInv, CaptureTypeOK, Owned, ShutdownCalled, TakePacket
<1>5. AbandonedInv'
  BY DEF CaptureIndInv, CaptureTypeOK, AbandonedInv, TakePacket
<1>6. RefusedOnlyByClose' /\ UnusedInv' /\ OpenerInv' /\ ShutdownInv'
  BY DEF CaptureIndInv, RefusedOnlyByClose, UnusedInv, OpenerInv, ShutdownInv, TakePacket
<1> QED BY <1>1, <1>2, <1>3, <1>4, <1>5, <1>6 DEF CaptureIndInv

(* So does one that has written it.                                         *)
LEMMA WritePacketStep ==
  ASSUME CaptureIndInv, NEW p \in Sessions, WritePacket(p)
  PROVE  CaptureIndInv'
<1>1. CaptureTypeOK'
  BY DEF CaptureIndInv, CaptureTypeOK, WritePacket
<1>2. RegisteredStreamsAreLive'
  BY DEF CaptureIndInv, CaptureTypeOK, RegisteredStreamsAreLive, ShutdownCalled, WritePacket
<1>3. ReceiversInv'
  BY DEF CaptureIndInv, CaptureTypeOK, ReceiversInv, WritePacket
<1>4. Owned'
  BY DEF CaptureIndInv, CaptureTypeOK, Owned, ShutdownCalled, WritePacket
<1>5. AbandonedInv'
  BY DEF CaptureIndInv, CaptureTypeOK, AbandonedInv, WritePacket
<1>6. RefusedOnlyByClose' /\ UnusedInv' /\ OpenerInv' /\ ShutdownInv'
  BY DEF CaptureIndInv, RefusedOnlyByClose, UnusedInv, OpenerInv, ShutdownInv, WritePacket
<1> QED BY <1>1, <1>2, <1>3, <1>4, <1>5, <1>6 DEF CaptureIndInv

(* A client that leaves changes nothing the service knows of.               *)
LEMMA ClientLeavesStep ==
  ASSUME CaptureIndInv, NEW p \in Sessions, ClientLeaves(p)
  PROVE  CaptureIndInv'
<1>1. CaptureTypeOK'
  BY DEF CaptureIndInv, CaptureTypeOK, ClientLeaves
<1>2. RegisteredStreamsAreLive' /\ RefusedOnlyByClose' /\ ReceiversInv' /\ UnusedInv' /\ OpenerInv'
   /\ ShutdownInv' /\ Owned' /\ AbandonedInv'
  BY DEF CaptureIndInv, RegisteredStreamsAreLive, RefusedOnlyByClose, ReceiversInv, UnusedInv, OpenerInv,
     ShutdownInv, Owned, AbandonedInv, ShutdownCalled, ClientLeaves
<1> QED BY <1>1, <1>2 DEF CaptureIndInv

(* The capture is open and the stream has no source yet.                    *)
LEMMA OpenSucceedsStep ==
  ASSUME CaptureIndInv, NEW s \in Streams, OpenSucceeds(s)
  PROVE  CaptureIndInv'
<1>1. CaptureTypeOK'
  BY DEF CaptureIndInv, CaptureTypeOK, OpenSucceeds
<1>2. RegisteredStreamsAreLive'
  BY DEF CaptureIndInv, CaptureTypeOK, RegisteredStreamsAreLive, ShutdownCalled, OpenSucceeds
<1>3. UnusedInv'
  BY DEF CaptureIndInv, CaptureTypeOK, UnusedInv, OpenSucceeds
<1>4. OpenerInv'
  BY DEF CaptureIndInv, CaptureTypeOK, OpenerInv, OpenSucceeds
<1>5. ShutdownInv'
  BY DEF CaptureIndInv, CaptureTypeOK, ShutdownInv, OpenerInv, OpenSucceeds
<1>6. Owned'
  BY DEF CaptureIndInv, CaptureTypeOK, Owned, ShutdownCalled, OpenSucceeds
<1>7. AbandonedInv'
  BY DEF CaptureIndInv, CaptureTypeOK, AbandonedInv, OpenerInv, OpenSucceeds
<1>8. RefusedOnlyByClose' /\ ReceiversInv'
  BY DEF CaptureIndInv, RefusedOnlyByClose, ReceiversInv, OpenSucceeds
<1> QED BY <1>1, <1>2, <1>3, <1>4, <1>5, <1>6, <1>7, <1>8 DEF CaptureIndInv

(* The stream whose capture cannot be opened leaves the registry, and its   *)
(* opener shuts it down.                                                    *)
LEMMA OpenFailsStep ==
  ASSUME CaptureIndInv, NEW s \in Streams, OpenFails(s)
  PROVE  CaptureIndInv'
<1>1. CaptureTypeOK'
  BY DEF CaptureIndInv, CaptureTypeOK, OpenFails, Unregister
<1>2. RegisteredStreamsAreLive'
  BY DEF CaptureIndInv, CaptureTypeOK, RegisteredStreamsAreLive, ShutdownCalled, AbandonedInv, OpenFails, Unregister
<1>3. UnusedInv'
  BY DEF CaptureIndInv, CaptureTypeOK, UnusedInv, OpenFails, Unregister
<1>4. OpenerInv'
  BY DEF CaptureIndInv, CaptureTypeOK, OpenerInv, OpenFails, Unregister
<1>5. Owned'
  BY DEF CaptureIndInv, CaptureTypeOK, Owned, ShutdownCalled, OpenFails, Unregister
<1>6. AbandonedInv'
  BY DEF CaptureIndInv, CaptureTypeOK, AbandonedInv, OpenerInv, OpenFails, Unregister
<1>7. RefusedOnlyByClose' /\ ReceiversInv' /\ ShutdownInv'
  BY DEF CaptureIndInv, RefusedOnlyByClose, ReceiversInv, ShutdownInv, OpenFails
<1> QED BY <1>1, <1>2, <1>3, <1>4, <1>5, <1>6, <1>7 DEF CaptureIndInv

(* The source is installed in a stream that is not shut down, and in no     *)
(* other.                                                                   *)
LEMMA InstallStep ==
  ASSUME CaptureIndInv, NEW s \in Streams, Install(s)
  PROVE  CaptureIndInv'
<1>1. CaptureTypeOK'
  BY DEF CaptureIndInv, CaptureTypeOK, UnusedInv, Install
<1>2. RegisteredStreamsAreLive'
  BY DEF CaptureIndInv, CaptureTypeOK, RegisteredStreamsAreLive, ShutdownCalled, Install
<1>3. UnusedInv'
  BY DEF CaptureIndInv, CaptureTypeOK, UnusedInv, Install
<1>4. OpenerInv'
  BY DEF CaptureIndInv, CaptureTypeOK, OpenerInv, ShutdownInv, Install
<1>5. ShutdownInv'
  BY DEF CaptureIndInv, CaptureTypeOK, ShutdownInv, OpenerInv, Install
<1>6. Owned'
  BY DEF CaptureIndInv, CaptureTypeOK, Owned, ShutdownCalled, Install
<1>7. AbandonedInv'
  BY DEF CaptureIndInv, CaptureTypeOK, AbandonedInv, OpenerInv, Install
<1>8. RefusedOnlyByClose' /\ ReceiversInv'
  BY DEF CaptureIndInv, RefusedOnlyByClose, ReceiversInv, Install
<1> QED BY <1>1, <1>2, <1>3, <1>4, <1>5, <1>6, <1>7, <1>8 DEF CaptureIndInv

(* The capture of a stream that was shut down meanwhile is closed; nobody   *)
(* watches that stream, or the service is closed.                           *)
LEMMA DiscardStep ==
  ASSUME CaptureIndInv, NEW s \in Streams, Discard(s)
  PROVE  CaptureIndInv'
<1>1. CaptureTypeOK'
  BY DEF CaptureIndInv, CaptureTypeOK, Discard
<1>2. RegisteredStreamsAreLive'
  BY DEF CaptureIndInv, CaptureTypeOK, RegisteredStreamsAreLive, ShutdownCalled, Discard
<1>3. UnusedInv'
  BY DEF CaptureIndInv, CaptureTypeOK, UnusedInv, Discard
<1>4. OpenerInv'
  BY DEF CaptureIndInv, CaptureTypeOK, OpenerInv, ShutdownInv, Discard
<1>5. ShutdownInv'
  BY DEF CaptureIndInv, CaptureTypeOK, ShutdownInv, OpenerInv, Discard
<1>6. Owned'
  BY DEF CaptureIndInv, CaptureTypeOK, Owned, ShutdownCalled, Discard
<1>7. AbandonedInv'
  BY DEF CaptureIndInv, CaptureTypeOK, AbandonedInv, OpenerInv, Discard
<1>8. RefusedOnlyByClose' /\ ReceiversInv'
  BY DEF CaptureIndInv, RefusedOnlyByClose, ReceiversInv, Discard
<1> QED BY <1>1, <1>2, <1>3, <1>4, <1>5, <1>6, <1>7, <1>8 DEF CaptureIndInv

(* The reader starts once the source is installed.                          *)
LEMMA StartReaderStep ==
  ASSUME CaptureIndInv, NEW s \in Streams, StartReader(s)
  PROVE  CaptureIndInv'
<1>1. CaptureTypeOK'
  BY DEF CaptureIndInv, CaptureTypeOK, StartReader
<1>2. RegisteredStreamsAreLive'
  BY DEF CaptureIndInv, CaptureTypeOK, RegisteredStreamsAreLive, ShutdownCalled, StartReader
<1>3. UnusedInv'
  BY DEF CaptureIndInv, CaptureTypeOK, UnusedInv, StartReader
<1>4. OpenerInv'
  BY DEF CaptureIndInv, CaptureTypeOK, OpenerInv, StartReader
<1>5. Owned'
  BY DEF CaptureIndInv, CaptureTypeOK, Owned, ShutdownCalled, OpenerInv, StartReader
<1>6. AbandonedInv'
  BY DEF CaptureIndInv, CaptureTypeOK, AbandonedInv, OpenerInv, StartReader
<1>7. RefusedOnlyByClose' /\ ReceiversInv' /\ ShutdownInv'
  BY DEF CaptureIndInv, RefusedOnlyByClose, ReceiversInv, ShutdownInv, StartReader
<1> QED BY <1>1, <1>2, <1>3, <1>4, <1>5, <1>6, <1>7 DEF CaptureIndInv

(* The opener ends: a capture it leaves open has been installed.            *)
LEMMA SignalOpenedStep ==
  ASSUME CaptureIndInv, NEW s \in Streams, SignalOpened(s)
  PROVE  CaptureIndInv'
<1>1. CaptureTypeOK'
  BY DEF CaptureIndInv, CaptureTypeOK, UnusedInv, SignalOpened
<1>2. RegisteredStreamsAreLive'
  BY DEF CaptureIndInv, CaptureTypeOK, RegisteredStreamsAreLive, ShutdownCalled, SignalOpened
<1>3. UnusedInv'
  BY DEF CaptureIndInv, CaptureTypeOK, UnusedInv, SignalOpened
<1>4. OpenerInv'
  BY DEF CaptureIndInv, CaptureTypeOK, OpenerInv, SignalOpened
<1>5. Owned'
  BY DEF CaptureIndInv, CaptureTypeOK, Owned, ShutdownCalled, SignalOpened
<1>6. AbandonedInv'
  BY DEF CaptureIndInv, CaptureTypeOK, AbandonedInv, OpenerInv, SignalOpened
<1>7. RefusedOnlyByClose' /\ ReceiversInv' /\ ShutdownInv'
  BY DEF CaptureIndInv, RefusedOnlyByClose, ReceiversInv, ShutdownInv, SignalOpened
<1> QED BY <1>1, <1>2, <1>3, <1>4, <1>5, <1>6, <1>7 DEF CaptureIndInv

(* A packet changes the channels only.                                      *)
LEMMA ForwardStep ==
  ASSUME CaptureIndInv, NEW s \in Streams, Forward(s)
  PROVE  CaptureIndInv'
<1>1. CaptureTypeOK'
  BY DEF CaptureIndInv, CaptureTypeOK, Forward
<1>2. RegisteredStreamsAreLive' /\ RefusedOnlyByClose' /\ ReceiversInv' /\ UnusedInv' /\ OpenerInv'
   /\ ShutdownInv' /\ Owned' /\ AbandonedInv'
  BY DEF CaptureIndInv, RegisteredStreamsAreLive, RefusedOnlyByClose, ReceiversInv, UnusedInv, OpenerInv,
     ShutdownInv, Owned, AbandonedInv, ShutdownCalled, Forward
<1> QED BY <1>1, <1>2 DEF CaptureIndInv

(* The stream whose source has ended leaves the registry, and its reader    *)
(* shuts it down.                                                           *)
LEMMA ReadFailsStep ==
  ASSUME CaptureIndInv, NEW s \in Streams, ReadFails(s)
  PROVE  CaptureIndInv'
<1>1. CaptureTypeOK'
  BY DEF CaptureIndInv, CaptureTypeOK, ReadFails, Unregister
<1>2. RegisteredStreamsAreLive'
  BY DEF CaptureIndInv, CaptureTypeOK, RegisteredStreamsAreLive, ShutdownCalled, AbandonedInv, ReadFails, Unregister
<1>3. UnusedInv'
  BY DEF CaptureIndInv, CaptureTypeOK, UnusedInv, ReadFails, Unregister
<1>4. OpenerInv'
  BY DEF CaptureIndInv, CaptureTypeOK, OpenerInv, ReadFails, Unregister
<1>5. Owned'
  BY DEF CaptureIndInv, CaptureTypeOK, Owned, ShutdownCalled, ReadFails, Unregister
<1>6. AbandonedInv'
  BY DEF CaptureIndInv, CaptureTypeOK, AbandonedInv, OpenerInv, ReadFails, Unregister
<1>7. RefusedOnlyByClose' /\ ReceiversInv' /\ ShutdownInv'
  BY DEF CaptureIndInv, RefusedOnlyByClose, ReceiversInv, ShutdownInv, ReadFails
<1> QED BY <1>1, <1>2, <1>3, <1>4, <1>5, <1>6, <1>7 DEF CaptureIndInv

(* A source that ends is no longer open.                                    *)
LEMMA NodeStopsStep ==
  ASSUME CaptureIndInv, NEW s \in Streams, NodeStops(s)
  PROVE  CaptureIndInv'
<1>1. CaptureTypeOK'
  BY DEF CaptureIndInv, CaptureTypeOK, NodeStops
<1>2. UnusedInv'
  BY DEF CaptureIndInv, CaptureTypeOK, UnusedInv, NodeStops
<1>3. OpenerInv'
  BY DEF CaptureIndInv, CaptureTypeOK, OpenerInv, NodeStops
<1>4. ShutdownInv'
  BY DEF CaptureIndInv, CaptureTypeOK, ShutdownInv, OpenerInv, NodeStops
<1>5. RegisteredStreamsAreLive' /\ RefusedOnlyByClose' /\ ReceiversInv' /\ Owned' /\ AbandonedInv'
  BY DEF CaptureIndInv, RegisteredStreamsAreLive, RefusedOnlyByClose, ReceiversInv, Owned, AbandonedInv,
     ShutdownCalled, NodeStops
<1> QED BY <1>1, <1>2, <1>3, <1>4, <1>5 DEF CaptureIndInv

(* The opener or the reader returns from a shutdown that is over.           *)
LEMMA CaptureEndedStep ==
  ASSUME CaptureIndInv, NEW s \in Streams, CaptureEnded(s)
  PROVE  CaptureIndInv'
<1>1. CaptureTypeOK'
  BY DEF CaptureIndInv, CaptureTypeOK, CaptureEnded
<1>2. RegisteredStreamsAreLive'
  BY DEF CaptureIndInv, CaptureTypeOK, RegisteredStreamsAreLive, ShutdownCalled, CaptureEnded
<1>3. UnusedInv'
  BY DEF CaptureIndInv, CaptureTypeOK, UnusedInv, CaptureEnded
<1>4. OpenerInv'
  BY DEF CaptureIndInv, CaptureTypeOK, OpenerInv, CaptureEnded
<1>5. Owned'
  BY DEF CaptureIndInv, CaptureTypeOK, Owned, ShutdownCalled, CaptureEnded
<1>6. AbandonedInv'
  BY DEF CaptureIndInv, CaptureTypeOK, AbandonedInv, OpenerInv, CaptureEnded
<1>7. RefusedOnlyByClose' /\ ReceiversInv' /\ ShutdownInv'
  BY DEF CaptureIndInv, RefusedOnlyByClose, ReceiversInv, ShutdownInv, CaptureEnded
<1> QED BY <1>1, <1>2, <1>3, <1>4, <1>5, <1>6, <1>7 DEF CaptureIndInv

(* The first caller of shutdown: the stream is in the registry no more, and *)
(* if its source is not installed, then nobody watches it or the service is *)
(* closed.                                                                  *)
LEMMA ShutdownBeginsStep ==
  ASSUME CaptureIndInv, NEW s \in Streams, ShutdownBegins(s)
  PROVE  CaptureIndInv'
<1>1. CaptureTypeOK'
  BY DEF CaptureIndInv, CaptureTypeOK, UnusedInv, ShutdownCalled, ShutdownBegins
<1>2. RegisteredStreamsAreLive'
  BY DEF CaptureIndInv, CaptureTypeOK, RegisteredStreamsAreLive, ShutdownCalled, ShutdownBegins
<1>3. UnusedInv'
  BY DEF CaptureIndInv, CaptureTypeOK, UnusedInv, ShutdownCalled, ShutdownBegins
<1>4. OpenerInv'
  BY DEF CaptureIndInv, CaptureTypeOK, OpenerInv, ShutdownInv, ShutdownBegins
<1>5. ShutdownInv'
  BY DEF CaptureIndInv, CaptureTypeOK, ShutdownInv, ShutdownBegins
<1>6. Owned'
  BY DEF CaptureIndInv, CaptureTypeOK, Owned, ShutdownCalled, ShutdownBegins
<1>7. AbandonedInv'
  BY DEF CaptureIndInv, CaptureTypeOK, AbandonedInv, RegisteredStreamsAreLive, ShutdownCalled, ReceiversInv,
     OpenerInv, ShutdownInv, ShutdownBegins
<1>8. RefusedOnlyByClose' /\ ReceiversInv'
  BY DEF CaptureIndInv, RefusedOnlyByClose, ReceiversInv, ShutdownBegins
<1> QED BY <1>1, <1>2, <1>3, <1>4, <1>5, <1>6, <1>7, <1>8 DEF CaptureIndInv

(* shutdown closes the source it finds.                                     *)
LEMMA ShutdownClosesStep ==
  ASSUME CaptureIndInv, NEW s \in Streams, ShutdownCloses(s)
  PROVE  CaptureIndInv'
<1>1. CaptureTypeOK'
  BY DEF CaptureIndInv, CaptureTypeOK, ShutdownCloses
<1>2. RegisteredStreamsAreLive'
  BY DEF CaptureIndInv, CaptureTypeOK, RegisteredStreamsAreLive, ShutdownCalled, ShutdownCloses
<1>3. UnusedInv'
  BY DEF CaptureIndInv, CaptureTypeOK, UnusedInv, ShutdownCloses
<1>4. OpenerInv'
  BY DEF CaptureIndInv, CaptureTypeOK, OpenerInv, ShutdownInv, ShutdownCloses
<1>5. ShutdownInv'
  BY DEF CaptureIndInv, CaptureTypeOK, ShutdownInv, ShutdownCloses
<1>6. Owned'
  BY DEF CaptureIndInv, CaptureTypeOK, Owned, ShutdownCalled, ShutdownCloses
<1>7. RefusedOnlyByClose' /\ ReceiversInv' /\ AbandonedInv'
  BY DEF CaptureIndInv, RefusedOnlyByClose, ReceiversInv, AbandonedInv, ShutdownCloses
<1> QED BY <1>1, <1>2, <1>3, <1>4, <1>5, <1>6, <1>7 DEF CaptureIndInv

(* Close goes on once shutdown is over.                                     *)
LEMMA CloseGoesOnStep ==
  ASSUME CaptureIndInv, NEW s \in Streams, CloseGoesOn(s)
  PROVE  CaptureIndInv'
<1>1. CaptureTypeOK'
  BY DEF CaptureIndInv, CaptureTypeOK, CloseGoesOn
<1>2. RegisteredStreamsAreLive'
  BY DEF CaptureIndInv, CaptureTypeOK, RegisteredStreamsAreLive, ShutdownCalled, CloseGoesOn
<1>3. Owned'
  BY DEF CaptureIndInv, CaptureTypeOK, Owned, ShutdownCalled, CloseGoesOn
<1>4. RefusedOnlyByClose' /\ ReceiversInv' /\ UnusedInv' /\ OpenerInv' /\ ShutdownInv' /\
   AbandonedInv'
  BY DEF CaptureIndInv, RefusedOnlyByClose, ReceiversInv, UnusedInv, OpenerInv, ShutdownInv, AbandonedInv,
     CloseGoesOn
<1> QED BY <1>1, <1>2, <1>3, <1>4 DEF CaptureIndInv

(* The connections are closed, the registry is not touched.                 *)
LEMMA ServerClosesStep ==
  ASSUME CaptureIndInv, ServerCloses
  PROVE  CaptureIndInv'
<1>1. CaptureTypeOK'
  BY DEF CaptureIndInv, CaptureTypeOK, ServerCloses
<1>2. RegisteredStreamsAreLive'
  BY DEF CaptureIndInv, CaptureTypeOK, RegisteredStreamsAreLive, ShutdownCalled, ServerCloses
<1>3. Owned'
  BY DEF CaptureIndInv, CaptureTypeOK, Owned, ShutdownCalled, ServerCloses
<1>4. AbandonedInv'
  BY DEF CaptureIndInv, CaptureTypeOK, AbandonedInv, ServerCloses
<1>5. RefusedOnlyByClose' /\ ReceiversInv' /\ UnusedInv' /\ OpenerInv' /\ ShutdownInv'
  BY DEF CaptureIndInv, RefusedOnlyByClose, ReceiversInv, UnusedInv, OpenerInv, ShutdownInv, ServerCloses
<1> QED BY <1>1, <1>2, <1>3, <1>4, <1>5 DEF CaptureIndInv

(* Close takes every stream out of the registry and shuts it down.          *)
LEMMA CloseStep ==
  ASSUME CaptureIndInv, CaptureClose
  PROVE  CaptureIndInv'
<1>1. CaptureTypeOK'
  BY DEF CaptureIndInv, CaptureTypeOK, AbandonedInv, CaptureClose
<1>2. RegisteredStreamsAreLive'
  BY DEF CaptureIndInv, CaptureTypeOK, RegisteredStreamsAreLive, ShutdownCalled, CaptureClose
<1>3. RefusedOnlyByClose'
  BY DEF CaptureIndInv, CaptureTypeOK, RefusedOnlyByClose, CaptureClose
<1>4. Owned'
  BY DEF CaptureIndInv, CaptureTypeOK, Owned, ShutdownCalled, CaptureClose
<1>5. AbandonedInv'
  BY DEF CaptureIndInv, CaptureTypeOK, AbandonedInv, CaptureClose
<1>6. ReceiversInv' /\ UnusedInv' /\ OpenerInv' /\ ShutdownInv'
  BY DEF CaptureIndInv, ReceiversInv, UnusedInv, OpenerInv, ShutdownInv, CaptureClose
<1> QED BY <1>1, <1>2, <1>3, <1>4, <1>5, <1>6 DEF CaptureIndInv

-----------------------------------------------------------------------------
(* In the beginning there are no streams.                                  *)
LEMMA CaptureInitInv == CaptureInit => CaptureIndInv
<1> SUFFICES ASSUME CaptureInit PROVE CaptureIndInv
  OBVIOUS
<1>1. Allocated = {}
  BY DEF CaptureInit
<1> HIDE DEF Allocated
<1>2. CaptureTypeOK
  <2>1. \A s \in Allocated : key[s] \in Interfaces
    BY <1>1
  <2>2. /\ openStreams \in [Interfaces -> Streams \cup {NoStream}]
        /\ receivers \in [Streams -> SUBSET Sessions]
        /\ queued \in [Sessions -> 0 .. Capacity]
    BY DEF CaptureInit
  <2> QED BY <1>1, <2>1, <2>2 DEF CaptureInit, CaptureTypeOK
<1>3. RegisteredStreamsAreLive /\ RefusedOnlyByClose /\ ReceiversInv
  BY DEF CaptureInit, RegisteredStreamsAreLive, RefusedOnlyByClose, ReceiversInv
<1>4. UnusedInv /\ OpenerInv /\ ShutdownInv /\ Owned /\ AbandonedInv
  BY <1>1 DEF CaptureInit, UnusedInv, OpenerInv, ShutdownInv, Owned, AbandonedInv
<1> QED BY <1>2, <1>3, <1>4 DEF CaptureIndInv

(* The stream a session joins is in the registry, so that nobody shuts it  *)
(* down.                                                                   *)
LEMMA SubscribeJoinsStep ==
  ASSUME CaptureIndInv, NEW p \in Sessions, NEW k \in Interfaces, SubscribeJoins(p, k)
  PROVE  CaptureIndInv'
<1>0. PICK s \in Streams : s = openStreams[k]
  BY DEF CaptureIndInv, CaptureTypeOK, SubscribeJoins
<1>1. s \in Allocated /\ s \in Streams /\ once[s] = "new" /\ s \notin done
  BY <1>0 DEF CaptureIndInv, CaptureTypeOK, AbandonedInv, RegisteredStreamsAreLive, ShutdownInv, SubscribeJoins
<1>2. ~ShutdownCalled(s)
  BY <1>0 DEF CaptureIndInv, RegisteredStreamsAreLive, SubscribeJoins
<1>3. /\ pc[p] = "new" /\ ~closed
      /\ receivers' = [receivers EXCEPT ![s] = @ \cup {p}]
      /\ watched' = [watched EXCEPT ![p] = s]
      /\ pc' = [pc EXCEPT ![p] = "waiting"]
      /\ UNCHANGED <<openStreams, closed, key, openVars, shutdownVars, reader, told, queued, client,
                     source, closeVars>>
  BY <1>0 DEF SubscribeJoins
<1>4. CaptureTypeOK'
  BY <1>1, <1>3 DEF CaptureIndInv, CaptureTypeOK
<1>5. ReceiversInv'
  BY <1>1, <1>3 DEF CaptureIndInv, CaptureTypeOK, ReceiversInv
<1>6. \A t \in Allocated : ShutdownCalled(t)' <=> ShutdownCalled(t)
  BY <1>3 DEF CaptureIndInv, CaptureTypeOK, ShutdownCalled
<1>7. RegisteredStreamsAreLive'
  BY <1>1, <1>3, <1>6 DEF CaptureIndInv, CaptureTypeOK, AbandonedInv, RegisteredStreamsAreLive
<1>8. Owned'
  BY <1>3, <1>6 DEF CaptureIndInv, Owned
<1>9. openErr[s] # "closed"
  BY <1>0, <1>1, <1>3 DEF CaptureIndInv, AbandonedInv, RegisteredStreamsAreLive
<1>10. AbandonedInv'
  <2>1. \A q \in Sessions : pc'[q] = "shutdown" => receivers'[watched'[q]] = {}
    BY <1>1, <1>2, <1>3 DEF CaptureIndInv, CaptureTypeOK, AbandonedInv, ShutdownCalled
  <2> QED BY <1>1, <1>3, <1>9, <2>1 DEF CaptureIndInv, CaptureTypeOK, AbandonedInv
<1>11. RefusedOnlyByClose' /\ UnusedInv' /\ OpenerInv' /\ ShutdownInv'
  BY <1>3 DEF CaptureIndInv, RefusedOnlyByClose, UnusedInv, OpenerInv, ShutdownInv
<1> QED BY <1>4, <1>5, <1>7, <1>8, <1>10, <1>11 DEF CaptureIndInv

(* A new stream is in the registry, and nobody knows of it but its session *)
(* and its opener.                                                         *)
LEMMA SubscribeOpensStep ==
  ASSUME CaptureIndInv, NEW p \in Sessions, NEW k \in Interfaces, SubscribeOpens(p, k)
  PROVE  CaptureIndInv'
<1>0. PICK s : s = CHOOSE t \in Streams : t \notin Allocated
  OBVIOUS
<1>1. s \in Streams /\ s \notin Allocated /\ s # NoStream
  BY <1>0 DEF CaptureIndInv, CaptureTypeOK, SubscribeOpens
<1>2. /\ pc[p] = "new" /\ ~closed /\ openStreams[k] = NoStream
      /\ key' = [t \in Allocated \cup {s} |-> IF t = s THEN k ELSE key[t]]
      /\ openStreams' = [openStreams EXCEPT ![k] = s]
      /\ opener' = [opener EXCEPT ![s] = "opening"]
      /\ receivers' = [receivers EXCEPT ![s] = @ \cup {p}]
      /\ watched' = [watched EXCEPT ![p] = s]
      /\ pc' = [pc EXCEPT ![p] = "waiting"]
      /\ UNCHANGED <<closed, opened, openErr, installed, shutdownVars, reader, told, queued, client,
                     source, closeVars>>
  BY <1>0 DEF SubscribeOpens
<1>3. /\ Allocated' = Allocated \cup {s}
      /\ key'[s] = k /\ \A t \in Allocated : key'[t] = key[t]
  BY <1>1, <1>2
<1>4. /\ once[s] = "new" /\ reader[s] = "none" /\ source[s] = "none"
      /\ s \notin done /\ s \notin installed /\ s \notin left
      /\ \A q \in Sessions : pc[q] \in {"waiting", "writing", "watching", "shutdown"} => watched[q] # s
  BY <1>1 DEF CaptureIndInv, CaptureTypeOK, UnusedInv
<1>5. CaptureTypeOK'
  BY <1>1, <1>2, <1>3 DEF CaptureIndInv, CaptureTypeOK
<1>6. ReceiversInv'
  BY <1>1, <1>2 DEF CaptureIndInv, CaptureTypeOK, ReceiversInv
<1>7. ~ShutdownCalled(s)' /\ \A t \in Allocated : ShutdownCalled(t)' <=> ShutdownCalled(t)
  BY <1>1, <1>2, <1>4 DEF CaptureIndInv, CaptureTypeOK, ShutdownCalled
<1>8. RegisteredStreamsAreLive'
  <2> SUFFICES ASSUME NEW l \in Interfaces, openStreams'[l] # NoStream, NEW t, t = openStreams'[l]
               PROVE  key'[t] = l /\ receivers'[t] # {} /\ once'[t] = "new" /\ ~ShutdownCalled(t)'
    BY DEF RegisteredStreamsAreLive
  <2>1. CASE l = k
    BY <1>1, <1>2, <1>3, <1>4, <1>7, <2>1 DEF CaptureIndInv, CaptureTypeOK
  <2>2. CASE l # k
    <3>1. t = openStreams[l] /\ t \in Allocated /\ t # s
      BY <1>1, <1>2, <2>2 DEF CaptureIndInv, CaptureTypeOK, AbandonedInv
    <3> QED BY <1>2, <1>3, <1>7, <3>1 DEF CaptureIndInv, CaptureTypeOK, RegisteredStreamsAreLive
  <2> QED BY <2>1, <2>2
<1>9. Owned'
  BY <1>1, <1>2, <1>3, <1>7 DEF CaptureIndInv, CaptureTypeOK, Owned
<1>10. UnusedInv' /\ OpenerInv' /\ ShutdownInv'
  BY <1>1, <1>2, <1>3, <1>4 DEF CaptureIndInv, CaptureTypeOK, UnusedInv, OpenerInv, ShutdownInv
<1>11. AbandonedInv'
  <2>1. openErr[s] = "none"
    BY <1>1 DEF CaptureIndInv, UnusedInv
  <2>2. \A q \in Sessions : pc'[q] = "shutdown" => receivers'[watched'[q]] = {}
    BY <1>1, <1>2, <1>4 DEF CaptureIndInv, CaptureTypeOK, AbandonedInv
  <2> QED BY <1>1, <1>2, <1>3, <1>4, <2>1, <2>2 DEF CaptureIndInv, CaptureTypeOK, AbandonedInv
<1>12. RefusedOnlyByClose'
  BY <1>2 DEF CaptureIndInv, RefusedOnlyByClose
<1> QED BY <1>5, <1>6, <1>8, <1>9, <1>10, <1>11, <1>12 DEF CaptureIndInv

(* The last session to leave takes the stream out of the registry and      *)
(* shuts it down; the error of a stream that was discarded reaches a       *)
(* session only if the service is closed.                                  *)
LEMMA LeaveStep ==
  ASSUME CaptureIndInv, NEW p \in Sessions, Leave(p)
  PROVE  CaptureIndInv'
<1>0. PICK s : s = watched[p]
  OBVIOUS
<1>1. PICK err \in {"none", "failed", "closed"} : LeavesWith(p, err) /\ told' = [told EXCEPT ![p] = err]
  BY DEF Leave, Unsubscribe
<1>2. /\ pc[p] \in Subscribed
      /\ err = "closed" => openErr[s] = "closed"
  BY <1>0, <1>1 DEF LeavesWith
<1>3. s \in Allocated /\ s \in Streams /\ p \in receivers[s] /\ key[s] \in Interfaces
  BY <1>0, <1>2 DEF CaptureIndInv, CaptureTypeOK, ReceiversInv
<1>4. /\ receivers' = [receivers EXCEPT ![s] = @ \ {p}]
      /\ queued' = [queued EXCEPT ![p] = 0]
      /\ UNCHANGED <<closed, key, openVars, shutdownVars, reader, watched, client, source, closeVars>>
  BY <1>0 DEF Leave, Unsubscribe
<1>5. \/ /\ receivers'[s] = {}
         /\ openStreams' = IF openStreams[key[s]] = s THEN [openStreams EXCEPT ![key[s]] = NoStream] ELSE openStreams
         /\ pc' = [pc EXCEPT ![p] = "shutdown"]
      \/ /\ receivers'[s] # {}
         /\ UNCHANGED openStreams
         /\ pc' = [pc EXCEPT ![p] = "ended"]
  BY <1>0 DEF Leave, Unregister
<1>7. CaptureTypeOK'
  BY <1>1, <1>3, <1>4, <1>5, <1>0 DEF CaptureIndInv, CaptureTypeOK
<1>8. ReceiversInv'
  BY <1>3, <1>4, <1>5, <1>0 DEF CaptureIndInv, CaptureTypeOK, ReceiversInv
<1>9. RefusedOnlyByClose'
  <2>1. err = "closed" => closed
    BY <1>2, <1>3, <1>0 DEF CaptureIndInv, AbandonedInv
  <2> QED BY <1>1, <1>4, <2>1 DEF CaptureIndInv, CaptureTypeOK, RefusedOnlyByClose
<1>10. /\ \A t \in Allocated : t # s => (ShutdownCalled(t)' <=> ShutdownCalled(t))
       /\ ShutdownCalled(s) => ShutdownCalled(s)'
       /\ receivers'[s] # {} => (ShutdownCalled(s)' <=> ShutdownCalled(s))
  BY <1>2, <1>4, <1>5, <1>0 DEF CaptureIndInv, CaptureTypeOK, ShutdownCalled
<1>11. \A k \in Interfaces : openStreams'[k] # NoStream =>
         /\ openStreams'[k] = openStreams[k]
         /\ receivers'[s] = {} => openStreams[k] # s
  BY <1>3, <1>5 DEF CaptureIndInv, CaptureTypeOK, RegisteredStreamsAreLive
<1>12. RegisteredStreamsAreLive'
  BY <1>3, <1>4, <1>10, <1>11 DEF CaptureIndInv, CaptureTypeOK, AbandonedInv, RegisteredStreamsAreLive
<1>13. Owned'
  <2> SUFFICES ASSUME NEW t \in Allocated
               PROVE  openStreams'[key[t]] = t \/ ShutdownCalled(t)' \/ once[t] # "new"
    BY <1>4 DEF Owned
  <2>1. CASE receivers'[s] = {} /\ t = s
    BY <1>3, <1>4, <1>5, <1>0, <2>1 DEF CaptureIndInv, CaptureTypeOK, ShutdownCalled
  <2>2. CASE receivers'[s] # {} \/ t # s
    BY <1>3, <1>4, <1>5, <1>10, <2>2 DEF CaptureIndInv, CaptureTypeOK, Owned
  <2> QED BY <2>1, <2>2
<1>14. AbandonedInv'
  BY <1>3, <1>4, <1>5, <1>0 DEF CaptureIndInv, CaptureTypeOK, AbandonedInv
<1>15. UnusedInv' /\ OpenerInv' /\ ShutdownInv'
  BY <1>4 DEF CaptureIndInv, UnusedInv, OpenerInv, ShutdownInv
<1> QED BY <1>7, <1>8, <1>9, <1>12, <1>13, <1>14, <1>15 DEF CaptureIndInv

-----------------------------------------------------------------------------
(* Every step keeps the invariant.                                         *)
LEMMA CaptureNextStep ==
  ASSUME CaptureIndInv, [CaptureNext]_captureVars
  PROVE  CaptureIndInv'
<1>1. ASSUME NEW s \in Streams, OpenerStep(s)
      PROVE  CaptureIndInv'
  BY <1>1, OpenSucceedsStep, OpenFailsStep, InstallStep, DiscardStep, StartReaderStep,
     SignalOpenedStep DEF OpenerStep
<1>2. ASSUME NEW s \in Streams, StreamStep(s)
      PROVE  CaptureIndInv'
  BY <1>2, ReadFailsStep, CaptureEndedStep, ShutdownBeginsStep, ShutdownClosesStep, CloseGoesOnStep
     DEF StreamStep
<1>3. ASSUME NEW p \in Sessions, SessionStep(p)
      PROVE  CaptureIndInv'
  BY <1>3, WaitEndsStep, LeaveStep, SessionEndsStep DEF SessionStep
<1>4. CASE UNCHANGED captureVars
  BY <1>4 DEF captureVars, CaptureIndInv, CaptureTypeOK, RegisteredStreamsAreLive, RefusedOnlyByClose, ReceiversInv, UnusedInv,
     OpenerInv, ShutdownInv, Owned, AbandonedInv, ShutdownCalled
<1> QED
  BY <1>1, <1>2, <1>3, <1>4, SubscribeRefusedStep, TakePacketStep, WritePacketStep, ClientLeavesStep,
     SubscribeJoinsStep, SubscribeOpensStep, ForwardStep, NodeStopsStep, ServerClosesStep, CloseStep
     DEF CaptureNext

(* A source that is still open once its opener is over is installed, and   *)
(* shutdown is not over: its stream is in the registry or being shut down. *)
LEMMA NothingLeaks ==
  ASSUME CaptureIndInv
  PROVE  NoCaptureIsLeaked
BY DEF CaptureIndInv, CaptureTypeOK, OpenerInv, ShutdownInv, Owned, NoCaptureIsLeaked

(* For any number of interfaces, sessions and streams, and whenever        *)
(* sessions come and leave while a capture is opened, fails or is closed:  *)
(* a stream in the registry is not being shut down, a capture that runs    *)
(* has somebody to stop it, and a session is told that the service shuts   *)
(* down only if it does (capture.go:106-257).                              *)
THEOREM CaptureInvariant == CaptureSpec => []StreamInv
<1>1. CaptureInit => CaptureIndInv
  BY CaptureInitInv
<1>2. CaptureIndInv /\ [CaptureNext]_captureVars => CaptureIndInv'
  BY CaptureNextStep
<1>3. CaptureIndInv => StreamInv
  BY NothingLeaks DEF CaptureIndInv, StreamInv
<1> QED BY <1>1, <1>2, <1>3, PTL DEF CaptureSpec
=============================================================================
