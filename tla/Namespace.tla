------------------------------ MODULE Namespace ------------------------------
(***************************************************************************)
(* A socket.io namespace: the clients connected to it, the messages sent   *)
(* to them and the backlog a new client is given                           *)
(* (src/src/socket/namespace.go, src/src/socket/manager.go).               *)
(*                                                                         *)
(* Concurrent: one handleConnection per socket and any number of Send.     *)
(* What is done under connectedClientsMutex or under backlogMutex is one   *)
(* step; a socket can close between any two.  The requests of clients      *)
(* (handleData) change nothing here; the services they call are modelled   *)
(* in their own modules, a panicking command in Shell.                     *)
(*                                                                         *)
(* A namespace is of one of the kinds the program creates:                 *)
(*   "updates"  no backlog, output only (updates, status messages)         *)
(*   "logs"     a ValueRing as backlog, output only (logs, statistics)     *)
(*   "shell"    a ByteRing as backlog, input and output                    *)
(*   "command"  no backlog, input only                                     *)
(* Messages are numbers; encoding and wrapping are left out, and so are    *)
(* anonymous namespaces, which the program never creates.                  *)
(***************************************************************************)
EXTENDS Ring, FiniteSetsExt, SequencesExt

CONSTANTS
  Users,         \* the users who connect
  Admins,        \* those who are administrators
  Sockets,       \* socket.io connections, each used once
  Senders,       \* goroutines that send to the namespace
  None,          \* no socket, no user
  Kinds,         \* the kinds of namespace that are looked at
  Capacities,    \* BacklogConfig.Capacity
  MaxReaders,    \* bound: connections to a namespace with a backlog
  MaxSends       \* bound: messages sent in a run

ASSUME NamespaceAssumption ==
  /\ Admins \subseteq Users
  /\ None \notin Users \cup Sockets
  /\ Kinds \subseteq {"updates", "logs", "shell", "command"}
  /\ Capacities \subseteq Nat
  /\ MaxReaders \in Nat
  /\ MaxSends \in Nat

VARIABLES
  kind,                  \* what CreateIONamespace was called with
  backlog,               \* namespace.backlog
  connectedClients,      \* the sockets of namespace.connectedClients
  connectedClientsMap,   \* user -> socket
  user,                  \* the user of a socket, None before it is authenticated
  sio,                   \* external: "new", "open", "leaving" (the disconnect callback is due) or "closed"
  handler,               \* the next step of handleConnection of a socket
  released,              \* Release has been called
  live,                  \* the messages an open socket was sent by "data"
  replay,                \* the messages an open socket was sent by "backlog"
  sender,                \* the next step, message and receivers of every Send
  sends,                 \* number of messages so far
  added,                 \* history: what was added to the backlog since it was cleared
  shared,                \* history: users who had two sockets listed at once
  everyone,              \* history: the messages sent to all clients
  missable,              \* history: pairs of a socket and a message under way when it was listed
  doubled,               \* history: pairs of a message and a socket whose backlog was not yet read
  read                   \* history: the messages that had been added when a socket read the backlog

clientVars == <<connectedClients, connectedClientsMap, shared>>
backlogVars == <<backlog, added>>
sendVars == <<sender, sends>>
outputVars == <<live, replay>>
historyVars == <<everyone, missable, doubled, read>>
vars == <<kind, clientVars, backlogVars, user, sio, handler, released, outputVars, sendVars, historyVars>>

HasBacklog == kind \in {"logs", "shell"}

Idle == [pc |-> "idle", msg |-> 0, left |-> <<>>]

Messages == 1 .. sends

(* CreateIONamespace *)
Init ==
  /\ kind \in Kinds
  /\ \E c \in Capacities :
       backlog = IF kind = "shell" THEN CreateByteRing(c) ELSE CreateValueRing(c)
  /\ connectedClients = <<>>
  /\ connectedClientsMap = [u \in Users |-> None]
  /\ user = [s \in Sockets |-> None]
  /\ sio = [s \in Sockets |-> "new"]
  /\ handler = [s \in Sockets |-> "none"]
  /\ released = FALSE
  /\ live = [s \in Sockets |-> <<>>]
  /\ replay = [s \in Sockets |-> {}]
  /\ sender = [p \in Senders |-> Idle]
  /\ sends = 0
  /\ added = <<>>
  /\ shared = {}
  /\ everyone = {}
  /\ missable = {}
  /\ doubled = {}
  /\ read = [s \in Sockets |-> {}]

-----------------------------------------------------------------------------
(***************************************************************************)
(* Connecting                                                              *)
(***************************************************************************)
(* SocketAuthenticatorMiddleware lets the socket in: its token is valid,   *)
(* the access check allows its user, and the token is entered for          *)
(* GetAuthUser.  socket.io then calls the connection handler, if the       *)
(* namespace still has one.                                                *)
Accept(s, u) ==
  /\ sio[s] = "new"
  /\ HasBacklog => Cardinality({t \in Sockets : user[t] # None}) < MaxReaders
  /\ user' = [user EXCEPT ![s] = u]
  /\ sio' = [sio EXCEPT ![s] = "open"]
  /\ handler' = [handler EXCEPT ![s] = IF released THEN "none" ELSE "list"]
  /\ UNCHANGED <<kind, clientVars, backlogVars, released, outputVars, sendVars, historyVars>>

(* The middleware refuses the socket. *)
Refuse(s) ==
  /\ sio[s] = "new"
  /\ sio' = [sio EXCEPT ![s] = "closed"]
  /\ UNCHANGED <<kind, clientVars, backlogVars, user, handler, released, outputVars, sendVars, historyVars>>

ListedOf(u) == {s \in Range(connectedClients) : user[s] = u}

(* handleConnection up to the end of its critical section *)
List(s) ==
  LET u == user[s] IN
  /\ handler[s] = "list"
  /\ connectedClients' = Append(connectedClients, s)
  /\ connectedClientsMap' = [connectedClientsMap EXCEPT ![u] = s]
  /\ shared' = IF ListedOf(u) = {} THEN shared ELSE shared \cup {u}
  /\ missable' = missable \cup 
       {<<s, sender[p].msg>> : p \in {q \in Senders : sio[s] = "open" /\ sender[q].pc = "add"}}
  /\ handler' = [handler EXCEPT ![s] = "callbacks"]
  /\ UNCHANGED <<kind, backlogVars, user, sio, released, outputVars, sendVars, everyone, doubled, read>>

(* Mutant: a new client is not given the backlog. *)
SetCallbacksOnly(s) ==
  /\ handler[s] = "callbacks"
  /\ handler' = [handler EXCEPT ![s] = "done"]
  /\ UNCHANGED <<kind, clientVars, backlogVars, user, sio, released, outputVars, sendVars,
                 historyVars>>

(* The callbacks for "data" and "disconnect" are set. *)
SetCallbacks(s) ==
  /\ handler[s] = "callbacks"
  /\ handler' = [handler EXCEPT ![s] = IF HasBacklog THEN "replay" ELSE "done"]
  /\ UNCHANGED <<kind, clientVars, backlogVars, user, sio, released, outputVars, sendVars,
                 historyVars>>

(* The messages that have been added to the backlog: all but those whose Send has not got there. *)
AddedMessages == Messages \ {sender[p].msg : p \in {q \in Senders : sender[q].pc = "add"}}

backlogItems == IF kind = "shell" THEN backlog.buf ELSE ValueRingItems(backlog)

(* The backlog is read under its mutex and emitted; a closed socket gets nothing. *)
Replay(s) ==
  /\ handler[s] = "replay"
  /\ replay' = [replay EXCEPT ![s] = IF sio[s] = "open" THEN {i.msg : i \in Range(backlogItems)} ELSE @]
  /\ read' = [read EXCEPT ![s] = IF sio[s] = "open" THEN AddedMessages ELSE @]
  /\ handler' = [handler EXCEPT ![s] = "done"]
  /\ UNCHANGED <<kind, clientVars, backlogVars, user, sio, released, live, sendVars,
                 everyone, missable, doubled>>

-----------------------------------------------------------------------------
(***************************************************************************)
(* Disconnecting                                                           *)
(***************************************************************************)
CallbacksSet(s) == handler[s] \in {"replay", "done"} /\ user[s] # None

(* The connections cs are gone: the disconnect callback of each runs if it  *)
(* has been set.  What they were sent no longer matters.                     *)
CloseAll(cs) ==
  /\ sio' = [s \in Sockets |-> IF s \notin cs THEN sio[s]
                               ELSE IF CallbacksSet(s) THEN "leaving" ELSE "closed"]
  /\ live' = [s \in Sockets |-> IF s \in cs THEN <<>> ELSE live[s]]
  /\ replay' = [s \in Sockets |-> IF s \in cs THEN {} ELSE replay[s]]
  /\ read' = [s \in Sockets |-> IF s \in cs THEN {} ELSE read[s]]
  /\ missable' = {x \in missable : x[1] \notin cs}
  /\ doubled' = {x \in doubled : x[1] \notin cs}

(* External: the client closes the connection or the network does. *)
Close(s) ==
  /\ sio[s] = "open"
  /\ CloseAll({s})
  /\ UNCHANGED <<kind, clientVars, backlogVars, user, handler, released, sendVars, everyone>>

(* Mutant: the user stays in the map. *)
DisconnectKeepsMap(s) ==
  /\ sio[s] = "leaving"
  /\ connectedClients' = RemoveFirst(connectedClients, s)
  /\ sio' = [sio EXCEPT ![s] = "closed"]
  /\ UNCHANGED <<connectedClientsMap, shared, kind, backlogVars, user, handler, released, outputVars,
                 sendVars, historyVars>>

(* The disconnect callback *)
Disconnect(s) ==
  /\ sio[s] = "leaving"
  /\ connectedClients' = RemoveFirst(connectedClients, s)
  /\ connectedClientsMap' = [connectedClientsMap EXCEPT ![user[s]] = None]
  /\ sio' = [sio EXCEPT ![s] = "closed"]
  /\ UNCHANGED <<shared, kind, backlogVars, user, handler, released, outputVars, sendVars,
                 historyVars>>

(* Release: nobody is told of new connections, and the sockets are disconnected. *)
Release ==
  /\ ~released
  /\ released' = TRUE
  /\ CloseAll({s \in Sockets : sio[s] = "open"})
  /\ UNCHANGED <<kind, clientVars, backlogVars, user, handler, sendVars, everyone>>

-----------------------------------------------------------------------------
(***************************************************************************)
(* Sending                                                                 *)
(***************************************************************************)
getAllClients == connectedClients

(* The order of these receivers is left open. *)
getClientsFor(us) ==
  SetToSeq({connectedClientsMap[u] : u \in us} \ {None})

(* lo.Filter keeps the order of the list. *)
getAdminClients ==
  LET I == {i \in DOMAIN connectedClients : user[connectedClients[i]] \in Admins}
      order == CHOOSE f \in [1 .. Cardinality(I) -> I] : \A i, j \in 1 .. Cardinality(I) : i < j => f[i] < f[j]
  IN  [i \in 1 .. Cardinality(I) |-> connectedClients[order[i]]]

(* The receivers are copied under connectedClientsMutex. *)
BeginSend(p, receivers, toAll) ==
  /\ kind # "command"
  /\ sender[p].pc = "idle"
  /\ sends < MaxSends
  /\ sends' = sends + 1
  /\ sender' = [sender EXCEPT ![p] =
       [pc |-> IF HasBacklog THEN "add" ELSE "emit", msg |-> sends + 1, left |-> receivers]]
  /\ everyone' = IF toAll THEN everyone \cup {sends + 1} ELSE everyone
  /\ doubled' = doubled \cup {<<s, sends + 1>> :
       s \in {t \in Sockets : HasBacklog /\ sio[t] = "open" /\ handler[t] \in {"callbacks", "replay"}}}
  /\ UNCHANGED <<kind, clientVars, backlogVars, user, sio, handler, released, outputVars,
                 missable, read>>

(* Send, and SendBulk in a shell *)
Send(p) == BeginSend(p, getAllClients, TRUE)

(* SendTo and SendToAdmins, in namespaces without a backlog only: nothing in *)
(* the program calls them, its tests do so there.                           *)
SendTo(p, us) == kind = "updates" /\ BeginSend(p, getClientsFor(us), FALSE)

SendToAdmins(p) == kind = "updates" /\ BeginSend(p, getAdminClients, FALSE)

(* What a message is made of: one value, or bytes of which some end a line. *)
Contents(m) ==
  IF kind = "logs" THEN {<<[msg |-> m, newline |-> FALSE]>>}
  ELSE LET text == [msg |-> m, newline |-> FALSE]
           end == [msg |-> m, newline |-> TRUE]
       IN {<<text>>, <<end, text>>, <<text, end, end>>}

(* The message is added to the backlog under backlogMutex. *)
AddToBacklog(p) ==
  /\ sender[p].pc = "add"
  /\ \E items \in Contents(sender[p].msg) :
       /\ backlog' = IF kind = "shell" THEN ByteRingAddMany(backlog, items)
                     ELSE ValueRingAdd(backlog, items[1])
       /\ added' = added \o items
  /\ sender' = [sender EXCEPT ![p].pc = "emit"]
  /\ UNCHANGED <<kind, clientVars, user, sio, handler, released, outputVars, sends, historyVars>>

(* The message is emitted to the next receiver; a closed socket drops it. *)
Emit(p) ==
  LET s == Head(sender[p].left) IN
  /\ sender[p].pc = "emit"
  /\ sender[p].left # <<>>
  /\ live' = [live EXCEPT ![s] = IF sio[s] = "open" THEN Append(@, sender[p].msg) ELSE @]
  /\ sender' = [sender EXCEPT ![p].left = Tail(@)]
  /\ UNCHANGED <<kind, clientVars, backlogVars, user, sio, handler, released, replay, sends,
                 historyVars>>

EndSend(p) ==
  /\ sender[p].pc = "emit"
  /\ sender[p].left = <<>>
  /\ sender' = [sender EXCEPT ![p] = Idle]
  /\ UNCHANGED <<kind, clientVars, backlogVars, user, sio, handler, released, outputVars, sends,
                 historyVars>>

(* ClearBacklog *)
ClearBacklog ==
  /\ kind = "logs"
  /\ added # <<>>
  /\ backlog' = ValueRingClear(backlog)
  /\ added' = <<>>
  /\ UNCHANGED <<kind, clientVars, user, sio, handler, released, outputVars, sendVars, historyVars>>

-----------------------------------------------------------------------------
Connection(s) ==
  \/ \E u \in Users : Accept(s, u)
  \/ Refuse(s)
  \/ List(s)
  \/ SetCallbacks(s)
  \/ Replay(s)
  \/ Close(s)
  \/ Disconnect(s)

Sending(p) ==
  \/ Send(p)
  \/ \E u \in Users : SendTo(p, {u})
  \/ SendToAdmins(p)
  \/ AddToBacklog(p)
  \/ Emit(p)
  \/ EndSend(p)

Next ==
  \/ \E s \in Sockets : Connection(s)
  \/ \E p \in Senders : Sending(p)
  \/ ClearBacklog
  \/ Release

Spec == Init /\ [][Next]_vars

-----------------------------------------------------------------------------
Items == [msg : Nat, newline : BOOLEAN]

(* Every variable has its type. *)
TypeOK ==
  /\ kind \in Kinds
  /\ \A i \in DOMAIN backlogItems : backlogItems[i] \in Items
  /\ connectedClients \in Seq(Sockets)
  /\ connectedClientsMap \in [Users -> Sockets \cup {None}]
  /\ user \in [Sockets -> Users \cup {None}]
  /\ \A s \in Sockets : handler[s] # "none" => user[s] \in Users
  /\ sio \in [Sockets -> {"new", "open", "leaving", "closed"}]
  /\ handler \in [Sockets -> {"none", "list", "callbacks", "replay", "done"}]
  /\ released \in BOOLEAN
  /\ live \in [Sockets -> Seq(Nat)]
  /\ replay \in [Sockets -> SUBSET Messages]
  /\ sender \in [Senders -> [pc : {"idle", "add", "emit"}, msg : Nat, left : Seq(Sockets)]]
  /\ sends \in 0 .. MaxSends
  /\ added \in Seq(Items)
  /\ shared \subseteq Users
  /\ everyone \subseteq Messages
  /\ missable \subseteq Sockets \X Messages
  /\ doubled \subseteq Sockets \X Messages
  /\ read \in [Sockets -> SUBSET Messages]

(* The backlog is the last items (of a ValueRing) or the last lines (of a    *)
(* ByteRing) of all that was added since it was cleared, in the order in     *)
(* which it was added, however the ring has wrapped around and whatever the  *)
(* sends, connections and clears in between (ring.go: "evicts the oldest     *)
(* elements when full").                                                     *)
BacklogIsTheEnd ==
  HasBacklog => backlogItems = IF kind = "shell" THEN LastLines(added, backlog.cap)
                               ELSE LastItems(added, backlog.cap)

Finished(m) == \A p \in Senders : sender[p].msg # m

(* A client that stays connected is sent every message: live, or because it *)
(* was added before the client read the backlog.  The one way to miss a     *)
(* message is to be listed while its Send has copied the list of clients    *)
(* and not yet added it to the backlog.                                     *)
MissedOnlyUnderWay ==
  \A s \in Sockets, m \in Messages :
    /\ sio[s] = "open"
    /\ HasBacklog
    /\ handler[s] = "done"
    /\ m \in everyone
    /\ Finished(m)
    => m \in Range(live[s]) \/ m \in read[s] \/ <<s, m>> \in missable

(* A client is sent no message twice, with one exception: a Send that copies *)
(* the list of clients while the client, already on it, has not yet read the *)
(* backlog.                                                                  *)
TwiceOnlyWhileConnecting ==
  \A s \in Sockets :
    /\ \A i, j \in DOMAIN live[s] : i # j => live[s][i] # live[s][j]
    /\ \A m \in Range(live[s]) \cap replay[s] : <<s, m>> \in doubled

(* A client that stays connected is sent every message once, live or with  *)
(* the backlog, but for the two windows between the mutexes                *)
(* (namespace.go:229-272, 274-375).                                        *)
DeliveryInv ==
  /\ MissedOnlyUnderWay
  /\ TwiceOnlyWhileConnecting

(* A user who never had two connections to the namespace at once is found in *)
(* connectedClientsMap exactly while the connection is listed.  (A user with *)
(* two loses the entry with the first of them that disconnects.)             *)
SingleConnectionIsMapped ==
  \A u \in Users \ shared :
    ListedOf(u) = IF connectedClientsMap[u] = None THEN {} ELSE {connectedClientsMap[u]}

(* List and map of the connected clients are well formed and agree about   *)
(* users with one connection (namespace.go:274-361).                       *)
ClientInv ==
  /\ TypeOK
  /\ SingleConnectionIsMapped
=============================================================================
