-------------------------------- MODULE Shell --------------------------------
(***************************************************************************)
(* The shells users open on nodes (src/src/runtime/shell/service.go).      *)
(*                                                                         *)
(* Concurrent: the requests of clients, one reader per shell (runShell),   *)
(* the manager that closes inactive shells (runManager), and Close.  What  *)
(* is done under openShellsMutex is one step; everything between two such  *)
(* sections can be interrupted.  closeShell is one step.  Announcing the   *)
(* close, cancelling and releasing the namespace are harmless when done    *)
(* twice, and so is closing a session through SSH or docker; a session of  *)
(* Clabernetes' ExecInteractive panics, because its channel of terminal    *)
(* sizes is closed (src/src/deployment/clabernetes.go).  In a command the  *)
(* namespace recovers from the panic, and the command is never answered;   *)
(* in every other goroutine it ends the server.                            *)
(*                                                                         *)
(* What is typed and printed and the terminal sizes are left out.          *)
(***************************************************************************)
EXTENDS Naturals, FiniteSets

CONSTANTS
  Users,         \* the users who open shells
  Admins,        \* those who may close any shell
  Procs,         \* goroutines that serve requests
  Shells,        \* shell ids utils.GenerateUuid will hand out
  Nobody,        \* the owner of an id that has not been handed out
  ExecSets,      \* which of them are opened through Clabernetes' ExecInteractive
  UserLimit,     \* config.Shell.UserLimit
  MaxInputs      \* bound: inputs and resizes sent to shells in a run

ASSUME ShellAssumption ==
  /\ Admins \subseteq Users
  /\ Nobody \notin Users
  /\ ExecSets \subseteq SUBSET Shells
  /\ UserLimit \in Nat

VARIABLES
  openShells,    \* Service.openShells, as the set of its keys
  owner,         \* shellConfig.owner
  session,       \* external: the shell session of a node
  reader,        \* runShell, one goroutine per shell
  inactive,      \* the shells whose lastInteraction is longer ago than the timeout
  pc,            \* the next step of every request
  call,          \* the user and the shell of every request
  manager,       \* runManager: "running" or "stopped"
  closing,       \* Close: "no" or "yes"
  left,          \* the shells Close has still to close
  inputs,        \* number of inputs and resizes so far
  fragile,       \* external: the shells with a session of Clabernetes' ExecInteractive
  down,          \* the server has panicked
  unanswered,    \* history: shells a command to which has panicked
  early          \* history: shells that ended before they were listed

requestVars == <<pc, call>>
closeVars == <<closing, left>>
panicVars == <<fragile, down, unanswered, early>>
shellVars == <<openShells, owner, session, reader, inactive, requestVars, manager, closeVars, inputs, panicVars>>

Allocated == {s \in Shells : owner[s] # Nobody}

NoCall == [user |-> Nobody, shell |-> Nobody]

ShellInit ==
  /\ openShells = {}
  /\ owner = [s \in Shells |-> Nobody]
  /\ session = [s \in Shells |-> "none"]
  /\ reader = [s \in Shells |-> "none"]
  /\ inactive = {}
  /\ pc = [p \in Procs |-> "idle"]
  /\ call = [p \in Procs |-> NoCall]
  /\ manager = "running"
  /\ closing = "no"
  /\ left = {}
  /\ inputs = 0
  /\ fragile \in ExecSets
  /\ down = FALSE /\ unanswered = {} /\ early = {}

Begin(p, step, u, s) ==
  /\ pc[p] = "idle"
  /\ pc' = [pc EXCEPT ![p] = step]
  /\ call' = [call EXCEPT ![p] = [user |-> u, shell |-> s]]

Return(p) ==
  /\ pc' = [pc EXCEPT ![p] = "idle"]
  /\ call' = [call EXCEPT ![p] = NoCall]

(* closeShell *)
closeShell(s) == session' = [session EXCEPT ![s] = "closed"]

(* Closing or resizing the session panics. *)
Panics(s) == s \in fragile /\ session[s] = "closed"

(* closeShell in a goroutine nothing recovers *)
CloseOrCrash(s) == closeShell(s) /\ down' = Panics(s) /\ UNCHANGED <<fragile, unanswered, early>>

(* A command that panics is recovered in the namespace, unanswered. *)
Recover(s) ==
  /\ unanswered' = IF Panics(s) THEN unanswered \cup {s} ELSE unanswered
  /\ UNCHANGED <<fragile, down, early>>

-----------------------------------------------------------------------------
(***************************************************************************)
(* OpenShellCommand                                                        *)
(***************************************************************************)
ShellsOf(u) == {s \in openShells : owner[s] = u}

(* The shells of the user are counted; the mutex is released. *)
BeginOpen(p, u) ==
  /\ Cardinality(ShellsOf(u)) < UserLimit
  /\ Begin(p, "open", u, Nobody)
  /\ UNCHANGED <<openShells, owner, session, reader, inactive, manager, closeVars, inputs, panicVars>>

(* OpenShell fails. *)
OpenFails(p) ==
  /\ pc[p] = "open"
  /\ Return(p)
  /\ UNCHANGED <<openShells, owner, session, reader, inactive, manager, closeVars, inputs, panicVars>>

(* The shell is open, through SSH or else through ExecInteractive (those   *)
(* in fragile, if the provider is Clabernetes), and has its id; its reader *)
(* is started.                                                             *)
OpenSucceeds(p) ==
  LET s == CHOOSE t \in Shells : t \notin Allocated IN
  /\ pc[p] = "open"
  /\ Allocated # Shells
  /\ owner' = [owner EXCEPT ![s] = call[p].user]
  /\ session' = [session EXCEPT ![s] = "open"]
  /\ reader' = [reader EXCEPT ![s] = "reading"]
  /\ pc' = [pc EXCEPT ![p] = "insert"]
  /\ call' = [call EXCEPT ![p].shell = s]
  /\ UNCHANGED <<openShells, inactive, manager, closeVars, inputs, panicVars>>

(* The map is locked again and the shell entered. *)
Insert(p) ==
  /\ pc[p] = "insert"
  /\ openShells' = openShells \cup {call[p].shell}
  /\ Return(p)
  /\ UNCHANGED <<owner, session, reader, inactive, manager, closeVars, inputs, panicVars>>

-----------------------------------------------------------------------------
(***************************************************************************)
(* CloseShellCommand, ResizeShellCommand and handleUserData                *)
(***************************************************************************)

BeginClose(p, u, s) ==
  /\ s \in openShells
  /\ u \in Admins \cup {owner[s]}
  /\ Begin(p, "delete", u, s)
  /\ UNCHANGED <<openShells, owner, session, reader, inactive, manager, closeVars, inputs, panicVars>>

Delete(p) ==
  /\ pc[p] = "delete"
  /\ openShells' = openShells \ {call[p].shell}
  /\ pc' = [pc EXCEPT ![p] = "close"]
  /\ UNCHANGED <<owner, session, reader, inactive, call, manager, closeVars, inputs, panicVars>>

CloseByUser(p) ==
  /\ pc[p] = "close"
  /\ closeShell(call[p].shell)
  /\ Recover(call[p].shell)
  /\ Return(p)
  /\ UNCHANGED <<openShells, owner, reader, inactive, manager, closeVars, inputs>>

(* ResizeShellCommand: the shell is looked up, and resized without the mutex. *)
BeginResize(p, u, s) ==
  /\ s \in openShells
  /\ u \in Admins \cup {owner[s]}
  /\ inputs < MaxInputs
  /\ Begin(p, "resize", u, s)
  /\ inputs' = inputs + 1
  /\ UNCHANGED <<openShells, owner, session, reader, inactive, manager, closeVars, panicVars>>

Resize(p) ==
  /\ pc[p] = "resize"
  /\ Recover(call[p].shell)
  /\ Return(p)
  /\ UNCHANGED <<openShells, owner, session, reader, inactive, manager, closeVars, inputs>>

(* Input of the owner: the shell is looked up. *)
BeginInput(p, s) ==
  /\ inputs < MaxInputs
  /\ s \in openShells
  /\ Begin(p, "input", owner[s], s)
  /\ inputs' = inputs + 1
  /\ UNCHANGED <<openShells, owner, session, reader, inactive, manager, closeVars, panicVars>>

(* lastInteraction is set and the input written, without the mutex; the    *)
(* shell may have been closed meanwhile.                                   *)
Input(p) ==
  /\ pc[p] = "input"
  /\ inactive' = inactive \ {call[p].shell}
  /\ Return(p)
  /\ UNCHANGED <<openShells, owner, session, reader, manager, closeVars, inputs, panicVars>>

-----------------------------------------------------------------------------
(***************************************************************************)
(* runShell                                                                *)
(***************************************************************************)

(* EOF: the shell has ended or its session has been closed. *)
ReadEof(s) ==
  /\ reader[s] = "reading"
  /\ session[s] \in {"ended", "closed"}
  /\ openShells' = openShells \ {s}
  /\ reader' = [reader EXCEPT ![s] = "close"]
  /\ early' = IF \E p \in Procs : pc[p] = "insert" /\ call[p].shell = s THEN early \cup {s} ELSE early
  /\ UNCHANGED <<owner, session, inactive, requestVars, manager, closeVars, inputs, fragile, down, unanswered>>

CloseByReader(s) ==
  /\ reader[s] = "close"
  /\ CloseOrCrash(s)
  /\ reader' = [reader EXCEPT ![s] = "over"]
  /\ UNCHANGED <<openShells, owner, inactive, requestVars, manager, closeVars, inputs>>

(* Any other error: the reader ends, the shell stays where it is. *)
ReadError(s) ==
  /\ reader[s] = "reading"
  /\ session[s] \in {"broken", "closed"}
  /\ reader' = [reader EXCEPT ![s] = "over"]
  /\ UNCHANGED <<openShells, owner, session, inactive, requestVars, manager, closeVars, inputs, panicVars>>

(* External: the shell on the node ends, or the connection to it breaks. *)
RemoteEnds(s) ==
  /\ session[s] = "open"
  /\ \E how \in {"ended", "broken"} : session' = [session EXCEPT ![s] = how]
  /\ UNCHANGED <<openShells, owner, reader, inactive, requestVars, manager, closeVars, inputs, panicVars>>

-----------------------------------------------------------------------------
(***************************************************************************)
(* runManager and Close                                                    *)
(***************************************************************************)

(* External: nothing is typed into a listed shell for longer than the      *)
(* timeout.                                                                *)
TimePasses(s) ==
  /\ s \in openShells \ inactive
  /\ inactive' = inactive \cup {s}
  /\ UNCHANGED <<openShells, owner, session, reader, requestVars, manager, closeVars, inputs, panicVars>>

(* Mutant: inactive shells are taken off the list only. *)
TimeOutForgets(s) ==
  /\ manager = "running"
  /\ s \in openShells \cap inactive
  /\ openShells' = openShells \ {s}
  /\ UNCHANGED <<owner, session, reader, inactive, requestVars, manager, closeVars, inputs, panicVars>>

(* Mutant: shells that have ended are left to their readers. *)
TimeOutOpen(s) ==
  /\ manager = "running"
  /\ s \in openShells \cap inactive
  /\ session[s] = "open"
  /\ CloseOrCrash(s)
  /\ openShells' = openShells \ {s}
  /\ UNCHANGED <<owner, reader, inactive, requestVars, manager, closeVars, inputs>>

(* One inactive shell is closed and deleted; the manager holds the mutex   *)
(* over the whole sweep.  It is not deleted if closing it panics.          *)
TimeOut(s) ==
  /\ manager = "running"
  /\ s \in openShells \cap inactive
  /\ CloseOrCrash(s)
  /\ openShells' = IF Panics(s) THEN openShells ELSE openShells \ {s}
  /\ UNCHANGED <<owner, reader, inactive, requestVars, manager, closeVars, inputs>>

ManagerStops ==
  /\ manager = "running"
  /\ closing = "yes"
  /\ manager' = "stopped"
  /\ UNCHANGED <<openShells, owner, session, reader, inactive, requestVars, closeVars, inputs, panicVars>>

(* Close cancels the manager and takes the shells out of the map. *)
ShellClose ==
  /\ closing = "no"
  /\ closing' = "yes"
  /\ left' = openShells
  /\ openShells' = {}
  /\ UNCHANGED <<owner, session, reader, inactive, requestVars, manager, inputs, panicVars>>

CloseNext(s) ==
  /\ s \in left
  /\ CloseOrCrash(s)
  /\ left' = left \ {s}
  /\ UNCHANGED <<openShells, owner, reader, inactive, requestVars, manager, closing, inputs>>

-----------------------------------------------------------------------------
Request(p) ==
  \/ \E u \in Users : BeginOpen(p, u) \/ \E s \in Shells : BeginClose(p, u, s) \/ BeginResize(p, u, s)
  \/ \E s \in Shells : BeginInput(p, s)

Serve(p) ==
  \/ OpenFails(p) \/ OpenSucceeds(p) \/ Insert(p)
  \/ Delete(p) \/ CloseByUser(p) \/ Resize(p) \/ Input(p)

Read(s) == ReadEof(s) \/ CloseByReader(s) \/ ReadError(s)

ShellNext ==
  /\ ~down
  /\ \/ \E p \in Procs : Request(p) \/ Serve(p)
     \/ \E s \in Shells : Read(s) \/ RemoteEnds(s) \/ TimePasses(s) \/ TimeOut(s) \/ CloseNext(s)
     \/ ManagerStops \/ ShellClose

ShellSpec == ShellInit /\ [][ShellNext]_shellVars

(* Goroutines go on while the server runs, the manager sweeps every five   *)
(* seconds, and a shell nobody types into becomes inactive.                *)
Fairness ==
  /\ \A p \in Procs : WF_shellVars(~down /\ Serve(p))
  /\ \A s \in Shells : /\ WF_shellVars(~down /\ Read(s))
                      /\ WF_shellVars(~down /\ TimePasses(s))
                      /\ WF_shellVars(~down /\ TimeOut(s))
                      /\ WF_shellVars(~down /\ CloseNext(s))

FairSpec == ShellSpec /\ Fairness

-----------------------------------------------------------------------------
(* Every variable holds a value of its type. *)
ShellTypeOK ==
  /\ openShells \subseteq Allocated /\ left \subseteq Allocated /\ inactive \subseteq Allocated
  /\ owner \in [Shells -> Users \cup {Nobody}]
  /\ session \in [Shells -> {"none", "open", "ended", "broken", "closed"}]
  /\ reader \in [Shells -> {"none", "reading", "close", "over"}]
  /\ pc \in [Procs -> {"idle", "open", "insert", "delete", "close", "resize", "input"}]
  /\ call \in [Procs -> [user : Users \cup {Nobody}, shell : Shells \cup {Nobody}]]
  /\ \A p \in Procs : pc[p] \in {"insert", "delete", "close", "resize", "input"} => call[p].shell \in Allocated
  /\ manager \in {"running", "stopped"}
  /\ closing \in {"no", "yes"}
  /\ fragile \subseteq Shells /\ unanswered \subseteq Allocated /\ early \subseteq Allocated
  /\ down \in BOOLEAN

(* A session that has not been closed belongs to a shell somebody can      *)
(* still close: it is listed, about to be, or on its way out.  No order of *)
(* closing, ending, timing out and shutting down drops the last reference  *)
(* to it (service.go:256-260, 285-289, 320-340, 506-511).                  *)
NoSessionIsLost ==
  \A s \in Allocated : session[s] # "closed" =>
    \/ s \in openShells \cup left
    \/ reader[s] = "close"
    \/ \E p \in Procs : pc[p] \in {"insert", "close"} /\ call[p].shell = s

(* A shell whose reader has met its end, or whose session anybody has      *)
(* closed, is off the list from then on, so it takes no input and does not *)
(* count against its user's limit; except one that ended before            *)
(* OpenShellCommand listed it, and one whose connection broke              *)
(* (service.go:256-260, 285-289, 320-332, 506-511).                        *)
EndedShellsAreOff ==
  \A s \in openShells \ early :
    /\ session[s] # "closed"
    /\ reader[s] = "reading" \/ session[s] = "broken"

(* Nothing but a session of ExecInteractive, closed twice or resized once  *)
(* closed, takes the server down or leaves a command without its answer    *)
(* (clabernetes.go:1167-1192, namespace.go:323-330).                       *)
OnlyExecSessionsPanic ==
  /\ down => \E s \in fragile : session[s] = "closed"
  /\ \A s \in unanswered : s \in fragile /\ session[s] = "closed"

(* The list of shells is well formed, no session is without a shell and no *)
(* listed shell without its session, whoever closes it                     *)
(* (service.go:212-340, 500-527).                                          *)
ShellInv ==
  /\ ShellTypeOK
  /\ NoSessionIsLost
  /\ EndedShellsAreOff
  /\ OnlyExecSessionsPanic

(* A shell whose session has ended, broken or been closed does not count   *)
(* against its user's limit for ever: it leaves the list, through its      *)
(* reader or through the manager, if the user stops typing into it and the *)
(* server is not shut down.  Where the manager closes a session of         *)
(* ExecInteractive that its reader has closed, the server goes down        *)
(* instead (service.go:320-340, 500-527).                                  *)
EndedShellsLeave ==
  \A s \in Shells :
    (s \in openShells /\ session[s] # "open") ~>
      (s \notin openShells \/ closing = "yes" \/ (down /\ fragile # {}))
=============================================================================
