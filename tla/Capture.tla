------------------------------- MODULE Capture -------------------------------
(***************************************************************************)
(* The packet captures of the SSH server (src/src/sshserver/capture.go):   *)
(* sessions that watch the same interface of a node share one capture,     *)
(* which starts with the first of them and stops with the last.            *)
(*                                                                         *)
(* Concurrent: the goroutine of every session, the goroutine that opens    *)
(* the capture of a stream, the one that reads its packets, and Close.     *)
(* What is done under openStreamsMutex or under the mutex of a stream is   *)
(* one step.  shutdown runs under the stream's closeOnce: whoever calls it *)
(* while it runs waits until it is over.                                   *)
(*                                                                         *)
(* The content of packets, the pcap format and the timing of the probes    *)
(* that find out that a client has closed its session are left out.        *)
(***************************************************************************)
EXTENDS Naturals, FiniteSets

CONSTANTS
  Interfaces,    \* what getCaptureKey tells apart
  Sessions,      \* the SSH sessions, one call of Capture each
  Streams,       \* the stream objects that may be allocated
  NoStream,      \* no entry in openStreams
  Capacity       \* of the channel of a receiver

ASSUME CaptureAssumption ==
  /\ NoStream \notin Streams
  /\ Capacity \in Nat

VARIABLES
  openStreams,   \* CaptureService.openStreams
  closed,        \* CaptureService.closed
  key,           \* stream.key, of the streams allocated so far
  receivers,     \* stream.receivers
  opened,        \* the streams whose channel opened is closed
  openErr,       \* stream.openErr: "none", "failed" or "closed"
  installed,     \* the streams whose field source is set
  done,          \* the streams whose channel done is closed
  once,          \* stream.closeOnce: "new", "running" or "over"
  opener,        \* openStream, one goroutine per stream
  reader,        \* processStream, one goroutine per stream
  pc,            \* Capture, one goroutine per session
  watched,       \* the stream a session has subscribed to
  told,          \* history: the openErr a session was given
  queued,        \* the number of packets in the channel of a session
  client,        \* external: the client of a session
  source,        \* external: the capture the provider runs for a stream
  server,        \* Server.Close and CaptureService.Close
  left           \* the streams Close has still to shut down

registry == <<openStreams, closed>>
streamVars == <<key, receivers>>
openVars == <<opened, openErr, installed, opener>>
sessionVars == <<pc, watched, told, queued, client>>
closeVars == <<server, left>>
shutdownVars == <<done, once>>
captureVars == <<registry, streamVars, openVars, shutdownVars, reader, sessionVars, source, closeVars>>

-----------------------------------------------------------------------------
CaptureInit ==
  /\ openStreams = [k \in Interfaces |-> NoStream]
  /\ closed = FALSE
  /\ key = << >>
  /\ receivers = [s \in Streams |-> {}]
  /\ opened = {}
  /\ openErr = [s \in Streams |-> "none"]
  /\ installed = {}
  /\ done = {}
  /\ once = [s \in Streams |-> "new"]
  /\ opener = [s \in Streams |-> "none"]
  /\ reader = [s \in Streams |-> "none"]
  /\ pc = [p \in Sessions |-> "new"]
  /\ watched = [p \in Sessions |-> NoStream]
  /\ told = [p \in Sessions |-> "none"]
  /\ queued = [p \in Sessions |-> 0]
  /\ client = [p \in Sessions |-> "there"]
  /\ source = [s \in Streams |-> "none"]
  /\ server = "running"
  /\ left = {}

-----------------------------------------------------------------------------
(***************************************************************************)
(* subscribe and unsubscribe                                               *)
(***************************************************************************)
Allocated == DOMAIN key

SubscribeRefused(p) ==
  /\ pc[p] = "new"
  /\ closed
  /\ pc' = [pc EXCEPT ![p] = "ended"]
  /\ told' = [told EXCEPT ![p] = "closed"]
  /\ UNCHANGED <<registry, streamVars, openVars, shutdownVars, reader, watched, queued, client,
                 source, closeVars>>

Join(p, s) ==
  /\ receivers' = [receivers EXCEPT ![s] = @ \cup {p}]
  /\ watched' = [watched EXCEPT ![p] = s]
  /\ pc' = [pc EXCEPT ![p] = "waiting"]

(* The interface is being captured already. *)
SubscribeJoins(p, k) ==
  /\ pc[p] = "new"
  /\ ~closed
  /\ openStreams[k] # NoStream
  /\ Join(p, openStreams[k])
  /\ UNCHANGED <<registry, key, openVars, shutdownVars, reader, told, queued, client, source, closeVars>>

(* It is not: a new stream, and a goroutine that opens the capture. *)
SubscribeOpens(p, k) ==
  LET s == CHOOSE t \in Streams : t \notin Allocated IN
  /\ pc[p] = "new"
  /\ ~closed
  /\ openStreams[k] = NoStream
  /\ Allocated # Streams
  /\ key' = [t \in Allocated \cup {s} |-> IF t = s THEN k ELSE key[t]]
  /\ openStreams' = [openStreams EXCEPT ![k] = s]
  /\ opener' = [opener EXCEPT ![s] = "opening"]
  /\ Join(p, s)
  /\ UNCHANGED <<closed, opened, openErr, installed, shutdownVars, reader, told, queued, client,
                 source, closeVars>>

(* The channel opened is closed without error: the session writes the pcap *)
(* header.                                                                 *)
WaitEnds(p) ==
  /\ pc[p] = "waiting"
  /\ watched[p] \in opened /\ openErr[watched[p]] = "none"
  /\ pc' = [pc EXCEPT ![p] = "writing"]
  /\ UNCHANGED <<registry, streamVars, openVars, shutdownVars, reader, watched, told, queued, client,
                 source, closeVars>>

(* Mutant: a write that fails is not noticed. *)
LeavesUnlessWriting(p, err) ==
  \/ pc[p] = "waiting" /\ watched[p] \in opened /\ openErr[watched[p]] = err /\ err # "none"
  \/ pc[p] = "waiting" /\ client[p] = "gone" /\ err = "none"
  \/ pc[p] = "watching" /\ (client[p] # "there" \/ watched[p] \in done) /\ err = "none"

(* A session that waits leaves with the error of the stream, or when its   *)
(* connection is gone.  One that watches leaves when its client has closed *)
(* the session or is gone, which a probe, the context or a write that      *)
(* fails tells, and between two packets when the capture has ended.        *)
LeavesWith(p, err) ==
  \/ pc[p] = "waiting" /\ watched[p] \in opened /\ openErr[watched[p]] = err /\ err # "none"
  \/ pc[p] = "waiting" /\ client[p] = "gone" /\ err = "none"
  \/ pc[p] \in {"watching", "writing"} /\ client[p] # "there" /\ err = "none"
  \/ pc[p] = "watching" /\ watched[p] \in done /\ err = "none"

(* The entry is removed only if it is still this stream. *)
Unregister(s) ==
  openStreams' = IF openStreams[key[s]] = s THEN [openStreams EXCEPT ![key[s]] = NoStream] ELSE openStreams

(* unsubscribe drops the receiver.  What makes a session leave stays true, *)
(* so that deciding to leave and taking the mutex are one step.            *)
Unsubscribe(p) ==
  /\ \E err \in {"none", "failed", "closed"} : LeavesWith(p, err) /\ told' = [told EXCEPT ![p] = err]
  /\ receivers' = [receivers EXCEPT ![watched[p]] = @ \ {p}]
  /\ queued' = [queued EXCEPT ![p] = 0]
  /\ UNCHANGED <<closed, key, openVars, shutdownVars, reader, watched, client, source, closeVars>>

(* Mutant: the last session leaves the entry in the registry. *)
LeaveRegistered(p) ==
  /\ Unsubscribe(p)
  /\ pc' = [pc EXCEPT ![p] = IF receivers'[watched[p]] = {} THEN "shutdown" ELSE "ended"]
  /\ UNCHANGED openStreams

(* The last one takes the stream out of the registry and will shut it      *)
(* down.                                                                   *)
Leave(p) ==
  /\ Unsubscribe(p)
  /\ \/ /\ receivers'[watched[p]] = {}
        /\ Unregister(watched[p])
        /\ pc' = [pc EXCEPT ![p] = "shutdown"]
     \/ /\ receivers'[watched[p]] # {}
        /\ UNCHANGED openStreams
        /\ pc' = [pc EXCEPT ![p] = "ended"]

(* Its call of shutdown returns. *)
SessionEnds(p) ==
  /\ pc[p] = "shutdown"
  /\ once[watched[p]] = "over"
  /\ pc' = [pc EXCEPT ![p] = "ended"]
  /\ UNCHANGED <<registry, streamVars, openVars, shutdownVars, reader, watched, told, queued, client,
                 source, closeVars>>

-----------------------------------------------------------------------------
(***************************************************************************)
(* writeStream: a session that watches takes packets from its channel and  *)
(* writes them to its client, which may take any time.                     *)
(***************************************************************************)
TakePacket(p) ==
  /\ pc[p] = "watching"
  /\ queued[p] > 0
  /\ queued' = [queued EXCEPT ![p] = @ - 1]
  /\ pc' = [pc EXCEPT ![p] = "writing"]
  /\ UNCHANGED <<registry, streamVars, openVars, shutdownVars, reader, watched, told, client,
                 source, closeVars>>

WritePacket(p) ==
  /\ pc[p] = "writing"
  /\ pc' = [pc EXCEPT ![p] = "watching"]
  /\ UNCHANGED <<registry, streamVars, openVars, shutdownVars, reader, watched, told, queued, client,
                 source, closeVars>>

(* External: a client closes its session, keeping the connection or not. *)
ClientLeaves(p) ==
  /\ pc[p] # "ended"
  /\ client[p] = "there"
  /\ client' \in {[client EXCEPT ![p] = c] : c \in {"closed", "gone"}}
  /\ UNCHANGED <<registry, streamVars, openVars, shutdownVars, reader, pc, watched, told, queued,
                 source, closeVars>>

-----------------------------------------------------------------------------
(***************************************************************************)
(* openStream.  External: OpenCapture may succeed or fail, and may succeed *)
(* though its context has been cancelled.                                  *)
(***************************************************************************)
OpenSucceeds(s) ==
  /\ opener[s] = "opening"
  /\ source' = [source EXCEPT ![s] = "open"]
  /\ opener' = [opener EXCEPT ![s] = "check"]
  /\ UNCHANGED <<registry, streamVars, opened, openErr, installed, shutdownVars, reader, sessionVars, closeVars>>

(* Mutant: nobody is told. *)
OpenFailsSilently(s) ==
  /\ opener[s] = "opening"
  /\ opener' = [opener EXCEPT ![s] = "over"]
  /\ openErr' = [openErr EXCEPT ![s] = "failed"]
  /\ UNCHANGED <<registry, streamVars, opened, installed, shutdownVars, reader, sessionVars, source, closeVars>>

(* captureEnded, in the goroutine that opens. *)
OpenFails(s) ==
  /\ opener[s] = "opening"
  /\ openErr' = [openErr EXCEPT ![s] = "failed"]
  /\ opener' = [opener EXCEPT ![s] = "shutdown"]
  /\ Unregister(s)
  /\ UNCHANGED <<closed, streamVars, opened, installed, shutdownVars, reader, sessionVars, source, closeVars>>

(* Under the mutex of the stream: the source is installed unless the       *)
(* stream has been shut down meanwhile.                                    *)
Install(s) ==
  /\ opener[s] = "check"
  /\ \/ s \in done /\ opener' = [opener EXCEPT ![s] = "discard"] /\ UNCHANGED installed
     \/ s \notin done /\ opener' = [opener EXCEPT ![s] = "start"] /\ installed' = installed \cup {s}
  /\ UNCHANGED <<registry, streamVars, opened, openErr, shutdownVars, reader, sessionVars, source, closeVars>>

Discard(s) ==
  /\ opener[s] = "discard"
  /\ source' = [source EXCEPT ![s] = "closed"]
  /\ openErr' = [openErr EXCEPT ![s] = "closed"]
  /\ opener' = [opener EXCEPT ![s] = "signal"]
  /\ UNCHANGED <<registry, streamVars, opened, installed, shutdownVars, reader, sessionVars, closeVars>>

StartReader(s) ==
  /\ opener[s] = "start"
  /\ reader' = [reader EXCEPT ![s] = "reading"]
  /\ opener' = [opener EXCEPT ![s] = "signal"]
  /\ UNCHANGED <<registry, streamVars, opened, openErr, installed, shutdownVars, sessionVars, source, closeVars>>

(* The deferred close(captureStream.opened). *)
SignalOpened(s) ==
  /\ opener[s] = "signal"
  /\ opened' = opened \cup {s}
  /\ opener' = [opener EXCEPT ![s] = "over"]
  /\ UNCHANGED <<registry, streamVars, openErr, installed, shutdownVars, reader, sessionVars, source, closeVars>>

-----------------------------------------------------------------------------
(***************************************************************************)
(* processStream                                                           *)
(***************************************************************************)

(* Mutant: the reader stands still if the channel of a receiver is full. *)
ForwardWaits(s) ==
  /\ reader[s] = "reading"
  /\ source[s] = "open"
  /\ \/ /\ \A p \in receivers[s] : queued[p] < Capacity
        /\ queued' = [p \in Sessions |-> IF p \in receivers[s] THEN queued[p] + 1 ELSE queued[p]]
        /\ UNCHANGED reader
     \/ /\ \E p \in receivers[s] : queued[p] = Capacity
        /\ reader' = [reader EXCEPT ![s] = "none"]
        /\ UNCHANGED queued
  /\ UNCHANGED <<registry, streamVars, openVars, shutdownVars, pc, watched, told, client, source, closeVars>>

(* A packet goes to every receiver that has room for it. *)
Forward(s) ==
  /\ reader[s] = "reading"
  /\ source[s] = "open"
  /\ queued' = [p \in Sessions |-> IF p \in receivers[s] /\ queued[p] < Capacity THEN queued[p] + 1 ELSE queued[p]]
  /\ UNCHANGED <<registry, streamVars, openVars, shutdownVars, reader, pc, watched, told, client,
                 source, closeVars>>

(* captureEnded, in the goroutine that reads: the source has ended or has  *)
(* been closed.                                                            *)
ReadFails(s) ==
  /\ reader[s] = "reading"
  /\ source[s] # "open"
  /\ reader' = [reader EXCEPT ![s] = "shutdown"]
  /\ Unregister(s)
  /\ UNCHANGED <<closed, streamVars, openVars, shutdownVars, sessionVars, source, closeVars>>

(* External: the node stops. *)
NodeStops(s) ==
  /\ source[s] = "open"
  /\ source' = [source EXCEPT ![s] = "ended"]
  /\ UNCHANGED <<registry, streamVars, openVars, shutdownVars, reader, sessionVars, closeVars>>

(* The call of shutdown by captureEnded returns. *)
CaptureEnded(s) ==
  /\ once[s] = "over"
  /\ \/ /\ opener[s] = "shutdown"
        /\ opener' = [opener EXCEPT ![s] = "signal"]
        /\ UNCHANGED reader
     \/ /\ reader[s] = "shutdown"
        /\ reader' = [reader EXCEPT ![s] = "over"]
        /\ UNCHANGED opener
  /\ UNCHANGED <<registry, streamVars, opened, openErr, installed, shutdownVars, sessionVars, source, closeVars>>

-----------------------------------------------------------------------------
(***************************************************************************)
(* shutdown                                                                *)
(***************************************************************************)

(* Somebody has called it and not returned. *)
ShutdownCalled(s) ==
  \/ opener[s] = "shutdown" \/ reader[s] = "shutdown"
  \/ server = "closing" /\ s \in left
  \/ \E p \in Sessions : pc[p] = "shutdown" /\ watched[p] = s

(* The first caller cancels the context and closes done. *)
ShutdownBegins(s) ==
  /\ ShutdownCalled(s)
  /\ once[s] = "new"
  /\ once' = [once EXCEPT ![s] = "running"]
  /\ done' = done \cup {s}
  /\ UNCHANGED <<registry, streamVars, openVars, reader, sessionVars, source, closeVars>>

(* It takes the mutex of the stream and closes the source, if there is one *)
(* by now.                                                                 *)
ShutdownCloses(s) ==
  /\ once[s] = "running"
  /\ once' = [once EXCEPT ![s] = "over"]
  /\ source' = IF s \in installed THEN [source EXCEPT ![s] = "closed"] ELSE source
  /\ UNCHANGED <<registry, streamVars, openVars, done, reader, sessionVars, closeVars>>

-----------------------------------------------------------------------------
(***************************************************************************)
(* Server.Close, which closes all connections and then CaptureService      *)
(***************************************************************************)
ServerCloses ==
  /\ server = "running"
  /\ server' = "disconnected"
  /\ client' = [p \in Sessions |-> "gone"]
  /\ UNCHANGED <<registry, streamVars, openVars, shutdownVars, reader, pc, watched, told, queued, source, left>>

(* CaptureService.Close takes the streams out of the registry and shuts    *)
(* them down one after the other, in any order; the model also allows the  *)
(* shutdowns to overlap.                                                   *)
CaptureClose ==
  /\ server = "disconnected"
  /\ server' = "closing"
  /\ closed' = TRUE
  /\ left' = {openStreams[k] : k \in Interfaces} \ {NoStream}
  /\ openStreams' = [k \in Interfaces |-> NoStream]
  /\ UNCHANGED <<streamVars, openVars, shutdownVars, reader, sessionVars, source>>

CloseGoesOn(s) ==
  /\ server = "closing"
  /\ s \in left /\ once[s] = "over"
  /\ left' = left \ {s}
  /\ UNCHANGED <<registry, streamVars, openVars, shutdownVars, reader, sessionVars, source, server>>

-----------------------------------------------------------------------------
SessionStep(p) == WaitEnds(p) \/ Leave(p) \/ SessionEnds(p)

OpenerStep(s) ==
  \/ OpenSucceeds(s) \/ OpenFails(s) \/ Install(s) \/ Discard(s) \/ StartReader(s) \/ SignalOpened(s)

StreamStep(s) ==
  \/ ReadFails(s) \/ CaptureEnded(s)
  \/ ShutdownBegins(s) \/ ShutdownCloses(s) \/ CloseGoesOn(s)

CaptureNext ==
  \/ \E p \in Sessions : SubscribeRefused(p) \/ SessionStep(p) \/ TakePacket(p) \/ WritePacket(p) \/ ClientLeaves(p)
  \/ \E p \in Sessions, k \in Interfaces :
       SubscribeJoins(p, k) \/ SubscribeOpens(p, k)
  \/ \E s \in Streams : OpenerStep(s) \/ StreamStep(s) \/ Forward(s) \/ NodeStops(s)
  \/ ServerCloses \/ CaptureClose

CaptureSpec == CaptureInit /\ [][CaptureNext]_captureVars

(* OpenCapture returns, and goroutines go on.  A packet need not come, a   *)
(* client need not take what is written to it, and need not leave.         *)
Fairness ==
  /\ \A p \in Sessions : WF_captureVars(SessionStep(p))
  /\ \A s \in Streams : WF_captureVars(OpenerStep(s)) /\ WF_captureVars(StreamStep(s))
  /\ WF_captureVars(CaptureClose)

FairSpec == CaptureSpec /\ Fairness

-----------------------------------------------------------------------------
(* Every variable holds a value of its type. *)
CaptureTypeOK ==
  /\ openStreams \in [Interfaces -> Streams \cup {NoStream}]
  /\ closed \in BOOLEAN
  /\ Allocated \subseteq Streams /\ \A s \in Allocated : key[s] \in Interfaces
  /\ receivers \in [Streams -> SUBSET Sessions]
  /\ opened \subseteq Allocated /\ installed \subseteq Allocated /\ done \subseteq Allocated /\ left \subseteq Allocated
  /\ openErr \in [Streams -> {"none", "failed", "closed"}]
  /\ once \in [Streams -> {"new", "running", "over"}]
  /\ opener \in [Streams -> {"none", "opening", "check", "discard", "start", "shutdown", "signal", "over"}]
  /\ reader \in [Streams -> {"none", "reading", "shutdown", "over"}]
  /\ pc \in [Sessions -> {"new", "waiting", "writing", "watching", "shutdown", "ended"}]
  /\ watched \in [Sessions -> Streams \cup {NoStream}]
  /\ \A p \in Sessions : pc[p] \in {"waiting", "writing", "watching", "shutdown"} => watched[p] \in Allocated
  /\ told \in [Sessions -> {"none", "failed", "closed"}]
  /\ queued \in [Sessions -> 0 .. Capacity]
  /\ client \in [Sessions -> {"there", "closed", "gone"}]
  /\ source \in [Streams -> {"none", "open", "ended", "closed"}]
  /\ server \in {"running", "disconnected", "closing"}

(* "A session can't join a stream that is being shut down" (capture.go:    *)
(* 187-188): a stream in the registry has a receiver, and nobody has       *)
(* called shutdown on it.                                                  *)
RegisteredStreamsAreLive ==
  \A k \in Interfaces : openStreams[k] # NoStream =>
    LET s == openStreams[k] IN
    key[s] = k /\ receivers[s] # {} /\ once[s] = "new" /\ ~ShutdownCalled(s)

(* No capture is left running without anybody to stop it, whenever its     *)
(* sessions leave while it is being opened: once its opener is over a      *)
(* source that runs belongs to a stream that is in the registry or about   *)
(* to be shut down (capture.go:171-182, 242-257).                          *)
NoCaptureIsLeaked ==
  \A s \in Allocated : (source[s] = "open" /\ opener[s] = "over") =>
    openStreams[key[s]] = s \/ ShutdownCalled(s) \/ once[s] = "running"

(* A session is told that the service is shutting down only if it is: the  *)
(* openErr of a stream its last session has left reaches nobody            *)
(* (capture.go:171-179).                                                   *)
RefusedOnlyByClose ==
  \A p \in Sessions : told[p] = "closed" => closed

(* The registry of streams: those in it can be joined, those that are not  *)
(* run no capture, and nobody is refused while the service is open         *)
(* (capture.go:106-257).                                                   *)
StreamInv ==
  /\ CaptureTypeOK
  /\ RegisteredStreamsAreLive
  /\ NoCaptureIsLeaked
  /\ RefusedOnlyByClose

(* A session that waits for a capture to be opened is answered, whether    *)
(* opening succeeds, fails or is cancelled by others (capture.go:145-155). *)
WaitersAreAnswered ==
  \A p \in Sessions : pc[p] = "waiting" ~> pc[p] # "waiting"

(* A capture whose node stops is ended and taken out of the registry, even *)
(* if its sessions have stopped reading (capture.go:209-229).              *)
StoppedNodesEndCaptures ==
  \A s \in Streams : (source[s] = "ended" /\ opener[s] = "over") ~> (s \in done /\ \A k \in Interfaces : openStreams[k] # s)

(* Closing the server ends every session and stops every capture, those    *)
(* that are being opened included, even if a client does not read          *)
(* (capture.go:94-104, sshserver.go:91-104).                               *)
CloseEndsSessions ==
  server = "closing" ~> /\ \A p \in Sessions : pc[p] \in {"new", "ended"}
                        /\ \A s \in Streams : source[s] # "open"
=============================================================================
