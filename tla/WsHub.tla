------------------------------- MODULE WsHub -------------------------------
(***************************************************************************)
(* The ws-gateway: the hub of WebSocket clients, the subscriber that       *)
(* broadcasts every Pub/Sub message to them, and the three goroutines of   *)
(* each client (write pump, ping ticker, read pump).                       *)
(*                                                                         *)
(* Frames are numbered in the order in which the subscriber gets them.     *)
(* h.mu is held for reading during a broadcast; Register and Unregister    *)
(* need it for writing, and keep new readers out while they wait for it.   *)
(* WriteMessage has a beginning and an end, because the write pump and the *)
(* ping ticker use a connection without a lock.                            *)
(***************************************************************************)
EXTENDS Naturals, Sequences, FiniteSets, SequencesExt

CONSTANTS
  Client,
  SendCap,     \* capacity of Client.send (256 in the code)
  MaxFrames    \* bound on the frames broadcast

ASSUME WsHubAssumption == SendCap \in Nat \ {0} /\ MaxFrames \in Nat

VARIABLES
  clients,     \* h.clients
  send,        \* contents of the channel Client.send
  closed,      \* clients whose send channel is closed
  done,        \* clients whose done channel is closed
  conn,        \* "none", "open", "silent" (peer gone unnoticed), "broken", "closed"
  writer,      \* write pump: where it is, and the frame it is writing
  pinger,      \* ping ticker goroutine
  reader,      \* read pump, which is the HTTP handler
  frames,      \* number of frames broadcast or being broadcast
  todo,        \* clients the broadcast in progress has still to serve
  casting,     \* a broadcast is in progress: h.mu is held for reading
  since,       \* history: frames broadcast before the client was registered
  missed,      \* history: frames dropped because the client's channel was full
  taken,       \* history: frames the write pump has taken out of the channel
  died         \* the process has panicked

hubVars == <<clients, send, closed>>
connVars == <<done, conn, writer, pinger, reader>>
castVars == <<frames, todo, casting>>
histVars == <<since, missed, taken>>
vars == <<hubVars, connVars, castVars, histVars, died>>

ReaderPC == {"none", "register", "reading", "unregister", "ended"}

\* A client is in the map from Register to Unregister, and its channel is open so long.
TypeOK ==
  /\ clients = {c \in Client : reader[c] \in {"reading", "unregister"}}
  /\ send \in [Client -> Seq(1..frames)]
  /\ \A c \in Client : Len(send[c]) <= SendCap
  /\ closed = {c \in Client : reader[c] = "ended"}
  /\ done \subseteq Client
  /\ conn \in [Client -> {"none", "open", "silent", "broken", "closed"}]
  /\ writer \in [Client -> {"none", "select", "write", "ended"}]
  /\ pinger \in [Client -> {"none", "select", "write", "ended"}]
  /\ reader \in [Client -> ReaderPC]
  /\ frames \in 0..MaxFrames
  /\ todo \subseteq clients
  /\ casting \in BOOLEAN
  /\ since \in [Client -> 0..MaxFrames]
  /\ missed \in [Client -> SUBSET (1..MaxFrames)]
  /\ taken \in [Client -> Seq(1..MaxFrames)]
  /\ died \in BOOLEAN

Init ==
  /\ clients = {}
  /\ send = [c \in Client |-> <<>>]
  /\ closed = {}
  /\ done = {}
  /\ conn = [c \in Client |-> "none"]
  /\ writer = [c \in Client |-> "none"]
  /\ pinger = [c \in Client |-> "none"]
  /\ reader = [c \in Client |-> "none"]
  /\ frames = 0
  /\ todo = {}
  /\ casting = FALSE
  /\ since = [c \in Client |-> 0]
  /\ missed = [c \in Client |-> {}]
  /\ taken = [c \in Client |-> <<>>]
  /\ died = FALSE

-----------------------------------------------------------------------------
(* Broadcast, in the goroutine of startRedisSubscriber.                    *)

Waiting(c) == reader[c] \in {"register", "unregister"}

\* A message arrives and the read lock is taken, which a waiting writer prevents.  A
\* client that is about to call Register or Unregister counts as waiting already.
BroadcastBegin ==
  /\ ~casting
  /\ \A c \in Client : ~Waiting(c)
  /\ frames < MaxFrames
  /\ frames' = frames + 1
  /\ todo' = clients
  /\ casting' = TRUE
  /\ UNCHANGED <<hubVars, connVars, histVars, died>>

\* Defect: the loop ends at the first slow client.
BroadcastSendReturns(c) ==
  /\ c \in todo
  /\ IF Len(send[c]) < SendCap
       THEN /\ send' = [send EXCEPT ![c] = Append(@, frames)]
            /\ todo' = todo \ {c}
            /\ UNCHANGED missed
       ELSE /\ missed' = [missed EXCEPT ![c] = @ \cup {frames}]
            /\ todo' = {}
            /\ UNCHANGED send
  /\ UNCHANGED <<clients, closed, connVars, frames, casting, since, taken, died>>

\* One client gets the frame, or misses it if its channel is full; a send on a closed
\* channel panics.
BroadcastSend(c) ==
  /\ c \in todo
  /\ todo' = todo \ {c}
  /\ died' = (c \in closed)
  /\ IF Len(send[c]) < SendCap
       THEN send' = [send EXCEPT ![c] = Append(@, frames)] /\ UNCHANGED missed
       ELSE missed' = [missed EXCEPT ![c] = @ \cup {frames}] /\ UNCHANGED send
  /\ UNCHANGED <<clients, closed, connVars, frames, casting, since, taken>>

BroadcastEnd ==
  /\ casting
  /\ todo = {}
  /\ casting' = FALSE
  /\ UNCHANGED <<hubVars, connVars, frames, todo, histVars, died>>

-----------------------------------------------------------------------------
(* streamHandler: the read pump.                                           *)

\* Upgrade succeeds and the client record is made.
Connect(c) ==
  /\ reader[c] = "none"
  /\ reader' = [reader EXCEPT ![c] = "register"]
  /\ conn' = [conn EXCEPT ![c] = "open"]
  /\ UNCHANGED <<hubVars, done, writer, pinger, castVars, histVars, died>>

\* The client joins the hub; then its two other goroutines are started and reading
\* begins.
Register(c) ==
  /\ reader[c] = "register"
  /\ ~casting
  /\ clients' = clients \cup {c}
  /\ since' = [since EXCEPT ![c] = frames]
  /\ reader' = [reader EXCEPT ![c] = "reading"]
  /\ writer' = [writer EXCEPT ![c] = "select"]
  /\ pinger' = [pinger EXCEPT ![c] = "select"]
  /\ UNCHANGED <<send, closed, done, conn, castVars, missed, taken, died>>

\* Defect: no read deadline is set.
ReadFailsNoDeadline(c) ==
  /\ reader[c] = "reading"
  /\ conn[c] \notin {"open", "silent"}
  /\ reader' = [reader EXCEPT ![c] = "unregister"]
  /\ done' = done \cup {c}
  /\ UNCHANGED <<hubVars, conn, writer, pinger, castVars, histVars, died>>

\* ReadMessage returns an error: the connection is gone, or nothing came for 60 s.
ReadFails(c) ==
  /\ reader[c] = "reading"
  /\ conn[c] # "open"
  /\ reader' = [reader EXCEPT ![c] = "unregister"]
  /\ done' = done \cup {c}
  /\ UNCHANGED <<hubVars, conn, writer, pinger, castVars, histVars, died>>

\* Defect: the channel is closed without the lock.
UnregisterUnlocked(c) ==
  /\ reader[c] = "unregister"
  /\ clients' = clients \ {c}
  /\ closed' = closed \cup {c}
  /\ reader' = [reader EXCEPT ![c] = "ended"]
  /\ conn' = [conn EXCEPT ![c] = "closed"]
  /\ UNCHANGED <<send, done, writer, pinger, castVars, histVars, died>>

\* Defect: the client stays in the map.
UnregisterKeeps(c) ==
  /\ reader[c] = "unregister"
  /\ ~casting
  /\ closed' = closed \cup {c}
  /\ reader' = [reader EXCEPT ![c] = "ended"]
  /\ conn' = [conn EXCEPT ![c] = "closed"]
  /\ UNCHANGED <<clients, send, done, writer, pinger, castVars, histVars, died>>

\* The client leaves the hub and its channel is closed, under the lock; then the
\* handler closes the connection and returns.
Unregister(c) ==
  /\ reader[c] = "unregister"
  /\ ~casting
  /\ clients' = clients \ {c}
  /\ closed' = closed \cup {c}
  /\ reader' = [reader EXCEPT ![c] = "ended"]
  /\ conn' = [conn EXCEPT ![c] = "closed"]
  /\ UNCHANGED <<send, done, writer, pinger, castVars, histVars, died>>

-----------------------------------------------------------------------------
(* The write pump and the ping ticker.                                     *)

\* A goroutine enters WriteMessage.  The library panics when it meets another writer in
\* the connection, or fails to notice.
Enter(other) == died' \in (IF other = "write" THEN BOOLEAN ELSE {FALSE})

\* WriteMessage may return nil unless the connection is known to be gone, and may
\* return an error unless the peer is there.
WriteOK(c) == conn[c] \in {"open", "silent"}
WriteError(c) == conn[c] # "open"

\* The pump takes a frame and begins to write it.
WriterTakes(c) ==
  /\ writer[c] = "select"
  /\ send[c] # <<>>
  /\ send' = [send EXCEPT ![c] = Tail(@)]
  /\ taken' = [taken EXCEPT ![c] = Append(@, Head(send[c]))]
  /\ writer' = [writer EXCEPT ![c] = "write"]
  /\ Enter(pinger[c])
  /\ UNCHANGED <<clients, closed, done, conn, pinger, reader, castVars, since, missed>>

\* The write is over: the pump goes on, or returns and closes the connection.
WriterDone(c) ==
  /\ writer[c] = "write"
  /\ \/ /\ WriteOK(c)
        /\ writer' = [writer EXCEPT ![c] = "select"]
        /\ UNCHANGED conn
     \/ /\ WriteError(c)
        /\ writer' = [writer EXCEPT ![c] = "ended"]
        /\ conn' = [conn EXCEPT ![c] = "closed"]
  /\ UNCHANGED <<hubVars, done, pinger, reader, castVars, histVars, died>>

\* done is closed, or send is closed and empty: the pump returns.
WriterEnds(c) ==
  /\ writer[c] = "select"
  /\ c \in done \/ (c \in closed /\ send[c] = <<>>)
  /\ writer' = [writer EXCEPT ![c] = "ended"]
  /\ conn' = [conn EXCEPT ![c] = "closed"]
  /\ UNCHANGED <<hubVars, done, pinger, reader, castVars, histVars, died>>

\* 30 s have passed and the ticker begins to write a ping.
PingTakes(c) ==
  /\ pinger[c] = "select"
  /\ pinger' = [pinger EXCEPT ![c] = "write"]
  /\ Enter(writer[c])
  /\ UNCHANGED <<hubVars, done, conn, writer, reader, castVars, histVars>>

PingDone(c) ==
  /\ pinger[c] = "write"
  /\ \/ WriteOK(c) /\ pinger' = [pinger EXCEPT ![c] = "select"]
     \/ WriteError(c) /\ pinger' = [pinger EXCEPT ![c] = "ended"]
  /\ UNCHANGED <<hubVars, done, conn, writer, reader, castVars, histVars, died>>

PingEnds(c) ==
  /\ pinger[c] = "select"
  /\ c \in done
  /\ pinger' = [pinger EXCEPT ![c] = "ended"]
  /\ UNCHANGED <<hubVars, done, conn, writer, reader, castVars, histVars, died>>

\* The browser closes the connection, or vanishes.
PeerLeaves(c) ==
  /\ conn[c] = "open"
  /\ \E how \in {"silent", "broken"} : conn' = [conn EXCEPT ![c] = how]
  /\ UNCHANGED <<hubVars, done, writer, pinger, reader, castVars, histVars, died>>

-----------------------------------------------------------------------------
CastStep == BroadcastBegin \/ (\E c \in Client : BroadcastSend(c)) \/ BroadcastEnd

HandlerStep(c) == Register(c) \/ ReadFails(c) \/ Unregister(c)

WriterStep(c) == WriterTakes(c) \/ WriterDone(c) \/ WriterEnds(c)

\* Nothing happens in a process that has died.
Next ==
  /\ ~died
  /\ \/ CastStep
     \/ \E c \in Client :
          \/ Connect(c) \/ HandlerStep(c) \/ PeerLeaves(c)
          \/ WriterStep(c)
          \/ PingTakes(c) \/ PingDone(c) \/ PingEnds(c)

Spec == Init /\ [][Next]_vars

\* The goroutines go on, and the select of a ping ticker whose done channel is closed
\* does not choose the tick for ever.
FairSpec ==
  /\ Spec
  /\ WF_vars(~died /\ CastStep)
  /\ \A c \in Client :
       /\ WF_vars(~died /\ HandlerStep(c))
       /\ WF_vars(~died /\ WriterStep(c))
       /\ WF_vars(~died /\ PingDone(c))
       /\ SF_vars(~died /\ PingEnds(c))

-----------------------------------------------------------------------------
\* "Safely close while locked": no broadcast ever holds a client whose channel has been
\* closed, so a send on a closed channel cannot take the gateway down.
NoSendOnClosed == todo \cap closed = {}

Got(c) == taken[c] \o send[c]

\* A client's frames come in order and without repetition, and it misses a frame only
\* because its own channel was full: a slow client costs no other client a frame.
FramesComplete ==
  \A c \in clients :
    /\ \A i, j \in 1..Len(Got(c)) : i < j => Got(c)[i] < Got(c)[j]
    /\ \A m \in (since[c] + 1)..frames :
         m \in Range(Got(c)) \cup missed[c] \/ (m = frames /\ c \in todo)

\* "Read pump ... cleans up everything": once its connection is no longer usable, a
\* client leaves the hub and all its goroutines end, unless the process dies.
DeadClientsLeave ==
  \A c \in Client :
    reader[c] = "reading" /\ conn[c] # "open" ~>
      died \/ (c \notin clients /\ {reader[c], writer[c], pinger[c]} = {"ended"})
=============================================================================
