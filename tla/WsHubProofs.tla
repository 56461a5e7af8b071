---------------------------- MODULE WsHubProofs ----------------------------
(***************************************************************************)
(* Proofs about WsHub, for any number of clients, frames and any capacity. *)
(***************************************************************************)
EXTENDS WsHub, SequenceTheorems, TLAPS

\* Outside a broadcast nobody is to be served, and inside there is a frame.
Served ==
  /\ ~casting => todo = {}
  /\ todo # {} => frames > 0

HubInv == TypeOK /\ Served

LEMMA HubInit == Init => HubInv
<1> SUFFICES ASSUME Init PROVE HubInv
  OBVIOUS
<1>1. send \in [Client -> Seq(1..frames)] /\ \A c \in Client : Len(send[c]) = 0
  BY DEF Init
<1>2. taken \in [Client -> Seq(1..MaxFrames)]
  BY DEF Init
<1>3. /\ frames \in 0..MaxFrames /\ since \in [Client -> 0..MaxFrames]
      /\ \A n \in {0} : n <= SendCap
  BY WsHubAssumption DEF Init
<1>4. /\ clients = {c \in Client : reader[c] \in {"reading", "unregister"}}
      /\ closed = {c \in Client : reader[c] = "ended"}
  BY DEF Init
<1> QED BY <1>1, <1>2, <1>3, <1>4 DEF Init, HubInv, TypeOK, Served, ReaderPC

LEMMA HubStep == HubInv /\ [Next]_vars => HubInv'
<1> SUFFICES ASSUME HubInv, [Next]_vars PROVE HubInv'
  OBVIOUS
<1> USE WsHubAssumption DEF HubInv, TypeOK, Served, ReaderPC
<1>1. CASE BroadcastBegin
  <2>1. Seq(1..frames) \subseteq Seq(1..frames')
    BY <1>1 DEF BroadcastBegin
  <2> QED BY <1>1, <2>1 DEF BroadcastBegin, hubVars, connVars, histVars
<1>2. ASSUME NEW c \in Client, BroadcastSend(c) PROVE HubInv'
  <2>1. frames \in 1..frames /\ frames \in 1..MaxFrames
    BY <1>2 DEF BroadcastSend
  <2>2. send' \in [Client -> Seq(1..frames)] /\ \A d \in Client : Len(send'[d]) <= SendCap
    <3>1. CASE Len(send[c]) < SendCap
      <4>1. send' = [send EXCEPT ![c] = Append(send[c], frames)]
        BY <1>2, <3>1 DEF BroadcastSend
      <4>2. /\ Append(send[c], frames) \in Seq(1..frames)
            /\ Len(Append(send[c], frames)) = Len(send[c]) + 1
        BY <2>1
      <4>3. Len(send[c]) \in Nat
        OBVIOUS
      <4> QED BY <3>1, <4>1, <4>2, <4>3
    <3>2. CASE ~(Len(send[c]) < SendCap)
      BY <1>2, <3>2 DEF BroadcastSend
    <3> QED BY <3>1, <3>2
  <2>3. missed' \in [Client -> SUBSET (1..MaxFrames)]
    <3>1. missed' = missed \/ missed' = [missed EXCEPT ![c] = missed[c] \cup {frames}]
      BY <1>2 DEF BroadcastSend
    <3>2. missed \in [Client -> SUBSET (1..MaxFrames)]
      OBVIOUS
    <3> HIDE DEF TypeOK, HubInv
    <3>3. missed[c] \cup {frames} \in SUBSET (1..MaxFrames)
      BY <2>1, <3>2
    <3> QED BY <3>1, <3>2, <3>3
  <2>4. UNCHANGED <<clients, closed, done, conn, writer, pinger, reader, frames, casting,
                    since, taken>>
    BY <1>2 DEF BroadcastSend, connVars
  <2>5. todo' \subseteq todo /\ died' \in BOOLEAN
    BY <1>2 DEF BroadcastSend
  <2> QED BY <2>2, <2>3, <2>4, <2>5
<1>3. CASE BroadcastEnd
  BY <1>3 DEF BroadcastEnd, hubVars, connVars, histVars
<1>4. ASSUME NEW c \in Client, Connect(c) PROVE HubInv'
  BY <1>4 DEF Connect, hubVars, castVars, histVars
<1>5. ASSUME NEW c \in Client, Register(c) PROVE HubInv'
  BY <1>5 DEF Register, castVars
<1>6. ASSUME NEW c \in Client, ReadFails(c) PROVE HubInv'
  BY <1>6 DEF ReadFails, hubVars, castVars, histVars
<1>7. ASSUME NEW c \in Client, Unregister(c) PROVE HubInv'
  BY <1>7 DEF Unregister, castVars, histVars
<1>8. ASSUME NEW c \in Client, WriterTakes(c) PROVE HubInv'
  <2>1. Head(send[c]) \in 1..MaxFrames
    BY <1>8 DEF WriterTakes
  <2>2. send' \in [Client -> Seq(1..frames)] /\ \A d \in Client : Len(send'[d]) <= SendCap
    BY <1>8 DEF WriterTakes
  <2>3. taken' \in [Client -> Seq(1..MaxFrames)]
    BY <1>8, <2>1 DEF WriterTakes
  <2>4. died' \in BOOLEAN
    BY <1>8 DEF WriterTakes, Enter
  <2> QED BY <1>8, <2>2, <2>3, <2>4 DEF WriterTakes, castVars
<1>9. ASSUME NEW c \in Client, WriterDone(c) PROVE HubInv'
  BY <1>9 DEF WriterDone, hubVars, castVars, histVars
<1>10. ASSUME NEW c \in Client, WriterEnds(c) PROVE HubInv'
  BY <1>10 DEF WriterEnds, hubVars, castVars, histVars
<1>11. ASSUME NEW c \in Client, PingTakes(c) PROVE HubInv'
  BY <1>11 DEF PingTakes, Enter, hubVars, castVars, histVars
<1>12. ASSUME NEW c \in Client, PingDone(c) PROVE HubInv'
  BY <1>12 DEF PingDone, hubVars, castVars, histVars
<1>13. ASSUME NEW c \in Client, PingEnds(c) PROVE HubInv'
  BY <1>13 DEF PingEnds, hubVars, castVars, histVars
<1>14. ASSUME NEW c \in Client, PeerLeaves(c) PROVE HubInv'
  BY <1>14 DEF PeerLeaves, hubVars, castVars, histVars
<1>15. CASE UNCHANGED vars
  BY <1>15 DEF vars, hubVars, connVars, castVars, histVars
<1> QED
  BY <1>1, <1>2, <1>3, <1>4, <1>5, <1>6, <1>7, <1>8, <1>9, <1>10, <1>11, <1>12, <1>13,
     <1>14, <1>15 DEF Next, CastStep, HandlerStep, WriterStep

\* The state is well typed; above all, a client is in the map exactly while its channel
\* is open, and channels never hold more than their capacity.
THEOREM TypeCorrect == Spec => []TypeOK
<1>1. HubInv => TypeOK
  BY DEF HubInv
<1> QED BY <1>1, HubInit, HubStep, PTL DEF Spec

\* No broadcast sends on a closed channel, however clients come and go.
THEOREM NeverSendsOnClosed == Spec => []NoSendOnClosed
<1>1. HubInv => NoSendOnClosed
  BY DEF HubInv, TypeOK, NoSendOnClosed
<1> QED BY <1>1, HubInit, HubStep, PTL DEF Spec

-----------------------------------------------------------------------------
(* No client misses a frame but by its own slowness.                       *)

\* Frames come in ascending order, and one that is being broadcast is new to those
\* who have still to get it.
Ascending ==
  \A c \in Client :
    /\ \A i, j \in 1..Len(Got(c)) : i < j => Got(c)[i] < Got(c)[j]
    /\ \A i \in 1..Len(Got(c)) : Got(c)[i] <= frames /\ (c \in todo => Got(c)[i] < frames)

\* Every frame since the client's registration was delivered, dropped, or is to come.
Complete ==
  \A c \in clients : \A m \in (since[c] + 1)..frames :
    m \in Range(Got(c)) \cup missed[c] \/ (m = frames /\ c \in todo)

LEMMA GotType ==
  ASSUME HubInv, NEW c \in Client
  PROVE  /\ taken[c] \in Seq(1..MaxFrames) /\ send[c] \in Seq(1..MaxFrames)
         /\ Got(c) \in Seq(1..MaxFrames)
<1>1. 1..frames \subseteq 1..MaxFrames
  BY WsHubAssumption DEF HubInv, TypeOK
<1>2. taken[c] \in Seq(1..MaxFrames) /\ send[c] \in Seq(1..frames)
  BY DEF HubInv, TypeOK
<1>3. send[c] \in Seq(1..MaxFrames)
  BY <1>1, <1>2, SeqMonotonic
<1> QED BY <1>2, <1>3, ConcatProperties DEF Got

\* Taking the head of one sequence to the end of the other leaves the whole as it is.
LEMMA MoveHead ==
  ASSUME NEW S, NEW s \in Seq(S), NEW t \in Seq(S), t # <<>>
  PROVE  Append(s, Head(t)) \o Tail(t) = s \o t
<1>1. Head(t) \in S /\ Tail(t) \in Seq(S) /\ Len(Tail(t)) = Len(t) - 1
      /\ \A i \in 1..Len(Tail(t)) : Tail(t)[i] = t[i + 1]
  BY HeadTailProperties
<1>2. Append(s, Head(t)) \in Seq(S) /\ Len(Append(s, Head(t))) = Len(s) + 1
  BY <1>1
<1>3. /\ Len(s \o t) = Len(s) + Len(t) /\ s \o t \in Seq(S)
      /\ \A i \in 1..Len(s) + Len(t) :
           (s \o t)[i] = IF i <= Len(s) THEN s[i] ELSE t[i - Len(s)]
  BY ConcatProperties
<1> DEFINE u == Append(s, Head(t))
<1>4. /\ Len(u \o Tail(t)) = Len(u) + Len(Tail(t)) /\ u \o Tail(t) \in Seq(S)
      /\ \A i \in 1..Len(u) + Len(Tail(t)) :
           (u \o Tail(t))[i] = IF i <= Len(u) THEN u[i] ELSE Tail(t)[i - Len(u)]
  BY <1>1, <1>2, ConcatProperties
<1>5. Len(s) \in Nat /\ Len(t) \in Nat \ {0}
  BY EmptySeq, LenProperties
<1>6. \A i \in 1..Len(s) + Len(t) : (u \o Tail(t))[i] = (s \o t)[i]
  <2> TAKE i \in 1..Len(s) + Len(t)
  <2>1. CASE i <= Len(s)
    BY <1>1, <1>2, <1>3, <1>4, <1>5, <2>1
  <2>2. CASE i = Len(s) + 1
    <3>1. u[i] = Head(t) /\ t[1] = Head(t)
      BY <1>2, <1>5, <2>2
    <3> QED BY <1>1, <1>2, <1>3, <1>4, <1>5, <2>2, <3>1
  <2>3. CASE i > Len(s) + 1
    <3>1. i - Len(u) \in 1..Len(Tail(t)) /\ i - Len(u) + 1 = i - Len(s)
      BY <1>1, <1>2, <1>5, <2>3
    <3>2. (u \o Tail(t))[i] = Tail(t)[i - Len(u)]
      BY <1>1, <1>2, <1>4, <1>5, <2>3
    <3>3. (s \o t)[i] = t[i - Len(s)]
      BY <1>3, <1>5, <2>3
    <3> QED BY <1>1, <3>1, <3>2, <3>3
  <2> QED BY <1>5, <2>1, <2>2, <2>3
<1> HIDE DEF u
<1>7. Len(u \o Tail(t)) = Len(s \o t)
  BY <1>1, <1>2, <1>3, <1>4, <1>5 DEF u
<1>8. u \o Tail(t) = s \o t
  BY <1>3, <1>4, <1>5, <1>6, <1>7, SeqEqual
<1> QED BY <1>8 DEF u

LEMMA ConcatAppend ==
  ASSUME NEW S, NEW s \in Seq(S), NEW t \in Seq(S), NEW e \in S
  PROVE  s \o Append(t, e) = Append(s \o t, e)
<1>1. Append(t, e) = t \o <<e>> /\ <<e>> \in Seq(S)
  OBVIOUS
<1>2. Append(s \o t, e) = (s \o t) \o <<e>>
  BY ConcatProperties
<1> QED BY <1>1, <1>2, ConcatAssociative

\* What the steps of the hub do to a client's frames and to the broadcast.
LEMMA FrameSteps ==
  ASSUME HubInv, [Next]_vars
  PROVE  \/ /\ BroadcastBegin
            /\ UNCHANGED <<clients, send, taken, since, missed>>
         \/ \E c \in Client :
              /\ BroadcastSend(c)
              /\ UNCHANGED <<clients, taken, since, frames>>
         \/ /\ \A c \in Client : Got(c)' = Got(c)
            /\ \A c \in Client : since'[c] = since[c] \/ (c \notin clients /\ since'[c] = frames)
            /\ \A c \in clients' : c \in clients \/ since'[c] = frames
            /\ UNCHANGED <<missed, frames, todo>>
<1> DEFINE Quiet ==
      /\ \A c \in Client : Got(c)' = Got(c)
      /\ \A c \in Client : since'[c] = since[c] \/ (c \notin clients /\ since'[c] = frames)
      /\ \A c \in clients' : c \in clients \/ since'[c] = frames
      /\ UNCHANGED <<missed, frames, todo>>
<1>0. ASSUME UNCHANGED <<send, taken, since, missed, frames, todo>>, clients' \subseteq clients
      PROVE  Quiet
  BY <1>0 DEF Got
<1>1. CASE BroadcastBegin
  BY <1>1 DEF BroadcastBegin, hubVars, histVars
<1>2. ASSUME NEW c \in Client, BroadcastSend(c)
      PROVE  UNCHANGED <<clients, taken, since, frames>>
  BY <1>2 DEF BroadcastSend
<1>3. ASSUME BroadcastEnd PROVE Quiet
  BY <1>0, <1>3 DEF BroadcastEnd, hubVars, histVars
<1>4. ASSUME NEW c \in Client, Connect(c) PROVE Quiet
  BY <1>0, <1>4 DEF Connect, hubVars, castVars, histVars
<1>5. ASSUME NEW c \in Client, Register(c) PROVE Quiet
  <2>1. UNCHANGED <<send, taken, missed, frames, todo>>
    BY <1>5 DEF Register, castVars
  <2>2. c \notin clients /\ clients' = clients \cup {c}
        /\ since' = [since EXCEPT ![c] = frames] /\ since \in [Client -> 0..MaxFrames]
    BY <1>5 DEF Register, HubInv, TypeOK
  <2> QED BY <2>1, <2>2 DEF Got
<1>6. ASSUME NEW c \in Client, ReadFails(c) PROVE Quiet
  BY <1>0, <1>6 DEF ReadFails, hubVars, castVars, histVars
<1>7. ASSUME NEW c \in Client, Unregister(c) PROVE Quiet
  BY <1>0, <1>7 DEF Unregister, castVars, histVars
<1>8. ASSUME NEW c \in Client, WriterTakes(c) PROVE Quiet
  <2>1. /\ send[c] # <<>> /\ send' = [send EXCEPT ![c] = Tail(send[c])]
        /\ taken' = [taken EXCEPT ![c] = Append(taken[c], Head(send[c]))]
        /\ UNCHANGED <<clients, since, missed, frames, todo>>
    BY <1>8 DEF WriterTakes, castVars
  <2>2. taken[c] \in Seq(1..MaxFrames) /\ send[c] \in Seq(1..MaxFrames)
    BY GotType
  <2>3. Append(taken[c], Head(send[c])) \o Tail(send[c]) = taken[c] \o send[c]
    BY <2>1, <2>2, MoveHead
  <2>4. DOMAIN send = Client /\ DOMAIN taken = Client
    BY DEF HubInv, TypeOK
  <2>5. \A d \in Client : taken'[d] \o send'[d] = taken[d] \o send[d]
    BY <2>1, <2>3, <2>4
  <2> QED BY <2>1, <2>5 DEF Got
<1>9. ASSUME NEW c \in Client, WriterDone(c) PROVE Quiet
  BY <1>0, <1>9 DEF WriterDone, hubVars, castVars, histVars
<1>10. ASSUME NEW c \in Client, WriterEnds(c) PROVE Quiet
  BY <1>0, <1>10 DEF WriterEnds, hubVars, castVars, histVars
<1>11. ASSUME NEW c \in Client, PingTakes(c) PROVE Quiet
  BY <1>0, <1>11 DEF PingTakes, hubVars, castVars, histVars
<1>12. ASSUME NEW c \in Client, PingDone(c) PROVE Quiet
  BY <1>0, <1>12 DEF PingDone, hubVars, castVars, histVars
<1>13. ASSUME NEW c \in Client, PingEnds(c) PROVE Quiet
  BY <1>0, <1>13 DEF PingEnds, hubVars, castVars, histVars
<1>14. ASSUME NEW c \in Client, PeerLeaves(c) PROVE Quiet
  BY <1>0, <1>14 DEF PeerLeaves, hubVars, castVars, histVars
<1>15. ASSUME UNCHANGED vars PROVE Quiet
  BY <1>0, <1>15 DEF vars, hubVars, castVars, histVars
<1> HIDE DEF Quiet
<1>16. BroadcastBegin \/ (\E c \in Client : BroadcastSend(c)) \/ Quiet
  <2>1. \/ CastStep \/ UNCHANGED vars
        \/ \E c \in Client :
             \/ Connect(c) \/ HandlerStep(c) \/ PeerLeaves(c)
             \/ WriterStep(c)
             \/ PingTakes(c) \/ PingDone(c) \/ PingEnds(c)
    BY DEF Next
  <2> QED
    BY <2>1, <1>3, <1>4, <1>5, <1>6, <1>7, <1>8, <1>9, <1>10, <1>11, <1>12, <1>13, <1>14,
       <1>15 DEF CastStep, HandlerStep, WriterStep
<1> QED BY <1>1, <1>2, <1>16 DEF Quiet

\* A broadcast either appends its frame to those of the client, or the client misses it.
LEMMA SendSteps ==
  ASSUME HubInv, NEW c \in Client, BroadcastSend(c)
  PROVE  /\ c \in todo /\ todo' = todo \ {c} /\ frames' = frames /\ frames \in 1..MaxFrames
         /\ \A d \in Client \ {c} : Got(d)' = Got(d) /\ missed'[d] = missed[d]
         /\ \/ Got(c)' = Append(Got(c), frames) /\ missed'[c] = missed[c]
            \/ Got(c)' = Got(c) /\ missed'[c] = missed[c] \cup {frames}
<1>1. c \in todo /\ todo' = todo \ {c} /\ UNCHANGED <<taken, frames>>
  BY DEF BroadcastSend
<1>2. frames \in 1..MaxFrames
  <2>1. todo # {}
    BY <1>1
  <2>2. frames > 0 /\ frames \in 0..MaxFrames
    BY <2>1 DEF HubInv, TypeOK, Served
  <2> QED BY <2>2, WsHubAssumption
<1>3. DOMAIN send = Client /\ DOMAIN missed = Client
  BY DEF HubInv, TypeOK
<1>4. CASE Len(send[c]) < SendCap
  <2>1. send' = [send EXCEPT ![c] = Append(send[c], frames)] /\ missed' = missed
    BY <1>4 DEF BroadcastSend
  <2>2. taken[c] \o Append(send[c], frames) = Append(taken[c] \o send[c], frames)
    <3>1. taken[c] \in Seq(1..MaxFrames) /\ send[c] \in Seq(1..MaxFrames)
      BY GotType
    <3> DEFINE S == 1..MaxFrames
    <3>2. frames \in S /\ taken[c] \in Seq(S) /\ send[c] \in Seq(S)
      BY <1>2, <3>1
    <3> HIDE DEF S
    <3>3. \A s, t \in Seq(S), e \in S : s \o Append(t, e) = Append(s \o t, e)
      BY ConcatAppend
    <3> QED BY <3>2, <3>3
  <2>3. \A d \in Client : send'[d] = IF d = c THEN Append(send[c], frames) ELSE send[d]
    BY <1>3, <2>1
  <2>4. /\ taken'[c] \o send'[c] = Append(taken[c] \o send[c], frames)
        /\ \A d \in Client \ {c} : taken'[d] \o send'[d] = taken[d] \o send[d]
    <3>1. taken' = taken
      BY <1>1
    <3>2. send'[c] = Append(send[c], frames) /\ \A d \in Client \ {c} : send'[d] = send[d]
      BY <2>3
    <3> QED BY <2>2, <3>1, <3>2
  <2> QED BY <1>1, <1>2, <2>1, <2>4 DEF Got
<1>5. CASE ~(Len(send[c]) < SendCap)
  <2>1. missed' = [missed EXCEPT ![c] = missed[c] \cup {frames}] /\ send' = send
    BY <1>5 DEF BroadcastSend
  <2> QED BY <1>1, <1>2, <1>3, <2>1 DEF Got
<1> QED BY <1>4, <1>5

FrameInv == HubInv /\ Ascending /\ Complete

LEMMA AppendedAscends ==
  ASSUME NEW s \in Seq(Nat), NEW n \in Nat,
         \A i, j \in 1..Len(s) : i < j => s[i] < s[j],
         \A i \in 1..Len(s) : s[i] < n
  PROVE  LET t == Append(s, n)
         IN  /\ \A i, j \in 1..Len(t) : i < j => t[i] < t[j]
             /\ \A i \in 1..Len(t) : t[i] <= n
<1> DEFINE t == Append(s, n)
<1>1. /\ Len(s) \in Nat /\ Len(t) = Len(s) + 1
      /\ \A i \in 1..Len(t) : t[i] = IF i = Len(s) + 1 THEN n ELSE s[i]
  BY LenProperties
<1>2. \A i \in 1..Len(s) : s[i] \in Nat
  BY ElementOfSeq
<1> HIDE DEF t
<1>3. ASSUME NEW i \in 1..Len(t), NEW j \in 1..Len(t), i < j PROVE t[i] < t[j]
  <2>1. i \in 1..Len(s) /\ t[i] = s[i]
    BY <1>1, <1>3
  <2>2. CASE j = Len(s) + 1
    BY <1>1, <2>1, <2>2
  <2>3. CASE j # Len(s) + 1
    <3>1. j \in 1..Len(s) /\ t[j] = s[j]
      BY <1>1, <2>3
    <3> QED BY <1>3, <2>1, <3>1
  <2> QED BY <2>2, <2>3
<1>4. \A i \in 1..Len(t) : t[i] <= n
  BY <1>1, <1>2
<1> QED BY <1>3, <1>4 DEF t

LEMMA AppendedRange ==
  ASSUME NEW s \in Seq(Nat), NEW n \in Nat
  PROVE  Range(Append(s, n)) = Range(s) \cup {n}
<1>1. /\ Len(s) \in Nat /\ Len(Append(s, n)) = Len(s) + 1
      /\ \A i \in 1..Len(s) : Append(s, n)[i] = s[i]
      /\ Append(s, n)[Len(s) + 1] = n
      /\ DOMAIN s = 1..Len(s) /\ DOMAIN Append(s, n) = 1..(Len(s) + 1)
  BY LenProperties
<1>2. 1..(Len(s) + 1) = (1..Len(s)) \cup {Len(s) + 1}
  BY <1>1
<1> QED BY <1>1, <1>2 DEF Range

LEMMA AscendingStep == FrameInv /\ [Next]_vars => Ascending'
<1> SUFFICES ASSUME FrameInv, [Next]_vars, NEW c \in Client
             PROVE  /\ \A i, j \in 1..Len(Got(c)') : i < j => Got(c)'[i] < Got(c)'[j]
                    /\ \A i \in 1..Len(Got(c)') :
                         Got(c)'[i] <= frames' /\ (c \in todo' => Got(c)'[i] < frames')
  BY DEF Ascending
<1>1. HubInv /\ Ascending /\ frames \in Nat /\ Got(c) \in Seq(Nat)
  <2>1. HubInv /\ Ascending
    BY DEF FrameInv
  <2>2. Got(c) \in Seq(1..MaxFrames) /\ 1..MaxFrames \subseteq Nat
    BY <2>1, GotType
  <2>3. frames \in Nat
    BY <2>1 DEF HubInv, TypeOK
  <2> QED BY <2>1, <2>2, <2>3, SeqMonotonic
<1>2. /\ \A i, j \in 1..Len(Got(c)) : i < j => Got(c)[i] < Got(c)[j]
      /\ \A i \in 1..Len(Got(c)) : Got(c)[i] \in Nat /\ Got(c)[i] <= frames
      /\ c \in todo => \A i \in 1..Len(Got(c)) : Got(c)[i] < frames
  BY <1>1, ElementOfSeq DEF Ascending
<1>3. CASE BroadcastBegin
  <2>1. UNCHANGED <<send, taken>> /\ frames' = frames + 1
    BY <1>3 DEF BroadcastBegin, hubVars, histVars
  <2>2. Got(c)' = Got(c)
    BY <2>1 DEF Got
  <2> QED BY <1>1, <1>2, <2>1, <2>2
<1>4. ASSUME NEW d \in Client, BroadcastSend(d)
      PROVE  /\ \A i, j \in 1..Len(Got(c)') : i < j => Got(c)'[i] < Got(c)'[j]
             /\ \A i \in 1..Len(Got(c)') :
                  Got(c)'[i] <= frames' /\ (c \in todo' => Got(c)'[i] < frames')
  <2>1. /\ d \in todo /\ todo' = todo \ {d} /\ frames' = frames
        /\ c # d => Got(c)' = Got(c)
        /\ c = d => Got(c)' = Append(Got(c), frames) \/ Got(c)' = Got(c)
    BY <1>1, <1>4, SendSteps
  <2>2. CASE Got(c)' = Got(c)
    BY <1>2, <2>1, <2>2
  <2>3. CASE c = d /\ Got(c)' = Append(Got(c), frames)
    <3>1. \A i \in 1..Len(Got(c)) : Got(c)[i] < frames
      BY <1>2, <2>1, <2>3
    <3>2. /\ \A i, j \in 1..Len(Append(Got(c), frames)) :
               i < j => Append(Got(c), frames)[i] < Append(Got(c), frames)[j]
          /\ \A i \in 1..Len(Append(Got(c), frames)) : Append(Got(c), frames)[i] <= frames
      BY <1>1, <1>2, <3>1, AppendedAscends
    <3> QED BY <2>1, <2>3, <3>2
  <2> QED BY <2>1, <2>2, <2>3
<1>5. CASE Got(c)' = Got(c) /\ frames' = frames /\ todo' = todo
  BY <1>2, <1>5
<1> QED BY <1>1, <1>3, <1>4, <1>5, FrameSteps

LEMMA CompleteStep == FrameInv /\ [Next]_vars => Complete'
<1> SUFFICES ASSUME FrameInv, [Next]_vars,
                    NEW c \in clients', NEW m \in (since'[c] + 1)..frames'
             PROVE  m \in Range(Got(c)') \cup missed'[c] \/ (m = frames' /\ c \in todo')
  BY DEF Complete
<1>1. HubInv /\ HubInv' /\ Complete
  BY HubStep DEF FrameInv
<1>2. c \in Client /\ frames \in Nat /\ since[c] \in Nat /\ frames' \in Nat /\ since'[c] \in Nat
  BY <1>1 DEF HubInv, TypeOK
<1>3. Got(c) \in Seq(Nat)
  <2>1. Got(c) \in Seq(1..MaxFrames) /\ 1..MaxFrames \subseteq Nat
    BY <1>1, <1>2, GotType
  <2> QED BY <2>1, SeqMonotonic
<1>4. ASSUME c \in clients, m \in (since[c] + 1)..frames
      PROVE  m \in Range(Got(c)) \cup missed[c] \/ (m = frames /\ c \in todo)
  BY <1>1, <1>4 DEF Complete
<1>5. CASE BroadcastBegin /\ UNCHANGED <<clients, send, taken, since, missed>>
  <2>1. frames' = frames + 1 /\ todo' = clients /\ todo \subseteq clients
        /\ (~casting => todo = {}) /\ ~casting
    BY <1>1, <1>5 DEF BroadcastBegin, HubInv, Served, TypeOK
  <2>2. Got(c)' = Got(c)
    BY <1>5 DEF Got
  <2>3. CASE m = frames'
    BY <1>5, <2>1, <2>3
  <2>4. CASE m # frames'
    BY <1>2, <1>4, <1>5, <2>1, <2>2, <2>4
  <2> QED BY <2>3, <2>4
<1>6. ASSUME NEW d \in Client, BroadcastSend(d), UNCHANGED <<clients, taken, since, frames>>
      PROVE  m \in Range(Got(c)') \cup missed'[c] \/ (m = frames' /\ c \in todo')
  <2>1. /\ d \in todo /\ todo' = todo \ {d}
        /\ c # d => Got(c)' = Got(c) /\ missed'[c] = missed[c]
        /\ c = d => \/ Got(c)' = Append(Got(c), frames) /\ missed'[c] = missed[c]
                    \/ Got(c)' = Got(c) /\ missed'[c] = missed[c] \cup {frames}
    BY <1>1, <1>2, <1>6, SendSteps
  <2>2. m \in Range(Got(c)) \cup missed[c] \/ (m = frames /\ c \in todo)
    BY <1>4, <1>6
  <2>3. Range(Append(Got(c), frames)) = Range(Got(c)) \cup {frames}
    BY <1>2, <1>3, AppendedRange
  <2> QED BY <1>6, <2>1, <2>2, <2>3
<1>7. CASE /\ \A d \in Client : Got(d)' = Got(d)
           /\ \A d \in Client : since'[d] = since[d] \/ (d \notin clients /\ since'[d] = frames)
           /\ \A d \in clients' : d \in clients \/ since'[d] = frames
           /\ UNCHANGED <<missed, frames, todo>>
  <2>1. since'[c] # frames
    BY <1>2, <1>7
  <2>2. c \in clients /\ since'[c] = since[c]
    BY <1>2, <1>7, <2>1
  <2> QED BY <1>2, <1>4, <1>7, <2>2
<1> QED BY <1>1, <1>5, <1>6, <1>7, FrameSteps

LEMMA FrameInit == Init => FrameInv
<1> SUFFICES ASSUME Init PROVE FrameInv
  OBVIOUS
<1>1. \A c \in Client : Got(c) = <<>>
  BY DEF Init, Got
<1>2. clients = {}
  BY DEF Init
<1> QED BY <1>1, <1>2, HubInit DEF FrameInv, Ascending, Complete

\* Whatever clients join, stall and leave, a client that is connected has got, in order,
\* every frame since it came, but those its own full channel cost it.
THEOREM FramesAreComplete == Spec => []FramesComplete
<1>1. FrameInv => FramesComplete
  BY DEF FrameInv, HubInv, TypeOK, Ascending, Complete, FramesComplete
<1>2. FrameInv /\ [Next]_vars => FrameInv'
  BY HubStep, AscendingStep, CompleteStep DEF FrameInv
<1> QED BY <1>1, <1>2, FrameInit, PTL DEF Spec
=============================================================================
