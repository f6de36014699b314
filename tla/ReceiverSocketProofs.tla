------------------------ MODULE ReceiverSocketProofs ------------------------
(***************************************************************************)
(* Theorems of ReceiverSocket for any number of instances: the port stays  *)
(* with nobody whose receiver has ended.                                   *)
(***************************************************************************)
EXTENDS ReceiverSocket, TLAPS

Inside == {"opened", "loop", "arming", "receiving", "finally"}

\* An open socket has a receiver that will close it.
Owned == \A i \in Instances : socket[i] = "open" => receiver[i] \in Inside

SocketInv == TypeOK /\ Owned

\* What one receiver's step may do to its own socket and field.
LEMMA OneReceiverSteps ==
    ASSUME SocketInv, NEW i \in Instances, NEW to,
           to \in {"launched", "bind", "trying", "delayed"} \cup Inside \cup Ended,
           receiver' = [receiver EXCEPT ![i] = to],
           service' = service, others' = others, crashed' \in BOOLEAN,
           NEW s \in {"none", "open", "closed"}, socket' = [socket EXCEPT ![i] = s],
           NEW f \in BOOLEAN, udpSocket' = [udpSocket EXCEPT ![i] = f],
           f => to \in {"loop", "arming", "receiving", "finally"},
           s = "open" => to \in Inside
    PROVE  SocketInv'
BY DEF SocketInv, TypeOK, Owned, Inside, Ended

LEMMA ReceiverKeeps ==
    ASSUME SocketInv, NEW i \in Instances, Receiver(i)
    PROVE  SocketInv'
<1> DEFINE Kept == /\ service' = service /\ others' = others /\ crashed' = crashed
                   /\ socket' = [socket EXCEPT ![i] = socket[i]]
                   /\ udpSocket' = [udpSocket EXCEPT ![i] = udpSocket[i]]
<1>1. /\ socket[i] \in {"none", "open", "closed"} /\ udpSocket[i] \in BOOLEAN
      /\ socket[i] = "open" => receiver[i] \in Inside
      /\ udpSocket[i] => receiver[i] \in {"loop", "arming", "receiving", "finally"}
      BY DEF SocketInv, TypeOK, Owned
<1>2. CASE Dispatched(i) \/ TryBind(i) \/ PortBusy(i) \/ DelayOver(i) \/ SocketError(i)
      <2>1. socket[i] # "open" /\ ~udpSocket[i]
            BY <1>1, <1>2
            DEF Dispatched, TryBind, PortBusy, DelayOver, SocketError, Goes, Inside
      <2>2. Kept
            BY <1>2
            DEF Dispatched, TryBind, PortBusy, DelayOver, SocketError, SocketInv, TypeOK
      <2>3. PICK to \in {"bind", "trying", "delayed"} \cup Ended :
                receiver' = [receiver EXCEPT ![i] = to]
            BY <1>2
            DEF Dispatched, TryBind, PortBusy, DelayOver, SocketError, Goes, Ended
      <2>4. crashed' \in BOOLEAN
            BY <2>2 DEF SocketInv, TypeOK
      <2> QED
          BY <1>1, <2>1, <2>2, <2>3, <2>4, OneReceiverSteps
<1>3. CASE Loop(i) \/ Returns(i)
      <2>1. Kept
            BY <1>3 DEF Loop, Returns, SocketInv, TypeOK
      <2>2. PICK to \in {"loop", "arming", "finally"} :
                receiver' = [receiver EXCEPT ![i] = to]
            BY <1>3 DEF Loop, Returns, Goes
      <2>3. crashed' \in BOOLEAN
            BY <2>1 DEF SocketInv, TypeOK
      <2> QED
          BY <1>1, <2>1, <2>2, <2>3, OneReceiverSteps DEF Inside
<1>4. CASE Bound(i)
      <2>1. ~udpSocket[i]
            BY <1>1, <1>4 DEF Bound, Goes
      <2>2. udpSocket' = [udpSocket EXCEPT ![i] = FALSE] /\ crashed' \in BOOLEAN
            BY <1>4, <2>1 DEF Bound, SocketInv, TypeOK
      <2> QED
          BY <1>4, <2>2, OneReceiverSteps DEF Bound, Goes, Inside
<1>5. CASE Published(i)
      <2>1. socket' = [socket EXCEPT ![i] = socket[i]] /\ crashed' \in BOOLEAN
            BY <1>5 DEF Published, SocketInv, TypeOK
      <2> QED
          BY <1>1, <1>5, <2>1, OneReceiverSteps DEF Published, Goes, Inside
<1>6. CASE Arm(i)
      <2>1. socket' = [socket EXCEPT ![i] = socket[i]]
            BY <1>6 DEF Arm, SocketInv, TypeOK
      <2>2. CASE socket[i] = "open"
            <3>1. udpSocket' = [udpSocket EXCEPT ![i] = udpSocket[i]] /\ crashed' \in BOOLEAN
                  BY <1>6, <2>2 DEF Arm, SocketInv, TypeOK
            <3> QED
                BY <1>1, <1>6, <2>1, <2>2, <3>1, OneReceiverSteps DEF Arm, Goes, Inside
      <2>3. CASE socket[i] # "open"
            BY <1>1, <1>6, <2>1, <2>3, OneReceiverSteps DEF Arm, Goes, Ended
      <2> QED
          BY <2>2, <2>3
<1>7. CASE Finally(i)
      <2>1. crashed' \in BOOLEAN
            BY <1>7 DEF Finally, SocketInv, TypeOK
      <2> QED
          BY <1>7, <2>1, OneReceiverSteps DEF Finally, Goes, Ended
<1> QED
    BY <1>2, <1>3, <1>4, <1>5, <1>6, <1>7 DEF Receiver

\* The inductive invariant: whoever opened a socket is on the way to the
\* finally clause that closes it (AudioService.kt:452-454, 580-583).
THEOREM SocketsOwned == Spec => []SocketInv
<1>1. Init => SocketInv
      BY DEF Init, SocketInv, TypeOK, Owned, Ended
<1>2. SocketInv /\ [Next]_vars => SocketInv'
      <2> SUFFICES ASSUME SocketInv, [Next]_vars PROVE SocketInv'
          OBVIOUS
      <2>1. ASSUME NEW i \in Instances, StartAudioService(i) PROVE SocketInv'
            BY <2>1
            DEF StartAudioService, IsNext, Goes, SocketInv, TypeOK, Owned, Inside, Ended
      <2>2. ASSUME NEW i \in Instances, Cancel(i) \/ CloseSocket(i) PROVE SocketInv'
            BY <2>2 DEF Cancel, CloseSocket, SocketInv, TypeOK, Owned
      <2>3. CASE OthersComeAndGo \/ UNCHANGED vars
            BY <2>3 DEF OthersComeAndGo, vars, SocketInv, TypeOK, Owned
      <2> QED
          BY <2>1, <2>2, <2>3, ReceiverKeeps DEF Next
<1> QED
    BY <1>1, <1>2, PTL DEF Spec

\* Type correctness, and that the field is set by a receiver in its loop only
\* (AudioService.kt:646, 582).
THEOREM SocketsTyped == Spec => []TypeOK
<1>1. SocketInv => TypeOK
      BY DEF SocketInv
<1> QED
    BY <1>1, SocketsOwned, PTL

\* No interleaving of onDestroy with the bind leaves the port behind
\* (AudioService.kt:580-583, 915).
THEOREM SocketsDoNotLeak == Spec => []NoSocketLeaks
<1>1. SocketInv => NoSocketLeaks
      BY DEF SocketInv, Owned, NoSocketLeaks, Holds, Inside, Ended
<1> QED
    BY <1>1, SocketsOwned, PTL
==============================================================================
