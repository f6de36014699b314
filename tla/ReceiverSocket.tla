--------------------------- MODULE ReceiverSocket ---------------------------
(***************************************************************************)
(* UDP port 12345 of the phone and the instances of the service that want  *)
(* it, one after the other (AudioService.kt:323-360, 446-465, 565-584,     *)
(* 633-668, 905-915).  Android creates an instance once the one before is  *)
(* destroyed, both on the main thread; an instance's receiver is a         *)
(* coroutine of its own and may outlive it.  A closed socket keeps the     *)
(* port while a thread is parked in its receive() (AudioService.kt:618-621).*)
(*                                                                         *)
(* Of the packets only that receive() returns remains, with one or without.*)
(***************************************************************************)
EXTENDS Naturals

CONSTANT MaxInstances       \* bound: instances of the service

ASSUME SocketConstants == MaxInstances \in Nat \ {0}

Instances == 1..MaxInstances

VARIABLES
    service,     \* isRunning, and what onDestroy has done
    receiver,    \* where each instance's receiver is
    socket,      \* the socket it made: "none", "open" or "closed"
    udpSocket,   \* the instance's field refers to it
    others,      \* another program holds the port
    crashed      \* an exception left a coroutine

vars == <<service, receiver, socket, udpSocket, others, crashed>>

Init ==
    /\ service = [i \in Instances |-> "new"]
    /\ receiver = [i \in Instances |-> "none"]
    /\ socket = [i \in Instances |-> "none"]
    /\ udpSocket = [i \in Instances |-> FALSE]
    /\ others \in BOOLEAN /\ crashed = FALSE

IsRunning(i) == service[i] \in {"running", "refused"}
Goes(i, from, to) == ~crashed /\ receiver[i] = from /\ receiver' = [receiver EXCEPT ![i] = to]

\* The kernel's view.
Holds(i) == socket[i] = "open" \/ (socket[i] = "closed" /\ receiver[i] = "receiving")
Taken == others \/ \E i \in Instances : Holds(i)

OthersComeAndGo ==
    /\ ~crashed
    /\ others \/ ~Taken
    /\ others' = ~others
    /\ UNCHANGED <<service, receiver, socket, udpSocket, crashed>>

-----------------------------------------------------------------------------
(* The main thread. *)

IsNext(i) == ~crashed /\ service[i] = "new" /\ \A j \in 1..(i - 1) : service[j] = "gone"

\* startAudioService, with audio focus granted or denied.
StartAudioService(i) ==
    /\ IsNext(i)
    /\ \/ service' = [service EXCEPT ![i] = "running"] /\ Goes(i, "none", "launched")
       \/ service' = [service EXCEPT ![i] = "refused"] /\ UNCHANGED receiver
    /\ UNCHANGED <<socket, udpSocket, others, crashed>>

\* onDestroy: isRunning, and the scope is cancelled.
Cancel(i) ==
    /\ ~crashed /\ IsRunning(i)
    /\ service' = [service EXCEPT ![i] = "destroying"]
    /\ UNCHANGED <<receiver, socket, udpSocket, others, crashed>>

\* GOODBYE, the engine and all that later, the socket it knows of.
CloseSocket(i) ==
    /\ ~crashed /\ service[i] = "destroying"
    /\ service' = [service EXCEPT ![i] = "gone"]
    /\ socket' = [socket EXCEPT ![i] = IF udpSocket[i] THEN "closed" ELSE @]
    /\ UNCHANGED <<receiver, udpSocket, others, crashed>>

-----------------------------------------------------------------------------
(* bindReceiverSocket. *)

\* A coroutine whose scope is cancelled before it runs does not run.
Dispatched(i) ==
    /\ Goes(i, "launched", IF IsRunning(i) THEN "bind" ELSE "ended")
    /\ UNCHANGED <<service, socket, udpSocket, others, crashed>>

TryBind(i) ==
    /\ Goes(i, "bind", IF IsRunning(i) THEN "trying" ELSE "ended")
    /\ UNCHANGED <<service, socket, udpSocket, others, crashed>>

\* The bind that made one attempt only.
PortBusy_GiveUp(i) ==
    /\ Taken /\ Goes(i, "trying", "ended")
    /\ UNCHANGED <<service, socket, udpSocket, others, crashed>>

PortBusy(i) ==
    /\ Taken /\ Goes(i, "trying", "delayed")
    /\ UNCHANGED <<service, socket, udpSocket, others, crashed>>

\* The delay is where a cancelled coroutine ends.
DelayOver(i) ==
    /\ Goes(i, "delayed", IF IsRunning(i) THEN "bind" ELSE "ended")
    /\ UNCHANGED <<service, socket, udpSocket, others, crashed>>

\* Any other error is final.
SocketError(i) ==
    /\ Goes(i, "trying", "gaveUp")
    /\ UNCHANGED <<service, socket, udpSocket, others, crashed>>

Bound(i) ==
    /\ ~Taken /\ Goes(i, "trying", "opened")
    /\ socket' = [socket EXCEPT ![i] = "open"]
    /\ UNCHANGED <<service, udpSocket, others, crashed>>

Published(i) ==
    /\ Goes(i, "opened", "loop")
    /\ udpSocket' = [udpSocket EXCEPT ![i] = TRUE]
    /\ UNCHANGED <<service, socket, others, crashed>>

-----------------------------------------------------------------------------
(* The receiver's loop. *)

\* A loop that ends on its socket's exception only.
Loop_Forever(i) ==
    /\ Goes(i, "loop", "arming")
    /\ UNCHANGED <<service, socket, udpSocket, others, crashed>>

Loop(i) ==
    /\ Goes(i, "loop", IF IsRunning(i) THEN "arming" ELSE "finally")
    /\ UNCHANGED <<service, socket, udpSocket, others, crashed>>

\* soTimeout is set outside of the inner try: on a closed socket the exception
\* passes the finally clause and leaves the coroutine.
Arm(i) ==
    /\ IF socket[i] = "open"
       THEN Goes(i, "arming", "receiving") /\ UNCHANGED <<udpSocket, crashed>>
       ELSE /\ Goes(i, "arming", "ended")
            /\ udpSocket' = [udpSocket EXCEPT ![i] = FALSE] /\ crashed' = TRUE
    /\ UNCHANGED <<service, socket, others>>

\* A packet, the timeout, or the exception of a socket closed meanwhile, which
\* is caught.
Returns(i) ==
    /\ Goes(i, "receiving", "loop")
    /\ UNCHANGED <<service, socket, udpSocket, others, crashed>>

\* A receiver that leaves its socket to onDestroy.
Finally_LeaveOpen(i) ==
    /\ Goes(i, "finally", "ended")
    /\ udpSocket' = [udpSocket EXCEPT ![i] = FALSE]
    /\ UNCHANGED <<service, socket, others, crashed>>

Finally(i) ==
    /\ Goes(i, "finally", "ended")
    /\ socket' = [socket EXCEPT ![i] = "closed"]
    /\ udpSocket' = [udpSocket EXCEPT ![i] = FALSE]
    /\ UNCHANGED <<service, others, crashed>>

-----------------------------------------------------------------------------

Receiver(i) ==
    \/ Dispatched(i)
    \/ TryBind(i)
    \/ PortBusy(i)
    \/ DelayOver(i)
    \/ SocketError(i)
    \/ Bound(i)
    \/ Published(i)
    \/ Loop(i)
    \/ Arm(i)
    \/ Returns(i)
    \/ Finally(i)

Next ==
    \/ OthersComeAndGo
    \/ \E i \in Instances :
           \/ StartAudioService(i)
           \/ Cancel(i)
           \/ CloseSocket(i)
           \/ Receiver(i)

Spec == Init /\ [][Next]_vars

\* A dispatched coroutine goes on, receive() returns after three seconds at the
\* latest, onDestroy runs to its end, and a service that was denied the audio
\* focus has asked to be destroyed.
FairSpec ==
    /\ Spec
    /\ \A i \in Instances :
           /\ WF_vars(Receiver(i))
           /\ WF_vars(CloseSocket(i)) /\ WF_vars(service[i] = "refused" /\ Cancel(i))

-----------------------------------------------------------------------------
(* Properties. *)

Ended == {"none", "ended", "gaveUp"}

TypeOK ==
    /\ service \in [Instances -> {"new", "running", "refused", "destroying", "gone"}]
    /\ receiver \in [Instances -> {"launched", "bind", "trying", "delayed", "opened",
                                   "loop", "arming", "receiving", "finally"} \cup Ended]
    /\ socket \in [Instances -> {"none", "open", "closed"}]
    /\ udpSocket \in [Instances -> BOOLEAN]
    /\ \A i \in Instances : udpSocket[i] =>
           receiver[i] \in {"loop", "arming", "receiving", "finally"}
    /\ others \in BOOLEAN /\ crashed \in BOOLEAN

\* onDestroy may read the field before the receiver has stored the socket it
\* just bound: even so the port does not stay with an instance whose receiver
\* has ended, and the next one can have it (AudioService.kt:580-583, 915).
NoSocketLeaks == \A i \in Instances : receiver[i] \in Ended => ~Holds(i)

\* An instance that stays gets the port, however many before it are still
\* tearing down and whoever else held it for a while; not if the bind fails for
\* another reason (AudioService.kt:614-668).
ListensAgain ==
    \A i \in Instances :
        <>[](service[i] = "running") /\ <>[]~others
        => <>[](Holds(i) \/ receiver[i] = "gaveUp" \/ crashed)

\* A destroyed instance's receiver ends, wherever onDestroy meets it
\* (AudioService.kt:907-911).
ReceiverEnds ==
    \A i \in Instances : service[i] = "gone" ~> receiver[i] \in Ended \/ crashed

-----------------------------------------------------------------------------
(* What the code looks like it promises and does not (README.md, section    *)
(* Divergences, names the step that breaks it).                             *)

\* AudioService.kt:575: "Service is stopping, socket close is expected."
CloseIsExpected == ~crashed
=============================================================================
