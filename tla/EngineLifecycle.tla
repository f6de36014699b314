--------------------------- MODULE EngineLifecycle ---------------------------
(***************************************************************************)
(* Who starts and stops the native engine (native-lib.cpp:95-129): the     *)
(* service's thread, which creates and destroys one service after another  *)
(* (AudioService.kt:371-372, 913-914), and the detached threads that       *)
(* onError starts when a stream is disconnected.  mStreamMutex is the only *)
(* thing between them.  With it goes the lifetime of the resend callback   *)
(* (native-lib.cpp:249-266, 473-521), which the decode thread copies and   *)
(* calls outside of every lock.                                            *)
(*                                                                         *)
(* Of the decode thread only that remains: its exit and its calls.         *)
(***************************************************************************)
EXTENDS FiniteSets

CONSTANTS
    Restarters,     \* the detached threads; bound: how many there are at once
    Service,        \* the service's thread
    Nobody

ASSUME LifecycleConstants ==
    Service \notin Restarters /\ Nobody \notin Restarters \cup {Service}

Threads == Restarters \cup {Service}

VARIABLES
    service,     \* where the service's thread is in a service's life
    pc,          \* where each thread is in stop() or start()
    owner,       \* the holder of mStreamMutex
    running,     \* mIsRunning
    decode,      \* the decode thread; with "none" nothing is joinable
    stream,      \* mStream: "none", "live", or "dead" after an error
    object,      \* gResendCallbackObj: "null", "valid" or a "deleted" reference
    method,      \* gResendMethod is set
    callback,    \* mResendCallback is set
    failed       \* "closed": a stream had an error other than a disconnection;
                 \* "crashed", "terminated": the end of the process

vars == <<service, pc, owner, running, decode, stream, object, method, callback,
          failed>>
engine == <<owner, running, decode, stream>>
jni == <<object, method, callback>>

Init ==
    /\ service = "down" /\ pc = [t \in Threads |-> "idle"] /\ owner = Nobody
    /\ running = FALSE /\ decode = "none" /\ stream = "none"
    /\ object = "null" /\ method = FALSE /\ callback = FALSE
    /\ failed = "no"

Alive == failed \notin {"crashed", "terminated"}

-----------------------------------------------------------------------------
(* start() and stop(), each in two steps under mStreamMutex. *)

\* stop() on a thread t, to the join of the decode thread.
StopEngine_KeepRunning(t) ==
    /\ Alive /\ pc[t] = "stop" /\ owner = Nobody
    /\ owner' = t /\ pc' = [pc EXCEPT ![t] = "joining"]
    /\ UNCHANGED <<service, running, decode, stream, jni, failed>>

StopEngine(t) ==
    /\ Alive /\ pc[t] = "stop" /\ owner = Nobody
    /\ owner' = t /\ pc' = [pc EXCEPT ![t] = "joining"]
    /\ running' = FALSE
    /\ UNCHANGED <<service, decode, stream, jni, failed>>

\* The join returns and the stream is closed; a restarter goes on to start().
Joined(t) ==
    /\ Alive /\ pc[t] = "joining" /\ decode \in {"none", "finished"}
    /\ owner' = Nobody /\ pc' = [pc EXCEPT ![t] = IF t = Service THEN "idle" ELSE "start"]
    /\ decode' = "none" /\ stream' = "none"
    /\ UNCHANGED <<service, running, jni, failed>>

\* Assigning to a std::thread that is still joinable terminates the process.
Spawn ==
    /\ decode' = "top"
    /\ failed' = IF decode = "none" THEN failed ELSE "terminated"

\* start() on a thread t, which returns at once when there is a stream.
StartEngine_Anyway(t) ==
    /\ Alive /\ pc[t] = "start" /\ owner = Nobody
    /\ owner' = t /\ pc' = [pc EXCEPT ![t] = "opening"]
    /\ running' = TRUE /\ Spawn
    /\ UNCHANGED <<service, stream, jni>>

StartEngine(t) ==
    /\ Alive /\ pc[t] = "start" /\ owner = Nobody
    /\ IF stream = "none"
       THEN /\ owner' = t /\ pc' = [pc EXCEPT ![t] = "opening"]
            /\ running' = TRUE /\ Spawn
       ELSE /\ pc' = [pc EXCEPT ![t] = "idle"]
            /\ UNCHANGED <<owner, running, decode, failed>>
    /\ UNCHANGED <<service, stream, jni>>

Opened(t) ==
    /\ Alive /\ pc[t] = "opening"
    /\ stream' = "live"
    /\ owner' = Nobody /\ pc' = [pc EXCEPT ![t] = "idle"]
    /\ UNCHANGED <<service, running, decode, jni, failed>>

\* openStream's result is not looked at: without a stream requestStart is
\* called through a null pointer.
OpenFails(t) ==
    /\ Alive /\ pc[t] = "opening"
    /\ failed' = "crashed"
    /\ UNCHANGED <<service, pc, engine, jni>>

\* A restart that trusts Oboe to have stopped the engine.
OnError_StartOnly(t) ==
    /\ Alive /\ stream = "live" /\ t \in Restarters /\ pc[t] = "idle"
    /\ stream' = "dead" /\ pc' = [pc EXCEPT ![t] = "start"]
    /\ UNCHANGED <<service, owner, running, decode, jni, failed>>

\* onError: Oboe gives the disconnected stream up, a new thread restarts.
OnError(t) ==
    /\ Alive /\ stream = "live" /\ t \in Restarters /\ pc[t] = "idle"
    /\ stream' = "dead" /\ pc' = [pc EXCEPT ![t] = "stop"]
    /\ UNCHANGED <<service, owner, running, decode, jni, failed>>

\* After any other error Oboe closes the stream and nothing restarts it.
OnOtherError ==
    /\ Alive /\ stream = "live" /\ stream' = "dead"
    /\ failed' = "closed"
    /\ UNCHANGED <<service, pc, owner, running, decode, jni>>

-----------------------------------------------------------------------------
(* The service's thread: initNative, setResendCallback(requester), and when *)
(* it is destroyed setResendCallback(null), stopNative.                     *)

CreateService ==
    /\ Alive /\ service = "down" /\ service' = "creating"
    /\ pc' = [pc EXCEPT ![Service] = "start"]
    /\ UNCHANGED <<engine, jni, failed>>

NewReference ==
    /\ Alive /\ service = "creating" /\ pc[Service] = "idle"
    /\ service' = "referenced" /\ object' = "valid"
    /\ UNCHANGED <<pc, engine, method, callback, failed>>

Register ==
    /\ Alive /\ service = "referenced" /\ service' = "up"
    /\ method' = TRUE /\ callback' = TRUE
    /\ UNCHANGED <<pc, engine, object, failed>>

DeleteReference ==
    /\ Alive /\ service = "up" /\ service' = "deleted"
    /\ object' = "deleted"
    /\ UNCHANGED <<pc, engine, method, callback, failed>>

ClearGlobals ==
    /\ Alive /\ service = "deleted" /\ service' = "cleared"
    /\ object' = "null" /\ method' = FALSE
    /\ UNCHANGED <<pc, engine, callback, failed>>

\* An engine that is left with its callback, which does nothing any more.
Unregister_Keep ==
    /\ Alive /\ service = "cleared" /\ service' = "stopping"
    /\ pc' = [pc EXCEPT ![Service] = "stop"]
    /\ UNCHANGED <<engine, jni, failed>>

Unregister ==
    /\ Alive /\ service = "cleared" /\ service' = "stopping"
    /\ callback' = FALSE
    /\ pc' = [pc EXCEPT ![Service] = "stop"]
    /\ UNCHANGED <<engine, object, method, failed>>

Destroyed ==
    /\ Alive /\ service = "stopping" /\ pc[Service] = "idle"
    /\ service' = "down"
    /\ UNCHANGED <<pc, engine, jni, failed>>

-----------------------------------------------------------------------------
(* The decode thread. *)

\* A gap: the callback is copied under mBufferMutex and called without it.
CopyCallback ==
    /\ Alive /\ decode = "top" /\ running /\ callback
    /\ decode' = "copied"
    /\ UNCHANGED <<service, pc, owner, running, stream, jni, failed>>

\* Each of up to eight calls looks at the two globals first.
CheckGlobals ==
    /\ Alive /\ decode = "copied"
    /\ decode' = IF object # "null" /\ method THEN "calling" ELSE "top"
    /\ UNCHANGED <<service, pc, owner, running, stream, jni, failed>>

Called ==
    /\ Alive /\ decode = "calling" /\ decode' \in {"copied", "top"}
    /\ UNCHANGED <<service, pc, owner, running, stream, jni, failed>>

DecodeExits ==
    /\ Alive /\ decode = "top" /\ ~running
    /\ decode' = "finished"
    /\ UNCHANGED <<service, pc, owner, running, stream, jni, failed>>

-----------------------------------------------------------------------------

ServiceLives ==
    \/ CreateService
    \/ NewReference
    \/ Register
    \/ DeleteReference
    \/ ClearGlobals
    \/ Unregister
    \/ Destroyed

Decoder ==
    \/ CopyCallback
    \/ CheckGlobals
    \/ Called
    \/ DecodeExits

Engine(t) ==
    \/ StopEngine(t)
    \/ Joined(t)
    \/ StartEngine(t)
    \/ Opened(t)
    \/ OpenFails(t)
    \/ OnError(t)

Next ==
    \/ ServiceLives
    \/ Decoder
    \/ \E t \in Threads : Engine(t)
    \/ OnOtherError

Spec == Init /\ [][Next]_vars

\* A thread that asks for the mutex again and again gets it, what is begun is
\* ended, and the decode thread and the calls it makes go on; a gap is worth
\* eight calls at most.
FairSpec ==
    /\ Spec
    /\ \A t \in Threads :
           /\ SF_vars(StopEngine(t)) /\ SF_vars(StartEngine(t))
           /\ WF_vars(Joined(t)) /\ WF_vars(Opened(t))
    /\ WF_vars(NewReference \/ Register \/ ClearGlobals \/ Unregister \/ Destroyed)
    /\ WF_vars(DecodeExits) /\ WF_vars(CheckGlobals) /\ WF_vars(Called)
    /\ SF_vars(Called /\ decode' = "top")

-----------------------------------------------------------------------------
(* Properties. *)

\* Only the holder of the mutex is inside start() or stop().
Exclusive == \A t \in Threads : pc[t] \in {"joining", "opening"} => owner = t

TypeOK ==
    /\ service \in {"down", "creating", "referenced", "up", "deleted", "cleared",
                    "stopping"}
    /\ pc \in [Threads -> {"idle", "stop", "joining", "start", "opening"}]
    /\ owner \in Threads \cup {Nobody}
    /\ running \in BOOLEAN
    /\ decode \in {"none", "top", "copied", "calling", "finished"}
    /\ stream \in {"none", "live", "dead"}
    /\ object \in {"null", "valid", "deleted"}
    /\ method \in BOOLEAN /\ callback \in BOOLEAN
    /\ failed \in {"no", "closed", "crashed", "terminated"}
    /\ Exclusive

\* However the threads that stop and start the engine overtake each other,
\* between two of their calls the decode thread exists exactly if the stream
\* does: a start never replaces a thread that nobody joined, which would end
\* the process (native-lib.cpp:97-101, 120-121).
EngineWhole ==
    /\ failed # "terminated"
    /\ owner = Nobody =>
           /\ decode = "none" <=> stream = "none"
           /\ running <=> stream # "none"

\* Once a service is destroyed no thread is about to call its requester, not
\* even the decode thread of an engine that a restart brought back
\* (native-lib.cpp:255-260, 475-483, AudioService.kt:913-914).
NoCallAfterDestroy == service = "down" => decode \notin {"copied", "calling"}

\* An engine whose streams are disconnected, as often as may be, plays again
\* and again as long as the service is up (native-lib.cpp:124-127).
EngineComesBack ==
    <>[](service = "up") /\ [](failed = "no") => []<>(stream = "live")

\* A service that is being destroyed gets through stop(), whoever restarts the
\* engine meanwhile and whatever the decode thread calls (native-lib.cpp:116-122).
DestroyReturns ==
    service = "stopping" ~> service # "stopping" \/ ~Alive

-----------------------------------------------------------------------------
(* What the code looks like it promises and does not (README.md, section    *)
(* Divergences, names the step that breaks each).                           *)

\* AudioService.onDestroy stops the engine.
DownIsSilent ==
    service = "down" /\ owner = Nobody /\ (\A t \in Restarters : pc[t] = "idle")
        => stream = "none"

\* The requester is called through a reference that exists.
CallsThroughReference == decode = "calling" => object = "valid"

\* initNative's result says that the engine runs.
OpeningSucceeds == failed # "crashed"
=============================================================================
