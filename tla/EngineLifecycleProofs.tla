------------------------ MODULE EngineLifecycleProofs ------------------------
(***************************************************************************)
(* Theorems of EngineLifecycle for any number of threads that restart the  *)
(* engine: the mutex keeps engine and decode thread together, and the      *)
(* service outlives every call of its requester.                           *)
(***************************************************************************)
EXTENDS EngineLifecycle, TLAPS

\* Whoever holds the mutex is inside stop() or start().
Held == owner # Nobody => pc[owner] \in {"joining", "opening"}

\* Only inside start() is there a decode thread without a stream.
Paired ==
    IF owner # Nobody /\ pc[owner] = "opening"
    THEN running /\ decode # "none" /\ stream = "none"
    ELSE decode = "none" <=> stream = "none"

\* From the first statement of stop() to the end of the join nothing runs,
\* and outside of both the engine runs exactly if it has a stream.
Stopped ==
    /\ owner # Nobody /\ pc[owner] = "joining" => ~running
    /\ owner = Nobody => (running <=> stream # "none")

\* The engine has a callback only while the service is between its two calls
\* of setResendCallback, and a copy of it lives no longer than its stop().
Copies ==
    /\ callback => service \in {"up", "deleted", "cleared"}
    /\ decode \in {"copied", "calling"} =>
           callback \/ (service = "stopping" /\ pc[Service] \in {"stop", "joining"})

\* The service's thread calls the engine from initNative and stopNative only.
InCall == pc[Service] # "idle" => service \in {"creating", "stopping"}

EngineInv ==
    /\ TypeOK
    /\ InCall
    /\ Held
    /\ Paired
    /\ Stopped
    /\ Copies
    /\ failed # "terminated"

-----------------------------------------------------------------------------

LEMMA EngineInitially == Init => EngineInv
<1> SUFFICES ASSUME Init PROVE EngineInv
    OBVIOUS
<1> QED
    BY LifecycleConstants
    DEF Init, EngineInv, TypeOK, Exclusive, InCall, Held, Paired, Stopped,
        Copies, Threads

\* A step that neither takes nor gives back the mutex.
LEMMA StopKeeps ==
    ASSUME EngineInv, NEW t \in Threads, StopEngine(t)
    PROVE  EngineInv'
<1> USE LifecycleConstants DEF EngineInv, StopEngine, jni
<1>1. TypeOK'
      BY DEF TypeOK, Exclusive, Threads
<1>2. Held' /\ Paired' /\ Stopped'
      BY DEF TypeOK, Held, Paired, Stopped, Threads
<1>3. Copies' /\ InCall'
      BY DEF TypeOK, InCall, Copies, Threads
<1> QED
    BY <1>1, <1>2, <1>3

LEMMA JoinedKeeps ==
    ASSUME EngineInv, NEW t \in Threads, Joined(t)
    PROVE  EngineInv'
<1> USE LifecycleConstants DEF EngineInv, Joined, jni
<1>1. owner = t /\ pc[owner] = "joining"
      BY DEF TypeOK, Exclusive
<1>2. TypeOK'
      BY <1>1 DEF TypeOK, Exclusive, Threads
<1>3. Held' /\ Paired' /\ Stopped'
      BY <1>1 DEF TypeOK, Held, Paired, Stopped, Threads
<1>4. Copies' /\ InCall'
      BY DEF TypeOK, InCall, Copies, Threads
<1> QED
    BY <1>2, <1>3, <1>4

\* start() finds a stream, or neither a stream nor a thread.
LEMMA StartKeeps ==
    ASSUME EngineInv, NEW t \in Threads, StartEngine(t)
    PROVE  EngineInv'
<1> USE LifecycleConstants DEF EngineInv, StartEngine, jni
<1>1. CASE stream = "none"
      <2>1. decode = "none"
            BY <1>1 DEF Paired
      <2>2. TypeOK'
            BY <1>1, <2>1 DEF TypeOK, Exclusive, Threads, Spawn
      <2>3. Held' /\ Paired' /\ Stopped' /\ (failed # "terminated")'
            BY <1>1, <2>1 DEF TypeOK, Held, Paired, Stopped, Threads, Spawn
      <2>4. Copies' /\ InCall'
            BY <1>1, <2>1 DEF TypeOK, InCall, Copies, Threads, Spawn
      <2> QED
          BY <2>2, <2>3, <2>4
<1>2. CASE stream # "none"
      <2>1. TypeOK'
            BY <1>2 DEF TypeOK, Exclusive, Threads
      <2>2. Held' /\ Paired' /\ Stopped'
            BY <1>2 DEF TypeOK, Held, Paired, Stopped, Threads
      <2>3. Copies' /\ InCall'
            BY <1>2 DEF TypeOK, InCall, Copies, Threads
      <2> QED
          BY <1>2, <2>1, <2>2, <2>3
<1> QED
    BY <1>1, <1>2

LEMMA OpenKeeps ==
    ASSUME EngineInv, NEW t \in Threads, Opened(t) \/ OpenFails(t)
    PROVE  EngineInv'
<1> USE LifecycleConstants DEF EngineInv, jni, engine
<1>1. CASE Opened(t)
      <2> USE <1>1 DEF Opened
      <2>1. owner = t /\ pc[owner] = "opening"
            BY DEF TypeOK, Exclusive
      <2>2. TypeOK'
            BY <2>1 DEF TypeOK, Exclusive, Threads
      <2>3. Held' /\ Paired' /\ Stopped'
            BY <2>1 DEF TypeOK, Held, Paired, Stopped, Threads
      <2>4. Copies' /\ InCall'
            BY DEF TypeOK, InCall, Copies, Threads
      <2> QED
          BY <2>2, <2>3, <2>4
<1>2. CASE OpenFails(t)
      BY <1>2 DEF OpenFails, TypeOK, Exclusive, InCall, Held, Paired, Stopped, Copies
<1> QED
    BY <1>1, <1>2

LEMMA ErrorKeeps ==
    ASSUME EngineInv, NEW t \in Threads, OnError(t) \/ OnOtherError
    PROVE  EngineInv'
<1> USE LifecycleConstants DEF EngineInv, jni
<1>1. CASE OnError(t)
      <2> USE <1>1 DEF OnError
      <2>1. owner # t
            BY DEF Held, Threads
      <2>2. TypeOK'
            BY <2>1 DEF TypeOK, Exclusive, Threads
      <2>3. Held' /\ Paired' /\ Stopped'
            BY <2>1 DEF TypeOK, Held, Paired, Stopped, Threads
      <2>4. Copies' /\ InCall'
            BY DEF TypeOK, InCall, Copies, Threads
      <2> QED
          BY <2>2, <2>3, <2>4
<1>2. CASE OnOtherError
      BY <1>2 DEF OnOtherError, TypeOK, Exclusive, InCall, Held, Paired, Stopped, Copies
<1> QED
    BY <1>1, <1>2

\* The service's thread has left start() when it registers and stop() when it
\* is gone, by the guards of its own program.
LEMMA ServiceKeeps ==
    ASSUME EngineInv, ServiceLives
    PROVE  EngineInv'
<1> USE LifecycleConstants DEF EngineInv, jni, engine, Alive
<1>0. Service \in Threads
      BY DEF Threads
<1>1. CASE CreateService
      <2>1. pc[Service] = "idle"
            BY <1>1 DEF CreateService, InCall
      <2> QED
          BY <1>0, <1>1, <2>1
          DEF CreateService, TypeOK, Exclusive, InCall, Held, Paired, Stopped,
              Copies, Threads
<1>2. CASE NewReference \/ Register \/ DeleteReference \/ ClearGlobals \/ Destroyed
      <2> USE <1>2 DEF NewReference, Register, DeleteReference, ClearGlobals, Destroyed
      <2>1. pc' = pc /\ owner' = owner /\ running' = running /\ decode' = decode
            /\ stream' = stream /\ failed' = failed
            OBVIOUS
      <2>2. TypeOK'
            BY DEF TypeOK, Exclusive
      <2>3. Held' /\ Paired' /\ Stopped'
            BY <2>1 DEF Held, Paired, Stopped
      <2>4. InCall' /\ (failed # "terminated")'
            BY <2>1 DEF InCall
      <2>5. Copies'
            BY DEF Copies, InCall, TypeOK
      <2> QED
          BY <2>2, <2>3, <2>4, <2>5
<1>3. CASE Unregister
      <2>1. pc[Service] = "idle"
            BY <1>3 DEF Unregister, InCall
      <2> QED
          BY <1>0, <1>3, <2>1
          DEF Unregister, TypeOK, Exclusive, InCall, Held, Paired, Stopped,
              Copies, Threads
<1> QED
    BY <1>1, <1>2, <1>3 DEF ServiceLives

LEMMA DecoderKeeps ==
    ASSUME EngineInv, Decoder
    PROVE  EngineInv'
<1> USE LifecycleConstants DEF EngineInv, jni
<1>1. CASE CopyCallback
      BY <1>1 DEF CopyCallback, TypeOK, Exclusive, InCall, Held, Paired, Stopped, Copies
<1>2. CASE CheckGlobals
      BY <1>2 DEF CheckGlobals, TypeOK, Exclusive, InCall, Held, Paired, Stopped, Copies
<1>3. CASE Called
      BY <1>3 DEF Called, TypeOK, Exclusive, InCall, Held, Paired, Stopped, Copies
<1>4. CASE DecodeExits
      BY <1>4 DEF DecodeExits, TypeOK, Exclusive, InCall, Held, Paired, Stopped, Copies
<1> QED
    BY <1>1, <1>2, <1>3, <1>4 DEF Decoder

-----------------------------------------------------------------------------

\* The inductive invariant: the mutex is held by whoever is inside stop() or
\* start(), thread and stream come and go together, and a copy of the callback
\* ends with the stop() of the service that made it (native-lib.cpp:95-122,
\* 255-266).
THEOREM EngineCoordinated == Spec => []EngineInv
<1>1. Init => EngineInv
      BY EngineInitially
<1>2. EngineInv /\ [Next]_vars => EngineInv'
      <2> SUFFICES ASSUME EngineInv, [Next]_vars PROVE EngineInv'
          OBVIOUS
      <2>1. CASE ServiceLives
            BY <2>1, ServiceKeeps
      <2>2. CASE Decoder
            BY <2>2, DecoderKeeps
      <2>3. ASSUME NEW t \in Threads, Engine(t)
            PROVE  EngineInv'
            BY <2>3, StopKeeps, JoinedKeeps, StartKeeps, OpenKeeps, ErrorKeeps
            DEF Engine
      <2>4. CASE OnOtherError
            <3>1. Service \in Threads
                  BY DEF Threads
            <3> QED
                BY <2>4, <3>1, ErrorKeeps
      <2>5. CASE UNCHANGED vars
            BY <2>5
            DEF vars, EngineInv, TypeOK, Exclusive, InCall, Held, Paired, Stopped, Copies
      <2> QED
          BY <2>1, <2>2, <2>3, <2>4, <2>5 DEF Next
<1> QED
    BY <1>1, <1>2, PTL DEF Spec

\* Type correctness, with mutual exclusion inside start() and stop()
\* (native-lib.cpp:96, 117).
THEOREM LifecycleTyped == Spec => []TypeOK
<1>1. EngineInv => TypeOK
      BY DEF EngineInv
<1> QED
    BY <1>1, EngineCoordinated, PTL

\* However many threads restart the engine at once, none replaces a decode
\* thread that nobody joined, and outside of their calls thread, stream and
\* mIsRunning agree (native-lib.cpp:97-101, 120-121).
THEOREM EngineStaysWhole == Spec => []EngineWhole
<1>1. EngineInv => EngineWhole
      BY DEF EngineInv, Paired, Stopped, EngineWhole
<1> QED
    BY <1>1, EngineCoordinated, PTL

\* No thread is about to call the requester of a destroyed service, although
\* restarts may have brought its engine back (native-lib.cpp:255-260, 475-483).
THEOREM EngineSilentAfterDestroy == Spec => []NoCallAfterDestroy
<1>1. EngineInv => NoCallAfterDestroy
      BY DEF EngineInv, Copies, NoCallAfterDestroy
<1> QED
    BY <1>1, EngineCoordinated, PTL
==============================================================================
