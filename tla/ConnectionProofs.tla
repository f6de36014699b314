-------------------------- MODULE ConnectionProofs --------------------------
(***************************************************************************)
(* Proofs about Connection, for every set of addresses and every number of *)
(* listening periods and service instances: its types, that an offered     *)
(* session is played, and, for timers in the order of the code's, that     *)
(* phone and server find each other in a bounded time of calm.             *)
(***************************************************************************)
EXTENDS Connection, TLAPS

USE DEF server, phone, playback, weather

-----------------------------------------------------------------------------
(* Type correctness.  A GOODBYE is sent to the target, so a session has to  *)
(* have one.                                                                *)

Aimed == state = "Streaming" => target \in Addrs

TInv == TypeOK /\ Aimed

\* What the two sides send is of the type of the network's messages.
LEMMA PhoneMessages ==
    ASSUME addr \in Addrs, offer \in 0..MaxPeriods,
           NEW kind \in {"DISCOVER", "CONFIG", "ALIVE", "GOODBYE"}
    PROVE  FromPhone(kind) \in ToServer
BY DEF FromPhone, ToServer

LEMMA ServerMessages ==
    ASSUME period \in 1..MaxPeriods, NEW kind \in {"OFFER", "GOODBYE", "AUDIO"},
           NEW to \in Addrs
    PROVE  FromServer(kind, to) \in ToPhone
BY ConnectionConstants DEF FromServer, ToPhone

\* The two kinds of message have different fields.
LEMMA Directions ==
    /\ \A m \in ToPhone : m \notin ToServer
    /\ \A m \in ToServer : m \notin ToPhone
<1>1. ASSUME NEW m \in ToPhone PROVE DOMAIN m = {"kind", "to", "period"}
  BY <1>1 DEF ToPhone
<1>2. ASSUME NEW m \in ToServer PROVE DOMAIN m = {"kind", "from", "offer"}
  BY <1>2 DEF ToServer
<1>3. {"kind", "to", "period"} # {"kind", "from", "offer"}
  OBVIOUS
<1> QED BY <1>1, <1>2, <1>3

\* What is left under way of a session's audio is addressed to its client.
LEMMA LateAudio ==
    ASSUME TInv, NEW late \in SUBSET LastAudio, NEW m \in late
    PROVE  /\ m \in ToPhone /\ m \notin ToServer /\ Streams
           /\ m.kind = "AUDIO" /\ m.to = target /\ m.period = period
<1>1. Streams /\ m = FromServer("AUDIO", target)
  BY DEF LastAudio
<1>2. target \in Addrs /\ period \in 1..MaxPeriods
  BY <1>1 DEF TInv, Aimed, Streams, TypeOK
<1> QED BY <1>1, <1>2, ServerMessages, Directions DEF FromServer

LEMMA InitTyped == Init => TInv
<1> SUFFICES ASSUME Init PROVE TInv
  OBVIOUS
<1>1. net \subseteq ToServer \cup ToPhone /\ todo \subseteq Loops /\ upsets \subseteq {}
  BY DEF Init
<1>2. /\ engine \in {Cooling} \cup 0..MaxPeriods /\ period \in 1..MaxPeriods
      /\ offer \in 0..MaxPeriods
  BY ConnectionConstants DEF Init
<1>3. /\ activity \in 0..SERVER_TIMEOUT /\ retries \in 0..CONFIG_RETRIES
      /\ audioAge \in 0..AUDIO_STALE /\ silence \in 0..SOCKET_TIMEOUT
      /\ beat \in 0..HEARTBEAT /\ starts \in 0..MaxStarts /\ calm \in 0..RECOVERY
  BY ConnectionConstants DEF Init
<1> QED BY <1>1, <1>2, <1>3 DEF Init, TInv, TypeOK, Aimed

\* A server that listens, and the messages left, are of their types.
LEMMA ListenTyped ==
    ASSUME TypeOK, NEW sent \in SUBSET (ToServer \cup ToPhone), Listen(sent)
    PROVE  /\ period' \in 1..MaxPeriods /\ state' \in {"Idle", "Listening", "Streaming"}
           /\ target' \in Addrs \cup {NoAddr} /\ worker' \in {"none", "alive", "panicked"}
           /\ offered' \in BOOLEAN
           /\ net' \subseteq ToServer \cup ToPhone
           /\ Aimed'
<1>1. period' \in 1..MaxPeriods
  BY ConnectionConstants DEF TypeOK, Listen
<1>2. net' \subseteq ToServer \cup ToPhone
  BY DEF Listen
<1> QED BY <1>1, <1>2 DEF Listen, Aimed

Upsets == {"panic", "move"}

\* Calm goes on, or one of the troubles begins it anew.
LEMMA WeatherTyped ==
    ASSUME calm \in 0..RECOVERY, upsets \subseteq Upsets,
           Calm \/ Upset \/ \E what \in Upsets : UpsetBy(what)
    PROVE  calm' \in 0..RECOVERY /\ upsets' \subseteq Upsets
<1>1. CASE Calm
  BY <1>1 DEF Calm
<1>2. CASE Upset \/ \E what \in Upsets : UpsetBy(what)
  <2>1. 0 \in 0..RECOVERY
    BY ConnectionConstants
  <2> QED BY <1>2, <2>1 DEF Upset, UpsetBy
<1> QED BY <1>1, <1>2

LEMMA Receiving ==
    ASSUME TInv, NEW m \in net \cap ToServer, ServerReceives(m)
    PROVE  TInv'
<1> USE DEF TInv
<1>0. /\ m.kind \in {"DISCOVER", "CONFIG", "ALIVE", "GOODBYE"} /\ m.from \in Addrs
      /\ net \ {m} \subseteq ToServer \cup ToPhone
  BY DEF TypeOK, ToServer
<1>z. UNCHANGED <<phone, todo>> /\ SERVER_TIMEOUT \in Nat
  BY ConnectionConstants DEF ServerReceives
<1>1. CASE OnDiscover(m)
  <2>1. FromServer("OFFER", m.from) \in ToPhone
    <3>1. period \in 1..MaxPeriods
      BY DEF TypeOK
    <3> QED BY <1>0, <3>1, ServerMessages
  <2>2. net' \subseteq ToServer \cup ToPhone
    BY <1>0, <1>1, <2>1 DEF OnDiscover
  <2> QED BY <1>0, <1>1, <1>z, <2>2 DEF OnDiscover, Calm, TypeOK, Aimed
<1>2. CASE OnConfig(m)
  <2>1. net' \subseteq ToServer \cup ToPhone /\ target' \in Addrs
    BY <1>0, <1>2 DEF OnConfig, TypeOK
  <2>2. calm' \in 0..RECOVERY /\ upsets' \subseteq Upsets
    <3>1. Calm \/ UpsetBy("panic")
      BY <1>2 DEF OnConfig
    <3> QED BY <3>1, WeatherTyped DEF TypeOK, Upsets
  <2>4. worker' \in {"none", "alive", "panicked"}
    BY <1>2 DEF OnConfig
  <2>3. activity' \in 0..SERVER_TIMEOUT /\ offered' \in BOOLEAN /\ period' = period
    BY <1>2, <1>z DEF OnConfig
  <2> QED BY <1>2, <1>z, <2>1, <2>2, <2>3, <2>4 DEF OnConfig, TypeOK, Aimed, Upsets
<1>3. CASE OnActivity(m)
  BY <1>0, <1>3, <1>z DEF OnActivity, Calm, TypeOK, Aimed
<1>4. CASE OnGoodbye(m)
  <2>1. calm' \in 0..RECOVERY /\ upsets' \subseteq Upsets
    BY <1>4, WeatherTyped DEF OnGoodbye, TypeOK, Upsets
  <2>3. activity' \in 0..SERVER_TIMEOUT
    BY <1>4, <1>z DEF OnGoodbye
  <2>2. PICK late \in SUBSET LastAudio : Listen((net \ {m}) \cup late)
    BY <1>4 DEF OnGoodbye
  <2>4. (net \ {m}) \cup late \subseteq ToServer \cup ToPhone
    BY <1>0, LateAudio
  <2> QED BY <1>0, <1>z, <2>1, <2>2, <2>3, <2>4, ListenTyped DEF TypeOK, Upsets
<1>5. CASE Ignored(m)
  BY <1>0, <1>5, <1>z DEF Ignored, Calm, TypeOK, Aimed
<1> QED BY <1>1, <1>2, <1>3, <1>4, <1>5 DEF ServerReceives

LEMMA Toggling ==
    ASSUME TInv, ToggleServer
    PROVE  TInv'
<1> USE DEF TInv
<1>0. UNCHANGED <<phone, todo>> /\ Upset
  BY DEF ToggleServer
<1>w. calm' \in 0..RECOVERY /\ upsets' \subseteq Upsets
  BY <1>0, WeatherTyped DEF TypeOK, Upsets
<1>1. CASE ToggleStreaming
  <2>1. FromServer("GOODBYE", target) \in ToPhone
    <3>1. period \in 1..MaxPeriods /\ target \in Addrs
      BY <1>1 DEF TypeOK, Aimed, ToggleStreaming
    <3> QED BY <3>1, ServerMessages
  <2>2. net' \subseteq ToServer \cup ToPhone
    BY <1>1, <2>1, LateAudio DEF ToggleStreaming, TypeOK
  <2> QED BY <1>0, <1>w, <1>1, <2>2 DEF ToggleStreaming, TypeOK, Aimed, Upsets
<1>2. CASE ToggleListening
  BY <1>0, <1>w, <1>2 DEF ToggleListening, TypeOK, Aimed, Upsets
<1>3. CASE ToggleIdle
  <2>1. Listen(net) /\ UNCHANGED activity /\ net \in SUBSET (ToServer \cup ToPhone)
    BY <1>3 DEF ToggleIdle, TypeOK
  <2> QED BY <1>0, <1>w, <2>1, ListenTyped DEF TypeOK, Upsets
<1> QED BY <1>1, <1>2, <1>3 DEF ToggleServer

LEMMA Timing ==
    ASSUME TInv, ServerTimeout
    PROVE  TInv'
<1>1. PICK late \in SUBSET LastAudio : Listen(net \cup late)
  BY DEF ServerTimeout
<1>2. UNCHANGED <<activity, phone, todo, weather>>
  BY DEF ServerTimeout, Calm
<1>3. net \cup late \in SUBSET (ToServer \cup ToPhone)
  BY LateAudio DEF TInv, TypeOK
<1> QED BY <1>1, <1>2, <1>3, ListenTyped DEF TInv, TypeOK

-----------------------------------------------------------------------------
\* The phone's steps leave the server as it is: what may move is the phone's
\* own state, the messages, the loops and the weather.
PhoneTyped ==
    /\ addr \in Addrs
    /\ isRunning \in BOOLEAN /\ serverAddress \in BOOLEAN /\ resendTarget \in BOOLEAN
    /\ receiver \in {"receive", "offered", "inferred", "goodbye", "timeout"}
    /\ watchdog \in {"watch", "expired", "clearing"}
    /\ retries \in 0..CONFIG_RETRIES /\ audioAge \in 0..AUDIO_STALE
    /\ silence \in 0..SOCKET_TIMEOUT /\ beat \in 0..HEARTBEAT
    /\ engine \in {Cooling} \cup 0..MaxPeriods /\ outlived \in BOOLEAN
    /\ offer \in 0..MaxPeriods
    /\ net \subseteq ToServer \cup ToPhone /\ todo \subseteq Loops
    /\ starts \in 0..MaxStarts /\ calm \in 0..RECOVERY /\ upsets \subseteq Upsets

LEMMA PhoneSteps ==
    ASSUME TInv, UNCHANGED server, PhoneTyped'
    PROVE  TInv'
BY DEF TInv, TypeOK, Aimed, PhoneTyped, Upsets

\* Zero is a value of every counter.
LEMMA Zeros ==
    /\ 0 \in 0..CONFIG_RETRIES /\ 0 \in 0..AUDIO_STALE /\ 0 \in 0..SOCKET_TIMEOUT
    /\ 0 \in 0..HEARTBEAT /\ 0 \in 0..MaxPeriods
BY ConnectionConstants

LEMMA StartTyped ==
    ASSUME TInv, StartService
    PROVE  TInv'
<1>1. PhoneTyped
  BY DEF TInv, TypeOK, PhoneTyped, Upsets
<1>2. calm' \in 0..RECOVERY /\ upsets' \subseteq Upsets
  BY <1>1, WeatherTyped DEF StartService, PhoneTyped, Upsets
<1>3. starts' \in 0..MaxStarts
  BY <1>1, ConnectionConstants DEF StartService, PhoneTyped
<1>4. PhoneTyped'
  BY <1>1, <1>2, <1>3, Zeros DEF StartService, ResetEngine, PhoneTyped, Loops
<1> QED BY <1>4, PhoneSteps DEF StartService

LEMMA StopTyped ==
    ASSUME TInv, OnDestroy
    PROVE  TInv'
<1>1. PhoneTyped
  BY DEF TInv, TypeOK, PhoneTyped, Upsets
<1>2. calm' \in 0..RECOVERY /\ upsets' \subseteq Upsets
  BY <1>1, WeatherTyped DEF OnDestroy, PhoneTyped, Upsets
<1>3. net' \subseteq ToServer \cup ToPhone
  BY <1>1, PhoneMessages DEF OnDestroy, PhoneTyped
<1>4. PhoneTyped'
  BY <1>1, <1>2, <1>3 DEF OnDestroy, PhoneTyped
<1> QED BY <1>4, PhoneSteps DEF OnDestroy

LEMMA MoveTyped ==
    ASSUME TInv, ChangeAddress
    PROVE  TInv'
<1>1. PhoneTyped
  BY DEF TInv, TypeOK, PhoneTyped, Upsets
<1>2. calm' \in 0..RECOVERY /\ upsets' \subseteq Upsets
  BY <1>1, WeatherTyped DEF ChangeAddress, PhoneTyped, Upsets
<1>4. PhoneTyped'
  BY <1>1, <1>2 DEF ChangeAddress, PhoneTyped
<1> QED BY <1>4, PhoneSteps DEF ChangeAddress

LEMMA LossTyped ==
    ASSUME TInv, LoseAudio \/ \E m \in net : Lose(m)
    PROVE  TInv'
<1>1. PhoneTyped
  BY DEF TInv, TypeOK, PhoneTyped, Upsets
<1>2. Upset /\ UNCHANGED <<server, phone>>
  BY DEF LoseAudio, Lose
<1>3. calm' \in 0..RECOVERY /\ upsets' \subseteq Upsets
  BY <1>1, <1>2, WeatherTyped DEF PhoneTyped, Upsets
<1>4. net' \subseteq net /\ todo' \subseteq todo
  BY DEF LoseAudio, Lose
<1>5. PhoneTyped'
  BY <1>1, <1>2, <1>3, <1>4 DEF PhoneTyped
<1> QED BY <1>2, <1>5, PhoneSteps

\* What the receiver coroutine does.
ReceiverActs ==
    \/ \E m \in net \cap ToPhone : PhoneReceives(m) \/ Undeliverable(m)
    \/ AdoptOffer \/ ReceiveAudio \/ EndCooldown \/ AdoptAudio \/ SocketTimeout
    \/ ReceiverClears

LEMMA ReceiverTyped ==
    ASSUME TInv, ReceiverActs
    PROVE  TInv'
<1>0. PhoneTyped
  BY DEF TInv, TypeOK, PhoneTyped, Upsets
<1>p. period \in 0..MaxPeriods
  BY ConnectionConstants DEF TInv, TypeOK
<1>c. UNCHANGED server /\ UNCHANGED weather
  BY DEF ReceiverActs, PhoneReceives, Undeliverable, ReceiveOffer, ReceiveGoodbye,
         AdoptOffer, ReceiveAudio, ReceiveLateAudio, HearAudio, EndCooldown, AdoptAudio,
         SocketTimeout, ReceiverClears, Calm
<1>w. calm' \in 0..RECOVERY /\ upsets' \subseteq Upsets
  BY <1>0, <1>c, WeatherTyped DEF PhoneTyped, Calm
<1>s. SUFFICES PhoneTyped'
  BY <1>c, PhoneSteps
<1>1. ASSUME NEW m \in net \cap ToPhone, ReceiveOffer(m)
      PROVE  PhoneTyped'
  <2>1. m.period \in 0..MaxPeriods
    BY DEF ToPhone
  <2> QED BY <1>0, <1>1, <1>w, <2>1, Zeros DEF ReceiveOffer, Heard, PhoneTyped
<1>2. ASSUME NEW m \in net \cap ToPhone, ReceiveGoodbye(m)
      PROVE  PhoneTyped'
  BY <1>0, <1>2, <1>w, Zeros DEF ReceiveGoodbye, Heard, PhoneTyped
<1>3. ASSUME NEW m \in net \cap ToPhone, Undeliverable(m)
      PROVE  PhoneTyped'
  BY <1>0, <1>3, <1>w DEF Undeliverable, PhoneTyped
<1>4. CASE AdoptOffer
  <2>1. net' \subseteq ToServer \cup ToPhone
    BY <1>0, <1>4, PhoneMessages DEF AdoptOffer, PhoneTyped
  <2> QED BY <1>0, <1>4, <1>w, <2>1, Zeros DEF AdoptOffer, ResetEngine, PhoneTyped
<1>5. ASSUME NEW session \in 0..MaxPeriods, HearAudio(session),
             todo' \subseteq todo, net' \subseteq net
      PROVE  PhoneTyped'
  <2>1. engine' \in {Cooling} \cup 0..MaxPeriods
    BY <1>0, <1>5 DEF HearAudio, Pushed, PhoneTyped
  <2>2. serverAddress' \in BOOLEAN
        /\ receiver' \in {"receive", "offered", "inferred", "goodbye", "timeout"}
    BY <1>0, <1>5 DEF HearAudio, InferServer, PhoneTyped
  <2> QED BY <1>0, <1>5, <1>w, <2>1, <2>2, Zeros DEF HearAudio, Heard, PhoneTyped
<1>9. CASE ReceiveAudio
  BY <1>5, <1>9, <1>p DEF ReceiveAudio
<1>10. ASSUME NEW m \in net \cap ToPhone, ReceiveLateAudio(m)
       PROVE  PhoneTyped'
  <2>1. m.period \in 0..MaxPeriods
    BY DEF ToPhone
  <2> QED BY <1>5, <1>10, <2>1 DEF ReceiveLateAudio
<1>11. CASE EndCooldown
  BY <1>0, <1>11, <1>w, Zeros DEF EndCooldown, OldAudio, PhoneTyped
<1>6. CASE AdoptAudio
  BY <1>0, <1>6, <1>w DEF AdoptAudio, PhoneTyped
<1>7. CASE SocketTimeout
  BY <1>0, <1>7, <1>w, Zeros DEF SocketTimeout, Heard, PhoneTyped
<1>8. CASE ReceiverClears
  BY <1>0, <1>8, <1>w, Zeros DEF ReceiverClears, PhoneTyped
<1> QED BY <1>1, <1>2, <1>3, <1>4, <1>6, <1>7, <1>8, <1>9, <1>10, <1>11
   DEF ReceiverActs, PhoneReceives

\* What the watchdog and the sending loops do.
LoopsAct == WatchdogLooks \/ WatchdogClears \/ Discovery \/ Heartbeat

LEMMA LoopsTyped ==
    ASSUME TInv, LoopsAct
    PROVE  TInv'
<1>0. PhoneTyped
  BY DEF TInv, TypeOK, PhoneTyped, Upsets
<1>m. FromPhone("CONFIG") \in ToServer /\ FromPhone("DISCOVER") \in ToServer
      /\ FromPhone("ALIVE") \in ToServer
  BY <1>0, PhoneMessages DEF PhoneTyped
<1>c. UNCHANGED server /\ UNCHANGED weather
  BY DEF LoopsAct, WatchdogLooks, WatchdogClears, Discovery, Heartbeat, Calm
<1>w. calm' \in 0..RECOVERY /\ upsets' \subseteq Upsets
  BY <1>0, <1>c, WeatherTyped DEF PhoneTyped, Calm
<1>s. SUFFICES PhoneTyped'
  BY <1>c, PhoneSteps
<1>1. CASE WatchdogLooks
  <2>1. net' \subseteq ToServer \cup ToPhone
    BY <1>0, <1>1, <1>m DEF WatchdogLooks, PhoneTyped
  <2>2. retries' \in 0..CONFIG_RETRIES
    BY <1>0, <1>1, ConnectionConstants DEF WatchdogLooks, RetriesLeft, PhoneTyped
  <2>3. audioAge' \in 0..AUDIO_STALE
    BY <1>0, <1>1, Zeros DEF WatchdogLooks, PhoneTyped
  <2> QED BY <1>0, <1>1, <1>w, <2>1, <2>2, <2>3 DEF WatchdogLooks, PhoneTyped
<1>2. CASE WatchdogClears
  BY <1>0, <1>2, <1>w, Zeros DEF WatchdogClears, PhoneTyped
<1>3. CASE Discovery
  BY <1>0, <1>3, <1>w, <1>m DEF Discovery, PhoneTyped
<1>4. CASE Heartbeat
  BY <1>0, <1>4, <1>w, <1>m, Zeros DEF Heartbeat, PhoneTyped
<1> QED BY <1>1, <1>2, <1>3, <1>4 DEF LoopsAct

LEMMA TickTyped ==
    ASSUME TInv, Tick
    PROVE  TInv'
<1> USE DEF Tick
<1>0. TypeOK
  BY DEF TInv
<1>1. activity' \in 0..SERVER_TIMEOUT
  BY <1>0, ConnectionConstants DEF TypeOK
<1>2. calm' \in 0..RECOVERY
  BY <1>0, ConnectionConstants DEF TypeOK
<1>3. audioAge' \in 0..AUDIO_STALE
  BY <1>0, ConnectionConstants DEF TypeOK
<1>4. silence' \in 0..SOCKET_TIMEOUT
  <2>1. CASE isRunning
    <3>1. silence + 1 \in 0..SOCKET_TIMEOUT /\ 1 \in 0..SOCKET_TIMEOUT
      BY <1>0, <2>1, ConnectionConstants DEF TypeOK
    <3>2. silence' \in {silence + 1, 1}
      BY <2>1
    <3> QED BY <3>1, <3>2
  <2>2. CASE ~isRunning
    BY <1>0, <2>2 DEF TypeOK
  <2> QED BY <2>1, <2>2
<1>5. beat' \in 0..HEARTBEAT
  BY <1>0, ConnectionConstants DEF TypeOK
<1>6. todo' \subseteq Loops
  BY DEF Due, Loops
<1> HIDE DEF Tick
<1>7. UNCHANGED <<state, target, worker, period, offered, addr, isRunning,
                  serverAddress, resendTarget, receiver, watchdog, retries, playback,
                  offer, starts, net, upsets>>
  BY DEF Tick
<1> QED BY <1>0, <1>1, <1>2, <1>3, <1>4, <1>5, <1>6, <1>7 DEF TInv, TypeOK, Aimed

LEMMA TypeStep == TInv /\ [Next]_vars => TInv'
<1> SUFFICES ASSUME TInv, [Next]_vars PROVE TInv'
  OBVIOUS
<1>1. CASE Disturbance
  BY <1>1, Toggling, StartTyped, StopTyped, MoveTyped, LossTyped DEF Disturbance
<1>2. CASE Operation
  BY <1>2, Receiving, Timing, ReceiverTyped, LoopsTyped, TickTyped
     DEF Operation, ReceiverActs, LoopsAct
<1>3. CASE UNCHANGED vars
  BY <1>3 DEF vars, TInv, TypeOK, Aimed
<1> QED BY <1>1, <1>2, <1>3 DEF Next

\* The variables stay in their types, and a session has a target to say
\* GOODBYE to (main.rs:226-245, 401-430; AudioService.kt:395-620).
THEOREM ConnectionTyped == Spec => []TypeOK
<1>1. TInv => TypeOK
  BY DEF TInv
<1> QED BY InitTyped, TypeStep, <1>1, PTL DEF Spec

-----------------------------------------------------------------------------
(* The session the phone was offered plays.  Nothing names a period that     *)
(* has not begun.  The present period is promised to the phone when its last *)
(* OFFER, a CONFIG under way or the session itself answers to that period;   *)
(* adopting the OFFER emptied the engine and began the cooldown.  If no      *)
(* older audio was under way when that ended, none can come after it, and    *)
(* only the audio of this period can have set the timeline.                  *)

Dated(m) ==
    /\ m \in ToServer => m.offer <= period
    /\ m \in ToPhone => m.period <= period

Bounded == offer <= period /\ \A m \in net : Dated(m)

Promised == offer = period \/ offered \/ \E m \in net : m \in ToServer /\ m.offer = period

Fresh == Promised /\ isRunning /\ receiver # "offered" /\ ~outlived =>
    /\ engine \in {Cooling, 0, period}
    /\ engine # Cooling => ~OldAudio

PInv == TInv /\ Bounded /\ Fresh

LEMMA Numbers ==
    ASSUME TypeOK
    PROVE  period \in Nat /\ period # 0 /\ offer \in Nat
BY ConnectionConstants DEF TypeOK

\* What the phone sends bears the OFFER it adopted last.
LEMMA PhoneDated ==
    ASSUME TypeOK, NEW kind \in {"DISCOVER", "CONFIG", "ALIVE", "GOODBYE"}
    PROVE  FromPhone(kind) \in ToServer /\ FromPhone(kind) \notin ToPhone
           /\ FromPhone(kind).offer = offer
<1>1. FromPhone(kind) \in ToServer
  BY PhoneMessages DEF TypeOK
<1> QED BY <1>1, Directions DEF FromPhone

\* What the server sends bears its listening period.
LEMMA ServerDated ==
    ASSUME TypeOK, NEW kind \in {"OFFER", "GOODBYE", "AUDIO"}, NEW to \in Addrs
    PROVE  FromServer(kind, to) \in ToPhone /\ FromServer(kind, to) \notin ToServer
           /\ FromServer(kind, to).period = period
<1>1. FromServer(kind, to) \in ToPhone
  <2>1. period \in 1..MaxPeriods
    BY DEF TypeOK
  <2> QED BY <2>1, ServerMessages
<1> QED BY <1>1, Directions DEF FromServer

\* A new listening period is promised to nobody.
LEMMA ListenPromisesNothing ==
    ASSUME TInv, Bounded, UNCHANGED phone, NEW sent, Listen(sent),
           \A m \in sent : Dated(m)
    PROVE  Bounded' /\ ~Promised'
<1>1. period \in Nat /\ offer \in Nat /\ offer <= period
  BY Numbers DEF Bounded, TInv
<1>2. period' = period + 1 /\ offer' = offer /\ offered' = FALSE
  BY DEF Listen
<1>3. net' \subseteq sent
  BY DEF Listen
<1>4. ASSUME NEW m \in net' PROVE Dated(m)' /\ ~(m \in ToServer /\ m.offer = period')
  <2>1. Dated(m)
    BY <1>3, <1>4
  <2>2. CASE m \in ToServer
    <3>1. m.offer \in Nat /\ m.offer <= period
      BY <2>1, <2>2 DEF Dated, ToServer
    <3>2. m \notin ToPhone
      BY <2>2, Directions
    <3> QED BY <1>1, <1>2, <2>2, <3>1, <3>2 DEF Dated
  <2>3. CASE m \in ToPhone
    <3>1. m.period \in Nat /\ m.period <= period
      BY <2>1, <2>3 DEF Dated, ToPhone
    <3>2. m \notin ToServer
      BY <2>3, Directions
    <3> QED BY <1>1, <1>2, <2>3, <3>1, <3>2 DEF Dated
  <2> QED BY <2>2, <2>3 DEF Dated
<1>5. ~Promised'
  BY <1>1, <1>2, <1>4 DEF Promised
<1>6. offer' <= period'
  BY <1>1, <1>2
<1> QED BY <1>4, <1>5, <1>6 DEF Bounded

\* The steps of the server: within a period it promises nothing that was not
\* promised by the CONFIG it takes.
ServerSteps ==
    \/ \E m \in net \cap ToServer : ServerReceives(m)
    \/ ServerTimeout \/ ToggleServer

LEMMA ServerKeeps ==
    ASSUME PInv, ServerSteps
    PROVE  Bounded' /\ Fresh'
<1> USE DEF PInv
<1>p. UNCHANGED phone
  BY DEF ServerSteps, ServerReceives, ServerTimeout, ToggleServer
<1>t. TypeOK /\ period \in Nat /\ offer \in Nat /\ offer <= period
  BY Numbers DEF TInv, Bounded
<1>1. ASSUME period' = period, NEW sent,
             \A m \in sent : m \notin ToServer /\ m.period = period,
             net' \subseteq net \cup sent,
             offered' => offered \/ \E m \in net : m \in ToServer /\ m.offer = period
      PROVE  Bounded' /\ Fresh'
  <2>1. Promised' => Promised
    BY <1>p, <1>1 DEF Promised
  <2>4. OldAudio' => OldAudio
    BY <1>t, <1>1 DEF OldAudio
  <2>2. Fresh'
    BY <1>p, <1>1, <2>1, <2>4 DEF Fresh
  <2>3. Bounded'
    BY <1>p, <1>t, <1>1 DEF Bounded, Dated
  <2> QED BY <2>2, <2>3
<1>8. ASSUME period' = period, net' \subseteq net,
             offered' => offered \/ \E m \in net : m \in ToServer /\ m.offer = period
      PROVE  Bounded' /\ Fresh'
  <2> DEFINE nothing == {}
  <2>1. /\ net' \subseteq net \cup nothing
        /\ \A m \in nothing : m \notin ToServer /\ m.period = period
    BY <1>8
  <2> HIDE DEF nothing
  <2> QED BY <1>8, <2>1, <1>1
<1>2. ASSUME NEW sent, Listen(sent), \A m \in sent : Dated(m)
      PROVE  Bounded' /\ Fresh'
  BY <1>p, <1>2, ListenPromisesNothing DEF Fresh
<1>3. ASSUME NEW m \in net \cap ToServer, ServerReceives(m)
      PROVE  Bounded' /\ Fresh'
  <2>1. CASE OnDiscover(m)
    <3> DEFINE answer == FromServer("OFFER", m.from)
    <3>1. answer \notin ToServer /\ answer.period = period
      <4>1. m.from \in Addrs
        BY DEF ToServer
      <4> QED BY <1>t, <4>1, ServerDated
    <3>2. period' = period /\ offered' = offered /\ net' \subseteq net \cup {answer}
      BY <2>1 DEF OnDiscover
    <3> HIDE DEF answer
    <3> QED BY <3>1, <3>2, <1>1
  <2>2. CASE OnConfig(m)
    <3>1. /\ period' = period /\ net' \subseteq net
          /\ offered' => \E c \in net : c \in ToServer /\ c.offer = period
      BY <2>2 DEF OnConfig
    <3> QED BY <3>1, <1>8
  <2>3. CASE OnActivity(m) \/ Ignored(m)
    <3>1. period' = period /\ offered' = offered /\ net' \subseteq net
      BY <2>3 DEF OnActivity, Ignored
    <3> QED BY <3>1, <1>8
  <2>4. CASE OnGoodbye(m)
    <3>1. PICK late \in SUBSET LastAudio : Listen((net \ {m}) \cup late)
      BY <2>4 DEF OnGoodbye
    <3>2. \A c \in (net \ {m}) \cup late : Dated(c)
      BY <1>t, LateAudio DEF Bounded, Dated
    <3> QED BY <3>1, <3>2, <1>2
  <2> QED BY <1>3, <2>1, <2>2, <2>3, <2>4 DEF ServerReceives
<1>4. CASE ServerTimeout
  <2>1. PICK late \in SUBSET LastAudio : Listen(net \cup late)
    BY <1>4 DEF ServerTimeout
  <2>2. \A m \in net \cup late : Dated(m)
    BY <1>t, LateAudio DEF Bounded, Dated
  <2> QED BY <2>1, <2>2, <1>2
<1>5. CASE ToggleStreaming
  <2> DEFINE farewell == FromServer("GOODBYE", target)
  <2>1. farewell \notin ToServer /\ farewell.period = period
    <3>1. target \in Addrs
      BY <1>5 DEF ToggleStreaming, TInv, Aimed
    <3> QED BY <1>t, <3>1, ServerDated
  <2>2. PICK late \in SUBSET LastAudio : net' = net \cup late \cup {farewell}
    BY <1>5 DEF ToggleStreaming
  <2>3. period' = period /\ offered' = offered
    BY <1>5 DEF ToggleStreaming
  <2> HIDE DEF farewell
  <2> DEFINE sent == late \cup {farewell}
  <2>4. \A m \in sent : m \notin ToServer /\ m.period = period
    BY <2>1, LateAudio
  <2>5. net' \subseteq net \cup sent
    BY <2>2
  <2> HIDE DEF sent
  <2> QED BY <2>3, <2>4, <2>5, <1>1
<1>6. CASE ToggleListening
  <2>1. period' = period /\ offered' = offered /\ net' \subseteq net
    BY <1>6 DEF ToggleListening
  <2> QED BY <2>1, <1>8
<1>7. CASE ToggleIdle
  <2>1. Listen(net) /\ \A m \in net : Dated(m)
    BY <1>7 DEF ToggleIdle, Bounded
  <2> QED BY <2>1, <1>2
<1> QED BY <1>3, <1>4, <1>5, <1>6, <1>7 DEF ServerSteps, ToggleServer

Kinds == {"DISCOVER", "CONFIG", "ALIVE", "GOODBYE"}

\* What the phone sends promises nothing that its last OFFER does not.
LEMMA PhonePromises ==
    ASSUME PInv, UNCHANGED <<period, offered, offer>>,
           \A m \in net' : m \in net \/ \E kind \in Kinds : m = FromPhone(kind)
    PROVE  Bounded' /\ (Promised' => Promised) /\ (OldAudio' => OldAudio)
<1>t. TypeOK /\ period' = period /\ offered' = offered
  BY DEF PInv, TInv
<1>1. ASSUME NEW m \in net', NEW kind \in Kinds, m = FromPhone(kind)
      PROVE  m \in ToServer /\ m \notin ToPhone /\ m.offer = offer
  BY <1>t, <1>1, PhoneDated DEF Kinds
<1>2. ASSUME NEW m \in net' PROVE Dated(m)'
  BY <1>t, <1>1 DEF PInv, Bounded, Dated
<1>3. Promised' => Promised
  BY <1>t, <1>1 DEF Promised
<1>4. OldAudio' => OldAudio
  BY <1>t, <1>1 DEF OldAudio
<1> QED BY <1>t, <1>2, <1>3, <1>4 DEF PInv, Bounded

\* A step that adopts no OFFER and no audio, and at most empties an engine that
\* does not cool down.
LEMMA QuietKeeps ==
    ASSUME PInv, UNCHANGED <<server, outlived>>, Promised' => Promised,
           OldAudio' => OldAudio, isRunning' => isRunning,
           receiver = "offered" => receiver' = "offered",
           engine' = engine \/ (engine # Cooling /\ engine' = 0)
    PROVE  Fresh'
BY DEF PInv, Fresh

LEMMA ReceiverKeeps ==
    ASSUME PInv, ReceiverActs
    PROVE  Bounded' /\ Fresh'
<1>c. UNCHANGED server /\ isRunning' = isRunning
  BY DEF ReceiverActs, PhoneReceives, Undeliverable, ReceiveOffer, ReceiveGoodbye,
         AdoptOffer, ReceiveAudio, ReceiveLateAudio, HearAudio, EndCooldown, AdoptAudio,
         SocketTimeout, ReceiverClears
<1>t. TypeOK /\ period \in Nat /\ period # 0
  BY Numbers DEF PInv, TInv
<1>1. ASSUME NEW m \in net \cap ToPhone, ReceiveOffer(m), serverAddress = FALSE
      PROVE  Bounded' /\ Fresh'
  <2>1. receiver' = "offered" /\ offer' = m.period /\ net' \subseteq net
        /\ period' = period
    BY <1>1, <1>c DEF ReceiveOffer
  <2>2. m.period <= period
    BY DEF PInv, Bounded, Dated
  <2> QED BY <2>1, <2>2 DEF PInv, Bounded, Dated, Fresh
<1>2. ASSUME NEW m \in net \cap ToPhone,
             \/ ReceiveOffer(m) /\ serverAddress # FALSE
             \/ ReceiveGoodbye(m) \/ Undeliverable(m)
      PROVE  Bounded' /\ Fresh'
  <2>1. /\ UNCHANGED <<offer, engine, outlived>> /\ net' \subseteq net
        /\ receiver = "offered" => receiver' = "offered"
    BY <1>2 DEF ReceiveOffer, ReceiveGoodbye, Undeliverable, Free, PInv, TInv, TypeOK
  <2> QED BY <1>c, <2>1, PhonePromises, QuietKeeps
<1>3. CASE AdoptOffer
  <2>1. \A m \in net' : m \in net \/ \E kind \in Kinds : m = FromPhone(kind)
    BY <1>3 DEF AdoptOffer, Kinds
  <2>2. offer' = offer /\ engine' = Cooling
    BY <1>3 DEF AdoptOffer, ResetEngine
  <2> QED BY <1>c, <2>1, <2>2, PhonePromises DEF Fresh
<1>4. ASSUME NEW session, HearAudio(session), net' \subseteq net, Free,
             OldAudio \/ session = period
      PROVE  Bounded' /\ Fresh'
  <2>1. UNCHANGED <<offer, outlived>> /\ isRunning /\ receiver = "receive"
        /\ engine' \in Pushed(session) /\ period' = period
    BY <1>4, <1>c DEF HearAudio, Free
  <2>2. Bounded' /\ (Promised' => Promised) /\ (OldAudio' => OldAudio)
    BY <1>c, <1>4, <2>1, PhonePromises
  <2>3. SUFFICES ASSUME Promised, ~outlived
                 PROVE  /\ engine' \in {Cooling, 0, period}
                        /\ engine' # Cooling => ~OldAudio
    BY <2>1, <2>2 DEF Fresh
  <2>4. engine \in {Cooling, 0, period} /\ (engine # Cooling => ~OldAudio)
    BY <2>1, <2>3 DEF PInv, Fresh
  <2>5. CASE engine = Cooling
    BY <2>1, <2>5 DEF Pushed, Cooling
  <2>6. CASE engine # Cooling
    <3>1. ~OldAudio /\ session = period /\ engine \in {0, period}
      BY <1>4, <2>4, <2>6
    <3>2. engine' \in {engine, period}
      BY <2>1, <2>6, <3>1 DEF Pushed
    <3> QED BY <3>1, <3>2
  <2> QED BY <2>5, <2>6
<1>6. CASE ReceiveAudio
  BY <1>4, <1>6 DEF ReceiveAudio
<1>7. ASSUME NEW m \in net \cap ToPhone, ReceiveLateAudio(m)
      PROVE  Bounded' /\ Fresh'
  <2>1. m.period \in Nat /\ m.period <= period /\ m.kind = "AUDIO"
    BY <1>7 DEF ToPhone, PInv, Bounded, Dated, ReceiveLateAudio
  <2>2. OldAudio \/ m.period = period
    BY <1>t, <2>1 DEF OldAudio
  <2>3. Free /\ HearAudio(m.period) /\ net' \subseteq net
    BY <1>7 DEF ReceiveLateAudio
  <2> QED BY <2>2, <2>3, <1>4
<1>8. CASE EndCooldown
  <2>1. UNCHANGED <<offer, receiver>> /\ net' = net /\ engine' = 0
        /\ outlived' = OldAudio /\ period' = period
    BY <1>8, <1>c DEF EndCooldown
  <2>2. Bounded' /\ (OldAudio' => OldAudio)
    BY <1>c, <2>1, PhonePromises
  <2> QED BY <2>1, <2>2 DEF Fresh
<1>5. CASE AdoptAudio \/ SocketTimeout \/ ReceiverClears
  <2>1. /\ UNCHANGED <<offer, outlived>> /\ net' = net
        /\ engine' = engine \/ (engine # Cooling /\ engine' = 0)
        /\ receiver = "offered" => receiver' = "offered"
    BY <1>5 DEF AdoptAudio, SocketTimeout, ReceiverClears, Free
  <2> QED BY <1>c, <2>1, PhonePromises, QuietKeeps
<1> QED BY <1>1, <1>2, <1>3, <1>5, <1>6, <1>7, <1>8 DEF ReceiverActs, PhoneReceives

\* The loops, the losses, a change of address and the clock leave the engine
\* and the receiver alone; the end of a service instance leaves no engine.
OthersAct ==
    LoopsAct \/ Tick \/ ChangeAddress \/ OnDestroy \/ LoseAudio \/ \E m \in net : Lose(m)

LEMMA OthersKeep ==
    ASSUME PInv, OthersAct
    PROVE  Bounded' /\ Fresh'
<1>1. UNCHANGED <<period, offered, offer, engine, outlived>>
  BY DEF OthersAct, LoopsAct, WatchdogLooks, WatchdogClears, Discovery, Heartbeat, Tick,
         ChangeAddress, OnDestroy, LoseAudio, Lose
<1>2. \A m \in net' : m \in net \/ \E kind \in Kinds : m = FromPhone(kind)
  BY DEF OthersAct, LoopsAct, WatchdogLooks, WatchdogClears, Discovery, Heartbeat, Tick,
         ChangeAddress, OnDestroy, LoseAudio, Lose, Kinds
<1>3. isRunning' = FALSE \/ UNCHANGED <<isRunning, receiver>>
  BY DEF OthersAct, LoopsAct, WatchdogLooks, WatchdogClears, Discovery, Heartbeat, Tick,
         ChangeAddress, OnDestroy, LoseAudio, Lose
<1> QED BY <1>1, <1>2, <1>3, PhonePromises DEF PInv, Fresh

LEMMA StartKeeps ==
    ASSUME PInv, StartService
    PROVE  Bounded' /\ Fresh'
<1>1. engine' = Cooling /\ offer' = 0 /\ net' = net /\ period' = period
  BY DEF StartService, ResetEngine
<1>2. period \in Nat
  BY Numbers DEF PInv, TInv
<1> QED BY <1>1, <1>2 DEF PInv, Bounded, Dated, Fresh

LEMMA PlaysStep == PInv /\ [Next]_vars => PInv'
<1> SUFFICES ASSUME PInv, [Next]_vars PROVE Bounded' /\ Fresh'
  BY TypeStep DEF PInv
<1>1. CASE ServerSteps
  BY <1>1, ServerKeeps
<1>2. CASE ReceiverActs
  BY <1>2, ReceiverKeeps
<1>3. CASE OthersAct
  BY <1>3, OthersKeep
<1>4. CASE StartService
  BY <1>4, StartKeeps
<1>5. CASE UNCHANGED vars
  BY <1>5 DEF vars, PInv, Bounded, Dated, Fresh, Promised, OldAudio
<1> QED BY <1>1, <1>2, <1>3, <1>4, <1>5
   DEF Next, Disturbance, Operation, ServerSteps, ReceiverActs, LoopsAct, OthersAct

\* A session that answers to the OFFER of its own listening period is on the
\* timeline of the phone's engine, whatever was lost, overtaken, stopped or
\* restarted before it and whatever audio of earlier sessions still arrives in
\* the cooldown, unless some is under way for longer than that
\* (AudioService.kt:469-485, native-lib.cpp:301-306, 361-366).
THEOREM OfferedSessionIsPlayed == Spec => []OfferedSessionPlays
<1>1. Init => PInv
  BY InitTyped DEF Init, PInv, Bounded, Fresh
<1>2. PInv => OfferedSessionPlays
  BY DEF PInv, Fresh, Promised, OfferedSessionPlays, Connected
<1> QED BY <1>1, <1>2, PlaysStep, PTL DEF Spec

-----------------------------------------------------------------------------
(* Recovery, first part: what holds of every state.                         *)

Untroubled == upsets = {}

\* With one address everything is addressed to it and comes from it, and a
\* session streams to it.
Addressed == Untroubled =>
    /\ \A m \in net : (m \in ToServer => m.from = addr) /\ (m \in ToPhone => m.to = addr)
    /\ target \in {NoAddr, addr}
    /\ state = "Streaming" => worker = "alive" /\ target = addr

\* The three clocks of the phone: while the audio of its server is overdue the
\* watchdog has its turn, an OFFER was just heard, and a heartbeat is sent when
\* it is due.
OnTime ==
    /\ isRunning /\ serverAddress /\ audioAge = AUDIO_STALE /\ receiver # "offered"
          => "watchdog" \in todo \/ watchdog = "expired"
    /\ receiver = "offered" => silence = 0
    /\ isRunning /\ beat = HEARTBEAT => "heartbeat" \in todo

Sound == TInv /\ Addressed /\ OnTime

LEMMA ServerAddressed ==
    ASSUME TInv, Addressed, ServerSteps, Untroubled'
    PROVE  Addressed'
<1>1. Untroubled /\ UNCHANGED phone
  BY DEF ServerSteps, ServerReceives, OnDiscover, OnConfig, OnActivity, OnGoodbye, Ignored,
         ServerTimeout, ToggleServer, Calm, Upset, UpsetBy, Untroubled
<1>2. addr \in Addrs /\ TypeOK
  BY DEF TInv, TypeOK
<1>3. ASSUME NEW kind \in {"OFFER", "GOODBYE", "AUDIO"}
      PROVE  /\ FromServer(kind, addr) \notin ToServer
             /\ FromServer(kind, addr).to = addr
  BY <1>2, <1>3, ServerDated DEF FromServer
<1>a. ASSUME NEW late \in SUBSET LastAudio, NEW m \in late
      PROVE  m \notin ToServer /\ m.to = addr
  <2>1. m \notin ToServer /\ m.to = target /\ state = "Streaming"
    BY LateAudio DEF Streams
  <2> QED BY <1>1, <2>1 DEF Addressed
<1>4. ASSUME NEW late \in SUBSET LastAudio, NEW sent, sent \subseteq net \cup late,
             Listen(sent)
      PROVE  Addressed'
  <2>1. net' \subseteq net \cup late
    BY <1>4 DEF Listen
  <2>2. state' = "Listening" /\ target' = NoAddr
    BY <1>4 DEF Listen
  <2>3. \A m \in net' : (m \in ToServer => m.from = addr) /\ (m \in ToPhone => m.to = addr)
    BY <1>1, <1>a, <2>1 DEF Addressed
  <2> QED BY <1>1, <2>2, <2>3 DEF Addressed
<1>5. ASSUME NEW m \in net \cap ToServer, ServerReceives(m) PROVE Addressed'
  <2>1. m.from = addr
    BY <1>1 DEF Addressed
  <2>2. CASE OnDiscover(m)
    BY <1>1, <1>3, <2>1, <2>2 DEF OnDiscover, Addressed
  <2>3. CASE OnConfig(m)
    <3>1. "panic" \notin upsets'
      BY DEF Untroubled
    <3>2. worker' = "alive"
      BY <2>3, <3>1 DEF OnConfig, UpsetBy
    <3>3. target' = addr
      <4>1. target \in {NoAddr, addr}
        BY <1>1 DEF Addressed
      <4> QED BY <2>1, <2>3, <4>1 DEF OnConfig
    <3> QED BY <1>1, <2>3, <3>2, <3>3 DEF OnConfig, Addressed
  <2>4. CASE OnActivity(m)
    BY <1>1, <2>4 DEF OnActivity, Addressed
  <2>5. CASE OnGoodbye(m)
    <3>1. PICK late \in SUBSET LastAudio : Listen((net \ {m}) \cup late)
      BY <2>5 DEF OnGoodbye
    <3> DEFINE sent == (net \ {m}) \cup late
    <3>2. sent \subseteq net \cup late /\ Listen(sent)
      BY <3>1
    <3> HIDE DEF sent
    <3> QED BY <3>2, <1>4
  <2>6. CASE Ignored(m)
    BY <1>1, <2>6 DEF Ignored, Addressed
  <2> QED BY <1>5, <2>2, <2>3, <2>4, <2>5, <2>6 DEF ServerReceives
<1>6. CASE ServerTimeout
  <2>1. PICK late \in SUBSET LastAudio : Listen(net \cup late)
    BY <1>6 DEF ServerTimeout
  <2> DEFINE sent == net \cup late
  <2>2. sent \subseteq net \cup late /\ Listen(sent)
    BY <2>1
  <2> HIDE DEF sent
  <2> QED BY <2>2, <1>4
<1>7. CASE ToggleStreaming
  <2>1. target = addr
    BY <1>1, <1>7 DEF ToggleStreaming, Addressed
  <2>2. PICK late \in SUBSET LastAudio : net' = net \cup late \cup {FromServer("GOODBYE",
         addr)}
    BY <1>7, <2>1 DEF ToggleStreaming
  <2>3. \A m \in net' : (m \in ToServer => m.from = addr) /\ (m \in ToPhone => m.to = addr)
    BY <1>1, <1>3, <1>a, <2>2 DEF Addressed
  <2>4. state' = "Idle" /\ target' = NoAddr
    BY <1>7 DEF ToggleStreaming
  <2> QED BY <1>1, <2>3, <2>4 DEF Addressed
<1>8. CASE ToggleListening
  BY <1>1, <1>8 DEF ToggleListening, Addressed
<1>9. CASE ToggleIdle
  <2> DEFINE late == {}
  <2>1. late \in SUBSET LastAudio /\ net \subseteq net \cup late /\ Listen(net)
    BY <1>9 DEF ToggleIdle
  <2> HIDE DEF late
  <2> QED BY <2>1, <1>4
<1> QED BY <1>5, <1>6, <1>7, <1>8, <1>9 DEF ServerSteps, ToggleServer

LEMMA PhoneAddressed ==
    ASSUME TInv, Addressed, Untroubled',
           ReceiverActs \/ OthersAct \/ StartService \/ UNCHANGED vars
    PROVE  Addressed'
<1>1. UNCHANGED <<state, target, worker>> /\ Untroubled /\ addr' = addr
  BY DEF ReceiverActs, PhoneReceives, Undeliverable, ReceiveOffer, ReceiveGoodbye,
         AdoptOffer, ReceiveAudio, ReceiveLateAudio, HearAudio, EndCooldown, AdoptAudio,
         SocketTimeout, ReceiverClears, OthersAct, LoopsAct, WatchdogLooks,
         WatchdogClears, Discovery, Heartbeat, Tick,
         ChangeAddress, OnDestroy, LoseAudio, Lose, StartService, vars, Calm, Upset,
         UpsetBy, Untroubled
<1>2. \A m \in net' : m \in net \/ \E kind \in Kinds : m = FromPhone(kind)
  BY DEF ReceiverActs, PhoneReceives, Undeliverable, ReceiveOffer, ReceiveGoodbye,
         AdoptOffer, ReceiveAudio, ReceiveLateAudio, HearAudio, EndCooldown, AdoptAudio,
         SocketTimeout, ReceiverClears, OthersAct, LoopsAct, WatchdogLooks,
         WatchdogClears, Discovery, Heartbeat, Tick,
         ChangeAddress, OnDestroy, LoseAudio, Lose, StartService, vars, Kinds
<1>3. ASSUME NEW m \in net', NEW kind \in Kinds, m = FromPhone(kind)
      PROVE  m \notin ToPhone /\ m.from = addr
  BY <1>3, PhoneDated DEF Kinds, FromPhone, TInv
<1> QED BY <1>1, <1>2, <1>3 DEF Addressed

LEMMA OnTimeStep ==
    ASSUME TypeOK, OnTime, Next
    PROVE  OnTime'
<1>c. AUDIO_STALE \in Nat /\ AUDIO_STALE # 0 /\ HEARTBEAT \in Nat /\ HEARTBEAT # 0
  BY ConnectionConstants
<1>1. CASE ServerSteps
  <2>1. UNCHANGED <<phone, todo>>
    BY <1>1 DEF ServerSteps, ServerReceives, ServerTimeout, ToggleServer
  <2> QED BY <2>1 DEF OnTime
<1>2. CASE ReceiverActs
  <2>1. UNCHANGED <<isRunning, watchdog, beat>> /\ todo \ {"audio"} \subseteq todo'
    BY <1>2 DEF ReceiverActs, PhoneReceives, Undeliverable, ReceiveOffer, ReceiveGoodbye,
         AdoptOffer, ReceiveAudio, ReceiveLateAudio, HearAudio, EndCooldown, AdoptAudio,
         SocketTimeout, ReceiverClears
  <2>2. serverAddress' /\ audioAge' = AUDIO_STALE /\ receiver' # "offered"
           => serverAddress /\ audioAge = AUDIO_STALE /\ receiver # "offered"
    BY <1>2, <1>c DEF ReceiverActs, PhoneReceives, Undeliverable, ReceiveOffer,
         ReceiveGoodbye, AdoptOffer, ReceiveAudio, ReceiveLateAudio, HearAudio,
         EndCooldown, InferServer, AdoptAudio, SocketTimeout, ReceiverClears, TypeOK
  <2>3. receiver' = "offered" => silence' = 0 \/ (receiver = "offered" /\ silence' = silence)
    BY <1>2 DEF ReceiverActs, PhoneReceives, Undeliverable, ReceiveOffer,
         ReceiveGoodbye, AdoptOffer, ReceiveAudio, ReceiveLateAudio, HearAudio,
         EndCooldown, InferServer, AdoptAudio, SocketTimeout, ReceiverClears, Heard
  <2> QED BY <2>1, <2>2, <2>3 DEF OnTime
<1>3. CASE WatchdogLooks
  BY <1>3, <1>c DEF WatchdogLooks, Stale, OnTime, TypeOK
<1>4. CASE WatchdogClears
  BY <1>4 DEF WatchdogClears, OnTime
<1>5. CASE Discovery \/ Heartbeat
  BY <1>5, <1>c DEF Discovery, Heartbeat, OnTime
<1>6. CASE Tick
  BY <1>6 DEF Tick, Due, OnTime
<1>7. CASE ChangeAddress \/ LoseAudio \/ \E m \in net : Lose(m)
  <2>1. UNCHANGED <<isRunning, serverAddress, audioAge, receiver, watchdog, silence, beat>>
        /\ todo \ {"audio"} \subseteq todo'
    BY <1>7 DEF ChangeAddress, LoseAudio, Lose
  <2> QED BY <2>1 DEF OnTime
<1>8. CASE OnDestroy \/ StartService
  <2>1. receiver' = "receive" /\ (isRunning' => audioAge' = 0 /\ beat' = 0)
    BY <1>8 DEF OnDestroy, StartService
  <2> QED BY <2>1, <1>c DEF OnTime
<1> QED BY <1>1, <1>2, <1>3, <1>4, <1>5, <1>6, <1>7, <1>8
   DEF Next, Disturbance, Operation, ServerSteps, ReceiverActs

LEMMA SoundStep == Sound /\ [Next]_vars => Sound'
<1> SUFFICES ASSUME Sound, [Next]_vars PROVE Addressed' /\ OnTime'
  BY TypeStep DEF Sound
<1>1. Addressed'
  <2>1. CASE ~Untroubled'
    BY <2>1 DEF Addressed
  <2>2. CASE Untroubled'
    BY <2>2, ServerAddressed, PhoneAddressed
       DEF Sound, Next, Disturbance, Operation, ServerSteps, ReceiverActs, LoopsAct,
           OthersAct
  <2> QED BY <2>1, <2>2
<1>2. OnTime'
  <2>1. CASE Next
    BY <2>1, OnTimeStep DEF Sound, TInv
  <2>2. CASE UNCHANGED vars
    BY <2>2 DEF vars, Sound, OnTime
  <2> QED BY <2>1, <2>2
<1> QED BY <1>1, <1>2

-----------------------------------------------------------------------------
(* Recovery, second part: how far the two are from a lasting connection.     *)
(* Every stage has a bound on the seconds it may still take.  No step raises *)
(* it and every second lowers it.                                            *)

\* What the argument needs of the timers: 2 s (1.5 s), 3 s, 3 retries, 2 s and 6 s
\* in the code (AudioService.kt:402-403, 461, 596; main.rs:454).
Timers ==
    /\ AUDIO_STALE >= 2 /\ AUDIO_STALE < SOCKET_TIMEOUT /\ CONFIG_RETRIES >= 1
    /\ HEARTBEAT >= 2 /\ HEARTBEAT + 2 < SERVER_TIMEOUT
    /\ RECOVERY >= HEARTBEAT + AUDIO_STALE + 3

ConfigComing == \E m \in net : m \in ToServer /\ m.kind = "CONFIG"
DiscoverComing == \E m \in net : m \in ToServer /\ m.kind = "DISCOVER"
OfferComing == \E m \in net : m \in ToPhone /\ m.kind = "OFFER"
AnyComing == \E m \in net : m \in ToServer
AudioComing == \E m \in net : m \in ToPhone /\ m.kind = "AUDIO"
NoGoodbye == \A m \in net : m.kind # "GOODBYE"

Session == state = "Streaming" /\ NoGoodbye
Search == state = "Listening" /\ NoGoodbye /\ ~AudioComing

\* The server gave the session up, and the last of its audio is still to come.
Echo == state = "Listening" /\ NoGoodbye /\ AudioComing

\* The audio of this second is still to come, or it came.
Fed == "audio" \in todo \/ (audioAge = 0 /\ retries = 0 /\ silence = 0)
Heeded == "audio" \in todo \/ (Fed /\ serverAddress)

\* The watchdog will not clear the connection in this second.
WatchdogCalm ==
    /\ watchdog # "expired"
    /\ ~("watchdog" \in todo /\ audioAge = AUDIO_STALE /\ retries = CONFIG_RETRIES)

\* What leads to a CONFIG in this second.
Underway ==
    \/ (~serverAddress /\ ("discovery" \in todo \/ DiscoverComing \/ OfferComing))
    \/ (serverAddress /\ receiver = "offered")
    \/ ConfigComing

Unbound == ~serverAddress \/ receiver = "offered" \/ ConfigComing

\* A session whose audio comes and keeps coming.
Flowing ==
    /\ Session /\ serverAddress /\ watchdog # "expired"
    /\ retries = 0 /\ audioAge <= 1 /\ silence <= audioAge /\ Fed

\* ... and whose heartbeats come in time.
Lasting ==
    /\ Flowing /\ activity < SERVER_TIMEOUT
    /\ (AnyComing \/ activity + HEARTBEAT < SERVER_TIMEOUT + beat)

\* It lasts after this second, the next, the one after that.
SessionNow == Session /\ WatchdogCalm /\ Heeded /\ activity <= 2
SearchNow == Search /\ WatchdogCalm /\ "audio" \in todo /\ Underway
SessionNext == Session /\ Fed /\ activity <= 1
SearchNext ==
    /\ Search /\ Fed /\ Unbound
    /\ Underway \/ watchdog # "watch" \/ retries < CONFIG_RETRIES
SessionLater == Session /\ activity = 0
SearchLater == Search /\ Unbound

\* The phone waits for audio of a server that listens, and asks for it when the
\* watchdog wakes; the second form is that of a phone that heard audio lately.
Waiting == Search /\ serverAddress
WaitingFresh ==
    /\ Waiting /\ watchdog # "expired" /\ retries = 0 /\ silence <= audioAge
    /\ "audio" \in todo \/ audioAge = 0
    /\ audioAge <= 1 \/ ~(receiver = "offered" \/ ConfigComing)

\* The same of a phone whose session flowed until the server gave it up.
EchoFresh ==
    /\ Echo /\ serverAddress /\ watchdog # "expired"
    /\ retries = 0 /\ audioAge <= 1 /\ silence <= audioAge

Within(seconds) == calm + seconds <= HEARTBEAT + AUDIO_STALE + 3

Stage ==
    \/ calm = 0
    \/ Lasting
    \/ Within(1) /\ (SessionNow \/ SearchNow)
    \/ Within(2) /\ (SessionNext \/ SearchNext)
    \/ Within(3) /\ (SessionLater \/ SearchLater)
    \/ Within(AUDIO_STALE + 3 - audioAge) /\ Waiting
    \/ Within(AUDIO_STALE + 1 - audioAge) /\ WaitingFresh
    \/ Within(AUDIO_STALE + 3) /\ Echo
    \/ Within(AUDIO_STALE + 1) /\ EchoFresh
    \/ Within(AUDIO_STALE + 1) /\ Flowing /\ AnyComing
    \/ Within(AUDIO_STALE + 1 + (HEARTBEAT - beat)) /\ Flowing
    \/ Within(AUDIO_STALE + HEARTBEAT + 1) /\ Session /\ WatchdogCalm /\ Heeded
    \/ Within(AUDIO_STALE + HEARTBEAT + 2) /\ Session /\ Fed

Recovering == Sound /\ (Wanted /\ Untroubled => Stage)

\* The clocks are numbers within their limits.
LEMMA Clocks ==
    ASSUME TypeOK
    PROVE  /\ activity \in Nat /\ silence \in Nat
           /\ retries \in Nat /\ retries <= CONFIG_RETRIES
           /\ audioAge \in Nat /\ audioAge <= AUDIO_STALE
           /\ beat \in Nat /\ beat <= HEARTBEAT
           /\ calm \in Nat /\ calm <= RECOVERY
           /\ AUDIO_STALE \in Nat /\ CONFIG_RETRIES \in Nat /\ SOCKET_TIMEOUT \in Nat
           /\ HEARTBEAT \in Nat /\ SERVER_TIMEOUT \in Nat /\ RECOVERY \in Nat
BY ConnectionConstants DEF TypeOK

\* What the messages say when one is taken, and when the phone sends one.
LEMMA Taken ==
    ASSUME NEW m \in net, net' = net \ {m}
    PROVE  /\ NoGoodbye => NoGoodbye'
           /\ m \in ToPhone => /\ ConfigComing' = ConfigComing
                               /\ DiscoverComing' = DiscoverComing
                               /\ AnyComing' = AnyComing
           /\ m \in ToServer => OfferComing' = OfferComing
           /\ ConfigComing' => ConfigComing
           /\ m.kind # "CONFIG" => ConfigComing' = ConfigComing
           /\ m.kind # "DISCOVER" => DiscoverComing' = DiscoverComing
           /\ m.kind # "AUDIO" \/ m \in ToServer => AudioComing' = AudioComing
BY Directions
   DEF NoGoodbye, ConfigComing, DiscoverComing, OfferComing, AnyComing, AudioComing

LEMMA Sent ==
    ASSUME TypeOK, NEW kind \in Kinds, net' = net \cup {FromPhone(kind)}
    PROVE  /\ kind # "GOODBYE" /\ NoGoodbye => NoGoodbye'
           /\ ConfigComing => ConfigComing'
           /\ kind = "CONFIG" => ConfigComing'
           /\ kind # "CONFIG" => ConfigComing' = ConfigComing
           /\ DiscoverComing => DiscoverComing'
           /\ kind = "DISCOVER" => DiscoverComing'
           /\ OfferComing' = OfferComing
           /\ AnyComing' /\ AudioComing' = AudioComing
<1> DEFINE letter == FromPhone(kind)
<1>1. letter \in ToServer /\ letter \notin ToPhone
  BY PhoneDated DEF Kinds
<1>2. letter.kind = kind /\ net' = net \cup {letter}
  BY DEF FromPhone
<1> HIDE DEF letter
<1> QED BY <1>1, <1>2
        DEF NoGoodbye, ConfigComing, DiscoverComing, OfferComing, AnyComing, AudioComing

LEMMA Quiet ==
    ASSUME net' = net
    PROVE  /\ NoGoodbye' = NoGoodbye /\ ConfigComing' = ConfigComing
           /\ DiscoverComing' = DiscoverComing /\ OfferComing' = OfferComing
           /\ AnyComing' = AnyComing /\ AudioComing' = AudioComing
BY DEF NoGoodbye, ConfigComing, DiscoverComing, OfferComing, AnyComing, AudioComing

-----------------------------------------------------------------------------
(* The steps within a second keep the stage.                                 *)

Ready == Timers /\ Sound /\ Wanted /\ Untroubled /\ Stage

USE DEF Stage, Lasting, Flowing, Session, Search, SessionNow, SearchNow, SessionNext,
        SearchNext, SessionLater, SearchLater, Waiting, WaitingFresh, Echo, EchoFresh,
        Within, Fed, Heeded, WatchdogCalm, Underway, Unbound

LEMMA DiscoverStage ==
    ASSUME Ready, NEW m \in net \cap ToServer, OnDiscover(m), UNCHANGED <<phone, todo>>
    PROVE  Stage'
<1>1. TypeOK /\ m.from = addr /\ addr \in Addrs
  BY DEF Ready, Sound, TInv, TypeOK, Addressed
<1>2. /\ OfferComing' /\ ConfigComing' = ConfigComing
      /\ NoGoodbye => NoGoodbye'
      /\ AudioComing' = AudioComing
  <2> DEFINE answer == FromServer("OFFER", addr)
  <2>1. answer \in ToPhone /\ answer \notin ToServer /\ answer.kind = "OFFER"
    BY <1>1, ServerDated DEF FromServer
  <2>2. net' = (net \ {m}) \cup {answer} /\ m.kind = "DISCOVER"
    BY <1>1 DEF OnDiscover
  <2> HIDE DEF answer
  <2>3. m \notin ToPhone
    BY Directions
  <2> QED BY <2>1, <2>2, <2>3 DEF OfferComing, ConfigComing, NoGoodbye, AudioComing
<1>3. /\ state = "Listening" /\ state' = "Listening"
      /\ UNCHANGED <<activity, phone, todo, weather>>
  BY DEF OnDiscover, Calm
<1> QED BY <1>2, <1>3, Clocks, <1>1 DEF Ready

LEMMA ConfigStage ==
    ASSUME Ready, NEW m \in net \cap ToServer, OnConfig(m), UNCHANGED <<phone, todo>>
    PROVE  Stage'
<1>1. TypeOK
  BY DEF Ready, Sound, TInv
<1>2. /\ ConfigComing
      /\ NoGoodbye => NoGoodbye'
  <2>1. m.kind = "CONFIG" /\ net' = net \ {m}
    BY DEF OnConfig
  <2> QED BY <2>1 DEF ConfigComing, NoGoodbye
<1>3. /\ state = "Listening" /\ state' = "Streaming" /\ activity' = 0
      /\ UNCHANGED <<phone, todo>> /\ calm' \in {0, calm}
  BY DEF OnConfig, Calm, UpsetBy
<1> QED BY <1>1, <1>2, <1>3, Clocks DEF Ready, Timers

LEMMA ActivityStage ==
    ASSUME Ready, NEW m \in net \cap ToServer, OnActivity(m), UNCHANGED <<phone, todo>>
    PROVE  Stage'
<1>1. TypeOK
  BY DEF Ready, Sound, TInv
<1>2. NoGoodbye => NoGoodbye'
  BY DEF OnActivity, NoGoodbye
<1>3. /\ state = "Streaming" /\ state' = "Streaming" /\ activity' = 0
      /\ UNCHANGED <<phone, todo, weather>>
  BY DEF OnActivity, Calm
<1> QED BY <1>1, <1>2, <1>3, Clocks DEF Ready, Timers

LEMMA IgnoredStage ==
    ASSUME Ready, NEW m \in net \cap ToServer, Ignored(m), UNCHANGED <<phone, todo>>
    PROVE  Stage'
<1>1. TypeOK /\ state = "Listening"
  BY DEF Ready, Sound, TInv, TypeOK, Wanted, Ignored
<1>2. net' = net \ {m} /\ m.kind \notin {"DISCOVER", "CONFIG"}
      /\ UNCHANGED <<server, phone, todo, weather>>
  BY <1>1 DEF Ignored, Calm
<1>3. /\ NoGoodbye => NoGoodbye'
      /\ OfferComing' = OfferComing /\ ConfigComing' = ConfigComing
      /\ DiscoverComing' = DiscoverComing /\ AudioComing' = AudioComing
  BY <1>2, Taken
<1> QED BY <1>1, <1>2, <1>3, Clocks DEF Ready

LEMMA TimeoutStage ==
    ASSUME Ready, ServerTimeout
    PROVE  Stage'
<1>1. TypeOK
  BY DEF Ready, Sound, TInv
<1>2. /\ state = "Streaming" /\ activity >= SERVER_TIMEOUT /\ state' = "Listening"
      /\ UNCHANGED <<phone, todo, weather>>
  BY DEF ServerTimeout, Listen, Calm
<1>3. NoGoodbye => NoGoodbye'
  <2>1. PICK late \in SUBSET LastAudio : Listen(net \cup late)
    BY DEF ServerTimeout
  <2>2. net' \subseteq net \cup late
    BY <2>1 DEF Listen
  <2>3. \A m \in late : m.kind = "AUDIO"
    BY LateAudio DEF Ready, Sound
  <2> QED BY <2>2, <2>3 DEF NoGoodbye
<1>4. Flowing => WaitingFresh' \/ EchoFresh'
  BY <1>1, <1>2, <1>3, Clocks
<1>5. Session => SearchLater' \/ Waiting' \/ Echo'
  BY <1>1, <1>2, <1>3 DEF TypeOK
<1>6. ~Lasting /\ ~SessionNow /\ ~SessionNext /\ ~SessionLater /\ ~Search /\ ~Echo
  BY <1>1, <1>2, Clocks DEF Ready, Timers
<1>7. CASE Flowing /\ ~(calm = 0)
  <2>1. Within(AUDIO_STALE + 1) /\ Within(AUDIO_STALE + 1 - audioAge)
    BY <1>1, <1>6, <1>7, Clocks DEF Ready, Timers
  <2> QED BY <1>2, <1>4, <1>7, <2>1
<1>8. CASE ~Flowing /\ ~(calm = 0)
  <2>1. Session /\ Within(AUDIO_STALE + HEARTBEAT + 1)
    BY <1>1, <1>6, <1>8, Clocks DEF Ready
  <2>2. Within(3) /\ Within(AUDIO_STALE + 3 - audioAge) /\ Within(AUDIO_STALE + 3)
    BY <1>1, <2>1, Clocks DEF Ready, Timers
  <2> QED BY <1>2, <1>5, <2>1, <2>2
<1>9. CASE calm = 0
  BY <1>2, <1>9
<1> QED BY <1>7, <1>8, <1>9

LEMMA OfferStage ==
    ASSUME Ready, NEW m \in net \cap ToPhone, ReceiveOffer(m)
    PROVE  Stage'
<1>1. TypeOK
  BY DEF Ready, Sound, TInv
<1>2. net' = net \ {m} /\ silence' = 0 /\ receiver = "receive" /\ m.kind = "OFFER"
      /\ UNCHANGED <<server, watchdog, retries, audioAge, beat, todo, weather>>
  BY DEF ReceiveOffer, Heard, Free, Calm
<1>3. /\ NoGoodbye => NoGoodbye'
      /\ ConfigComing' = ConfigComing /\ AnyComing' = AnyComing
      /\ AudioComing' = AudioComing
  BY <1>2, Taken
<1>4. CASE serverAddress
  <2>1. UNCHANGED <<serverAddress, receiver>>
    BY <1>4 DEF ReceiveOffer
  <2> QED BY <1>1, <1>2, <1>3, <1>4, <2>1, Clocks DEF Ready
<1>5. CASE ~serverAddress
  <2>1. serverAddress' = TRUE /\ receiver' = "offered"
    BY <1>5 DEF ReceiveOffer
  <2> QED BY <1>1, <1>2, <1>3, <1>5, <2>1, Clocks DEF Ready
<1> QED BY <1>4, <1>5

LEMMA GoodbyeStage ==
    ASSUME Ready, NEW m \in net \cap ToPhone, ReceiveGoodbye(m)
    PROVE  Stage'
<1>1. ~NoGoodbye /\ calm' = calm
  BY DEF ReceiveGoodbye, NoGoodbye, Calm
<1> QED BY <1>1 DEF Ready

LEMMA AdoptStage ==
    ASSUME Ready, AdoptOffer
    PROVE  Stage'
<1>1. TypeOK /\ silence = 0
  BY DEF Ready, Sound, TInv, OnTime, AdoptOffer
<1>2. /\ receiver = "offered" /\ receiver' = "receive" /\ audioAge' = 0 /\ retries' = 0
      /\ UNCHANGED <<server, serverAddress, watchdog, silence, beat, todo, weather>>
  BY DEF AdoptOffer, Calm
<1>3. CASE serverAddress
  <2>1. /\ ConfigComing' /\ AnyComing' /\ (NoGoodbye => NoGoodbye')
        /\ AudioComing' = AudioComing
    <3>1. net' = net \cup {FromPhone("CONFIG")}
      BY <1>3 DEF AdoptOffer
    <3> QED BY <1>1, <3>1, Sent DEF Kinds
  <2> QED BY <1>1, <1>2, <1>3, <2>1, Clocks DEF Ready, Timers
<1>4. CASE ~serverAddress
  <2>1. net' = net
    BY <1>4 DEF AdoptOffer
  <2> QED BY <1>1, <1>2, <1>4, <2>1, Quiet, Clocks DEF Ready, Timers
<1> QED BY <1>3, <1>4

LEMMA AudioStage ==
    ASSUME Ready, ReceiveAudio
    PROVE  Stage'
<1>1. TypeOK
  BY DEF Ready, Sound, TInv
<1>2. /\ state = "Streaming" /\ todo' = todo \ {"audio"} /\ serverAddress' = TRUE
      /\ silence' = 0 /\ audioAge' = 0 /\ retries' = 0 /\ net' = net
      /\ UNCHANGED <<server, watchdog, beat, weather>>
  BY <1>1 DEF ReceiveAudio, Streams, HearAudio, InferServer, Heard, Calm, TypeOK
<1> QED BY <1>1, <1>2, Quiet, Clocks DEF Ready, Timers

\* Audio that comes late is the phone's last news of a session given up; while
\* one streams it is as good as the session's own.
LEMMA LateAudioStage ==
    ASSUME Ready, NEW m \in net \cap ToPhone, ReceiveLateAudio(m)
    PROVE  Stage'
<1>1. TypeOK
  BY DEF Ready, Sound, TInv
<1>2. /\ serverAddress' = TRUE /\ receiver' # "offered"
      /\ silence' = 0 /\ audioAge' = 0 /\ retries' = 0
      /\ net' = net \ {m} /\ m.kind = "AUDIO"
      /\ UNCHANGED <<server, watchdog, beat, todo, weather>>
  BY <1>1 DEF ReceiveLateAudio, Free, HearAudio, InferServer, Heard, Calm, TypeOK
<1>3. /\ NoGoodbye => NoGoodbye'
      /\ AnyComing' = AnyComing /\ ConfigComing' = ConfigComing
  BY <1>2, Taken
<1>4. AudioComing
  BY <1>2 DEF AudioComing
<1>5. CASE state = "Streaming"
  BY <1>1, <1>2, <1>3, <1>5, Clocks DEF Ready, Timers
<1>6. CASE Within(AUDIO_STALE + 3) /\ Echo
  <2>1. Echo' \/ Waiting'
    BY <1>2, <1>3, <1>6
  <2> QED BY <1>1, <1>2, <1>6, <2>1, Clocks
<1>7. CASE Within(AUDIO_STALE + 1) /\ EchoFresh
  <2>1. EchoFresh' \/ WaitingFresh'
    BY <1>2, <1>3, <1>7
  <2> QED BY <1>1, <1>2, <1>7, <2>1, Clocks
<1> QED BY <1>2, <1>4, <1>5, <1>6, <1>7 DEF Ready

LEMMA SilenceStage ==
    ASSUME Ready, SocketTimeout
    PROVE  Stage'
<1>1. TypeOK
  BY DEF Ready, Sound, TInv
<1>2. /\ receiver = "receive" /\ silence >= SOCKET_TIMEOUT /\ silence' = 0 /\ net' = net
      /\ serverAddress' = FALSE /\ receiver' # "offered"
      /\ UNCHANGED <<server, watchdog, retries, audioAge, beat, todo, weather>>
  BY <1>1 DEF SocketTimeout, Heard, Free, Calm, TypeOK
<1> QED BY <1>1, <1>2, Quiet, Clocks DEF Ready, Timers

LEMMA ReceiverEndsStage ==
    ASSUME Ready, AdoptAudio \/ ReceiverClears \/ EndCooldown
    PROVE  Stage'
<1>1. /\ net' = net /\ (receiver = "offered" <=> receiver' = "offered")
      /\ UNCHANGED <<server, serverAddress, watchdog, retries, audioAge, silence, beat,
                     todo, weather>>
  BY DEF AdoptAudio, ReceiverClears, EndCooldown, Calm
<1> QED BY <1>1, Quiet DEF Ready

LEMMA UndeliverableStage ==
    ASSUME Ready, NEW m \in net \cap ToPhone, Undeliverable(m)
    PROVE  Stage'
BY DEF Ready, Sound, Addressed, Wanted, Undeliverable

LEMMA WatchdogStage ==
    ASSUME Ready, WatchdogLooks
    PROVE  Stage'
<1>1. TypeOK
  BY DEF Ready, Sound, TInv
<1>2. /\ watchdog = "watch" /\ todo' = todo \ {"watchdog"} /\ "watchdog" \in todo
      /\ UNCHANGED <<server, serverAddress, receiver, silence, beat, weather>>
  BY DEF WatchdogLooks, Calm
<1>3. CASE ~Stale /\ UNCHANGED <<retries, audioAge, watchdog, net>>
  BY <1>1, <1>2, <1>3, Quiet, Clocks DEF Ready
<1>4. CASE /\ Stale /\ RetriesLeft /\ retries' = retries + 1 /\ audioAge' = 0
           /\ net' = net \cup {FromPhone("CONFIG")} /\ UNCHANGED watchdog
  <2>1. /\ ConfigComing' /\ AnyComing' /\ (NoGoodbye => NoGoodbye')
        /\ AudioComing' = AudioComing
    BY <1>1, <1>4, Sent DEF Kinds
  <2>2. serverAddress /\ audioAge = AUDIO_STALE /\ retries < CONFIG_RETRIES
    BY <1>1, <1>4, Clocks DEF Stale, RetriesLeft
  <2> QED BY <1>1, <1>2, <1>4, <2>1, <2>2, Clocks DEF Ready, Timers
<1>5. CASE /\ Stale /\ ~RetriesLeft /\ watchdog' = "expired"
           /\ UNCHANGED <<retries, audioAge, net>>
  <2>1. serverAddress /\ audioAge = AUDIO_STALE /\ retries = CONFIG_RETRIES
    BY <1>1, <1>5, Clocks DEF Stale, RetriesLeft
  <2> QED BY <1>1, <1>2, <1>5, <2>1, Quiet, Clocks DEF Ready, Timers
<1> QED BY <1>3, <1>4, <1>5 DEF WatchdogLooks

LEMMA WatchdogEndsStage ==
    ASSUME Ready, WatchdogClears
    PROVE  Stage'
<1>1. TypeOK
  BY DEF Ready, Sound, TInv
<1>2. /\ net' = net
      /\ UNCHANGED <<server, receiver, audioAge, silence, beat, todo, weather>>
  BY DEF WatchdogClears, Calm
<1>3. CASE /\ watchdog = "expired" /\ watchdog' = "clearing" /\ serverAddress' = FALSE
           /\ UNCHANGED retries
  BY <1>1, <1>2, <1>3, Quiet, Clocks DEF Ready
<1>4. CASE /\ watchdog = "clearing" /\ watchdog' = "watch" /\ retries' = 0
           /\ UNCHANGED serverAddress
  BY <1>1, <1>2, <1>4, Quiet, Clocks DEF Ready, Timers
<1> QED BY <1>3, <1>4 DEF WatchdogClears

LEMMA DiscoveryStage ==
    ASSUME Ready, Discovery
    PROVE  Stage'
<1>1. TypeOK
  BY DEF Ready, Sound, TInv
<1>2. todo' = todo \ {"discovery"} /\ UNCHANGED <<server, phone, weather>>
  BY DEF Discovery, Calm
<1>3. CASE serverAddress
  BY <1>1, <1>2, <1>3, Quiet, Clocks DEF Ready, Discovery
<1>4. CASE ~serverAddress
  <2>1. net' = net \cup {FromPhone("DISCOVER")}
    BY <1>4 DEF Discovery
  <2>2. /\ DiscoverComing' /\ AnyComing' /\ (NoGoodbye => NoGoodbye')
        /\ ConfigComing' = ConfigComing /\ OfferComing' = OfferComing
        /\ AudioComing' = AudioComing
    BY <1>1, <2>1, Sent DEF Kinds
  <2> QED BY <1>1, <1>2, <1>4, <2>2, Clocks DEF Ready
<1> QED BY <1>3, <1>4

LEMMA HeartbeatStage ==
    ASSUME Ready, Heartbeat
    PROVE  Stage'
<1>1. TypeOK
  BY DEF Ready, Sound, TInv
<1>2. /\ todo' = todo \ {"heartbeat"} /\ beat' = 0
      /\ UNCHANGED <<server, serverAddress, receiver, watchdog, retries, audioAge, silence,
                     weather>>
  BY DEF Heartbeat, Calm
<1>3. CASE ~serverAddress
  <2>1. net' = net
    BY <1>3 DEF Heartbeat
  <2> QED BY <1>1, <1>2, <1>3, <2>1, Quiet, Clocks DEF Ready
<1>4. CASE serverAddress
  <2>1. net' = net \cup {FromPhone("ALIVE")}
    BY <1>4 DEF Heartbeat
  <2>2. /\ AnyComing' /\ (NoGoodbye => NoGoodbye')
        /\ ConfigComing' = ConfigComing /\ OfferComing' = OfferComing
        /\ DiscoverComing => DiscoverComing'
        /\ AudioComing' = AudioComing
    BY <1>1, <2>1, Sent DEF Kinds
  <2> QED BY <1>1, <1>2, <1>4, <2>2, Clocks DEF Ready, Timers
<1> QED BY <1>3, <1>4

\* A second passes: every stage is followed by one with less time left.
LEMMA TickStage ==
    ASSUME Ready, Tick
    PROVE  Stage'
<1>1. TypeOK /\ isRunning /\ state \in {"Listening", "Streaming"} /\ OnTime
  BY DEF Ready, Sound, TInv, Wanted, TypeOK
<1>2. net = {} /\ net' = {} /\ receiver = "receive" /\ watchdog = "watch"
      /\ "discovery" \notin todo /\ "heartbeat" \notin todo /\ "watchdog" \notin todo
  BY DEF Tick
<1>3. /\ ~ConfigComing /\ ~DiscoverComing /\ ~OfferComing /\ ~AnyComing
      /\ ~ConfigComing' /\ NoGoodbye' /\ ~AudioComing /\ ~AudioComing'
  BY <1>2 DEF ConfigComing, DiscoverComing, OfferComing, AnyComing, AudioComing, NoGoodbye
<1>4. beat # HEARTBEAT /\ (serverAddress => audioAge # AUDIO_STALE)
  BY <1>1, <1>2 DEF OnTime
<1>5. state = "Streaming" => "audio" \notin todo
  BY <1>1 DEF Ready, Sound, Addressed, Tick, Streams
<1>6. "discovery" \in todo' /\ "audio" \in todo'
  BY <1>1 DEF Tick, Due
<1>7. UNCHANGED <<state, serverAddress, receiver, watchdog, retries>>
  BY DEF Tick
<1>8. state = "Streaming" => activity' = activity + 1
  BY DEF Tick
<1>9. /\ audioAge' = IF audioAge < AUDIO_STALE THEN audioAge + 1 ELSE audioAge
      /\ silence' = silence + 1 \/ silence' = 1
      /\ beat' = beat + 1
      /\ calm' = IF calm < RECOVERY THEN calm + 1 ELSE calm
  BY <1>1, <1>4, Clocks DEF Tick
<1> USE <1>1, <1>2, <1>3, <1>4, <1>5, <1>6, <1>7, <1>8, <1>9, Clocks
<1>10. Timers
  BY DEF Ready
<1>11. CASE calm = 0
  BY <1>10, <1>11 DEF Timers
<1>12. CASE Lasting
  BY <1>10, <1>12 DEF Timers
<1>13. CASE Within(1) /\ (SessionNow \/ SearchNow)
  BY <1>10, <1>13 DEF Timers
<1>14. CASE Within(2) /\ (SessionNext \/ SearchNext)
  BY <1>10, <1>14 DEF Timers
<1>15. CASE Within(3) /\ (SessionLater \/ SearchLater)
  BY <1>10, <1>15 DEF Timers
<1>16. CASE Within(AUDIO_STALE + 3 - audioAge) /\ Waiting
  BY <1>10, <1>16 DEF Timers
<1>17. CASE Within(AUDIO_STALE + 1 - audioAge) /\ WaitingFresh
  BY <1>10, <1>17 DEF Timers
<1>18. CASE Within(AUDIO_STALE + 1 + (HEARTBEAT - beat)) /\ Flowing
  BY <1>10, <1>18 DEF Timers
<1>19. CASE Within(AUDIO_STALE + HEARTBEAT + 1) /\ Session /\ WatchdogCalm /\ Heeded
  BY <1>10, <1>19 DEF Timers
<1>20. CASE Within(AUDIO_STALE + HEARTBEAT + 2) /\ Session /\ Fed
  BY <1>10, <1>20 DEF Timers
<1> QED BY <1>3, <1>11, <1>12, <1>13, <1>14, <1>15, <1>16, <1>17, <1>18, <1>19, <1>20
        DEF Ready

LEMMA OperationStage ==
    ASSUME Ready, Operation
    PROVE  Stage'
<1>1. ASSUME NEW m \in net \cap ToServer, ServerReceives(m) PROVE Stage'
  <2>1. CASE OnGoodbye(m)
    BY <2>1 DEF OnGoodbye, Upset
  <2> QED BY <1>1, <2>1, DiscoverStage, ConfigStage, ActivityStage, IgnoredStage
          DEF ServerReceives
<1>2. ASSUME NEW m \in net \cap ToPhone, PhoneReceives(m) \/ Undeliverable(m) PROVE Stage'
  BY <1>2, OfferStage, GoodbyeStage, LateAudioStage, UndeliverableStage DEF PhoneReceives
<1>3. CASE ServerTimeout \/ AdoptOffer \/ ReceiveAudio \/ SocketTimeout
  BY <1>3, TimeoutStage, AdoptStage, AudioStage, SilenceStage
<1>4. CASE AdoptAudio \/ ReceiverClears \/ EndCooldown
  BY <1>4, ReceiverEndsStage
<1>5. CASE WatchdogLooks \/ WatchdogClears \/ Discovery \/ Heartbeat \/ Tick
  BY <1>5, WatchdogStage, WatchdogEndsStage, DiscoveryStage, HeartbeatStage, TickStage
<1> QED BY <1>1, <1>2, <1>3, <1>4, <1>5 DEF Operation

\* Only a disturbance starts a phone or a server, and it begins the calm anew.
LEMMA OnlyTroubleStarts ==
    ASSUME Operation, calm' # 0, Wanted', Untroubled'
    PROVE  Wanted /\ Untroubled
<1>1. isRunning' = isRunning
  BY DEF Operation, ServerReceives, PhoneReceives, ReceiveOffer, ReceiveGoodbye,
         Undeliverable, ServerTimeout, AdoptOffer, ReceiveAudio, ReceiveLateAudio,
         HearAudio, EndCooldown, AdoptAudio, SocketTimeout, ReceiverClears, WatchdogLooks,
         WatchdogClears, Discovery, Heartbeat, Tick
<1>2. state = "Idle" => state' = "Idle"
  BY DEF Operation, ServerReceives, OnDiscover, OnConfig, OnActivity, OnGoodbye, Ignored,
         PhoneReceives, ReceiveOffer, ReceiveGoodbye, Undeliverable, ServerTimeout,
         AdoptOffer, ReceiveAudio, ReceiveLateAudio, HearAudio, EndCooldown, AdoptAudio,
         SocketTimeout, ReceiverClears, WatchdogLooks, WatchdogClears, Discovery,
         Heartbeat, Tick
<1>3. upsets \subseteq upsets'
  BY DEF Operation, ServerReceives, OnDiscover, OnConfig, OnActivity, OnGoodbye, Ignored,
         PhoneReceives, ReceiveOffer, ReceiveGoodbye, Undeliverable, ServerTimeout,
         AdoptOffer, ReceiveAudio, ReceiveLateAudio, HearAudio, EndCooldown, AdoptAudio,
         SocketTimeout, ReceiverClears, WatchdogLooks, WatchdogClears, Discovery,
         Heartbeat, Tick, Calm, Upset, UpsetBy
<1> QED BY <1>1, <1>2, <1>3 DEF Wanted, Untroubled

LEMMA RecoveringStep ==
    ASSUME Timers, Recovering, [Next]_vars
    PROVE  Recovering'
<1>1. Sound'
  BY SoundStep DEF Recovering
<1>2. ASSUME Wanted', Untroubled' PROVE Stage'
  <2>1. CASE Disturbance
    <3>1. calm' = 0
      BY <2>1 DEF Disturbance, ToggleServer, StartService, OnDestroy, ChangeAddress, Lose,
                  LoseAudio, Upset, UpsetBy
    <3> QED BY <3>1
  <2>2. CASE Operation
    <3>1. CASE calm' = 0
      BY <3>1
    <3>2. CASE calm' # 0
      <4>1. Wanted /\ Untroubled
        BY <1>2, <2>2, <3>2, OnlyTroubleStarts
      <4> QED BY <2>2, <4>1, OperationStage DEF Ready, Recovering
    <3> QED BY <3>1, <3>2
  <2>3. CASE UNCHANGED vars
    <3>1. Stage
      BY <1>2, <2>3 DEF vars, Recovering, Wanted, Untroubled
    <3> QED BY <2>3, <3>1, Quiet DEF vars
  <2> QED BY <2>1, <2>2, <2>3 DEF Next
<1> QED BY <1>1, <1>2 DEF Recovering

\* When the calm has lasted, every stage but the last has run out of time.
LEMMA RecoveredInTime ==
    ASSUME Timers, Recovering
    PROVE  Recovers
<1> SUFFICES ASSUME calm >= RECOVERY, Wanted, Untroubled PROVE Connected
  BY DEF Recovers, Untroubled
<1>1. TypeOK /\ Stage
  BY DEF Recovering, Sound, TInv
<1>2. Lasting
  BY <1>1, Clocks DEF Timers
<1>3. worker = "alive" /\ target = addr
  BY <1>2 DEF Recovering, Sound, Addressed
<1> QED BY <1>2, <1>3 DEF Wanted, Connected, Streams

\* Whatever was lost, stopped, restarted or overtaken before: after as many
\* seconds without trouble as a heartbeat, the watchdog's patience and three
\* more, a running phone and a running server are connected, as long as the
\* worker could capture and the phone kept its address (AudioService.kt:395-420,
\* 468-505, 565-570, 600-611; main.rs:226-245, 419, 454-458).
THEOREM ConnectionRecovers ==
    ASSUME Timers
    PROVE  Spec => []Recovers
<1>1. Init => Recovering
  <2> SUFFICES ASSUME Init PROVE Recovering
    OBVIOUS
  <2>1. TInv
    BY InitTyped
  <2>2. Addressed /\ calm = 0
    BY DEF Init, Addressed
  <2>3. OnTime
    BY DEF Init, OnTime
  <2> QED BY <2>1, <2>2, <2>3 DEF Recovering, Sound
<1>2. Recovering /\ [Next]_vars => Recovering'
  BY RecoveringStep
<1>3. Recovering => Recovers
  BY RecoveredInTime
<1> QED BY <1>1, <1>2, <1>3, PTL DEF Spec
=============================================================================
