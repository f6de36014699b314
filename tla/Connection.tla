----------------------------- MODULE Connection -----------------------------
(***************************************************************************)
(* How the server's session task (server/src/main.rs:191-266, 401-507) and *)
(* the phone's service (AudioService.kt) find each other, keep each other  *)
(* and give each other up: DISCOVER, OFFER, CONFIG, ALIVE, GOODBYE, the    *)
(* audio itself, the four timers and the two client threads that write     *)
(* the connection, the receiver and the watchdog.                          *)
(*                                                                         *)
(* Time is in seconds.  Messages in flight are a set: they may be lost and *)
(* overtake each other, but none is older than a second (Tick).  While a   *)
(* session streams its audio is there or is lost in each second; when it   *)
(* ends, audio may be left under way like any other message.  One server,  *)
(* one phone that may change its address.  What a CONFIG asks for is the   *)
(* business of StreamWorker; here it only starts a session.                *)
(***************************************************************************)
EXTENDS Integers

CONSTANTS
    Addrs,            \* addresses the phone may have
    NoAddr,
    AUDIO_STALE,      \* more than 1.5 s without audio: the watchdog acts
    CONFIG_RETRIES,   \* 3
    SOCKET_TIMEOUT,   \* 3 s without any packet: the receiver gives up
    HEARTBEAT,        \* 2 s
    SERVER_TIMEOUT,   \* as_secs() > 5
    OtherPhones,      \* whether other phones search in the same network
    MaxPeriods,       \* bound: listening periods of the server
    MaxStarts,        \* bound: instances of the phone's service
    RECOVERY          \* seconds of calm after which the two are connected

ASSUME ConnectionConstants ==
    /\ NoAddr \notin Addrs
    /\ AUDIO_STALE \in Nat \ {0} /\ CONFIG_RETRIES \in Nat
    /\ SOCKET_TIMEOUT \in Nat \ {0} /\ HEARTBEAT \in Nat \ {0}
    /\ SERVER_TIMEOUT \in Nat \ {0}
    /\ OtherPhones \in BOOLEAN
    /\ MaxPeriods \in Nat \ {0} /\ MaxStarts \in Nat /\ RECOVERY \in Nat

VARIABLES
    \* the server
    state,           \* "Idle", "Listening" or "Streaming"
    target,          \* target_addr
    worker,          \* "none", "alive" or "panicked"
    activity,        \* seconds since last_activity_time
    \* the phone
    addr,
    isRunning,
    serverAddress, resendTarget,   \* TRUE: set to the server
    receiver,        \* where the receiver coroutine is
    watchdog,        \* where the watchdog coroutine is
    retries,         \* configRetryCount
    audioAge,        \* seconds since lastAudioTime
    silence,         \* seconds since the receiver's last packet
    beat,            \* seconds since the last heartbeat
    engine,          \* the session whose media timeline the engine is on, 0: none,
                     \* or Cooling: none yet, in the 100 ms after setBufferSize
    \* the network and this second
    net,
    todo,            \* loops that have yet to run this second
    \* auxiliary
    period,          \* listening periods so far; names the session it leads to
    offer,           \* the period of the last OFFER the phone adopted
    offered,         \* the CONFIG that began the session answered its OFFER
    outlived,        \* audio of an earlier period was under way when the last
                     \* cooldown ended
    starts, calm, upsets

server == <<state, target, worker, activity, period, offered>>
phone == <<addr, isRunning, serverAddress, resendTarget, receiver, watchdog, retries,
           audioAge, silence, beat, engine, outlived, offer, starts>>
playback == <<engine, outlived>>
weather == <<calm, upsets>>
vars == <<server, phone, net, todo, weather>>

Loops == {"discovery", "heartbeat", "watchdog", "audio"}

ToServer == [kind : {"DISCOVER", "CONFIG", "ALIVE", "GOODBYE"}, from : Addrs,
             offer : 0..MaxPeriods]
ToPhone == [kind : {"OFFER", "GOODBYE", "AUDIO"}, to : Addrs, period : 0..MaxPeriods]

FromPhone(kind) == [kind |-> kind, from |-> addr, offer |-> offer]
FromServer(kind, to) == [kind |-> kind, to |-> to, period |-> period]

Cooling == -1

\* A client that starts knows no server; its server starts on its own.
Init ==
    /\ state = "Listening" /\ target = NoAddr /\ worker = "none" /\ activity = 0
    /\ addr \in Addrs /\ isRunning = FALSE
    /\ serverAddress = FALSE /\ resendTarget = FALSE
    /\ receiver = "receive" /\ watchdog = "watch"
    /\ retries = 0 /\ audioAge = 0 /\ silence = 0 /\ beat = 0
    /\ engine = 0 /\ outlived = FALSE
    /\ net = {} /\ todo = {}
    /\ period = 1 /\ offer = 0 /\ offered = FALSE /\ starts = 0
    /\ calm = 0 /\ upsets = {}

Calm == UNCHANGED weather
Upset == calm' = 0 /\ UNCHANGED upsets
UpsetBy(what) == calm' = 0 /\ upsets' = upsets \cup {what}

-----------------------------------------------------------------------------
(* The server. *)

Streams == state = "Streaming" /\ worker = "alive"

\* What the worker has sent to the client and may be under way when it ends.
LastAudio == IF Streams THEN {FromServer("AUDIO", target)} ELSE {}

\* The socket is bound anew and what was queued is flushed: any of the
\* messages under way may have been in the queue.
Listen(sent) ==
    /\ period < MaxPeriods /\ period' = period + 1
    /\ state' = "Listening" /\ target' = NoAddr /\ worker' = "none"
    /\ offered' = FALSE
    /\ \E flushed \in SUBSET (sent \cap ToServer) : net' = sent \ flushed

OnDiscover(m) ==
    /\ state = "Listening" /\ m.kind = "DISCOVER"
    /\ target' = m.from
    /\ net' = (net \ {m}) \cup {FromServer("OFFER", m.from)}
    /\ UNCHANGED <<state, worker, activity, period, offered>> /\ Calm

\* The worker is spawned and may panic: there is nothing to capture.
OnConfig(m) ==
    /\ state = "Listening" /\ m.kind = "CONFIG"
    /\ state' = "Streaming" /\ activity' = 0
    /\ target' = IF target = NoAddr THEN m.from ELSE target
    /\ offered' = (m.offer = period)
    /\ \/ worker' = "alive" /\ Calm
       \/ worker' = "panicked" /\ UpsetBy("panic")
    /\ net' = net \ {m} /\ UNCHANGED period

\* Any packet counts as activity, whoever sent it and whatever it is.
OnActivity(m) ==
    /\ state = "Streaming" /\ m.kind # "GOODBYE"
    /\ activity' = 0
    /\ net' = net \ {m}
    /\ UNCHANGED <<state, target, worker, period, offered>> /\ Calm

OnGoodbye(m) ==
    /\ state = "Streaming" /\ m.kind = "GOODBYE"
    /\ activity' = 0
    /\ \E late \in SUBSET LastAudio : Listen((net \ {m}) \cup late)
    /\ Upset

Ignored(m) ==
    /\ \/ state = "Listening" /\ m.kind \notin {"DISCOVER", "CONFIG"}
       \/ state = "Idle"
    /\ net' = net \ {m}
    /\ UNCHANGED server /\ Calm

ServerReceives(m) ==
    /\ \/ OnDiscover(m) \/ OnConfig(m) \/ OnActivity(m) \/ OnGoodbye(m) \/ Ignored(m)
    /\ UNCHANGED <<phone, todo>>

ServerTimeout ==
    /\ state = "Streaming" /\ activity >= SERVER_TIMEOUT
    /\ \E late \in SUBSET LastAudio : Listen(net \cup late)
    /\ UNCHANGED <<activity, phone, todo>> /\ Calm

\* The window's button and the tray.  A stream is ended with a GOODBYE.
ToggleStreaming ==
    /\ state = "Streaming"
    /\ \E late \in SUBSET LastAudio :
           net' = net \cup late \cup {FromServer("GOODBYE", target)}
    /\ state' = "Idle" /\ worker' = "none" /\ target' = NoAddr
    /\ UNCHANGED <<activity, period, offered>>

ToggleListening ==
    /\ state = "Listening"
    /\ state' = "Idle" /\ target' = NoAddr
    /\ UNCHANGED <<worker, activity, net, period, offered>>

ToggleIdle ==
    /\ state = "Idle"
    /\ Listen(net) /\ UNCHANGED activity

ToggleServer ==
    /\ ToggleStreaming \/ ToggleListening \/ ToggleIdle
    /\ Upset /\ UNCHANGED <<phone, todo>>

-----------------------------------------------------------------------------
(* The phone: start and end of a service instance. *)

\* resetAudio empties the engine, and setBufferSize has it ignore what is
\* pushed in the next 100 ms.
ResetEngine == engine' = Cooling /\ outlived' = FALSE

\* startAudioService, in an instance of its own.
StartService ==
    /\ ~isRunning /\ starts < MaxStarts
    /\ isRunning' = TRUE /\ starts' = starts + 1
    /\ serverAddress' = FALSE /\ resendTarget' = FALSE
    /\ receiver' = "receive" /\ watchdog' = "watch"
    /\ retries' = 0 /\ audioAge' = 0 /\ silence' = 0 /\ beat' = 0
    /\ ResetEngine
    /\ offer' = 0
    /\ todo' = {"discovery", "audio"}
    /\ Upset /\ UNCHANGED <<server, addr, net>>

\* onDestroy: the coroutines are cancelled, a thread of its own says goodbye.
OnDestroy ==
    /\ isRunning /\ isRunning' = FALSE
    /\ net' = IF serverAddress THEN net \cup {FromPhone("GOODBYE")} ELSE net
    /\ serverAddress' = FALSE /\ resendTarget' = FALSE
    /\ receiver' = "receive" /\ watchdog' = "watch"
    /\ todo' = todo \cap {"audio"}
    /\ Upset
    /\ UNCHANGED <<server, addr, retries, audioAge, silence, beat, playback, offer, starts>>

ChangeAddress ==
    /\ addr' \in Addrs \ {addr}
    /\ UpsetBy("move")
    /\ UNCHANGED <<server, isRunning, serverAddress, resendTarget, receiver, watchdog,
                   retries, audioAge, silence, beat, playback, offer, starts, net, todo>>

-----------------------------------------------------------------------------
(* The phone's receiver coroutine.  Its two writes of the connection are    *)
(* steps of their own: the watchdog runs on another thread.                 *)

Heard == silence' = 0
Free == isRunning /\ receiver = "receive"

ReceiveOffer(m) ==
    /\ Free /\ m.kind = "OFFER"
    /\ net' = net \ {m}
    /\ Heard
    /\ IF serverAddress
       THEN UNCHANGED <<serverAddress, receiver, offer>>
       ELSE serverAddress' = TRUE /\ receiver' = "offered" /\ offer' = m.period
    /\ UNCHANGED <<server, addr, isRunning, resendTarget, watchdog, retries, audioAge,
                   beat, playback, starts, todo>> /\ Calm

\* The rest of the OFFER branch: a fresh engine, and updateLatencyMode sends
\* the CONFIG if the server address is still there.
AdoptOffer ==
    /\ receiver = "offered" /\ receiver' = "receive"
    /\ resendTarget' = TRUE
    /\ ResetEngine
    /\ net' = IF serverAddress THEN net \cup {FromPhone("CONFIG")} ELSE net
    /\ audioAge' = 0 /\ retries' = 0
    /\ UNCHANGED <<server, addr, isRunning, serverAddress, watchdog, silence, beat,
                   offer, starts, todo>> /\ Calm

\* A push that knows no cooldown.
Pushed_NoCooldown(session) ==
    IF engine \in {Cooling, 0} THEN {session} ELSE {engine, session}

\* What the engine plays once audio of a session is pushed.  The first defines
\* the timeline; what comes behind it is late, what comes far ahead of it takes
\* the engine with it.
Pushed(session) ==
    CASE engine = Cooling -> {Cooling}
      [] engine = 0       -> {session}
      [] OTHER            -> {engine, session}

\* Audio from an unknown server says where that server is.
InferServer_Never == UNCHANGED <<serverAddress, receiver>>
InferServer ==
    IF serverAddress THEN UNCHANGED <<serverAddress, receiver>>
    ELSE serverAddress' = TRUE /\ receiver' = "inferred"

HearAudio(session) ==
    /\ Heard /\ audioAge' = 0 /\ retries' = 0
    /\ InferServer
    /\ engine' \in Pushed(session)
    /\ UNCHANGED <<server, addr, isRunning, resendTarget, watchdog, beat, outlived,
                   offer, starts>> /\ Calm

\* The audio of the session that streams.
ReceiveAudio ==
    /\ Free /\ "audio" \in todo
    /\ Streams /\ target = addr
    /\ todo' = todo \ {"audio"} /\ UNCHANGED net
    /\ HearAudio(period)

\* Audio that was still under way when its session ended.
ReceiveLateAudio(m) ==
    /\ Free /\ m.kind = "AUDIO"
    /\ net' = net \ {m} /\ UNCHANGED todo
    /\ HearAudio(m.period)

\* Audio of a session of an earlier period under way.
OldAudio == \E m \in net \cap ToPhone : m.kind = "AUDIO" /\ m.period < period

EndCooldown ==
    /\ engine = Cooling /\ engine' = 0
    /\ outlived' = OldAudio
    /\ UNCHANGED <<server, addr, isRunning, serverAddress, resendTarget, receiver,
                   watchdog, retries, audioAge, silence, beat, offer, starts, net,
                   todo>> /\ Calm

AdoptAudio ==
    /\ receiver = "inferred" /\ receiver' = "receive"
    /\ resendTarget' = TRUE
    /\ UNCHANGED <<server, addr, isRunning, serverAddress, watchdog, retries, audioAge,
                   silence, beat, playback, offer, starts, net, todo>> /\ Calm

ReceiveGoodbye(m) ==
    /\ Free /\ m.kind = "GOODBYE"
    /\ net' = net \ {m}
    /\ Heard
    /\ serverAddress' = FALSE /\ receiver' = "goodbye"
    /\ UNCHANGED <<server, addr, isRunning, resendTarget, watchdog, retries, audioAge,
                   beat, playback, offer, starts, todo>> /\ Calm

SocketTimeout ==
    /\ Free /\ silence >= SOCKET_TIMEOUT
    /\ Heard
    /\ IF serverAddress THEN serverAddress' = FALSE /\ receiver' = "timeout"
       ELSE UNCHANGED <<serverAddress, receiver>>
    /\ UNCHANGED <<server, addr, isRunning, resendTarget, watchdog, retries, audioAge,
                   beat, playback, offer, starts, net, todo>> /\ Calm

\* The second write of clearServerConnection, and after a GOODBYE a resetAudio,
\* which neither begins a cooldown nor ends one.
ReceiverClears ==
    /\ receiver \in {"goodbye", "timeout"} /\ receiver' = "receive"
    /\ resendTarget' = FALSE
    /\ engine' = IF receiver = "goodbye" /\ engine # Cooling THEN 0 ELSE engine
    /\ UNCHANGED <<server, addr, isRunning, serverAddress, watchdog, retries, audioAge,
                   silence, beat, outlived, offer, starts, net, todo>> /\ Calm

-----------------------------------------------------------------------------
(* The watchdog coroutine. *)

Stale == serverAddress /\ audioAge >= AUDIO_STALE

RetriesLeft_OneMore == retries <= CONFIG_RETRIES
RetriesLeft == retries < CONFIG_RETRIES

WatchdogLooks ==
    /\ isRunning /\ watchdog = "watch" /\ "watchdog" \in todo
    /\ todo' = todo \ {"watchdog"}
    /\ \/ ~Stale /\ UNCHANGED <<retries, audioAge, watchdog, net>>
       \/ /\ Stale /\ RetriesLeft
          /\ retries' = retries + 1 /\ audioAge' = 0
          /\ net' = net \cup {FromPhone("CONFIG")}
          /\ UNCHANGED watchdog
       \/ /\ Stale /\ ~RetriesLeft
          /\ watchdog' = "expired"
          /\ UNCHANGED <<retries, audioAge, net>>
    /\ UNCHANGED <<server, addr, isRunning, serverAddress, resendTarget, receiver,
                   silence, beat, playback, offer, starts>> /\ Calm

WatchdogClears ==
    /\ \/ /\ watchdog = "expired" /\ watchdog' = "clearing"
          /\ serverAddress' = FALSE
          /\ UNCHANGED <<resendTarget, retries>>
       \/ /\ watchdog = "clearing" /\ watchdog' = "watch"
          /\ resendTarget' = FALSE /\ retries' = 0
          /\ UNCHANGED serverAddress
    /\ UNCHANGED <<server, addr, isRunning, receiver, audioAge, silence, beat, playback,
                   offer, starts, net, todo>> /\ Calm

-----------------------------------------------------------------------------
(* The phone's sending loops. *)

Discovery ==
    /\ isRunning /\ "discovery" \in todo
    /\ todo' = todo \ {"discovery"}
    /\ net' = IF serverAddress THEN net ELSE net \cup {FromPhone("DISCOVER")}
    /\ UNCHANGED <<server, phone>> /\ Calm

Heartbeat ==
    /\ isRunning /\ "heartbeat" \in todo
    /\ todo' = todo \ {"heartbeat"}
    /\ beat' = 0
    /\ net' = IF serverAddress THEN net \cup {FromPhone("ALIVE")} ELSE net
    /\ UNCHANGED <<server, addr, isRunning, serverAddress, resendTarget, receiver,
                   watchdog, retries, audioAge, silence, playback, offer, starts>> /\ Calm

-----------------------------------------------------------------------------
(* The network and the clock. *)

Lose(m) ==
    /\ net' = net \ {m}
    /\ Upset /\ UNCHANGED <<server, phone, todo>>

LoseAudio ==
    /\ "audio" \in todo /\ todo' = todo \ {"audio"}
    /\ Upset /\ UNCHANGED <<server, phone, net>>

\* A message to an address the phone does not have, or to no phone, is gone.
Undeliverable(m) ==
    /\ m \in ToPhone /\ (m.to # addr \/ ~isRunning)
    /\ net' = net \ {m}
    /\ UNCHANGED <<server, phone, todo>> /\ Calm

PhoneReceives(m) ==
    m.to = addr /\ (ReceiveOffer(m) \/ ReceiveGoodbye(m) \/ ReceiveLateAudio(m))

\* The loops with something to do in the new second.
Due == {"discovery", "audio"}
   \cup (IF beat' = HEARTBEAT THEN {"heartbeat"} ELSE {})
   \cup (IF audioAge' = AUDIO_STALE THEN {"watchdog"} ELSE {})

\* A second passes when nothing is under way, the engine is not cooling down and
\* every loop had its turn.  The broadcast of another phone that searches, read
\* and ignored, breaks the receiver's silence.
Tick ==
    /\ net = {} /\ receiver = "receive" /\ watchdog = "watch" /\ engine # Cooling
    /\ todo \cap {"discovery", "heartbeat", "watchdog"} = {}
    /\ "audio" \in todo => ~(Streams /\ target = addr /\ isRunning)
    /\ state = "Streaming" => activity < SERVER_TIMEOUT
    /\ isRunning => silence < SOCKET_TIMEOUT
    /\ activity' = IF state = "Streaming" THEN activity + 1 ELSE 0
    /\ IF isRunning
       THEN /\ audioAge' = IF audioAge < AUDIO_STALE THEN audioAge + 1 ELSE audioAge
            /\ silence' \in {silence + 1} \cup (IF OtherPhones THEN {1} ELSE {})
            /\ beat' = IF beat < HEARTBEAT THEN beat + 1 ELSE beat
            /\ todo' = Due
       ELSE UNCHANGED <<audioAge, silence, beat>> /\ todo' = {}
    /\ calm' = IF calm < RECOVERY THEN calm + 1 ELSE calm
    /\ UNCHANGED <<state, target, worker, period, offered, addr, isRunning,
                   serverAddress, resendTarget, receiver, watchdog, retries, playback,
                   offer, starts, net, upsets>>

Disturbance ==
    \/ ToggleServer \/ StartService \/ OnDestroy \/ ChangeAddress
    \/ \E m \in net : Lose(m)
    \/ LoseAudio

Operation ==
    \/ \E m \in net \cap ToServer : ServerReceives(m)
    \/ \E m \in net \cap ToPhone : PhoneReceives(m) \/ Undeliverable(m)
    \/ ServerTimeout
    \/ AdoptOffer
    \/ ReceiveAudio
    \/ EndCooldown
    \/ AdoptAudio
    \/ SocketTimeout
    \/ ReceiverClears
    \/ WatchdogLooks
    \/ WatchdogClears
    \/ Discovery
    \/ Heartbeat
    \/ Tick

Next == Disturbance \/ Operation

Spec == Init /\ [][Next]_vars

-----------------------------------------------------------------------------
(* Properties. *)

TypeOK ==
    /\ state \in {"Idle", "Listening", "Streaming"}
    /\ target \in Addrs \cup {NoAddr} /\ worker \in {"none", "alive", "panicked"}
    /\ activity \in 0..SERVER_TIMEOUT
    /\ addr \in Addrs
    /\ isRunning \in BOOLEAN /\ serverAddress \in BOOLEAN /\ resendTarget \in BOOLEAN
    /\ receiver \in {"receive", "offered", "inferred", "goodbye", "timeout"}
    /\ watchdog \in {"watch", "expired", "clearing"}
    /\ retries \in 0..CONFIG_RETRIES /\ audioAge \in 0..AUDIO_STALE
    /\ silence \in 0..SOCKET_TIMEOUT /\ beat \in 0..HEARTBEAT
    /\ engine \in {Cooling} \cup 0..MaxPeriods /\ outlived \in BOOLEAN
    /\ net \subseteq ToServer \cup ToPhone /\ todo \subseteq Loops
    /\ period \in 1..MaxPeriods /\ offer \in 0..MaxPeriods /\ offered \in BOOLEAN
    /\ starts \in 0..MaxStarts /\ calm \in 0..RECOVERY
    /\ upsets \subseteq {"panic", "move"}

Connected == Streams /\ target = addr /\ isRunning /\ serverAddress

Wanted == isRunning /\ state # "Idle"

\* After RECOVERY seconds without trouble a running phone and a running
\* server are connected, whatever was lost, stopped, restarted or overtaken
\* before, as long as the worker could capture and the phone kept its address
\* (AudioService.kt:395-420, 468-505, 565-570, 600-611; main.rs:226-245,
\* 419, 454-458).
Recovers ==
    calm >= RECOVERY /\ Wanted /\ upsets = {} => Connected

\* A session the phone asked for in answer to the OFFER of the same listening
\* period is what the phone's engine plays: the OFFER empties the engine, and
\* audio of an earlier session, which may still arrive then, is ignored in the
\* 100 ms that follow, so only a packet under way for longer can set the
\* timeline (AudioService.kt:469-485, native-lib.cpp:301-306, 361-366).
OfferedSessionPlays ==
    Connected /\ offered /\ receiver = "receive" /\ ~outlived
        => engine \in {Cooling, 0, period}

-----------------------------------------------------------------------------
(* What the documentation says and the code does not do (README.md, section *)
(* Divergences, names the step that breaks each). *)

\* AudioService.kt:753-763: "resendTarget must be cleared alongside
\* serverAddress"; 491-494: a null resendTarget would "silently disable
\* retransmission for the whole session".
TargetsAgree ==
    receiver = "receive" /\ watchdog = "watch" => serverAddress = resendTarget

\* README.md:102: the server "can be re-found without a restart": what the
\* phone is connected to, it also plays.
ConnectedPlays ==
    Connected /\ receiver = "receive" => engine \in {Cooling, 0, period}

\* README.md:102: the server "returns to listening state after 5 s of silence
\* and can be re-found without a restart": the bound of Recovers, whatever
\* became of the worker and of the phone's address.
ReFound == calm >= RECOVERY /\ Wanted => Connected
=============================================================================
