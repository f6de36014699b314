---------------------------- MODULE StreamWorker ----------------------------
(***************************************************************************)
(* One streaming session of the server: the session task that reads the    *)
(* control socket and the UI commands (server/src/main.rs:401-507), the    *)
(* audio worker task it spawns (main.rs:268-399), the bounded channel      *)
(* between them, and the retransmission cache and packet sender the worker *)
(* owns (server/src/network.rs).                                           *)
(*                                                                         *)
(* An encoder configuration (bitrate, complexity) is one number.  An       *)
(* encoded frame is the configuration it was encoded with and the serial   *)
(* number of its encode_frame call.  Captured audio is counted in halves   *)
(* of a 1920-sample frame.  Times of sending are left out: the cache keeps *)
(* and replays them like the payload.                                      *)
(***************************************************************************)
EXTENDS Integers, Sequences

CONSTANTS
    RESEND_CACHE_SIZE,   \* 128
    WARM_UP,             \* 10 silent packets
    CHANNEL,             \* 10 commands
    POLLS,               \* 10 capture events per 5 ms interval
    LOWEST, HIGHEST,     \* what validate_config clamps to
    RawConfigs,          \* the configurations AS2P_CONFIG may carry
    MaxChunk,            \* bound: halves of a frame in one captured chunk
    MaxTick,             \* bound: audio is captured up to this tick
    MaxChanges           \* bound: changes of the configuration

ASSUME WorkerConstants ==
    /\ RESEND_CACHE_SIZE \in Nat \ {0} /\ WARM_UP \in Nat \ {0}
    /\ CHANNEL \in Nat \ {0} /\ POLLS \in Nat \ {0} /\ MaxChunk \in Nat \ {0}
    /\ LOWEST \in Int /\ HIGHEST \in Int /\ LOWEST <= HIGHEST
    /\ RawConfigs \subseteq Int
    /\ MaxTick \in Nat /\ MaxChanges \in Nat

VARIABLES
    session,     \* "streaming", "waiting" for the worker to end, "left"
    current,     \* current_bitrate and current_complexity
    redundancy,
    pending,     \* the command whose send is awaited: at most one
    stopSent,    \* worker_stop_tx has fired
    cmds,        \* the worker_cmd channel
    worker,      \* what the worker task does
    encoder,     \* the configuration of its encoder
    wanted,      \* the configuration of the Reconfigure being executed
    doubled,     \* udp_sender.redundancy_enabled
    polls,       \* capture events left in this interval
    warm,        \* warm-up packets left
    pcm,         \* halves of a frame in pcm_buffer
    tick,        \* media_tick
    seq,         \* sequence_worker
    serial,      \* frames encoded
    silence,     \* the frame the warm-up sends
    cache,       \* resend_cache.entries
    wire,        \* the last packet sent, if any
    first,       \* auxiliary: the frame first stored for each tick
    changes      \* auxiliary: the changes of the configuration so far

vars == <<session, current, redundancy, pending, stopSent, cmds, worker, encoder,
          wanted, doubled, polls, warm, pcm, tick, seq, serial, silence, cache,
          wire, first, changes>>
task == <<session, current, redundancy, pending, stopSent, changes>>
encoding == <<encoder, wanted, silence>>
media == <<tick, seq, cache, wire, first>>

Valid(raw) == IF raw < LOWEST THEN LOWEST ELSE IF raw > HIGHEST THEN HIGHEST ELSE raw

Configs == LOWEST..HIGHEST
Switch == {0, 1}     \* off, on
Frames == [config : Configs, serial : Nat]
Entries == [tick : Nat, frame : Frames]
Commands == [op : {"Reconfigure"}, arg : Configs]
       \cup [op : {"SetRedundancy"}, arg : Switch]
       \cup [op : {"Resend"}, arg : Nat]
Packets == [tick : Nat, seq : Nat, flag : {0, 1}, frame : Frames]

Alive == worker \notin {"done", "panicked"}

\* The CONFIG that ended the listening state is the first configuration; the
\* worker copies it and the redundancy switch when it is spawned.
Init ==
    /\ session = "streaming" /\ pending = << >> /\ stopSent = FALSE
    /\ \E raw \in RawConfigs : current = Valid(raw)
    /\ redundancy \in Switch
    /\ cmds = << >> /\ worker = "starting"
    /\ encoder = current /\ wanted = current /\ doubled = redundancy
    /\ polls = 0 /\ warm = 0 /\ pcm = 0
    /\ tick = 0 /\ seq = 0 /\ serial = 0
    /\ silence = [config |-> current, serial |-> 0]
    /\ cache = << >> /\ wire = << >> /\ first = << >>
    /\ changes = 0

-----------------------------------------------------------------------------
(* The retransmission cache and the sender. *)

Store_NoEvict(c, t, f) == Append(c, [tick |-> t, frame |-> f])

Store_NextTick(c, t, f) ==
    Append(IF Len(c) >= RESEND_CACHE_SIZE THEN Tail(c) ELSE c,
           [tick |-> t + 1, frame |-> f])

Store(c, t, f) ==
    Append(IF Len(c) >= RESEND_CACHE_SIZE THEN Tail(c) ELSE c,
           [tick |-> t, frame |-> f])

\* ResendCache::get: the entry of the tick, if there is one.
Get(c, t) == {e \in {c[i] : i \in DOMAIN c} : e.tick = t}

\* The drop simulation and a failing send leave the wire alone; the copy of
\* the redundant mode is the same packet and is not told apart.
SendAudio(f) ==
    \/ wire' = <<[tick |-> tick, seq |-> seq, flag |-> 0, frame |-> f]>>
    \/ wire' = wire

\* send_audio, store and the two counters, whatever became of the packet.
Transmit(f) ==
    /\ SendAudio(f)
    /\ cache' = Store(cache, tick, f)
    /\ first' = Append(first, f)
    /\ tick' = tick + 1 /\ seq' = seq + 1

\* A retransmission built like a fresh packet, under the present tick.
SendRetransmission_Restamped(e) ==
    /\ \/ wire' = <<[tick |-> tick, seq |-> seq, flag |-> 1, frame |-> e.frame]>>
       \/ wire' = wire
    /\ UNCHANGED <<tick, seq, cache, first>>

\* The sequence number is that of the next fresh frame, and stays it.
SendRetransmission(e) ==
    /\ \/ wire' = <<[tick |-> e.tick, seq |-> seq, flag |-> 1, frame |-> e.frame]>>
       \/ wire' = wire
    /\ UNCHANGED <<tick, seq, cache, first>>

-----------------------------------------------------------------------------
(* The session task. *)

Reading == session = "streaming" /\ pending = << >>

\* A resend request is dropped when the channel is full or closed.
OnResend(t) ==
    /\ Reading
    /\ Alive /\ Len(cmds) < CHANNEL
    /\ cmds' = Append(cmds, [op |-> "Resend", arg |-> t])
    /\ UNCHANGED <<task, worker, encoding, doubled, polls, warm, pcm, serial, media>>

\* Settings are awaited into the channel.
OnConfig(raw) ==
    /\ Reading /\ Valid(raw) # current
    /\ changes < MaxChanges /\ changes' = changes + 1
    /\ current' = Valid(raw)
    /\ pending' = <<[op |-> "Reconfigure", arg |-> current']>>
    /\ UNCHANGED <<session, redundancy, stopSent, cmds, worker, encoding, doubled,
                   polls, warm, pcm, serial, media>>

OnSetRedundancy(r) ==
    /\ Reading
    /\ redundancy' = r
    /\ pending' = <<[op |-> "SetRedundancy", arg |-> r]>>
    /\ UNCHANGED <<session, current, stopSent, cmds, worker, encoding, doubled,
                   polls, warm, pcm, serial, media, changes>>

\* Settings pushed the way resend requests are.
CompleteSend_Try ==
    /\ pending # << >> /\ pending' = << >>
    /\ cmds' = IF Alive /\ Len(cmds) < CHANNEL THEN cmds \o pending ELSE cmds
    /\ UNCHANGED <<session, current, redundancy, stopSent, worker, encoding, doubled,
                   polls, warm, pcm, serial, media, changes>>

\* worker_cmd_tx.send(..).await: returns when there is room, or with an error
\* when the worker is gone.
CompleteSend ==
    /\ pending # << >> /\ pending' = << >>
    /\ \/ Alive /\ Len(cmds) < CHANNEL /\ cmds' = cmds \o pending
       \/ ~Alive /\ cmds' = cmds
    /\ UNCHANGED <<session, current, redundancy, stopSent, worker, encoding, doubled,
                   polls, warm, pcm, serial, media, changes>>

\* A stop signal that needs room in the command channel.
Leave_ThroughChannel ==
    /\ Reading
    /\ session' = "waiting" /\ stopSent' = (Len(cmds) < CHANNEL)
    /\ UNCHANGED <<current, redundancy, pending, cmds, worker, encoding, doubled,
                   polls, warm, pcm, serial, media, changes>>

\* GOODBYE, the inactivity timeout or the UI's toggle: all leave the loop,
\* signal the worker and await it.
Leave ==
    /\ Reading
    /\ session' = "waiting" /\ stopSent' = TRUE
    /\ UNCHANGED <<current, redundancy, pending, cmds, worker, encoding, doubled,
                   polls, warm, pcm, serial, media, changes>>

Joined ==
    /\ session = "waiting" /\ ~Alive
    /\ session' = "left"
    /\ UNCHANGED <<current, redundancy, pending, stopSent, cmds, worker, encoding,
                   doubled, polls, warm, pcm, serial, media, changes>>

-----------------------------------------------------------------------------
(* The audio worker. *)

\* What encode_frame returns next.
NextFrame == [config |-> encoder, serial |-> serial]
Encode == serial' = serial + 1

\* AudioCapturer::new panics the task when there is no device to capture.
StartFails ==
    /\ worker = "starting" /\ worker' = "panicked"
    /\ UNCHANGED <<task, cmds, encoding, doubled, polls, warm, pcm, serial, media>>

\* The ten warm-up packets carry one encoded frame of silence.
StartWarmUp ==
    /\ worker \in {"starting", "reconfigured"}
    /\ Encode /\ silence' = NextFrame
    /\ worker' = "warming" /\ warm' = WARM_UP
    /\ UNCHANGED <<task, cmds, encoder, wanted, doubled, polls, pcm, media>>

WarmUp ==
    /\ worker = "warming"
    /\ Transmit(silence)
    /\ warm' = warm - 1
    /\ worker' = IF warm = 1 THEN "select" ELSE "warming"
    /\ UNCHANGED <<task, cmds, encoding, doubled, polls, pcm, serial>>

Interval ==
    /\ worker = "select"
    /\ worker' = "polling" /\ polls' = POLLS
    /\ UNCHANGED <<task, cmds, encoding, doubled, warm, pcm, serial, media>>

EndPolls == worker' = IF polls = 1 THEN "select" ELSE "polling"

\* A chunk joins what is left of the previous one; next_event's empty chunk
\* and its error end the interval.
Captured(n) ==
    /\ worker = "polling" /\ tick < MaxTick
    /\ pcm' = pcm + n
    /\ polls' = polls - 1
    /\ IF pcm' >= 2 THEN worker' = "framing" ELSE EndPolls
    /\ UNCHANGED <<task, cmds, encoding, doubled, warm, serial, media>>

NothingCaptured ==
    /\ worker = "polling" /\ worker' = "select"
    /\ UNCHANGED <<task, cmds, encoding, doubled, polls, warm, pcm, serial, media>>

DeviceChanged ==
    /\ worker = "polling"
    /\ pcm' = 0 /\ polls' = polls - 1 /\ EndPolls
    /\ UNCHANGED <<task, cmds, encoding, doubled, warm, serial, media>>

AfterFrame ==
    /\ pcm' = pcm - 2
    /\ worker' = IF pcm' >= 2 THEN "framing"
                 ELSE IF polls = 0 THEN "select" ELSE "polling"

SendFrame ==
    /\ worker = "framing"
    /\ Encode /\ Transmit(NextFrame)
    /\ AfterFrame
    /\ UNCHANGED <<task, cmds, encoding, doubled, polls, warm>>

\* encode_frame failed and returned no data: the frame has no tick.
FrameNotEncoded ==
    /\ worker = "framing"
    /\ AfterFrame
    /\ UNCHANGED <<task, cmds, encoding, doubled, polls, warm, serial, media>>

Receives(op) == worker = "select" /\ cmds # << >> /\ cmds[1].op = op

OnReconfigure ==
    /\ Receives("Reconfigure")
    /\ wanted' = cmds[1].arg /\ worker' = "fading"
    /\ cmds' = Tail(cmds)
    /\ UNCHANGED <<task, encoder, doubled, polls, warm, pcm, serial, silence, media>>

Reconfigured_KeepCache ==
    /\ worker = "fading" /\ worker' = "reconfigured"
    /\ encoder' = wanted /\ pcm' = 0
    /\ UNCHANGED <<task, cmds, wanted, doubled, polls, warm, serial, silence, media>>

\* The timeline of the new encoder starts over.
Reconfigured_NewTimeline ==
    /\ worker = "fading" /\ worker' = "reconfigured"
    /\ encoder' = wanted /\ pcm' = 0 /\ cache' = << >>
    /\ tick' = 0 /\ seq' = 0
    /\ UNCHANGED <<task, cmds, wanted, doubled, polls, warm, serial, silence, wire,
                   first>>

\* After the 20 ms fade-out: a new encoder, nothing of the old audio left.
Reconfigured ==
    /\ worker = "fading" /\ worker' = "reconfigured"
    /\ encoder' = wanted /\ pcm' = 0 /\ cache' = << >>
    /\ UNCHANGED <<task, cmds, wanted, doubled, polls, warm, serial, silence, tick,
                   seq, wire, first>>

SetRedundancy ==
    /\ Receives("SetRedundancy")
    /\ doubled' = cmds[1].arg
    /\ cmds' = Tail(cmds)
    /\ UNCHANGED <<task, worker, encoding, polls, warm, pcm, serial, media>>

Resend ==
    /\ Receives("Resend")
    /\ cmds' = Tail(cmds)
    /\ LET cached == Get(cache, cmds[1].arg)
       IN IF cached = {} THEN UNCHANGED media
          ELSE \E e \in cached : SendRetransmission(e)
    /\ UNCHANGED <<task, worker, encoding, doubled, polls, warm, pcm, serial>>

\* The stop signal is one of the branches the worker selects from.
Stopped ==
    /\ worker = "select" /\ stopSent
    /\ worker' = "done"
    /\ UNCHANGED <<task, cmds, encoding, doubled, polls, warm, pcm, serial, media>>

-----------------------------------------------------------------------------

Session ==
    \/ \E t \in 0..MaxTick : OnResend(t)
    \/ \E raw \in RawConfigs : OnConfig(raw)
    \/ \E r \in Switch : OnSetRedundancy(r)
    \/ CompleteSend
    \/ Leave
    \/ Joined

Working ==
    \/ StartFails
    \/ StartWarmUp
    \/ WarmUp
    \/ Interval
    \/ \E n \in 1..MaxChunk : Captured(n)
    \/ NothingCaptured
    \/ DeviceChanged
    \/ SendFrame
    \/ FrameNotEncoded
    \/ OnReconfigure
    \/ Reconfigured
    \/ SetRedundancy
    \/ Resend
    \/ Stopped

Next == Session \/ Working

Spec == Init /\ [][Next]_vars

\* tokio::select! polls its branches in random order, so a branch that is
\* ready whenever the worker selects is taken in the end; the runtime runs
\* both tasks.
FairSpec ==
    /\ Spec
    /\ WF_vars(Working) /\ SF_vars(Stopped)
    /\ WF_vars(CompleteSend) /\ WF_vars(Joined)

-----------------------------------------------------------------------------
(* Properties. *)

TypeOK ==
    /\ session \in {"streaming", "waiting", "left"}
    /\ current \in Configs /\ redundancy \in Switch /\ stopSent \in BOOLEAN
    /\ pending \in Seq(Commands) /\ Len(pending) <= 1
    /\ cmds \in Seq(Commands) /\ Len(cmds) <= CHANNEL
    /\ worker \in {"starting", "warming", "select", "polling", "framing", "fading",
                   "reconfigured", "done", "panicked"}
    /\ encoder \in Configs /\ wanted \in Configs /\ doubled \in Switch
    /\ polls \in 0..POLLS /\ warm \in 0..WARM_UP
    /\ pcm \in 0..(MaxChunk + 1)
    /\ tick \in Nat /\ seq \in Nat /\ serial \in Nat
    /\ silence \in Frames /\ changes \in 0..MaxChanges
    /\ cache \in Seq(Entries) /\ Len(cache) <= RESEND_CACHE_SIZE
    /\ wire \in Seq(Packets) /\ Len(wire) <= 1
    /\ first \in Seq(Frames)

\* The cache holds the last ticks sent, all of them and nothing else, oldest
\* first: a receiver that asks for a tick younger than the cache is served
\* (network.rs:64-77, main.rs:290-299, 312-322, 355-364).
CacheIsRecent ==
    \A i \in DOMAIN cache : cache[i].tick = tick - Len(cache) + i - 1

\* main.rs:348-351: "serving them after a reconfigure would mix bitrates".
\* While the worker can serve, everything cached is of the present encoder.
CacheIsCurrent ==
    \A i \in DOMAIN cache : cache[i].frame.config = encoder

\* network.rs:111: "the retransmit path can rebuild the exact same packet": a
\* retransmission carries the frame that was first sent under its tick.
RetransmitsExactly ==
    \A i \in DOMAIN wire : wire[i].flag = 1 =>
        /\ wire[i].tick + 1 \in DOMAIN first
        /\ wire[i].frame = first[wire[i].tick + 1]

\* Executing the commands s one after the other gives the setting that `op'
\* sets the value v, when it is `now' before: the last of them decides.
Gives(s, op, now, v) ==
    \/ now = v /\ \A i \in DOMAIN s : s[i].op # op
    \/ \E i \in DOMAIN s :
           /\ s[i].op = op /\ s[i].arg = v
           /\ \A j \in DOMAIN s : s[j].op = op => j <= i

OnTheWay == cmds \o pending

\* A setting is never lost, however many resend requests crowd the channel:
\* once the worker has executed what is on its way, its encoder and its
\* redundancy switch are those the session believes in (main.rs:412, 427, 446).
SettingsOnTheirWay ==
    Alive =>
        /\ Gives(OnTheWay, "Reconfigure",
                 IF worker = "fading" THEN wanted ELSE encoder, current)
        /\ Gives(OnTheWay, "SetRedundancy", doubled, redundancy)

\* The frames of packets, without sequence number and flag.
Given(packets) ==
    [i \in DOMAIN packets |-> [tick |-> packets[i].tick, frame |-> packets[i].frame]]

\* The cache as a window onto everything encoded, and the wire as what the
\* receiver is given.
Replay == INSTANCE ReplayLog WITH
    Capacity <- RESEND_CACHE_SIZE,
    log <- first,
    low <- tick - Len(cache),
    out <- Given(wire)

\* The worker implements the replay log: any tick that is less than a cache
\* old and younger than the last reconfiguration can be had again, and what is
\* had is its first frame (network.rs:47-77, main.rs:317-322, 369-390).
ReplaysLog == Replay!LogSpec

\* The session that leaves gets back to listening: the worker always ends
\* (main.rs:394-399, 494-496).
LeavingEnds == session = "waiting" ~> session = "left"

-----------------------------------------------------------------------------
(* What the documentation says and the code does not do (README.md, section *)
(* Divergences, names the step that breaks each). *)

\* network.rs:15: the header's seq is the "transmit order".
SeqIsTransmitOrder ==
    [][wire' # wire /\ wire # << >> => wire'[1].seq > wire[1].seq]_wire
=============================================================================
