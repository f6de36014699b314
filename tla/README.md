# PC-Audio-Stream-to-Phone: a TLA+ model of the streaming system

The repository streams a Windows PC's audio to an Android phone over UDP: a Rust
server captures the default output device, encodes 20 ms Opus frames and sends
them; an Android service finds the server, receives, and hands packets to a
native engine that decodes and plays them. This directory models the parts of it
that decide *when* something happens: the control of the jitter buffer, the
threads of the engine and those that restart it, the capture side's recovery, the
worker that owns the retransmission cache, the connection protocol between the two
hosts, the phone's socket, and the server's window. TLC checks each model on small
instances; TLAPS proves all of their invariants and action properties for every value
of the constants, a bound on the time two hosts need to find each other again among
them, and that the worker implements an abstract replay log.

Paths below are relative to the repository's root; `main.rs` and the like are in
`server/src/`, `AudioService.kt` in `android/app/src/main/kotlin/com/example/audiobtbridge/`,
`adaptive_buffer.h` and `native-lib.cpp` in `android/app/src/main/cpp/`.

Contents: [Inventory](#inventory) · [Modules](#modules) · [Runs](#runs) ·
[Bounds](#bounds) · [Fairness](#fairness) · [Divergences](#divergences) ·
[Proofs](#proofs) · [Not modelled](#not-modelled) · [Plan](#plan)

## Inventory

### The phone

**Adaptive watermark controller** (`adaptive_buffer.h`, class `AdaptiveBuffer`).
State: base, target and ceiling watermark in frames, the two advanced settings, a
five-state machine (`Normal`, `PreHolding`, `Holding`, `PreEmptying`, `Emptying`),
the time the state was entered, the underruns seen in it. Operations: `configure`,
`setPcmTarget`, `setCatchUp`, `shouldDiscard`, `onUnderrun`, `onTick`,
`onDiscarded`. Called by the engine only, always under its buffer mutex. Hard:
five operations move two watermarks by different steps in any order, two windows
run from the last transition. Correct when the watermark stays within base,
ceiling and cap, is never ratcheted up for good, and comes back when the link is
clean.

**Native playback engine** (`native-lib.cpp`, class `AudioEngine`). State: the jitter
buffer keyed by media tick, the decoded-PCM inventory, `mIsBuffering`,
`mFirstPacket`, `mExpectedSeq`, the 100 ms cooldown, the running flag, the stream.
Threads: the audio callback (`onAudioReady`), the decode thread, the receiver
(`pushPacket`), the service (`setBufferSize`, `updateAdvancedSettings`,
`resetAudio`, `start`, `stop`), Oboe's error callback. One mutex guards the
buffers, one the stream; the decode thread decodes and asks for resends outside
both. Hard: everything between the decode thread's two critical sections, a wait
with a predicate and a notify that does not take the mutex, four pieces of code
that move the expected tick, detached threads that stop and start the engine under
the service's own stop, a resend callback copied under one lock and called under
none. Correct when the buffers are bounded, the codec sees the timeline in order, a
slow decoder is not taken for a bad link, stop returns, what is queued is played,
and threads, stream and callback come and go together.

**Service: connection handling** (`AudioService.kt`). State: `serverAddress` and
`resendTarget` (two fields that mean one thing), `lastAudioTime`,
`configRetryCount`, the socket. Coroutines: discovery (1 s), heartbeat (2 s),
receiver (a bind that is retried while the port is taken, then a loop with a 3 s
socket timeout), watchdog (1.5 s without audio, three CONFIG retries).
Talks to the server over UDP and to the engine over JNI. Hard: two dispatchers
write the two fields, four timers on two hosts give one connection up, a new
instance of the service starts while the old one's GOODBYE is under way and its
receiver still holds the port. Correct when the two hosts find each other again,
no connection is left playing nothing, and every socket is closed by someone.

**Others**: duplicate detection (`ConnectionManager.kt`), latency presets
(`LatencyManager.kt`), notification, locks and audio focus, the Compose screens
(`MainActivity.kt`), JNI declarations (`NativeBridge.kt`).

### The server

**Audio capture** (`audio.rs`, `AudioCapturer`). State: the open device's name, the
two flags `needs_restart` (set by a monitor thread that compares device names once
a second) and `stream_failed` (set by the error callback), the chunk channel, the
time of the last callback, the silence credit, the fader's volume and its target.
Operations: `new`, `start_fade_out`, `reinitialize`, `next_event`. Hard: a
reinitialisation of several failing steps whose request is cleared first, two streams
that fill one channel during a switch, three reads of the default device at three
times, silence paced by integer division from polls that come at any spacing and read
the clock twice. Correct when silence keeps real time but for a bounded loss, the
default device is the one heard, and a failed switch does not leave the session mute.

**Audio worker, retransmission cache, sender** (`main.rs:268-399`, `network.rs`).
State: encoder, `pcm_buffer`, `media_tick`, `sequence_worker`, the cache of the
last 128 packets, the redundancy switch. A task of its own; it selects between a 5
ms interval, commands (`Reconfigure`, `SetRedundancy`, `Resend`) from a channel of
10, and a oneshot stop. Hard: a reconfiguration interrupts the stream between two
packets of one timeline; three kinds of messages share a bounded channel in three
ways.

**Session state machine** (`main.rs:140-507`). `Idle`, `Listening`, `Streaming`,
with a socket bound anew for each listening period. Listening answers DISCOVER with
OFFER and starts a session on CONFIG; streaming forwards resends and settings to the
worker, and ends on GOODBYE, on more than 5 s without a datagram or on the
window's button. Hard: everything arrives over UDP, late, twice or never, and a
message of one session, its audio included, may be read in the next.

**Window and tray** (`ui.rs`, `ui.slint`, `main.rs:167-230` and `531-562`). State: what the
window shows (`is_streaming`, `redundancy_enabled`, `client_text`) and the two flags
and two channels it shares with the server task: `is_running`, `is_ui_visible`,
commands (bounded, 10) and statistics (unbounded). Threads: the window's event loop
with a 250 ms timer, the main thread with the tray icon, the server task. Hard: the
buttons send relative commands that are read much later, in one of three states; the
switch is flipped before its command is accepted; the main thread stores what it saw
of the window over what the close callback stored since; a bind that fails ends the
server's task and with it the command channel and what waits there. Correct when, as
long as that task lives, every accepted click counts once, and the window settles at
what the server does.

**Others**: the Opus wrapper (`encoder.rs`), an mDNS announcement (`discovery.rs`, which
`main.rs` does not declare as a module).

### How they interact

```
capture callback -> channel -> next_event -> worker -> UDP -> receiver -> pushPacket
   monitor thread -> flags ------^             ^                            |
   window -> try_send -> session task -- cmds -+                     jitter buffer
phone loops -> UDP (DISCOVER, CONFIG, ALIVE, GOODBYE, RESEND) -> session  |
                                                        decode thread -> PCM -> callback
```

The hazards in `PROJECT.json` say, line by line, what in this is hard to test, and
which property looks at it.

## Modules

| module | models | state and actions |
|---|---|---|
| `AdaptiveBuffer` | `adaptive_buffer.h`, all of it that changes state | one record; each member function is an operator from record to record (`AfterUnderrun`, `AfterTick`, ...), so the engine can compose several under one mutex; `configure`, `onUnderrun`, `onTick`, ... are the actions of the controller driven by any caller |
| `AdaptiveBufferHistory` | the same, with what the caller experienced (`quiet`, `seen`) | each action also keeps the account; `FairSpec` adds that time passes |
| `AudioEngine` | `native-lib.cpp` | extends `AdaptiveBuffer`; one action per critical section; the decode thread is a program counter (`top`, `dozing`, `asleep`, `requesting`, `decoding`) |
| `AudioEngineHistory` | the same, with what was received, given to the codec and asked for since the last reset | |
| `EngineLifecycle` | `native-lib.cpp:95-129`, `473-521` | who calls `start` and `stop`: the service's thread and the detached threads of `onError`, each call in two steps under `mStreamMutex`; the JNI reference of the resend callback in the three steps it is made and unmade in, and the decode thread's copy of it |
| `AudioCapturer` | `audio.rs` | the PC, the two callbacks' flags, the open stream and the one being opened, the chunk channel, `reinitialize` in its steps, `next_event` in its outcomes, the fader as a volume that moves towards a target |
| `StreamWorker` | `main.rs:268-507`, `network.rs:47-246` | session task, bounded channel, worker task, cache and sender |
| `ReplayLog` | what `StreamWorker` promises | a log of every frame, of which the last `Capacity` since the last `Forget` can be had again; `Emit`, `Serve`, `Forget` |
| `Connection` | `main.rs:140-507` and `AudioService.kt:330-765` | server, phone, network and clock |
| `ReceiverSocket` | `AudioService.kt:446-465`, `565-584`, `633-668`, `905-915` | the receiver of each service instance from launch to `finally`, `onDestroy` beside it, and the port as the kernel sees it |
| `ServerWindow` | `ui.rs`, `main.rs:167-230`, `407-411`, `500-562` | the window's thread (clicks, close callback, timer), the main thread (look, then store and act), the server task, and the flags and channels between them |
| `AdaptiveBufferProofs`, `AudioEngineProofs`, `EngineLifecycleProofs`, `AudioCapturerProofs`, `StreamWorkerProofs`, `ConnectionProofs`, `ReceiverSocketProofs`, `ServerWindowProofs` | | theorems about the module they are named after and its history module; `StreamWorkerProofs` also shows that `StreamWorker` implements `ReplayLog` |

How they compose. `AudioEngine` extends `AdaptiveBuffer` and composes its operators under
one mutex; the history modules extend what they observe. `StreamWorker` substitutes
its own state into `ReplayLog`: the log is the sequence of first frames, the oldest
tick that can be had again is `tick - Len(cache)`, the output what the last step
put on the wire. `Connection` is both hosts with the session and the engine reduced
to what the protocol can tell apart: of the engine that is the session whose timeline it
is on (`engine`), none, or none yet because it still cools down (`Cooling`).
`EngineLifecycle`, `ReceiverSocket` and
`ServerWindow` are what surrounds the engine, the receiver and the session.

Conventions. Actions and variables keep the source's names where TLA+ allows it.
`X_<fault>` is the definition `X` with a plausible fault; no specification uses it.
It stands directly before `X` to say which fault the property named in
`PROJECT.json` would notice. Counters that only feed logs and statistics are left
out everywhere.

Granularity. A critical section of `mBufferMutex` is one step, except the decode
thread's wait: testing the predicate and falling asleep are two steps, because
`stop()` notifies without the mutex and can come between. Between the decode
thread's two sections (`requesting`, `decoding`) anything may happen. On the server
a task's code between two awaits is one step; the worker's packets are one step
each, because the session task runs beside it. On the phone each of the two writes
of `clearServerConnection` and of the two adoptions is a step of its own. A
`reinitialize` is three steps: flags, default device read, stream open or failed. A poll
that paces silence is one step that reads the clock twice, up to `MAX_LAG` apart.

Time. The controller's windows are counted in abstract units that `Elapse` and
`clockUnit` advance. The capturer's clock (`Pass`) is finer than the microseconds its
credit is counted in: `MICRO` units make one, and the rest of a reading is truncated.
`Connection` counts seconds: `Tick` happens when nothing is in flight and every loop
that is due has had its turn, so a message is at most a second old and a loop is never
late by a second; within the second everything happens in any order. Audio of the
session that streams is one thing a second that comes or is lost (`ReceiveAudio`,
`LoseAudio`); when a session ends, audio of it may be left in the network like any other
message (`LastAudio`), to be lost, overtaken, and heard in the next session
(`ReceiveLateAudio`). The engine's cooldown ends at any moment of its second
(`EndCooldown`), before or after such audio arrives.

## Runs

All passing runs are exhaustive. Times are for two workers.

| run | asks | states | time |
|---|---|---|---|
| `Adaptive` | can any sequence of calls push the watermark out of its range, leave it raised in the steady state, shorten a confirm window, or keep a clean link from coming back to the configured latency? | 47 k | 20 s |
| `Engine` | can any interleaving of the callback, decode thread, pushes, resets, settings, start and stop overrun a buffer, hand the codec a tick twice or backwards, or raise the watermark because the decoder was late? | 5.97 M | 105 s |
| `EngineProgress` | does `stop` always return; is everything above the watermark played once the input ends? | 145 k | 30 s |
| `Lifecycle` | do restarts after disconnections and a service that is being destroyed leave thread, stream and callback together; does the engine come back; does `stopNative` return? | 6.9 k | 8 s |
| `Capturer` | is paced silence never ahead of real time and behind it by a bounded part only; can a failed switch leave the session mute; does the old device only drain; is a PC that settles captured at its default device (if no open failed and the monitor saw each device)? | 838 k | 32 s |
| `Worker` | is the cache the unbroken recent history of the present encoder; does a retransmission repeat the very frame; does every step implement the replay log; is any setting lost; does leaving end? | 1.25 M | 80 s |
| `ConnectionRecovers` | are a running phone and a running server connected after seven calm seconds, whatever came before? | 14.2 M | 140 s |
| `ConnectionPlays` | does a session that answers its own OFFER find the engine on its timeline, whatever audio of the session before still arrives? | 6.3 M | 65 s |
| `Sockets` | does every socket get closed, every receiver end, and the last instance get the port? | 12 k | 4 s |
| `Window` | as long as the server's task lives, does every accepted click count once and the switch say what the server will do; is a hidden window told of the end of a session and a closed one left alone; does the window settle at the server's state? | 0.95 M | 56 s |
| `ConnectionSilent`, `ConnectionReFound` | statements of the documentation that the code contradicts: see Divergences | | |

`CHECK_DEADLOCK FALSE` where the system may stop. `Worker`: the session has left. The
`Connection` runs: the bound on listening periods is used up (a server that may
not listen again cannot leave `Streaming`). `Lifecycle`: the process has ended,
because a stream could not be opened. `Sockets`: the instances are used up.
`Window`: the user has quit. In every other run deadlock is checked.

The runs `Lifecycle`, `Capturer`, `Sockets` and `Window` do not list their module's
`TypeOK`, which is proved instead (see Proofs).

What each passing property rests on:

- `SteadyAtBase` and `OnlyUnderrunsRaise` together are the README's "no permanent
  ratchet"; `Recovery` is the half of it that needs time: it assumes that the
  disturbances end, that time passes and that ticks find the occupancy at the
  watermark again and again (an occupancy that stays above it for ever keeps
  `Emptying` as the code intends, one that stays below it keeps `Holding`).
- `LagNeverRatchets` is the comment at `native-lib.cpp:156-161` as an action
  property: with packets queued before and after, no step of any thread raises the
  target or enters buffering.
- `InventoryBounded` counts the frame that is being decoded, which is why it is
  close to inductive: the backlog is checked before the decode, not after.
- `InTimelineOrder` counts concealed ticks too, from one reset to the next.
- `SettingsOnTheirWay`: following the channel, the pending send and the command in
  execution, the last setting of each kind is always what the session believes in.
- `ReplaysLog` is the formula `Replay!LogSpec`: every step of session, channel, worker
  and sender is an emitted frame, a served one, a forgetting or nothing.
- `EngineWhole`: `start()` assigns to `mDecodeThread`, which ends the process if the old
  thread was not joined. Nothing but `mStreamMutex` and the early return at a running
  engine keeps two restarts and a stop from getting there.
- `NoCallAfterDestroy` holds although a restart may bring the engine back after
  `stopNative`: the callback was removed before, so that engine has none to copy.
- `PacedToRealTime`: what is emitted and what the credit and the wait under way stand for
  is never more than the silent run's length (`Lost >= 0`), and less by at most a
  microsecond and one lag per `GATE`, since only a poll at the gate or later truncates and
  reads the clock a second time. Polls that come more often lose no more; a remainder
  that was thrown away, or one frame for each poll, loses by the frame.
- `NeverLeftMuted` depends on an order: `reinitialize` turns the fader around before
  the steps that fail.
- `NoSocketLeaks` depends on the receiver's own `finally`: `onDestroy` closes only the
  socket it finds in the field. `ListensAgain` excludes a bind that failed for another
  reason than a taken port, after which the code gives up, and other programs that
  keep the port.
- `TogglesCount` counts the commands in the channel: executing those that are left makes
  the server what the accepted clicks so far ask for. Both it and `SwitchIsOnItsWay` say
  nothing of a server whose bind has failed: the panic drops the channel's receiver, the
  commands that waited are gone (`Bind`) and `try_send` fails from then on (`Accepts`).
- `ClosedWindowIsLeftAlone`: the main thread's look and its store are two steps. What
  makes a look from before the click harmless is the message the close callback posts.
- `WindowFollows` assumes that the server's state stays, as after the user's last click.
- `OfferedSessionPlays`: adopting the OFFER empties the engine and begins the cooldown,
  which ignores what is pushed. Audio of an earlier session that arrives after the
  cooldown sets the old timeline again, under which the new session's packets are late;
  the auxiliary `outlived` is true if such audio was under way when the last cooldown
  ended, and the property excepts exactly that. It does not depend on the GOODBYE
  arriving, whose `resetAudio` begins no cooldown, nor on which of the two sends is
  faster. Without the cooldown (`Pushed_NoCooldown`) it fails.
- `Recovers`: the bound is `HEARTBEAT + AUDIO_STALE + 3`, 7 seconds here, and it is
  proved for any timers in that order (see Proofs). It is tight: with
  `RECOVERY = 6` the run finds a violation. It does not depend on `SERVER_TIMEOUT`,
  however long the server stays with a session: one that streams to the phone is heard
  by it within a second, and one about to end is given up within a heartbeat and two seconds.

## Bounds

| bound | value | why it is enough |
|---|---|---|
| `Adaptive`: cap 7, step 2, margin 1, headroom 2; sizes 0, 1, 3, 6, 8; occupancies 0-9 | scaled from 60/2/... frames | bases below, at and above the point where base + headroom meets the cap, sizes beyond both clamps, targets that reach the ceiling with and without a remainder, occupancies beyond target + catch-up. The windows keep their ratio (0.5, 3 and 2 s in units of 0.5 s) |
| `Engine`: 3 packets, ticks 0-4, resync gap 2, 2 slices per frame, watermarks 1-3 | 50, unbounded, 100, device-dependent | a full queue, a late, repeated and reordered packet, gaps at, below and beyond the resync distance (a first packet of tick 0 makes 1 the expected tick; tick 4 is then beyond the distance and resynchronises), a discard that crosses a gap, a callback between two slices. `PUSH_BOUND` keeps the expected tick finite |
| `EngineProgress`: one size, one slice, ticks 0-3, resync gap 1 | | progress depends on thresholds relative to each other |
| `Lifecycle`: three restarting threads | one per disconnection | two restarts between the two halves of each other and of `stopNative`, with a third one waiting. The theorems hold for any number |
| `Capturer`: frame 2, gate 4, stall 9 microseconds of two clock units each (`MICRO`); the clock goes on by 1-6 units at a time and by up to 1 between the two reads of a poll (`MAX_LAG`); runs up to 20 units; a fade of 2, 2 chunks queued | 20, 40, 250 ms, nanoseconds, unbounded | remainders of the frame and of the microsecond, a lag and none, polls at the gate and later ones, runs beyond the stall. The theorem holds for any values; a fade that a chunk does not complete; chunks of the old and the new device in the channel. Two devices suffice for each pair of names that can differ |
| `Worker`: cache 2, channel 2, warm-up 1, ticks up to 3, two reconfigurations | 128, 10, 10 | eviction, a full channel with a setting waiting, a resend for an evicted, a cached and a future tick, two configurations that clamp to the same |
| `Connection`: two listening periods (`MaxPeriods`), one or two service instances (`MaxStarts`) | unbounded | a message or audio of one session in the next, a GOODBYE of one instance in the next one's session. Timers keep the source's seconds; 1.5 s is rounded up to 2 |
| `Sockets`: three instances | unbounded | one that runs while two before it are tearing down. The theorems hold for any number |
| `Window`: 2 commands in the channel, one message to the main thread unhandled | 10, unbounded | a full channel, a click lost at it, toggle and switch in either order; the close callback's own message is not counted, so it may meet any other. The theorems hold for every size |
| `ConnectionPlays`: two addresses, other phones silent | | a phone that changes networks; `ConnectionRecovers` has one address and other phones instead |

## Fairness

- `AdaptiveBufferHistory!FairSpec`: weak fairness of `TimePasses`, a steady clock.
- `AudioEngine!FairEngine`: weak fairness of the decode thread as a whole, whose only
  wait is bounded by 50 ms (`wait_for`), so it is always runnable within that time;
  strong fairness of the audio callback, which competes for `mBufferMutex` with a
  decode thread that takes it again and again: a real-time callback that Oboe drives
  gets the mutex in the end. `openStream` and `joined` are a thread going on once it
  can. Nothing is assumed of packets, resets and settings.
- `EngineLifecycle!FairSpec`: a thread that asks for `mStreamMutex` again and again gets it
  (strong fairness, as other threads may take it in between); what is begun under it
  ends; the service's thread goes on between its calls; the decode thread looks at
  `mIsRunning` again, and a gap is worth eight calls at most (strong fairness of the last
  call). Neither the success of an open nor disconnections are assumed.
- `AudioCapturer!FairSpec`: the monitor thread's loop and the polling worker keep
  running, and an open that was begun ends, well or not. Success is not assumed.
- `StreamWorker!FairSpec`: tokio runs both tasks (weak fairness of the worker,
  `CompleteSend`, `Joined`). `tokio::select!` polls its branches in random order, so a
  branch that is ready whenever the worker selects is taken in the end: strong
  fairness of `Stopped`.
- `ReceiverSocket!FairSpec`: a dispatched coroutine goes on, since none of its calls waits
  longer than three seconds; `onDestroy` runs to its end; an instance that was denied the
  audio focus has called `stopSelf`. No instance has to be started or stopped.
- `ServerWindow!FairSpec`: the timer fires between the window's other events (strong
  fairness, since the close callback interrupts it), the bind and the worker's end come,
  and a `select!` that is entered again and again takes a command that waits, tokio
  choosing among the ready branches at random.
- `Connection` has no liveness property. Its promises are bounded by its own clock:
  `Recovers` is an invariant over `calm`, the seconds without a disturbance, and
  `Tick` cannot happen before the loops have run.

## Divergences

What a doc or a comment says and the code does not do. Two have a run that shows the
behaviour; each is the one property of its configuration.

| run, property | code | what happens |
|---|---|---|
| `ConnectionSilent`, `ConnectedPlays` | `main.rs:232` | a watchdog's repeated CONFIG starts a session whose ticks begin at 0 under an engine that is still on the old timeline: connected, and every packet late |
| `ConnectionReFound`, `ReFound` | `main.rs:419` | any datagram counts as the client's activity, also the DISCOVERs of the phone that gave the session up: after a worker's panic or a change of address the session never times out (`README.md:102`) |

More statements stand at the end of their modules without a run of their own. Each
fails when it is put into the configuration named here as the only property:

| property (configuration) | step that breaks it |
|---|---|
| `AsksBeforeConcealing` (`Engine`, invariant) | the expected tick is already past the first missing one when that one is requested: a loss of a single packet asks for a packet that will be dropped as late (`native-lib.cpp:236`) |
| `GapRequestsCapped` (`Engine` with `SLICES_PER_FRAME = 1`, `RESYNC_GAP = 4`, `MAX_REQUESTS = 2`, `MAX_TICK = 4`, `PUSH_BOUND = 6`; invariant) | every concealed tick detects the rest of the gap anew, so the cap of 8 holds per detection and not per gap (`native-lib.cpp:262`, `README.md:123`) |
| `RaiseIsConfirmed` (`Adaptive`, invariant) | a discard leads from `Normal` to `Emptying`, where a single underrun raises the target (`adaptive_buffer.h:142`) |
| `CleanWindowBeforeRelease` (`Adaptive`, property) | an underrun in `Holding` does not restart the release window (`adaptive_buffer.h:188`) |
| `ResetIsAtomic` (`Engine`, property) | a frame popped before a reset is appended after it (`native-lib.cpp:293`) |
| `AsksOnlyForMissing` (`Engine`, invariant) | the catch-up loop counts the expected tick up by packets, not ticks; discarding across a gap leaves it among packets received and thrown away (`native-lib.cpp:213`) |
| `DownIsSilent` (`Lifecycle`, invariant) | a restart that `onError` began is between its `stop()` and its `start()` when `stopNative` returns, and starts an engine that belongs to no service (`native-lib.cpp:126`) |
| `CallsThroughReference` (`Lifecycle`, invariant) | the decode thread has found the reference not null when `setResendCallback` deletes it (`native-lib.cpp:475`) |
| `OpeningSucceeds` (`Lifecycle`, invariant) | the result of `openStream` is not looked at before `requestStart` (`native-lib.cpp:112`) |
| `ReopensAfterFailure` (`Capturer` with `FRAME = 2`, `GATE = 2`, `STALL = 3`, `FADE = 1`, `MAX_POLL = 1`, `MICRO = 1`, `MAX_LAG = 0`, `HORIZON = 3`, `MAX_QUEUE = 1`; property) | the flags that ask for a reinitialisation are cleared before the steps that can fail; after one failed open nothing asks again (`audio.rs:216`) |
| `FollowsQuickChanges` (`Capturer`, property) | the monitor compares with the name it saw last, not with the one that was opened (`audio.rs:195`) |
| `FadesOut` (`Capturer`, property) | a device change reinitialises without a fade-out, and the 20 ms between `start_fade_out` and a reconfiguration's `reinitialize` play no audio that could fade (`audio.rs:220`, `README.md:86`) |
| `OnlyPresentDevice` (`Capturer`, property) | `DeviceChanged` clears what was taken from the channel, not what waits in it (`main.rs:328`) |
| `SeqIsTransmitOrder` (`Worker`, property) | a retransmission takes the counter's value without counting it up (`main.rs:379`) |
| `TargetsAgree` (`ConnectionRecovers`, invariant) | an adoption between the two writes of the watchdog's `clearServerConnection` leaves a server without a resend target (`AudioService.kt:762`) |
| `OfferedSessionPlays` without `~outlived` (`ConnectionPlays`, invariant) | the cooldown that is to "prevent sequence misalignment from stale packets" lasts 100 ms: audio of the last session that arrives later is the first the engine takes, and the new session's packets are late (`native-lib.cpp:361`) |
| `CloseIsExpected` (`Sockets`, invariant) | the receiver sets the socket's timeout outside the inner `try`: a close between the test of `isRunning` and there leaves the coroutine as an exception nobody catches (`AudioService.kt:461`; the handler that expects it is at 575) |
| `SwitchIsHonoured` (`Window`, invariant) | the switch is flipped before `try_send`, whose failure at a full channel, or at the closed one of a dead server, is dropped (`ui.rs:223`) |
| `ShownWindowIsFed` (`Window`, invariant) | a window shown from the tray is not seen visible before the next message to the main thread (`main.rs:545`) |
| `ShownServerLives` (`Window`, property) | a bind that fails panics the server's task, and the window goes on saying that it streams (`main.rs:206`) |

## Proofs

TLAPS checks every proof below for all values of the constants that satisfy the
named assumptions (`FrameConstants`, `WindowConstants`, `InputConstants` of the
controller, `EngineConstants`, `LifecycleConstants`, `CapturerConstants`,
`WorkerConstants`, `ConnectionConstants`, `SocketConstants`, and `ServerWindow`'s
`WindowConstants`), which TLC evaluates for the values of the runs. Every invariant
and every action property that a passing run checks is stated by a theorem; what is
left to TLC alone needs fairness.

`AdaptiveBufferProofs`. `SteadyAtBase` alone is not inductive: the way from
`PreHolding` back to `Normal` leaves the target as it is and relies on it having been
at the base, and every clamp relies on the order of its bounds. The inductive
invariant `Sound` is the type, the order and the steady state together. One lemma per operator
(`ConfiguredSound`, `AfterUnderrunSound`, ...) shows that it keeps `Sound`; the step
lemma is one case per action, and `ControllerTypeOK`, `ControllerOrdered` and
`ControllerSteadyAtBase` follow. The two action properties `ControllerSelfLimiting`
and `ControllerFallsOnlyToBase` use the same invariant. The operator lemmas are
stated for any sound record, and the engine's proofs cite them. With the history beside
the controller, `Experienced` says what an account of underruns and quiet time has to do
with its state: without an underrun the target is at the base, and in the two confirming
states the controller's clock has not run for longer than the link was quiet. The second is why a
window cannot be shortened on a way through a discard
(`ControllerWaitsCleanWindow`): each underrun and each transition sets that clock back.

`AudioEngineProofs`. `Typed` is inductive: the controller is `Sound`, the jitter buffer
a set of ticks within its capacity, everything else in its range. A push keeps the
capacity because it drops the earliest packet, which a non-empty set of ticks has
(`EarliestIsLeast`, by well-foundedness), and dropping it makes room for exactly one
(`PushTyped`, by the cardinality theorems). `InventoryBounded` is inductive beside
`Typed`. The fact it turns on is `CatchUpLeavesRoom`: the catch-up loop discards as
many of the oldest packets as exceed the limit, so if one is left, packets alone
covered the excess and the decoded inventory is below the limit; and that many of the
oldest being all of them (`OldestOfAll`) is why "one is left" says so. A frame is then
taken up only where there is room for it, the program counter remembers it
(`Busy`), and the append trades that for the frame. `LagNeverRatchets` goes through
the actions by what they do to the target (`TargetUnderLag`) and to buffering
(`BufferingUnderLag`). For `InTimelineOrder` the history is related to the engine by
`Onward`: the expected tick is beyond the last one given to the codec, and between a reset
and its first packet none was given. A step that takes a frame then gives a tick at or beyond
the expected one (`TakeMovesOn`), whatever the catch-up loop discarded before it.

`StreamWorkerProofs`. `CacheIsRecent`, `CacheIsCurrent` and `RetransmitsExactly` need
each other and more: the invariant `Faithful` adds that there is one first frame for
every tick sent, that each cached frame is the first one of its tick and was made by
the present encoder, and that the warm-up's frame was too. The type
is not inductive either: `Typed` adds `Counters`, how many warm-up packets, polls and
halves of a frame each state of the worker must or may have left, without which a
counter could leave its range. `SettingsOnTheirWay` is inductive over the channel followed by the
pending command (`OnTheWay`): the last command of a kind in a sequence, or the present
value if there is none, is moved by an append and by taking the first command
only (`GivesMore`, `GivesLess`), and that the two halves are one sequence is why a full channel
loses nothing.

The same module holds the refinement. Initial states map to initial states, and under the invariants
of `StreamWorkerProofs` every step maps to one of `ReplayLog`. A frame sent appends to
the log and moves `low` exactly if the deque was full (`WindowMoves`); a served entry is
the logged frame of its tick because the cache is faithful, and its tick lies in the
window because the cache is recent; a reconfiguration that empties the cache sets
`low` to the length of the log. `ReplayLog` never looks at a cache: that the deque of
pairs needs no comparison with the history is what the theorem says.

`EngineLifecycleProofs`. `EngineInv` adds to the types who is where: the holder of the
mutex is inside `start` or `stop` (`Held`); only inside `start` does a decode thread
exist without a stream (`Paired`); a thread being joined has been told to stop and
outside of both calls running means having a stream (`Stopped`); a copy of the
callback lives no longer than the service's `stop` (`Copies`), which needs that the service's
thread calls the engine from two places only (`InCall`). `EngineWhole` and
`NoCallAfterDestroy` follow.

`AudioCapturerProofs`. Type correctness is `DevicesOK`, `SoundOK` and `PacerOK`, the parts
each action can disturb, with a credit below one frame. `PacedToRealTime` is not
inductive, since a wait under way has not lost anything yet that its poll will lose.
`PacedSoFar` says it of the credited time alone: what is credited is at most the time
at the last poll, and what is lost of that is bounded by it. A poll adds a
division with remainder, the truncated rest of its reading and the lag, both together at
most `MICRO - 1 + MAX_LAG`, over a wait of at least `GATE * MICRO` (`LossBounded`); the
theorem has no bound on the run. `NeverLeftMuted` needs `FadedForReinit`: the target is
full volume, or the worker is in the fade before a `reinitialize` it has not begun.
`OldDeviceOnlyDrains` counts positions of the channel that hold another device's chunk:
an append by the open device adds none (`OwnChunkSent`), and taking the first moves
the others down by one (`ChunkTaken`).

`ConnectionProofs`. The type needs `Aimed`, that a session has a target.
`OfferedSessionPlays` needs two facts about numbers that only the model has. `Bounded`: nothing
names a listening period that has not begun. `Fresh`: once the present period is
promised to the phone, by its last OFFER, a CONFIG under way or the session itself, the
engine cools down, is empty or on this period's timeline, and unless it cools down no older
audio is under way. The OFFER that made the promise emptied the engine; `outlived` says
whether older audio was left when the cooldown ended; within the period the server adds
audio of this period only (`LateAudio`); and a new period is promised to nobody.

`Recovers` is proved by a ranking. `Stage` lists, for an untroubled phone and server, where
they can be and how many seconds they may still need (`Within`): a session that lasts
(`Lasting`: audio comes, and the next heartbeat comes before the server's timeout), one
that this, the next or the second next second completes (`SessionNow`, `SessionNext`,
`SessionLater`), the search for one (`SearchNow`, `SearchNext`, `SearchLater`), a phone that
waits for a server that went back to listening (`Waiting`, `WaitingFresh`), the same while
the last audio of the session given up is still to come, which the phone takes for news of its
server (`Echo`, `EchoFresh`), and sessions whose last heartbeat may be missing (`Flowing`, and two before it). No step within a
second leaves them for one that needs longer; one lemma per action. Every second leads to
one that needs less (`TickStage`). Three more facts hold of every state: messages are
addressed to the one address (`Addressed`), and the watchdog and the heartbeat have
their turn when they are due (`OnTime`). The hypothesis `Timers` orders the timers: the
watchdog acts before the socket's timeout, a heartbeat and two seconds fit into the server's
patience, there is a retry. The code's values and those of `ConnectionRecovers.cfg`
satisfy it; with the watchdog no earlier than the socket's timeout, or a heartbeat later, single
leaves of the proof fail, as they should.

`ReceiverSocketProofs`. `SocketInv` is the type with `Owned`: an open socket belongs to a
receiver on the way to its `finally`. A receiver's step touches its own instance only
(`OneReceiverSteps`), and `onDestroy` never opens.

`ServerWindowProofs`. Types by `ChannelOK` and `StateOK`. `TogglesCount` is inductive with
them, and a server that dies leaves it for good: a click adds one to the toggles in the channel (`ToggleSent`), reading one takes one
away (`ToggleReceived`), and every other step keeps their number (`TogglesKept`). `SwitchIsOnItsWay` is
inductive over the channel's type: a click appends the setting that is now the last
one, a command read moves every index down by one. `NoSessionNoClient` is inductive as it
stands. `ClosedWindowIsLeftAlone` needs `CloseIsNoticed`: a message is left, or the
look in hand found the window hidden, or the last store is right.

| theorem | says |
|---|---|
| `ControllerSound` | `Spec => []Sound` |
| `ControllerTypeOK`, `ControllerOrdered`, `ControllerSteadyAtBase` | the three invariants of run `Adaptive` |
| `ControllerSelfLimiting`, `ControllerFallsOnlyToBase` | two action properties of that run |
| `ControllerExperienced`, `ControllerRaisedByUnderruns`, `ControllerWaitsCleanWindow` | the same with the history: the inductive invariant, an invariant and an action property |
| `EngineTyped`, `EngineInventoryBounded` | the two invariants of run `Engine` |
| `EngineWatermarks` | the controller's `WatermarksOrdered` and `SteadyAtBase` hold inside the engine |
| `EngineLagNeverRatchets`, `EngineInTimelineOrder` | the two action properties of run `Engine` |
| `WorkerTypeOK` | type correctness for caches and channels of every size |
| `WorkerFaithful` | the inductive invariant |
| `WorkerCacheRecent`, `WorkerCacheCurrent`, `WorkerRetransmitsExactly` | the cache's three invariants of run `Worker` |
| `WorkerSettingsArrive` | the fourth invariant of run `Worker` |
| `WorkerReplaysLog` | `Spec => ReplaysLog`: `StreamWorker` implements `ReplayLog` |
| `EngineCoordinated` | the inductive invariant of the lifecycle |
| `LifecycleTyped`, `EngineStaysWhole`, `EngineSilentAfterDestroy` | types with mutual exclusion, and the two invariants of run `Lifecycle` |
| `CapturerTypeOK`, `SilencePacedToRealTime`, `SoundComesBack`, `ReplacedDeviceDrains` | types, the two invariants and the action property of run `Capturer` |
| `ConnectionTyped`, `OfferedSessionIsPlayed` | types, and the invariant of run `ConnectionPlays` |
| `ConnectionRecovers` | `Timers` implies `Spec => []Recovers` |
| `SocketsOwned`, `SocketsTyped`, `SocketsDoNotLeak` | the inductive invariant, types, and the invariant of run `Sockets` |
| `WindowTyped`, `SwitchFollowed`, `WindowForgetsClient`, `ClosedWindowStaysAlone`, `ClicksCountOnce` | types, and the four invariants of run `Window` |

Only model-checked. Everything with fairness, which is out of the prover's reach:
`Recovery`, `StopJoins`, `PlaysOut`, `EngineComesBack`, `DestroyReturns`, `FollowsDefault`,
`LeavingEnds`, `ListensAgain`, `ReceiverEnds`, `WindowFollows`. And that the runs without
`CHECK_DEADLOCK FALSE` do not deadlock, which is a statement about `ENABLED`.

## Not modelled

- Opus, sample formats and resampling: signal processing. `StreamWorker` keeps which
  encoder made a frame and that an encoding may fail, `AudioCapturer` the direction and
  the end of a fade; not its slope.
- Report counters, statistics packets, log lines: they steer nothing. Of the window's
  statistics only the client's name is kept.
- The delivery of a changed configuration over UDP; a second phone that takes part; the
  round trip between `setBufferSize`'s cooldown and the worker's warm-up. These are in
  the plan and listed as hazards, with what else no property covers.
- That datagrams which come faster than every 100 ms keep the session's branch for the
  inactivity and the window's update from being taken (`main.rs:453`): `Connection`'s clock
  counts seconds, in which a datagram refreshes the activity anyway, and the window's
  updates are an optional step of `ServerWindow`.
- The memory underneath a race: `resetLocked` resets the Opus decoder while the decode
  thread may be using it. The models show what the protocol makes of such a race
  (`ResetIsAtomic`), not what the codec does.
- Notification, wake locks, audio focus beyond its being denied, screens, presets,
  duplicate detection, mDNS, build, release and device scripts: no state of the
  program that the rest depends on.
- Times of sending in packets: the cache keeps and replays them like the payload.

## Plan

Done: `AdaptiveBuffer`, `AudioEngine` (which composes it), both with history and proofs;
`EngineLifecycle`, `AudioCapturer`, `ReceiverSocket` and `ServerWindow` with proofs;
`StreamWorker` with proofs and the refinement to `ReplayLog`; `Connection` with proofs. Left, in
this order:

1. `Settings`: a changed configuration from the intent to the encoder over a lossy,
   reordering network. Does the encoder end at the last setting once the network is calm?
2. `PreRoll`: `StreamWorker`'s warm-up with `AudioEngine`'s cooldown on one clock.
   Do the ten warm-up packets fill the jitter buffer, as `main.rs:285` says?
3. `CaptureToWire`: `AudioCapturer` with `StreamWorker`. How much of the old device is
   sent after `DeviceChanged`?
4. Several phones in `Connection`.
5. A timeline player (the codec consumes an increasing sequence of ticks, each played
   or concealed) as an abstract specification that `AudioEngineHistory` implements.
