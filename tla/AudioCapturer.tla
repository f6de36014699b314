--------------------------- MODULE AudioCapturer ---------------------------
(***************************************************************************)
(* The Windows capture side (server/src/audio.rs): the loopback stream on  *)
(* the default output device, the error callback and the device-monitor    *)
(* thread that ask for a reinitialisation, and next_event, which the audio *)
(* worker polls and which paces silence while no callback arrives.  The    *)
(* worker also reinitialises it in the middle of a reconfiguration         *)
(* (server/src/main.rs:340-347), between a fade-out and a fade-in.         *)
(*                                                                         *)
(* A captured chunk is the device it was captured from.  The fader's       *)
(* volume counts from 0 to FADE, full.  The clock is finer than the        *)
(* microseconds the pacer counts in, and it runs on between the two reads  *)
(* of one poll; `since' and `paced' are the auxiliary account of a silent  *)
(* run: the time since it began and the silent frames emitted in it.       *)
(***************************************************************************)
EXTENDS Integers, Sequences, FiniteSets

CONSTANTS
    Devices, NoDevice,
    MICRO,        \* a microsecond, in clock units
    FRAME,        \* 20 ms, in microseconds
    GATE,         \* 40 ms: no silence before
    STALL,        \* 250 ms: give up the backlog after
    FADE,         \* the 480 samples of a fade, in steps of the volume
    MAX_POLL,     \* bound: clock units between two polls
    MAX_LAG,      \* bound: clock units between the two clock reads of a poll
    HORIZON,      \* bound: length of a silent run
    MAX_QUEUE     \* bound: chunks waiting in the channel

ASSUME CapturerConstants ==
    /\ NoDevice \notin Devices
    /\ MICRO \in Nat \ {0} /\ MAX_LAG \in Nat
    /\ FRAME \in Nat \ {0} /\ GATE \in Nat /\ STALL \in Nat
    /\ FRAME <= GATE /\ GATE <= STALL /\ FADE \in Nat \ {0}
    /\ MAX_POLL \in Nat \ {0} /\ HORIZON \in Nat /\ MAX_QUEUE \in Nat

VARIABLES
    default,       \* the default output device of the PC
    device,        \* current_device_name, the device of the open stream
    stream,        \* "live" or "broken"
    fresh,         \* the stream being opened: "none", "live" or "broken"
    lastName,      \* the monitor thread's last_name
    needsRestart, streamFailed,
    opening,       \* reinitialize has cleared the flags
    picked,        \* the device it is opening; NoDevice: not read yet
    worker,        \* "polls" next_event, or is "fading" in a reconfiguration
    volume,        \* fader.current_volume
    target,        \* fader.target_volume
    queue,         \* the chunks in the mpsc channel
    elapsed,       \* since last_callback_time
    credit,        \* silence_credit_us
    since, paced,  \* auxiliary: the silent run
    upsets         \* auxiliary: what the PC did so far that is hard to follow

vars == <<default, device, stream, fresh, lastName, needsRestart, streamFailed,
          opening, picked, worker, volume, target, queue, elapsed, credit, since,
          paced, upsets>>
opener == <<opening, picked, fresh>>
fader == <<volume, target>>
pacer == <<elapsed, credit, since, paced>>
devices == <<default, device, stream, lastName, needsRestart, streamFailed,
             upsets>>

\* AudioCapturer::new: a capturer exists only once a first open succeeded.
Init ==
    /\ default \in Devices /\ device = default /\ lastName = default
    /\ stream = "live"
    /\ needsRestart = FALSE /\ streamFailed = FALSE
    /\ opening = FALSE /\ picked = NoDevice /\ fresh = "none"
    /\ worker = "polls" /\ volume = 0 /\ target = FADE
    /\ queue = << >> /\ elapsed = 0 /\ credit = 0 /\ since = 0 /\ paced = 0
    /\ upsets = {}

Least(a, b) == IF a < b THEN a ELSE b
Most(a, b) == IF a > b THEN a ELSE b

RunRestarts == elapsed' = 0 /\ credit' = 0 /\ since' = 0 /\ paced' = 0

-----------------------------------------------------------------------------
(* The PC. *)

DefaultChanges ==
    /\ default' \in (Devices \cup {NoDevice}) \ {default}
    /\ upsets' = upsets \cup
           IF default \in {NoDevice, lastName} THEN {} ELSE {"changeMissed"}
    /\ UNCHANGED <<device, stream, lastName, needsRestart, streamFailed,
                   opener, worker, fader, queue, pacer>>

\* The streams whose callbacks may run: the one that is open and, until it
\* takes its place, the one that has just been played.
Sources ==
    {d \in Devices : \/ stream = "live" /\ d = device
                     \/ fresh = "live" /\ d = picked}

DataCallback(d) ==
    /\ d \in Sources /\ Len(queue) < MAX_QUEUE
    /\ queue' = Append(queue, d)
    /\ UNCHANGED <<devices, opener, worker, fader, pacer>>

\* The error callbacks of both streams set the same flag.
ErrorCallback ==
    /\ \/ stream = "live" /\ stream' = "broken" /\ UNCHANGED fresh
       \/ fresh = "live" /\ fresh' = "broken" /\ UNCHANGED stream
    /\ streamFailed' = TRUE
    /\ UNCHANGED <<default, device, lastName, needsRestart, opening, picked, worker,
                   fader, queue, pacer, upsets>>

Pass(d) ==
    /\ since + d <= HORIZON
    /\ elapsed' = elapsed + d /\ since' = since + d
    /\ UNCHANGED <<devices, opener, worker, fader, queue, credit, paced>>

\* The monitor thread compares names once a second.
Monitor ==
    /\ default \in Devices /\ default # lastName
    /\ lastName' = default /\ needsRestart' = TRUE
    /\ UNCHANGED <<default, device, stream, streamFailed, opener, worker, fader,
                   queue, pacer, upsets>>

-----------------------------------------------------------------------------
(* reinitialize: the flags, the pacer and the fader first, then everything  *)
(* that fails.                                                              *)

Polling == worker = "polls" /\ ~opening
WantsRestart == needsRestart \/ streamFailed

\* Reconfigure's start_fade_out, and 20 ms in which nothing is captured.
StartFadeOut ==
    /\ Polling
    /\ worker' = "fading" /\ target' = 0
    /\ UNCHANGED <<devices, opener, volume, queue, pacer>>

\* A reinitialisation that leaves the fader where the fade-out left it.
BeginReinit_KeepFade ==
    /\ ~opening /\ (worker = "fading" \/ WantsRestart)
    /\ opening' = TRUE
    /\ needsRestart' = FALSE /\ streamFailed' = FALSE
    /\ RunRestarts
    /\ UNCHANGED <<default, device, stream, fresh, lastName, picked, worker, fader,
                   queue, upsets>>

\* Called by next_event when a flag is set, and by Reconfigure in any case.
BeginReinit ==
    /\ ~opening /\ (worker = "fading" \/ WantsRestart)
    /\ opening' = TRUE
    /\ needsRestart' = FALSE /\ streamFailed' = FALSE
    /\ RunRestarts
    /\ volume' = 0 /\ target' = FADE
    /\ UNCHANGED <<default, device, stream, fresh, lastName, picked, worker, queue,
                   upsets>>

PickDevice ==
    /\ opening /\ picked = NoDevice /\ default \in Devices
    /\ picked' = default
    /\ UNCHANGED <<devices, opening, fresh, worker, fader, queue, pacer>>

\* The new stream plays while the old one is still there.
PlayStream ==
    /\ picked \in Devices /\ fresh = "none"
    /\ fresh' = "live"
    /\ UNCHANGED <<devices, opening, picked, worker, fader, queue, pacer>>

EndReinit == opening' = FALSE /\ picked' = NoDevice /\ fresh' = "none" /\ worker' = "polls"

\* A reinitialisation that clears the flags once it is done.
OpenSucceeds_ClearLast ==
    /\ fresh # "none"
    /\ device' = picked /\ stream' = fresh
    /\ EndReinit
    /\ needsRestart' = FALSE /\ streamFailed' = FALSE
    /\ UNCHANGED <<default, lastName, fader, queue, pacer, upsets>>

\* A reinitialisation that records the new device and leaks the old stream in
\* place of the new one.
OpenSucceeds_KeepOldStream ==
    /\ fresh # "none"
    /\ device' = picked /\ stream' = fresh
    /\ opening' = FALSE /\ worker' = "polls" /\ picked' = device /\ fresh' = stream
    /\ UNCHANGED <<default, lastName, needsRestart, streamFailed, fader, queue,
                   pacer, upsets>>

\* Storing the new stream drops the old one.
OpenSucceeds ==
    /\ fresh # "none"
    /\ device' = picked /\ stream' = fresh
    /\ EndReinit
    /\ UNCHANGED <<default, lastName, needsRestart, streamFailed, fader, queue,
                   pacer, upsets>>

\* No default device, or any other error: the old stream, if any, stays.
OpenFails ==
    /\ opening /\ fresh = "none"
    /\ EndReinit
    /\ upsets' = upsets \cup {"openFailed"}
    /\ UNCHANGED <<default, device, stream, lastName, needsRestart, streamFailed,
                   fader, queue, pacer>>

-----------------------------------------------------------------------------
(* next_event without a pending restart. *)

NextEvent == Polling /\ ~WantsRestart

\* Fader::process moves the volume by one step per sample, up to the target.
Process(samples) ==
    /\ volume' = IF volume < target
                 THEN Least(volume + samples, target) ELSE Most(volume - samples, target)
    /\ UNCHANGED target

TakeData(samples) ==
    /\ NextEvent /\ queue # << >>
    /\ queue' = Tail(queue)
    /\ Process(samples)
    /\ RunRestarts
    /\ UNCHANGED <<devices, opener, worker>>

\* A stall longer than the window is given up for a single frame.
GiveUpStall ==
    /\ NextEvent /\ queue = << >> /\ elapsed > STALL * MICRO
    /\ Process(FADE)
    /\ RunRestarts
    /\ UNCHANGED <<devices, opener, worker, queue>>

Silent == NextEvent /\ queue = << >> /\ elapsed >= GATE * MICRO /\ elapsed <= STALL * MICRO

\* The clock is read a second time, a little later, to start the next wait.
ReadClockAgain ==
    \E lag \in 0..MAX_LAG :
        since + lag <= HORIZON /\ since' = since + lag /\ elapsed' = 0

\* The gate that emitted one frame per poll, whatever the time it stood for.
PaceSilence_Flat ==
    /\ Silent
    /\ paced' = paced + 1 /\ credit' = 0
    /\ ReadClockAgain
    /\ Process(FADE)
    /\ UNCHANGED <<devices, opener, worker, queue>>

\* Whole microseconds of the wait are credited, the rest of it and the lag of
\* the second read are gone.  A silent frame is longer than a fade.
PaceSilence ==
    /\ Silent
    /\ paced' = paced + (credit + elapsed \div MICRO) \div FRAME
    /\ credit' = (credit + elapsed \div MICRO) % FRAME
    /\ ReadClockAgain
    /\ Process(FADE)
    /\ UNCHANGED <<devices, opener, worker, queue>>

Next ==
    \/ DefaultChanges
    \/ \E d \in Devices : DataCallback(d)
    \/ ErrorCallback
    \/ \E d \in 1..MAX_POLL : Pass(d)
    \/ Monitor
    \/ StartFadeOut
    \/ BeginReinit
    \/ PickDevice
    \/ PlayStream
    \/ OpenSucceeds
    \/ OpenFails
    \/ \E samples \in 1..FADE : TakeData(samples)
    \/ GiveUpStall
    \/ PaceSilence

Spec == Init /\ [][Next]_vars

\* The monitor thread and the polling worker keep running; which way an open
\* goes is up to the PC.
FairSpec ==
    /\ Spec
    /\ WF_vars(Monitor) /\ WF_vars(BeginReinit)
    /\ WF_vars(PickDevice \/ PlayStream \/ OpenSucceeds \/ OpenFails)

-----------------------------------------------------------------------------
(* Properties. *)

TypeOK ==
    /\ default \in Devices \cup {NoDevice}
    /\ device \in Devices /\ lastName \in Devices
    /\ stream \in {"live", "broken"}
    /\ needsRestart \in BOOLEAN /\ streamFailed \in BOOLEAN /\ opening \in BOOLEAN
    /\ picked \in IF opening THEN Devices \cup {NoDevice} ELSE {NoDevice}
    /\ fresh \in IF picked = NoDevice THEN {"none"} ELSE {"none", "live", "broken"}
    /\ worker \in {"polls", "fading"} /\ volume \in 0..FADE /\ target \in {0, FADE}
    /\ upsets \subseteq {"openFailed", "changeMissed"}
    /\ queue \in Seq(Devices) /\ elapsed \in Nat /\ credit \in 0..FRAME - 1
    /\ since \in Nat /\ paced \in Nat

\* What a silent run has emitted, its credit and the wait not yet looked at.
Accounted == (paced * FRAME + credit) * MICRO + elapsed
Lost == since - Accounted

\* Silence is paced at real time however the polls fall: no frame is early, and
\* what a silent run loses by truncation and between two clock reads is less
\* than a microsecond and one lag for each gate's length of it: never a
\* frame's remainder, never more for more frequent polls (audio.rs:320-326,
\* 341-348).
PacedToRealTime ==
    Lost >= 0 /\ Lost * GATE * MICRO <= since * (MICRO - 1 + MAX_LAG)

\* However a reconfiguration's reinitialize ends, and its result is ignored,
\* the fade-out that preceded it is over when audio is polled again: a failed
\* open costs the new device, never the sound (main.rs:342-346, audio.rs:220).
NeverLeftMuted == Polling => target = FADE

Foreign(q, d) == {i \in DOMAIN q : q[i] # d}
Stale(q, d) == Cardinality(Foreign(q, d))

\* Once a change of device is done, what is still to come from the old device
\* was captured before: it only drains (audio.rs:296-298, main.rs:326-329).
OldDeviceOnlyDrains ==
    [][~opening /\ ~opening'
       => Stale(queue', device) <= Stale(queue, device)]_vars

Disturbance == DefaultChanges \/ ErrorCallback \/ OpenFails

OnDefault == stream = "live" /\ device = default

\* The PC settles: at some device, with nothing failing any more.
Settles == <>[][~Disturbance]_vars /\ <>[](default \in Devices)

\* A PC that settles is captured at its default device, provided no open ever
\* failed and the monitor looked at every default device: no stream error and
\* no change that falls between the clearing of the flags and the open is lost.
FollowsDefault == Settles /\ [](upsets = {}) => <>[]OnDefault

-----------------------------------------------------------------------------
(* What the documentation says and the code does not do (README.md, section *)
(* Divergences, names the step that breaks each). *)

\* README.md:206: "the server captures the default output device".  A failed
\* open is in the past when the PC settles, and so it should not matter.
ReopensAfterFailure == Settles /\ [](upsets \subseteq {"openFailed"}) => <>[]OnDefault

\* The same promise when a change came and went between two looks of the
\* monitor thread.
FollowsQuickChanges == Settles /\ [](upsets \subseteq {"changeMissed"}) => <>[]OnDefault

\* README.md:86: a "10 ms linear fade-out/fade-in on start, stop, and device
\* changes": the audio that a reinitialisation interrupts has been faded out.
FadesOut == [][opening' /\ ~opening => volume = 0]_vars

\* main.rs:326-329 clears the audio of the old device; what it did not take
\* out of the channel yet is still sent as the new device's.
OnlyPresentDevice ==
    [][queue' # queue /\ Len(queue') < Len(queue) => queue[1] = device]_vars
=============================================================================
