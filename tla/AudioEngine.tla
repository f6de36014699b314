---------------------------- MODULE AudioEngine ----------------------------
(***************************************************************************)
(* The native playback engine (android/app/src/main/cpp/native-lib.cpp):   *)
(* the jitter buffer, the decoded-PCM inventory, the decode thread, the    *)
(* audio callback and the threads that push packets, reconfigure, start    *)
(* and stop.  It composes the watermark controller of AdaptiveBuffer,      *)
(* whose record it keeps in `adaptive' and steps under the same mutex.     *)
(*                                                                         *)
(* mBufferMutex: every critical section is one step, except the decode     *)
(* thread's wait, whose predicate test and falling asleep are two steps    *)
(* ("dozing": the mutex is still held).  So the mutex is free unless the   *)
(* decoder dozes, and only stop(), which does not take it, can come        *)
(* between.  mStreamMutex serialises start() and stop(); `stream' is where *)
(* its holder stands.                                                      *)
(*                                                                         *)
(* A packet is its media tick.  The PCM inventory is counted in slices,    *)
(* the part of a frame one audio callback takes.  The report counters      *)
(* (PLC, underflow, late, ...) steer nothing and are left out.             *)
(***************************************************************************)
EXTENDS AdaptiveBuffer, FiniteSets

CONSTANTS
    SLICES_PER_FRAME,   \* audio callbacks that one decoded frame feeds
    JITTER_CAP,         \* packets the jitter buffer holds (50)
    RESYNC_GAP,         \* a jump beyond this abandons the gap (100)
    MAX_REQUESTS,       \* resend requests per detected gap (8)
    MAX_TICK,           \* bound: media ticks the sender uses
    PUSH_BOUND          \* bound: expected + buffered packets at a push

ASSUME EngineConstants ==
    /\ SLICES_PER_FRAME \in Nat \ {0}
    /\ JITTER_CAP \in Nat \ {0}
    /\ RESYNC_GAP \in Nat
    /\ MAX_REQUESTS \in Nat
    /\ MAX_TICK \in Nat
    /\ PUSH_BOUND \in Nat

VARIABLES
    jitter,        \* mJitterBuffer: the ticks it holds
    pcm,           \* mPcmBuffer, in slices
    isBuffering,
    firstPacket,
    expected,      \* mExpectedSeq
    cooling,       \* less than 100 ms since mLastResetTime
    isRunning,
    stream,        \* start()/stop(): closed, opening, open, joining
    pc,            \* the decode thread
    notified,      \* a notify reached the sleeping decode thread
    work           \* the decode thread's locals for one iteration

bufferVars == <<adaptive, jitter, pcm, isBuffering, firstPacket, expected>>
vars == <<adaptive, jitter, pcm, isBuffering, firstPacket, expected, cooling,
          isRunning, stream, pc, notified, work>>

Ticks == 0..MAX_TICK

\* One iteration's locals: what goes to the decoder (the popped tick, or the
\* concealed one) and the gap the iteration found (empty: first > last).
Works == [kind: {"audio", "plc"}, tick: Nat, first: Nat, last: Int]
NoWork == [kind |-> "audio", tick |-> 0, first |-> 0, last |-> -1]

PcmFrames == pcm \div SLICES_PER_FRAME
Available == PcmFrames + Cardinality(jitter)
LowPcm_OffByOne == PcmFrames + 1 < adaptive.pcmTarget
LowPcm == PcmFrames < adaptive.pcmTarget
BufferFree == pc # "dozing"

Earliest(S) == CHOOSE t \in S : \A u \in S : t <= u
Oldest(S, n) == {t \in S : Cardinality({u \in S : u < t}) < n}

EngineInit ==
    /\ adaptive = InitialController
    /\ jitter = {} /\ pcm = 0
    /\ isBuffering = TRUE /\ firstPacket = TRUE /\ expected = 0
    /\ cooling = FALSE
    /\ isRunning = FALSE /\ stream = "closed"
    /\ pc = "stopped" /\ notified = FALSE /\ work = NoWork

\* What resetInternal and resetLocked clear.
ClearBuffers ==
    /\ jitter' = {} /\ pcm' = 0
    /\ isBuffering' = TRUE /\ firstPacket' = TRUE /\ expected' = 0

\* mDecodeCV.notify: only a thread that is asleep notices.
Notify == notified' = (notified \/ pc = "asleep")

-----------------------------------------------------------------------------
(* The audio callback. *)

onAudioReady_LatchOnLag ==
    /\ stream \in {"open", "joining"} /\ BufferFree
    /\ isBuffering => Available >= adaptive.target
    /\ LET starved == pcm = 0
           c == IF starved THEN AfterUnderrun(adaptive) ELSE adaptive
       IN  /\ isBuffering' = starved
           /\ pcm' = IF pcm = 0 THEN 0 ELSE pcm - 1
           /\ adaptive' = AfterTick(c, Available)
    /\ UNCHANGED <<jitter, firstPacket, expected, cooling, isRunning, stream,
                   pc, notified, work>>

\* While buffering below the watermark the callback returns silence and
\* changes nothing.  Otherwise it takes a slice, or counts a decode lag
\* (packets are queued), or latches buffering and reports the underrun; the
\* tick then observes the occupancy found on entry.
onAudioReady ==
    /\ stream \in {"open", "joining"} /\ BufferFree
    /\ isBuffering => Available >= adaptive.target
    /\ LET starved == pcm = 0 /\ jitter = {}
           c == IF starved THEN AfterUnderrun(adaptive) ELSE adaptive
       IN  /\ isBuffering' = starved
           /\ pcm' = IF pcm = 0 THEN 0 ELSE pcm - 1
           /\ adaptive' = AfterTick(c, Available)
    /\ UNCHANGED <<jitter, firstPacket, expected, cooling, isRunning, stream,
                   pc, notified, work>>

-----------------------------------------------------------------------------
(* The decode thread. *)

\* The catch-up loop: as many of the oldest packets as exceed the watermark
\* plus the catch-up margin, each one counted off the expected tick.
Excess_Unbounded == 0

Excess ==
    LET limit == adaptive.target + adaptive.catchUp
    IN  IF Available <= limit THEN 0
        ELSE IF Available - limit > Cardinality(jitter)
             THEN Cardinality(jitter) ELSE Available - limit

\* The body of an iteration under the mutex, once the wait is over.
Take_PlayLate(kept, n) ==
    LET cur     == Earliest(kept)
        base    == IF firstPacket THEN cur ELSE expected + n
        resync  == cur > base + RESYNC_GAP
        want    == IF resync THEN cur ELSE base
    IN  /\ firstPacket' = FALSE
        /\ pcm' = IF resync THEN 0 ELSE pcm
        /\ IF cur > want
           THEN /\ work' = [kind |-> "plc", tick |-> want,
                            first |-> want, last |-> cur - 1]
                /\ jitter' = kept /\ expected' = want + 1
                /\ pc' = "requesting"
           ELSE /\ work' = [kind |-> "audio", tick |-> cur,
                            first |-> 0, last |-> -1]
                /\ jitter' = kept \ {cur}
                /\ expected' = IF cur = want THEN want + 1 ELSE want
                /\ pc' = "decoding"

Take(kept, n) ==
    LET cur     == Earliest(kept)
        base    == IF firstPacket THEN cur ELSE expected + n
        resync  == cur > base + RESYNC_GAP
        want    == IF resync THEN cur ELSE base
    IN  /\ firstPacket' = FALSE
        /\ pcm' = IF resync THEN 0 ELSE pcm
        /\ \/ /\ cur > want              \* a gap: conceal one tick of it
              /\ work' = [kind |-> "plc", tick |-> want,
                          first |-> want, last |-> cur - 1]
              /\ jitter' = kept /\ expected' = want + 1
              /\ pc' = "requesting"
           \/ /\ cur < want              \* late: the timeline has passed it
              /\ jitter' = kept \ {cur} /\ expected' = want
              /\ pc' = "top" /\ work' = work
           \/ /\ cur = want
              /\ work' = [kind |-> "audio", tick |-> cur,
                          first |-> 0, last |-> -1]
              /\ jitter' = kept \ {cur} /\ expected' = want + 1
              /\ pc' = "decoding"

Iterate ==
    \/ /\ ~isRunning
       /\ pc' = "stopped"
       /\ UNCHANGED <<bufferVars, work>>
    \/ /\ isRunning
       /\ jitter = {} \/ (~isBuffering /\ ~LowPcm)
       /\ pc' = "top"
       /\ UNCHANGED <<bufferVars, work>>
    \/ /\ isRunning
       /\ jitter # {} /\ (isBuffering \/ LowPcm)
       /\ LET n == Excess
              kept == jitter \ Oldest(jitter, n)
          IN  /\ adaptive' = IF n > 0 THEN AfterDiscard(adaptive) ELSE adaptive
              /\ UNCHANGED isBuffering
              /\ \/ /\ kept = {}
                    /\ jitter' = {} /\ expected' = expected + n
                    /\ pc' = "top"
                    /\ UNCHANGED <<pcm, firstPacket, work>>
                 \/ kept # {} /\ Take(kept, n)

WaitPredicate == ~isRunning \/ (jitter # {} /\ (isBuffering \/ LowPcm))

decoderUnchanged == UNCHANGED <<cooling, isRunning, stream>>

\* `while (mIsRunning)', then the wait: with its predicate true at once the
\* iteration goes on, otherwise the thread is about to sleep.
DecodeTop ==
    /\ pc = "top"
    /\ \/ WaitPredicate /\ Iterate
       \/ ~WaitPredicate /\ pc' = "dozing" /\ UNCHANGED <<bufferVars, work>>
    /\ notified' = FALSE
    /\ decoderUnchanged

DecodeSleep ==
    /\ pc = "dozing"
    /\ pc' = "asleep" /\ notified' = FALSE
    /\ UNCHANGED <<bufferVars, work>> /\ decoderUnchanged

\* Woken by a notify: with the predicate false it sleeps on.
DecodeWake ==
    /\ pc = "asleep" /\ notified
    /\ \/ WaitPredicate /\ Iterate
       \/ ~WaitPredicate /\ UNCHANGED <<bufferVars, pc, work>>
    /\ notified' = FALSE
    /\ decoderUnchanged

\* The wait is bounded by 50 ms and goes on whatever the predicate says.
DecodeTimeout_WaitForever ==
    /\ pc = "asleep" /\ notified /\ Iterate
    /\ notified' = FALSE
    /\ decoderUnchanged

DecodeTimeout ==
    /\ pc = "asleep" /\ Iterate
    /\ notified' = FALSE
    /\ decoderUnchanged

\* The ticks one iteration asks the sender for, outside the mutex.
Requested == {t \in work.first..work.last : t - work.first < MAX_REQUESTS}

RequestResend ==
    /\ pc = "requesting"
    /\ pc' = "decoding"
    /\ UNCHANGED <<bufferVars, notified, work>> /\ decoderUnchanged

\* A frame is decoded outside the mutex and appended under it.  A packet the
\* codec rejects yields nothing; concealment always yields a frame.
DecodeAppend ==
    /\ pc = "decoding"
    /\ \/ pcm' = pcm + SLICES_PER_FRAME
       \/ work.kind = "audio" /\ pcm' = pcm
    /\ pc' = "top" /\ work' = NoWork
    /\ UNCHANGED <<adaptive, jitter, isBuffering, firstPacket, expected, notified>>
    /\ decoderUnchanged

-----------------------------------------------------------------------------
(* The other threads. *)

\* During the cooldown the packet is ignored.
pushPacket_NoCap(t) ==
    /\ BufferFree /\ ~cooling
    /\ expected + Cardinality(jitter) < PUSH_BOUND
    /\ jitter' = jitter \cup {t}
    /\ Notify
    /\ UNCHANGED <<adaptive, pcm, isBuffering, firstPacket, expected, cooling,
                   isRunning, stream, pc, work>>

pushPacket(t) ==
    /\ BufferFree /\ ~cooling
    /\ expected + Cardinality(jitter) < PUSH_BOUND
    /\ LET all == jitter \cup {t}
       IN  jitter' = IF Cardinality(all) > JITTER_CAP
                     THEN all \ {Earliest(all)} ELSE all
    /\ Notify
    /\ UNCHANGED <<adaptive, pcm, isBuffering, firstPacket, expected, cooling,
                   isRunning, stream, pc, work>>

\* JNI resetAudio.
resetInternal ==
    /\ BufferFree
    /\ ClearBuffers /\ Notify
    /\ UNCHANGED <<adaptive, cooling, isRunning, stream, pc, work>>

setBufferSize(size) ==
    /\ BufferFree
    /\ adaptive' = Configured(adaptive, size)
    /\ ClearBuffers /\ Notify
    /\ cooling' = TRUE
    /\ UNCHANGED <<isRunning, stream, pc, work>>

updateAdvancedSettings(pcmTarget, catchUp) ==
    /\ BufferFree
    /\ adaptive' = WithCatchUp(WithPcmTarget(adaptive, pcmTarget), catchUp)
    /\ UNCHANGED <<jitter, pcm, isBuffering, firstPacket, expected, cooling,
                   isRunning, stream, pc, notified, work>>

start ==
    /\ stream = "closed" /\ BufferFree
    /\ ClearBuffers
    /\ isRunning' = TRUE /\ pc' = "top" /\ stream' = "opening"
    /\ notified' = FALSE /\ work' = NoWork
    /\ UNCHANGED <<adaptive, cooling>>

openStream ==
    /\ stream = "opening" /\ stream' = "open"
    /\ UNCHANGED <<bufferVars, cooling, isRunning, pc, notified, work>>

\* stop() notifies without taking mBufferMutex, then joins the decode thread.
stop ==
    /\ stream = "open" /\ stream' = "joining"
    /\ isRunning' = FALSE /\ Notify
    /\ UNCHANGED <<bufferVars, cooling, pc, work>>

joined ==
    /\ stream = "joining" /\ pc = "stopped"
    /\ stream' = "closed"
    /\ UNCHANGED <<bufferVars, cooling, isRunning, pc, notified, work>>

\* Time: a controller clock unit, and the end of the 100 ms cooldown.
clockUnit ==
    /\ adaptive' = Elapsed(adaptive) /\ adaptive' # adaptive
    /\ UNCHANGED <<jitter, pcm, isBuffering, firstPacket, expected, cooling,
                   isRunning, stream, pc, notified, work>>

cooledDown ==
    /\ cooling /\ cooling' = FALSE
    /\ UNCHANGED <<bufferVars, isRunning, stream, pc, notified, work>>

-----------------------------------------------------------------------------

Decoder ==
    \/ DecodeTop
    \/ DecodeSleep
    \/ DecodeWake
    \/ DecodeTimeout
    \/ RequestResend
    \/ DecodeAppend

Callers ==
    \/ \E t \in Ticks : pushPacket(t)
    \/ resetInternal
    \/ \E n \in Sizes : setBufferSize(n)
    \/ \E m, n \in Tunings : updateAdvancedSettings(m, n)
    \/ start
    \/ openStream
    \/ stop
    \/ joined

EngineNext ==
    \/ onAudioReady
    \/ Decoder
    \/ Callers
    \/ clockUnit
    \/ cooledDown

EngineSpec == EngineInit /\ [][EngineNext]_vars

\* The scheduler runs the decode thread (whose sleep is bounded) and the audio
\* callback, and start() and stop() go on once they can.  The callback needs a
\* mutex the decode thread takes and gives back again and again: that a waiting
\* thread gets it in the end is strong fairness.
FairEngine ==
    /\ EngineSpec
    /\ WF_vars(Decoder) /\ SF_vars(onAudioReady)
    /\ WF_vars(openStream) /\ WF_vars(joined)

-----------------------------------------------------------------------------
(* Properties. *)

EngineTypeOK ==
    /\ TypeOK
    /\ jitter \subseteq Ticks /\ Cardinality(jitter) <= JITTER_CAP
    /\ pcm \in Nat /\ expected \in Nat
    /\ isBuffering \in BOOLEAN /\ firstPacket \in BOOLEAN
    /\ cooling \in BOOLEAN /\ isRunning \in BOOLEAN /\ notified \in BOOLEAN
    /\ stream \in {"closed", "opening", "open", "joining"}
    /\ pc \in {"stopped", "top", "dozing", "asleep", "requesting", "decoding"}
    /\ work \in Works

\* The decoded inventory never exceeds what the largest watermark and catch-up
\* margin allow, although the decode thread appends outside the section that
\* checked the backlog, concealment adds frames without taking packets, and
\* while buffering nothing but the catch-up loop stops it.
InventoryBounded ==
    PcmFrames + (IF pc \in {"requesting", "decoding"} THEN 1 ELSE 0)
        <= MAX_CEILING_FRAMES + MAX_TUNING_FRAMES

\* As long as packets are queued a dry inventory is the decoder's lag: it
\* neither raises the watermark nor sends the engine back to buffering
\* (native-lib.cpp:156-161).
LagNeverRatchets ==
    [][jitter # {} /\ jitter' # {}
        => /\ adaptive'.target <= adaptive.target
           /\ isBuffering' => isBuffering]_vars

\* stop() returns: the decode thread sees the cleared flag even when the notify
\* fell between its predicate test and its sleep.
StopJoins == stream = "joining" ~> stream = "closed"

\* When the network falls silent and nobody reconfigures, everything queued
\* above the watermark is decoded and played: neither the decode thread nor
\* the callback waits for a packet that is already there.
Input == \/ \E t \in Ticks : pushPacket(t)
         \/ \E n \in Sizes : setBufferSize(n)
         \/ \E m, n \in Tunings : updateAdvancedSettings(m, n)
         \/ resetInternal \/ stop

PlaysOut ==
    <>[][~Input]_vars /\ <>[](stream = "open")
        => <>[](isBuffering /\ Available < adaptive.target)
=============================================================================
