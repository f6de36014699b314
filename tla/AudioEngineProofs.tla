-------------------------- MODULE AudioEngineProofs --------------------------
(***************************************************************************)
(* The playback engine for every queue capacity, frame size, resync        *)
(* distance, request cap and watermark: it keeps its types, the jitter     *)
(* buffer its capacity, the controller's promises and the bound of the     *)
(* decoded inventory; and a decoder that lags costs no latency.            *)
(*                                                                         *)
(* The bound follows from one fact about the decode thread: when it takes  *)
(* or conceals a tick, a packet is left after the catch-up loop, so the    *)
(* inventory is below the watermark plus the catch-up margin, and it stays *)
(* there until the frame is appended, because nothing else adds to it.     *)
(*                                                                         *)
(* What goes to the codec goes in the order of the timeline (the property  *)
(* of AudioEngineHistory) because the expected tick is always beyond the   *)
(* last one given to it, and starts over only together with firstPacket.   *)
(***************************************************************************)
EXTENDS AudioEngineHistory, AdaptiveBufferProofs, FiniteSetTheorems,
        WellFoundedInduction

-----------------------------------------------------------------------------
(* Arithmetic and finite sets of ticks. *)

\* Slices to frames: monotone, and one frame's slices are one frame.
LEMMA DivFacts ==
    ASSUME NEW a \in Nat, NEW s \in Nat \ {0}
    PROVE  /\ a \div s \in Nat
           /\ (a + s) \div s = a \div s + 1
           /\ 0 \div s = 0
           /\ \A b \in Nat : b <= a => b \div s <= a \div s
OBVIOUS

\* A set of ticks is finite, and so are its subsets.
LEMMA TicksFinite ==
    ASSUME NEW S \in SUBSET Ticks
    PROVE  /\ IsFiniteSet(S) /\ Cardinality(S) \in Nat
           /\ \A T \in SUBSET S : /\ IsFiniteSet(T) /\ Cardinality(T) \in Nat
                                  /\ Cardinality(T) <= Cardinality(S)
<1>1. MAX_TICK \in Nat
  BY EngineConstants
<1>2. IsFiniteSet(Ticks)
  BY <1>1, FS_Interval DEF Ticks
<1>3. IsFiniteSet(S)
  BY <1>2, FS_Subset
<1>4. ASSUME NEW T \in SUBSET S
      PROVE  /\ IsFiniteSet(T) /\ Cardinality(T) \in Nat
             /\ Cardinality(T) <= Cardinality(S)
  BY <1>3, FS_Subset, FS_CardinalityType
<1> QED
  BY <1>3, <1>4, FS_CardinalityType

\* begin() of a map that is not empty.
LEMMA EarliestIsLeast ==
    ASSUME NEW S \in SUBSET Ticks, S # {}
    PROVE  Earliest(S) \in S /\ \A u \in S : Earliest(S) <= u
<1> DEFINE R == {p \in Nat \X Nat : p[1] < p[2]}
<1>1. S \subseteq Nat
  BY EngineConstants DEF Ticks
<1>2. IsWellFoundedOn(R, Nat)
  BY NatLessThanWellFounded DEF OpToRel
<1> HIDE DEF R
<1>3. PICK t \in S : \A u \in S : ~ (<<u, t>> \in R)
  BY <1>1, <1>2, WFMin
<1>4. ASSUME NEW u \in S PROVE t <= u
  <2> DEFINE pair == <<u, t>>
  <2>1. pair \in Nat \X Nat /\ pair[1] = u /\ pair[2] = t
    BY <1>1
  <2>2. pair \notin R
    BY <1>3
  <2>3. ~ (pair[1] < pair[2])
    <3> HIDE DEF pair
    <3> QED
      BY <2>1, <2>2 DEF R
  <2> QED
    BY <1>1, <2>1, <2>3
<1> QED
  BY <1>4 DEF Earliest

\* As many of the oldest as there are is all of them.
LEMMA OldestOfAll ==
    ASSUME NEW S \in SUBSET Ticks
    PROVE  Oldest(S, Cardinality(S)) = S
<1>1. ASSUME NEW t \in S
      PROVE  Cardinality({u \in S : u < t}) < Cardinality(S)
  <2> DEFINE B == {u \in S : u < t}
  <2>1. B \in SUBSET S /\ B # S
    BY EngineConstants DEF Ticks
  <2>2. IsFiniteSet(S) /\ Cardinality(S) \in Nat /\ Cardinality(B) \in Nat
    BY <2>1, TicksFinite
  <2>3. Cardinality(B) <= Cardinality(S) /\ Cardinality(S) # Cardinality(B)
    BY <2>1, <2>2, FS_Subset
  <2> QED
    BY <2>2, <2>3
<1> QED
  BY <1>1 DEF Oldest

-----------------------------------------------------------------------------
(* The types. *)

DecodeStates == {"stopped", "top", "dozing", "asleep", "requesting", "decoding"}

BuffersTyped ==
    /\ adaptive \in Sound
    /\ jitter \in SUBSET Ticks /\ Cardinality(jitter) <= JITTER_CAP
    /\ pcm \in Nat /\ expected \in Nat
    /\ isBuffering \in BOOLEAN /\ firstPacket \in BOOLEAN

DecoderTyped == pc \in DecodeStates /\ work \in Works

ControlTyped ==
    /\ cooling \in BOOLEAN /\ isRunning \in BOOLEAN /\ notified \in BOOLEAN
    /\ stream \in {"closed", "opening", "open", "joining"}

Typed == BuffersTyped /\ DecoderTyped /\ ControlTyped

\* What the code computes from typed buffers is a number of frames.
LEMMA Counts ==
    ASSUME BuffersTyped
    PROVE  /\ IsFiniteSet(jitter) /\ Cardinality(jitter) \in Nat
           /\ PcmFrames \in Nat /\ Available \in Nat /\ Excess \in Nat
           /\ adaptive.target \in Nat /\ adaptive.catchUp \in Nat
<1>1. IsFiniteSet(jitter) /\ Cardinality(jitter) \in Nat
  BY TicksFinite DEF BuffersTyped
<1>2. PcmFrames \in Nat
  BY DivFacts, EngineConstants DEF PcmFrames, BuffersTyped
<1>3. adaptive.target \in Nat /\ adaptive.catchUp \in Nat
  BY FrameConstants DEF BuffersTyped, Sound, Controllers
<1>4. Available \in Nat
  BY <1>1, <1>2 DEF Available
<1>5. Excess \in Nat
  BY <1>1, <1>3, <1>4 DEF Excess
<1> QED
  BY <1>1, <1>2, <1>3, <1>4, <1>5

\* A set of packets left over is a buffer, and its first tick a tick.
LEMMA KeptTyped ==
    ASSUME BuffersTyped, NEW kept \in SUBSET jitter
    PROVE  /\ kept \in SUBSET Ticks /\ Cardinality(kept) <= JITTER_CAP
           /\ kept # {} => Earliest(kept) \in kept /\ Earliest(kept) \in Nat
<1>1. kept \in SUBSET Ticks
  BY DEF BuffersTyped
<1>2. /\ Cardinality(kept) \in Nat /\ Cardinality(jitter) \in Nat
      /\ Cardinality(kept) <= Cardinality(jitter)
  BY TicksFinite DEF BuffersTyped
<1>3. Cardinality(kept) <= JITTER_CAP
  BY <1>2, EngineConstants DEF BuffersTyped
<1>4. ASSUME kept # {} PROVE Earliest(kept) \in kept /\ Earliest(kept) \in Nat
  <2>1. Earliest(kept) \in kept
    BY <1>1, <1>4, EarliestIsLeast
  <2>2. Ticks \subseteq Nat
    BY EngineConstants DEF Ticks
  <2> QED
    BY <1>1, <2>1, <2>2
<1> QED
  BY <1>1, <1>3, <1>4

\* While a packet is left after the catch-up loop, the inventory is below the
\* watermark plus the margin.
LEMMA CatchUpLeavesRoom ==
    ASSUME BuffersTyped, jitter \ Oldest(jitter, Excess) # {}
    PROVE  PcmFrames < adaptive.target + adaptive.catchUp
<1> DEFINE limit == adaptive.target + adaptive.catchUp
           c == Cardinality(jitter)
<1>1. c \in Nat /\ PcmFrames \in Nat /\ limit \in Nat /\ Available = PcmFrames + c
  BY Counts DEF Available
<1>2. jitter # {}
  OBVIOUS
<1>3. c # 0
  BY <1>2, Counts, FS_EmptySet
<1>4. Oldest(jitter, c) = jitter
  BY OldestOfAll DEF BuffersTyped
<1>5. Excess # c
  BY <1>4
<1>6. Excess = IF Available <= limit THEN 0
               ELSE IF Available - limit > c THEN c ELSE Available - limit
  BY DEF Excess
<1> HIDE DEF limit, c
<1>7. PcmFrames < limit
  BY <1>1, <1>3, <1>5, <1>6
<1> QED
  BY <1>7 DEF limit

\* The body of an iteration.
LEMMA TakeTyped ==
    ASSUME BuffersTyped, DecoderTyped, NEW n \in Nat,
           NEW kept \in SUBSET jitter, kept # {}, Take(kept, n)
    PROVE  /\ jitter' \in SUBSET Ticks /\ Cardinality(jitter') <= JITTER_CAP
           /\ pcm' \in Nat /\ expected' \in Nat /\ firstPacket' \in BOOLEAN
           /\ pc' \in DecodeStates /\ work' \in Works
<1> DEFINE cur    == Earliest(kept)
           base   == IF firstPacket THEN cur ELSE expected + n
           resync == cur > base + RESYNC_GAP
           want   == IF resync THEN cur ELSE base
<1>1. cur \in kept /\ cur \in Nat /\ kept \ {cur} \in SUBSET jitter
  BY KeptTyped
<1>2. want \in Nat
  BY <1>1 DEF BuffersTyped
<1>3. /\ jitter' = kept \/ jitter' = kept \ {cur}
      /\ pcm' = 0 \/ pcm' = pcm
      /\ expected' = want \/ expected' = want + 1
      /\ firstPacket' = FALSE
      /\ \/ /\ pc' = "requesting"
            /\ work' = [kind |-> "plc", tick |-> want, first |-> want, last |-> cur - 1]
         \/ pc' = "top" /\ work' = work
         \/ /\ pc' = "decoding"
            /\ work' = [kind |-> "audio", tick |-> cur, first |-> 0, last |-> -1]
  BY DEF Take
<1> HIDE DEF cur, base, resync, want
<1>4. jitter' \in SUBSET Ticks /\ Cardinality(jitter') <= JITTER_CAP
  BY <1>1, <1>3, KeptTyped
<1>5. pcm' \in Nat /\ expected' \in Nat
  BY <1>2, <1>3 DEF BuffersTyped
<1>6. pc' \in DecodeStates
  BY <1>3 DEF DecodeStates
<1>7. work' \in Works
  BY <1>1, <1>2, <1>3 DEF Works, DecoderTyped
<1> QED
  BY <1>3, <1>4, <1>5, <1>6, <1>7

LEMMA IterateTyped ==
    ASSUME BuffersTyped, DecoderTyped, Iterate
    PROVE  BuffersTyped' /\ DecoderTyped'
<1>1. CASE UNCHANGED <<bufferVars, work>> /\ pc' \in {"stopped", "top"}
  BY <1>1 DEF bufferVars, BuffersTyped, DecoderTyped, DecodeStates
<1>2. CASE /\ jitter # {}
           /\ LET n == Excess
                  kept == jitter \ Oldest(jitter, n)
              IN  /\ adaptive' = IF n > 0 THEN AfterDiscard(adaptive) ELSE adaptive
                  /\ UNCHANGED isBuffering
                  /\ \/ /\ kept = {}
                        /\ jitter' = {} /\ expected' = expected + n
                        /\ pc' = "top"
                        /\ UNCHANGED <<pcm, firstPacket, work>>
                     \/ kept # {} /\ Take(kept, n)
  <2> DEFINE n == Excess
             kept == jitter \ Oldest(jitter, n)
  <2>1. n \in Nat /\ kept \in SUBSET jitter
    BY Counts
  <2>2. adaptive' \in Sound
    BY <1>2, AfterDiscardSound DEF BuffersTyped
  <2>3. isBuffering' \in BOOLEAN
    BY <1>2 DEF BuffersTyped
  <2>4. CASE kept = {}
    <3>1. /\ jitter' = {} /\ expected' = expected + n /\ pc' = "top"
          /\ pcm' = pcm /\ firstPacket' = firstPacket /\ work' = work
      BY <1>2, <2>4 DEF Take
    <3>2. {} \in SUBSET Ticks /\ Cardinality({}) <= JITTER_CAP
      BY FS_EmptySet, EngineConstants
    <3> QED
      BY <2>1, <2>2, <2>3, <3>1, <3>2 DEF BuffersTyped, DecoderTyped, DecodeStates
  <2>5. CASE kept # {}
    <3>1. Take(kept, n)
      BY <1>2, <2>5
    <3> HIDE DEF n, kept
    <3> QED
      BY <2>1, <2>2, <2>3, <2>5, <3>1, TakeTyped DEF BuffersTyped, DecoderTyped
  <2> QED
    BY <2>4, <2>5
<1> QED
  BY <1>1, <1>2 DEF Iterate

\* A push keeps the capacity: it drops the earliest packet when it must.
LEMMA PushTyped ==
    ASSUME BuffersTyped, NEW t \in Ticks, pushPacket(t)
    PROVE  jitter' \in SUBSET Ticks /\ Cardinality(jitter') <= JITTER_CAP
<1> DEFINE all == jitter \cup {t}
<1>1. all \in SUBSET Ticks /\ all # {}
  BY DEF BuffersTyped
<1>2. /\ IsFiniteSet(jitter) /\ Cardinality(jitter) \in Nat
      /\ IsFiniteSet(all) /\ Cardinality(all) \in Nat
  BY <1>1, TicksFinite DEF BuffersTyped
<1>3. Cardinality(all) <= Cardinality(jitter) + 1
  BY <1>2, FS_AddElement
<1>4. Earliest(all) \in all
  BY <1>1, EarliestIsLeast
<1>5. jitter' = IF Cardinality(all) > JITTER_CAP THEN all \ {Earliest(all)} ELSE all
  BY DEF pushPacket
<1>6. Cardinality(jitter) <= JITTER_CAP /\ JITTER_CAP \in Nat
  BY EngineConstants DEF BuffersTyped
<1> HIDE DEF all
<1>7. CASE Cardinality(all) > JITTER_CAP
  <2>1. Cardinality(all \ {Earliest(all)}) = Cardinality(all) - 1
    BY <1>2, <1>4, FS_RemoveElement
  <2> QED
    BY <1>1, <1>2, <1>3, <1>5, <1>6, <1>7, <2>1
<1>8. CASE ~ (Cardinality(all) > JITTER_CAP)
  BY <1>1, <1>2, <1>5, <1>6, <1>8
<1> QED
  BY <1>7, <1>8

\* The reset of a buffer types it.
LEMMA ClearTyped ==
    ASSUME ClearBuffers, adaptive' \in Sound
    PROVE  BuffersTyped'
<1>1. {} \in SUBSET Ticks /\ Cardinality({}) <= JITTER_CAP
  BY FS_EmptySet, EngineConstants
<1> QED
  BY <1>1 DEF ClearBuffers, BuffersTyped

\* An audio callback.
LEMMA CallbackTyped ==
    ASSUME BuffersTyped, onAudioReady
    PROVE  BuffersTyped'
<1> DEFINE starved == pcm = 0 /\ jitter = {}
           c == IF starved THEN AfterUnderrun(adaptive) ELSE adaptive
<1>1. c \in Sound
  BY AfterUnderrunSound DEF BuffersTyped
<1>2. /\ adaptive' = AfterTick(c, Available)
      /\ isBuffering' = starved
      /\ pcm' = IF pcm = 0 THEN 0 ELSE pcm - 1
      /\ jitter' = jitter /\ firstPacket' = firstPacket /\ expected' = expected
  BY DEF onAudioReady
<1>3. starved \in BOOLEAN
  OBVIOUS
<1> HIDE DEF starved, c
<1>4. TrackCeiling(c, Available) \in Sound
  BY <1>1, Counts, TrackCeilingSound
<1>5. adaptive' \in Sound
  BY <1>2, <1>4, Counts, SettleSound DEF AfterTick
<1>6. isBuffering' \in BOOLEAN
  BY <1>2, <1>3
<1>7. pcm' \in Nat
  BY <1>2 DEF BuffersTyped
<1> QED
  BY <1>2, <1>5, <1>6, <1>7 DEF BuffersTyped

-----------------------------------------------------------------------------
(* The types are inductive: one step per action. *)

LEMMA TypeInit == EngineInit => Typed
<1> SUFFICES ASSUME EngineInit PROVE Typed
  OBVIOUS
<1>1. {} \in SUBSET Ticks /\ Cardinality({}) <= JITTER_CAP
  BY FS_EmptySet, EngineConstants
<1>2. BuffersTyped
  BY <1>1, InitialSound DEF EngineInit, BuffersTyped
<1>3. DecoderTyped
  BY DEF EngineInit, DecoderTyped, DecodeStates, NoWork, Works
<1>4. ControlTyped
  BY DEF EngineInit, ControlTyped
<1> QED
  BY <1>2, <1>3, <1>4 DEF Typed

LEMMA DecoderStep ==
    ASSUME Typed, Decoder
    PROVE  Typed'
<1>0. BuffersTyped /\ DecoderTyped /\ ControlTyped
  BY DEF Typed
<1>1. cooling' = cooling /\ isRunning' = isRunning /\ stream' = stream
  BY DEF Decoder, DecodeTop, DecodeSleep, DecodeWake, DecodeTimeout,
         RequestResend, DecodeAppend, decoderUnchanged
<1>2. notified' = FALSE \/ notified' = notified
  BY DEF Decoder, DecodeTop, DecodeSleep, DecodeWake, DecodeTimeout,
         RequestResend, DecodeAppend
<1>3. ControlTyped'
  <2>1. CASE notified' = FALSE
    BY <1>0, <1>1, <2>1 DEF ControlTyped
  <2>2. CASE notified' = notified
    BY <1>0, <1>1, <2>2 DEF ControlTyped
  <2> QED
    BY <1>2, <2>1, <2>2
<1>4. \/ Iterate
      \/ UNCHANGED <<bufferVars, work>> /\ pc' \in {"dozing", "asleep", "decoding", pc}
      \/ DecodeAppend
  BY DEF Decoder, DecodeTop, DecodeSleep, DecodeWake, DecodeTimeout, RequestResend
<1>5. CASE Iterate
  BY <1>0, <1>3, <1>5, IterateTyped DEF Typed
<1>6. CASE UNCHANGED <<bufferVars, work>> /\ pc' \in {"dozing", "asleep", "decoding", pc}
  <2>1. BuffersTyped'
    BY <1>0, <1>6 DEF bufferVars, BuffersTyped
  <2>2. DecoderTyped'
    BY <1>0, <1>6 DEF DecoderTyped, DecodeStates
  <2> QED
    BY <1>3, <2>1, <2>2 DEF Typed
<1>7. CASE DecodeAppend
  <2>1. pcm' \in Nat
    BY <1>0, <1>7, EngineConstants DEF DecodeAppend, BuffersTyped
  <2>2. BuffersTyped'
    BY <1>0, <1>7, <2>1 DEF DecodeAppend, BuffersTyped
  <2>3. DecoderTyped'
    BY <1>7 DEF DecodeAppend, DecoderTyped, DecodeStates, NoWork, Works
  <2> QED
    BY <1>3, <2>2, <2>3 DEF Typed
<1> QED
  BY <1>4, <1>5, <1>6, <1>7

LEMMA CallerStep ==
    ASSUME Typed, Callers
    PROVE  Typed'
<1>0. BuffersTyped /\ DecoderTyped /\ ControlTyped
  BY DEF Typed
<1>n. ASSUME Notify PROVE notified' \in BOOLEAN
  BY <1>n DEF Notify
<1>1. ASSUME NEW t \in Ticks, pushPacket(t) PROVE Typed'
  <2>1. jitter' \in SUBSET Ticks /\ Cardinality(jitter') <= JITTER_CAP
    BY <1>0, <1>1, PushTyped
  <2>2. BuffersTyped' /\ DecoderTyped'
    BY <1>0, <1>1, <2>1 DEF pushPacket, BuffersTyped, DecoderTyped
  <2>3. ControlTyped'
    BY <1>0, <1>1, <1>n DEF pushPacket, ControlTyped
  <2> QED
    BY <2>2, <2>3 DEF Typed
<1>2. CASE resetInternal
  <2>1. BuffersTyped'
    BY <1>0, <1>2, ClearTyped DEF resetInternal, BuffersTyped
  <2>2. DecoderTyped'
    BY <1>0, <1>2 DEF resetInternal, DecoderTyped
  <2>3. ControlTyped'
    BY <1>0, <1>2, <1>n DEF resetInternal, ControlTyped
  <2> QED
    BY <2>1, <2>2, <2>3 DEF Typed
<1>3. ASSUME NEW n \in Sizes, setBufferSize(n) PROVE Typed'
  <2>1. adaptive' \in Sound
    <3>1. adaptive \in Controllers /\ n \in Int
      BY <1>0, InputConstants DEF BuffersTyped, Sound
    <3> QED
      BY <1>3, <3>1, ConfiguredSound DEF setBufferSize
  <2>2. BuffersTyped'
    BY <1>3, <2>1, ClearTyped DEF setBufferSize
  <2>3. DecoderTyped'
    BY <1>0, <1>3 DEF setBufferSize, DecoderTyped
  <2>4. ControlTyped'
    BY <1>0, <1>3, <1>n DEF setBufferSize, ControlTyped
  <2> QED
    BY <2>2, <2>3, <2>4 DEF Typed
<1>4. ASSUME NEW m \in Tunings, NEW n \in Tunings, updateAdvancedSettings(m, n)
      PROVE  Typed'
  <2>1. adaptive' \in Sound
    <3>1. m \in Int /\ n \in Int /\ adaptive \in Sound
      BY <1>0, InputConstants DEF BuffersTyped
    <3>2. WithPcmTarget(adaptive, m) \in Sound
      BY <3>1, TuningSound
    <3>3. WithCatchUp(WithPcmTarget(adaptive, m), n) \in Sound
      BY <3>1, <3>2, TuningSound
    <3> QED
      BY <1>4, <3>3 DEF updateAdvancedSettings
  <2>2. BuffersTyped' /\ DecoderTyped'
    BY <1>0, <1>4, <2>1 DEF updateAdvancedSettings, BuffersTyped, DecoderTyped
  <2>3. ControlTyped'
    BY <1>0, <1>4 DEF updateAdvancedSettings, ControlTyped
  <2> QED
    BY <2>2, <2>3 DEF Typed
<1>5. CASE start
  <2>1. BuffersTyped'
    BY <1>0, <1>5, ClearTyped DEF start, BuffersTyped
  <2>2. DecoderTyped'
    BY <1>5 DEF start, DecoderTyped, DecodeStates, NoWork, Works
  <2>3. ControlTyped'
    BY <1>0, <1>5 DEF start, ControlTyped
  <2> QED
    BY <2>1, <2>2, <2>3 DEF Typed
<1>6. CASE openStream \/ joined
  <2>1. BuffersTyped' /\ DecoderTyped'
    BY <1>0, <1>6 DEF openStream, joined, bufferVars, BuffersTyped, DecoderTyped
  <2>2. /\ cooling' = cooling /\ isRunning' = isRunning /\ notified' = notified
        /\ stream' \in {"open", "closed"}
    BY <1>6 DEF openStream, joined
  <2>3. ControlTyped'
    BY <1>0, <2>2 DEF ControlTyped
  <2> QED
    BY <2>1, <2>3 DEF Typed
<1>7. CASE stop
  <2>1. BuffersTyped' /\ DecoderTyped'
    BY <1>0, <1>7 DEF stop, bufferVars, BuffersTyped, DecoderTyped
  <2>2. ControlTyped'
    BY <1>0, <1>7, <1>n DEF stop, ControlTyped
  <2> QED
    BY <2>1, <2>2 DEF Typed
<1> QED
  BY <1>1, <1>2, <1>3, <1>4, <1>5, <1>6, <1>7 DEF Callers

LEMMA TypeStep == Typed /\ [EngineNext]_vars => Typed'
<1> SUFFICES ASSUME Typed, [EngineNext]_vars PROVE Typed'
  OBVIOUS
<1>0. BuffersTyped /\ DecoderTyped /\ ControlTyped
  BY DEF Typed
<1>1. CASE onAudioReady
  <2>1. BuffersTyped'
    BY <1>0, <1>1, CallbackTyped
  <2>2. DecoderTyped'
    BY <1>0, <1>1 DEF onAudioReady, DecoderTyped
  <2>3. ControlTyped'
    BY <1>0, <1>1 DEF onAudioReady, ControlTyped
  <2> QED
    BY <2>1, <2>2, <2>3 DEF Typed
<1>2. CASE Decoder
  BY <1>2, DecoderStep
<1>3. CASE Callers
  BY <1>3, CallerStep
<1>4. CASE clockUnit
  <2>1. adaptive' \in Sound
    BY <1>0, <1>4, ElapsedSound DEF clockUnit, BuffersTyped
  <2>2. BuffersTyped' /\ DecoderTyped'
    BY <1>0, <1>4, <2>1 DEF clockUnit, BuffersTyped, DecoderTyped
  <2>3. ControlTyped'
    BY <1>0, <1>4 DEF clockUnit, ControlTyped
  <2> QED
    BY <2>2, <2>3 DEF Typed
<1>5. CASE cooledDown
  <2>1. BuffersTyped' /\ DecoderTyped'
    BY <1>0, <1>5 DEF cooledDown, bufferVars, BuffersTyped, DecoderTyped
  <2>2. ControlTyped'
    BY <1>0, <1>5 DEF cooledDown, ControlTyped
  <2> QED
    BY <2>1, <2>2 DEF Typed
<1>6. CASE UNCHANGED vars
  <2>1. BuffersTyped' /\ DecoderTyped'
    BY <1>0, <1>6 DEF vars, BuffersTyped, DecoderTyped
  <2>2. ControlTyped'
    BY <1>0, <1>6 DEF vars, ControlTyped
  <2> QED
    BY <2>1, <2>2 DEF Typed
<1> QED
  BY <1>1, <1>2, <1>3, <1>4, <1>5, <1>6 DEF EngineNext

\* Type correctness of the engine; it includes that the jitter buffer never
\* holds more than its capacity.
THEOREM EngineTyped == EngineSpec => []EngineTypeOK
<1>1. Typed => EngineTypeOK
  BY DEF Typed, BuffersTyped, DecoderTyped, ControlTyped, DecodeStates,
         EngineTypeOK, TypeOK, Sound
<1> QED
  BY <1>1, TypeInit, TypeStep, PTL DEF EngineSpec

\* The engine composes the controller's member functions, several in one
\* critical section, without ever breaking what the controller promises.
THEOREM EngineWatermarks == EngineSpec => [](WatermarksOrdered /\ SteadyAtBase)
<1>1. Typed => WatermarksOrdered /\ SteadyAtBase
  BY DEF Typed, BuffersTyped, Sound, Ordered, AtBase, WatermarksOrdered, SteadyAtBase
<1> QED
  BY <1>1, TypeInit, TypeStep, PTL DEF EngineSpec

-----------------------------------------------------------------------------
(* A decoder that lags behind. *)

\* While packets are queued before and after, a step leaves the target, or
\* drops it to the base.
LEMMA TargetUnderLag ==
    ASSUME Typed, EngineNext, jitter # {}, jitter' # {}
    PROVE  adaptive'.target \in {adaptive.target, adaptive.base}
<1>0. adaptive \in Sound /\ adaptive \in Controllers /\ Available \in Nat
  BY Counts DEF Typed, BuffersTyped, Sound
<1>1. CASE onAudioReady
  <2> DEFINE t == TrackCeiling(adaptive, Available)
  <2>1. adaptive' = Settle(t, Available)
    BY <1>1 DEF onAudioReady, AfterTick
  <2>2. t \in Controllers /\ t.base = adaptive.base /\ t.target = adaptive.target
    BY <1>0, TrackCeilingSound, TrackCeilingGrows DEF Sound
  <2> HIDE DEF t
  <2> QED
    BY <1>0, <2>1, <2>2, SettleKeepsWatermarks
<1>2. CASE Decoder
  <2>1. adaptive' \in {adaptive, AfterDiscard(adaptive)}
    BY <1>2 DEF Decoder, DecodeTop, DecodeSleep, DecodeWake, DecodeTimeout,
                RequestResend, DecodeAppend, Iterate, bufferVars
  <2>2. AfterDiscard(adaptive).target = adaptive.target
    BY <1>0 DEF AfterDiscard, Transition, Controllers
  <2> QED
    BY <2>1, <2>2
<1>3. CASE Callers
  <2>1. ASSUME NEW m \in Tunings, NEW n \in Tunings, updateAdvancedSettings(m, n)
        PROVE  adaptive'.target = adaptive.target
    BY <1>0, <2>1 DEF updateAdvancedSettings, WithPcmTarget, WithCatchUp, Controllers
  <2>2. \/ adaptive' = adaptive
        \/ \E m, n \in Tunings : updateAdvancedSettings(m, n)
    BY <1>3 DEF Callers, pushPacket, resetInternal, setBufferSize, start,
                openStream, stop, joined, ClearBuffers, bufferVars
  <2> QED
    BY <2>1, <2>2
<1>4. CASE clockUnit
  BY <1>0, <1>4 DEF clockUnit, Elapsed, Controllers
<1>5. CASE cooledDown
  BY <1>5 DEF cooledDown, bufferVars
<1> QED
  BY <1>1, <1>2, <1>3, <1>4, <1>5 DEF EngineNext

\* Nor does it send the engine back to buffering.
LEMMA BufferingUnderLag ==
    ASSUME EngineNext, jitter # {}, jitter' # {}, isBuffering'
    PROVE  isBuffering
<1>1. CASE onAudioReady
  BY <1>1 DEF onAudioReady
<1>2. CASE Decoder
  BY <1>2 DEF Decoder, DecodeTop, DecodeSleep, DecodeWake, DecodeTimeout,
              RequestResend, DecodeAppend, Iterate, bufferVars
<1>3. CASE Callers
  BY <1>3 DEF Callers, pushPacket, resetInternal, setBufferSize,
              updateAdvancedSettings, start, openStream, stop, joined,
              ClearBuffers, bufferVars
<1>4. CASE clockUnit \/ cooledDown
  BY <1>4 DEF clockUnit, cooledDown, bufferVars
<1> QED
  BY <1>1, <1>2, <1>3, <1>4 DEF EngineNext

\* A decoder that lags behind costs no latency, whoever else steps.
THEOREM EngineLagNeverRatchets == EngineSpec => LagNeverRatchets
<1> DEFINE Step ==
        jitter # {} /\ jitter' # {}
            => /\ adaptive'.target <= adaptive.target
               /\ isBuffering' => isBuffering
<1>1. ASSUME Typed, [EngineNext]_vars PROVE [Step]_vars
  <2>1. CASE EngineNext
    <3> SUFFICES ASSUME jitter # {}, jitter' # {}
                 PROVE  /\ adaptive'.target <= adaptive.target
                        /\ isBuffering' => isBuffering
      OBVIOUS
    <3>1. adaptive'.target \in {adaptive.target, adaptive.base}
      BY <1>1, <2>1, TargetUnderLag
    <3>2. /\ adaptive.target \in Nat /\ adaptive.base \in Nat
          /\ adaptive.base <= adaptive.target
      BY <1>1 DEF Typed, BuffersTyped, Sound, Controllers, Ordered
    <3>3. isBuffering' => isBuffering
      BY <2>1, BufferingUnderLag
    <3> QED
      BY <3>1, <3>2, <3>3
  <2> QED
    BY <1>1, <2>1
<1> QED
  BY <1>1, TypeInit, TypeStep, PTL DEF EngineSpec, LagNeverRatchets

-----------------------------------------------------------------------------
(* The bound of the inventory. *)

Limit == MAX_CEILING_FRAMES + MAX_TUNING_FRAMES

Busy == IF pc \in {"requesting", "decoding"} THEN 1 ELSE 0

\* A step that adds no slice and takes up no frame keeps the bound.
LEMMA NothingAdded ==
    ASSUME BuffersTyped, InventoryBounded,
           pcm' \in Nat, pcm' <= pcm, Busy' <= Busy
    PROVE  InventoryBounded'
<1>1. PcmFrames \in Nat /\ PcmFrames' \in Nat /\ PcmFrames' <= PcmFrames
  BY DivFacts, EngineConstants DEF PcmFrames, BuffersTyped
<1>2. PcmFrames + Busy <= Limit /\ Busy \in 0..1 /\ Busy' \in 0..1 /\ Limit \in Nat
  BY FrameConstants DEF InventoryBounded, Busy, Limit
<1> DEFINE p == PcmFrames
           q == PcmFrames'
           a == Busy
           b == Busy'
<1>3. /\ p \in Nat /\ q \in Nat /\ a \in 0..1 /\ b \in 0..1 /\ Limit \in Nat
      /\ q <= p /\ b <= a /\ p + a <= Limit
  BY <1>1, <1>2
<1> HIDE DEF p, q, a, b
<1>4. q + b <= Limit
  BY <1>3
<1> QED
  BY <1>4 DEF InventoryBounded, Busy, Limit, q, b

\* An iteration takes up a frame only when there is room for it.
LEMMA IterateBounded ==
    ASSUME BuffersTyped, InventoryBounded, Iterate
    PROVE  InventoryBounded'
<1> DEFINE kept == jitter \ Oldest(jitter, Excess)
<1>1. \/ pcm' = pcm /\ pc' \in {"stopped", "top"}
      \/ kept # {} /\ Take(kept, Excess)
  BY DEF Iterate, bufferVars
<1>2. CASE pcm' = pcm /\ pc' \in {"stopped", "top"}
  <2>1. Busy' = 0 /\ Busy \in 0..1
    BY <1>2 DEF Busy
  <2>2. pcm' \in Nat /\ pcm' <= pcm /\ Busy' <= Busy
    BY <1>2, <2>1 DEF BuffersTyped
  <2> QED
    BY <2>2, NothingAdded
<1>3. CASE kept # {} /\ Take(kept, Excess)
  <2>1. PcmFrames < adaptive.target + adaptive.catchUp
    BY <1>3, CatchUpLeavesRoom
  <2>2. adaptive.target <= MAX_CEILING_FRAMES /\ adaptive.catchUp <= MAX_TUNING_FRAMES
    BY FrameConstants DEF BuffersTyped, Sound, Controllers, Ordered
  <2>3. pcm' \in {0, pcm}
    BY <1>3 DEF Take
  <2>4. pcm' \in Nat /\ pcm' <= pcm /\ pcm \in Nat
    BY <2>3 DEF BuffersTyped
  <2>5. PcmFrames' \in Nat /\ PcmFrames' <= PcmFrames /\ PcmFrames \in Nat
    BY <2>4, DivFacts, EngineConstants DEF PcmFrames
  <2>6. Busy' \in 0..1
    BY DEF Busy
  <2> DEFINE p == PcmFrames
             q == PcmFrames'
             b == Busy'
  <2>7. /\ p \in Nat /\ q \in Nat /\ b \in 0..1 /\ q <= p
        /\ p < adaptive.target + adaptive.catchUp
        /\ adaptive.target \in Nat /\ adaptive.catchUp \in Nat
    BY <2>1, <2>5, <2>6, Counts
  <2> HIDE DEF p, q, b
  <2>8. q + b <= MAX_CEILING_FRAMES + MAX_TUNING_FRAMES
    BY <2>2, <2>7, FrameConstants
  <2> QED
    BY <2>8 DEF InventoryBounded, Busy, q, b
<1> QED
  BY <1>1, <1>2, <1>3

\* The frame that was taken up is the one that is appended.
LEMMA AppendBounded ==
    ASSUME BuffersTyped, InventoryBounded, DecodeAppend
    PROVE  InventoryBounded'
<1>1. pcm \in Nat /\ SLICES_PER_FRAME \in Nat \ {0}
  BY EngineConstants DEF BuffersTyped
<1>2. pcm' \in {pcm, pcm + SLICES_PER_FRAME} /\ Busy = 1 /\ Busy' = 0
  BY DEF DecodeAppend, Busy
<1>3. PcmFrames \in Nat /\ PcmFrames' \in {PcmFrames, PcmFrames + 1}
  BY <1>1, <1>2, DivFacts DEF PcmFrames
<1>4. PcmFrames + Busy <= Limit /\ Limit \in Nat
  BY FrameConstants DEF InventoryBounded, Busy, Limit
<1> DEFINE p == PcmFrames
           q == PcmFrames'
<1>5. p \in Nat /\ q \in {p, p + 1} /\ p + 1 <= Limit /\ Limit \in Nat
  BY <1>2, <1>3, <1>4
<1> HIDE DEF p, q
<1>6. q <= Limit /\ q \in Nat
  BY <1>5
<1>7. PcmFrames' + Busy' <= Limit
  BY <1>2, <1>6 DEF q
<1> QED
  BY <1>7 DEF InventoryBounded, Busy, Limit

LEMMA BoundedStep ==
    Typed /\ InventoryBounded /\ [EngineNext]_vars => InventoryBounded'
<1> SUFFICES ASSUME Typed, InventoryBounded, [EngineNext]_vars
             PROVE  InventoryBounded'
  OBVIOUS
<1>0. BuffersTyped /\ pcm \in Nat
  BY DEF Typed, BuffersTyped
<1>1. CASE Iterate
  BY <1>0, <1>1, IterateBounded
<1>2. CASE DecodeAppend
  BY <1>0, <1>2, AppendBounded
<1>3. CASE /\ pcm' \in {pcm, 0, IF pcm = 0 THEN 0 ELSE pcm - 1}
           /\ \/ pc' = pc \/ pc' \in {"top", "dozing", "asleep"}
              \/ pc = "requesting" /\ pc' = "decoding"
  <2>1. pcm' \in Nat /\ pcm' <= pcm
    BY <1>0, <1>3
  <2>2. Busy' <= Busy
    BY <1>3 DEF Busy
  <2> QED
    BY <1>0, <2>1, <2>2, NothingAdded
<1>4. Iterate \/ DecodeAppend
      \/ /\ pcm' \in {pcm, 0, IF pcm = 0 THEN 0 ELSE pcm - 1}
         /\ \/ pc' = pc \/ pc' \in {"top", "dozing", "asleep"}
            \/ pc = "requesting" /\ pc' = "decoding"
  <2>1. CASE Decoder
    BY <2>1 DEF Decoder, DecodeTop, DecodeSleep, DecodeWake, DecodeTimeout,
                RequestResend, bufferVars
  <2>2. CASE Callers
    BY <2>2 DEF Callers, pushPacket, resetInternal, setBufferSize,
                updateAdvancedSettings, start, openStream, stop, joined,
                ClearBuffers, bufferVars
  <2>3. CASE onAudioReady \/ clockUnit \/ cooledDown \/ UNCHANGED vars
    BY <2>3 DEF onAudioReady, clockUnit, cooledDown, bufferVars, vars
  <2> QED
    BY <2>1, <2>2, <2>3 DEF EngineNext
<1> QED
  BY <1>1, <1>2, <1>3, <1>4

\* The decoded inventory, with the frame under way, is bounded by the largest
\* watermark and catch-up margin, at every frame size, capacity and sequence of
\* packets, reconfigurations, resets, starts and stops.
THEOREM EngineInventoryBounded == EngineSpec => []InventoryBounded
<1>1. EngineInit => InventoryBounded
  BY DivFacts, EngineConstants, FrameConstants
     DEF EngineInit, InventoryBounded, PcmFrames
<1> QED
  BY <1>1, TypeInit, TypeStep, BoundedStep, PTL DEF EngineSpec

-----------------------------------------------------------------------------
(* The order of what is played. *)

\* The expected tick is beyond what was given to the codec.
Onward ==
    /\ lastOut \in Int /\ lastOut >= -1
    /\ lastOut < expected
    /\ firstPacket => lastOut = -1

HistTyped == Typed /\ Onward

\* Taking up a frame takes up the expected tick or one beyond it, and expects
\* the next; skipping some moves the expected tick on.
LEMMA TakeMovesOn ==
    ASSUME BuffersTyped, NEW n \in Nat, NEW kept \in SUBSET jitter, kept # {},
           Take(kept, n)
    PROVE  /\ pc' \in {"requesting", "decoding", "top"} /\ firstPacket' = FALSE
           /\ expected' \in Nat /\ (firstPacket \/ expected' >= expected)
           /\ pc' # "top" => /\ work'.tick \in Nat /\ expected' = work'.tick + 1
                             /\ firstPacket \/ work'.tick >= expected
<1> DEFINE cur    == Earliest(kept)
           base   == IF firstPacket THEN cur ELSE expected + n
           resync == cur > base + RESYNC_GAP
           want   == IF resync THEN cur ELSE base
           plc    == [kind |-> "plc", tick |-> want, first |-> want, last |-> cur - 1]
           audio  == [kind |-> "audio", tick |-> cur, first |-> 0, last |-> -1]
<1>1. cur \in Nat /\ expected \in Nat
  BY KeptTyped DEF BuffersTyped
<1>2. base \in Nat /\ (firstPacket \/ base >= expected)
  BY <1>1
<1>3. want \in Nat /\ want >= base
  <2>1. CASE resync
    BY <1>1, <1>2, <2>1, EngineConstants
  <2>2. CASE ~resync
    BY <1>2, <2>2
  <2> QED
    BY <2>1, <2>2
<1>4. plc.tick = want /\ audio.tick = cur
  OBVIOUS
<1>5. /\ firstPacket' = FALSE
      /\ \/ work' = plc /\ expected' = want + 1 /\ pc' = "requesting"
         \/ expected' = want /\ pc' = "top"
         \/ cur = want /\ work' = audio /\ expected' = want + 1 /\ pc' = "decoding"
  BY DEF Take
<1> HIDE DEF cur, base, resync, want, plc, audio
<1>6. firstPacket \/ want >= expected
  BY <1>1, <1>2, <1>3
<1> QED
  BY <1>1, <1>3, <1>4, <1>5, <1>6

\* An iteration of the decode thread.
LEMMA IterateMovesOn ==
    ASSUME Typed, Iterate
    PROVE  /\ expected' \in Nat /\ (firstPacket \/ expected' >= expected)
           /\ firstPacket' => firstPacket
           /\ pc' \in {"requesting", "decoding"} =>
                 /\ work'.tick \in Nat /\ expected' = work'.tick + 1 /\ ~firstPacket'
                 /\ firstPacket \/ work'.tick >= expected
<1> DEFINE kept == jitter \ Oldest(jitter, Excess)
<1>1. BuffersTyped /\ Excess \in Nat /\ expected \in Nat
  BY Counts DEF Typed, BuffersTyped
<1>2. \/ expected' = expected /\ firstPacket' = firstPacket /\ pc' \in {"stopped", "top"}
      \/ /\ expected' = expected + Excess /\ firstPacket' = firstPacket
         /\ pc' = "top"
      \/ kept # {} /\ Take(kept, Excess)
  BY DEF Iterate, bufferVars
<1>3. CASE /\ expected' \in {expected, expected + Excess} /\ firstPacket' = firstPacket
           /\ pc' \in {"stopped", "top"}
  BY <1>1, <1>3
<1>4. CASE kept # {} /\ Take(kept, Excess)
  BY <1>1, <1>4, TakeMovesOn
<1> QED
  BY <1>2, <1>3, <1>4

\* The history only watches.
LEMMA HistWatches == [HistNext]_allVars => [EngineNext]_vars
BY DEF HistNext, DecodeStep, SleepStep, RequestStep, AppendStep, PushStep, ResetStep,
       OtherStep, allVars, EngineNext, Decoder, Callers

\* Nothing but a reset takes the expected tick back.
LEMMA OnwardStep ==
    ASSUME HistTyped, [HistNext]_allVars
    PROVE  Onward' /\ (Emits => work'.tick > lastOut)
<1> USE DEF HistTyped, Onward
<1>0. expected \in Nat
  BY DEF Typed, BuffersTyped
<1>1. CASE DecodeStep
  <2>1. CASE Iterate
    <3>1. CASE Emits
      <4>1. /\ work'.tick \in Nat /\ expected' = work'.tick + 1 /\ ~firstPacket'
            /\ firstPacket \/ work'.tick >= expected
        BY <2>1, <3>1, IterateMovesOn DEF Emits
      <4>2. lastOut' = work'.tick
        BY <1>1, <3>1 DEF DecodeStep
      <4> QED
        BY <1>0, <4>1, <4>2
    <3>2. CASE ~Emits
      <4>1. lastOut' = lastOut
        BY <1>1, <3>2 DEF DecodeStep
      <4>2. /\ expected' \in Nat /\ (firstPacket \/ expected' >= expected)
            /\ firstPacket' => firstPacket
        BY <2>1, IterateMovesOn
      <4>3. Onward'
        BY <1>0, <4>1, <4>2
      <4> QED
        BY <3>2, <4>3
    <3> QED
      BY <3>1, <3>2
  <2>2. CASE UNCHANGED bufferVars /\ pc' \in {"dozing", pc}
    <3>1. ~Emits
      BY <2>2 DEF Emits
    <3>2. lastOut' = lastOut
      BY <1>1, <3>1 DEF DecodeStep
    <3> QED
      BY <2>2, <3>1, <3>2 DEF bufferVars
  <2> QED
    BY <1>1, <2>1, <2>2 DEF DecodeStep, DecodeTop, DecodeWake, DecodeTimeout
<1>2. ASSUME UNCHANGED <<lastOut, expected, firstPacket>>, ~Emits
      PROVE  Onward' /\ (Emits => work'.tick > lastOut)
  BY <1>2
<1>3. CASE SleepStep \/ RequestStep \/ AppendStep
  BY <1>2, <1>3
  DEF SleepStep, DecodeSleep, RequestStep, RequestResend, AppendStep, DecodeAppend,
      bufferVars, hist, Emits
<1>4. CASE PushStep
  BY <1>2, <1>4 DEF PushStep, pushPacket, Emits
<1>5. CASE ResetStep
  <2>1. lastOut' = -1 /\ expected' = 0
    BY <1>5 DEF ResetStep, resetInternal, start, setBufferSize, ClearBuffers
  <2>2. ~Emits
    BY <1>5 DEF ResetStep, resetInternal, start, setBufferSize, Emits
  <2> QED
    BY <2>1, <2>2
<1>6. CASE OtherStep
  BY <1>2, <1>6
  DEF OtherStep, hist, onAudioReady, openStream, stop, joined, clockUnit, cooledDown,
      updateAdvancedSettings, bufferVars, Emits
<1>7. CASE UNCHANGED allVars
  BY <1>2, <1>7 DEF allVars, vars, hist, Emits
<1> QED
  BY <1>1, <1>3, <1>4, <1>5, <1>6, <1>7 DEF HistNext

\* Between two resets the codec is given every tick at most once and in order,
\* for every capacity, resync distance and catch-up margin
\* (native-lib.cpp:186-275).
THEOREM EngineInTimelineOrder == HistSpec => InTimelineOrder
<1> DEFINE Later == Emits => work'.tick > lastOut
<1>1. HistInit => HistTyped
  BY TypeInit DEF HistInit, EngineInit, HistTyped, Onward
<1>2. HistTyped /\ [HistNext]_allVars => HistTyped'
  BY HistWatches, TypeStep, OnwardStep DEF HistTyped
<1>3. HistTyped /\ [HistNext]_allVars => [Later]_allVars
  BY OnwardStep
<1> HIDE DEF Later
<1>4. HistSpec => [][Later]_allVars
  BY <1>1, <1>2, <1>3, PTL DEF HistSpec
<1> QED
  BY <1>4 DEF Later, InTimelineOrder
=============================================================================
