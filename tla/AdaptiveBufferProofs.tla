------------------------ MODULE AdaptiveBufferProofs ------------------------
(***************************************************************************)
(* The watermark controller, for every value of its constants: windows,    *)
(* steps, caps and inputs of any size.                                     *)
(*                                                                         *)
(* The argument is carried by one set, Sound: the well-typed controllers   *)
(* whose watermarks are ordered and whose steady states are at the base.   *)
(* Every member function maps Sound to Sound (one lemma each), so Sound is *)
(* inductive.  The order of the watermarks needs only the type beside it;  *)
(* the steady state needs both, and itself: the way from PreHolding back   *)
(* to Normal does not touch the target.                                    *)
(*                                                                         *)
(* The properties of AdaptiveBufferHistory need beside it what the caller  *)
(* experienced: the clock of a confirmation is never ahead of the time the *)
(* link was quiet, and without an underrun the watermark is at the base.   *)
(***************************************************************************)
EXTENDS AdaptiveBufferHistory, TLAPS

Ordered(c) ==
    /\ 1 <= c.base
    /\ c.base <= c.target
    /\ c.target <= c.ceiling
    /\ c.ceiling <= MAX_CEILING_FRAMES

AtBase(c) == c.state \in {"Normal", "PreHolding"} => c.target = c.base

Sound == {c \in Controllers : Ordered(c) /\ AtBase(c)}

\* The clamp of the code lands in the interval it is given.
LEMMA ClampBounds ==
    ASSUME NEW v \in Int, NEW lo \in Int, NEW hi \in Int, lo <= hi
    PROVE  /\ Clamp(v, lo, hi) \in lo..hi
           /\ v \in lo..hi => Clamp(v, lo, hi) = v
BY DEF Clamp

\* A transition to a state keeps the controller sound if that state may hold
\* its watermark.
LEMMA TransitionSound ==
    ASSUME NEW c \in Controllers, NEW next \in QueueState,
           Ordered(c),
           next \in {"Normal", "PreHolding"} => c.target = c.base
    PROVE  Transition(c, next) \in Sound
<1> DEFINE t == Transition(c, next)
<1>1. t \in Controllers
  <2>1. 0 \in 0..HOLD_RELEASE /\ 0 \in 0..1
    BY WindowConstants
  <2> QED
    BY <2>1 DEF Transition, Controllers
<1>2. /\ t.base = c.base /\ t.target = c.target /\ t.ceiling = c.ceiling
      /\ t.state = next
  BY DEF Transition, Controllers
<1> QED
  BY <1>1, <1>2 DEF Sound, Ordered, AtBase

\* configure establishes soundness out of any well-typed controller.
LEMMA ConfiguredSound ==
    ASSUME NEW c \in Controllers, NEW frames \in Int
    PROVE  Configured(c, frames) \in Sound
<1> DEFINE b == Clamp(frames, 1, MAX_CEILING_FRAMES)
           top == Clamp(b + DEFAULT_HEADROOM_FRAMES, b, MAX_CEILING_FRAMES)
           d == [c EXCEPT !.base = b, !.ceiling = top, !.target = b]
<1>1. b \in 1..MAX_CEILING_FRAMES
  BY ClampBounds, FrameConstants
<1> HIDE DEF b
<1>2. top \in b..MAX_CEILING_FRAMES
  <2>1. /\ b \in Int /\ b + DEFAULT_HEADROOM_FRAMES \in Int
        /\ MAX_CEILING_FRAMES \in Int /\ b <= MAX_CEILING_FRAMES
    BY <1>1, FrameConstants
  <2> QED
    BY <2>1, ClampBounds
<1> HIDE DEF top
<1>3. d \in Controllers /\ Ordered(d) /\ d.target = d.base
  <2>1. b \in Nat /\ top \in Nat /\ 1 <= b /\ b <= top /\ top <= MAX_CEILING_FRAMES
    BY <1>1, <1>2, FrameConstants
  <2>2. d \in Controllers
    BY <2>1 DEF Controllers
  <2>3. d.base = b /\ d.target = b /\ d.ceiling = top
    BY DEF Controllers
  <2> QED
    BY <2>1, <2>2, <2>3 DEF Ordered
<1>4. Transition(d, "Normal") \in Sound
  BY <1>3, TransitionSound DEF QueueState
<1>5. Configured(c, frames) = Transition(d, "Normal")
  BY DEF Configured, b, top
<1> QED
  BY <1>4, <1>5

\* Raising the target stays under the ceiling.
LEMMA RaiseTargetSound ==
    ASSUME NEW c \in Controllers, Ordered(c)
    PROVE  RaiseTarget(c) \in Controllers /\ Ordered(RaiseTarget(c))
           /\ RaiseTarget(c).state = c.state
<1>1. Clamp(c.target + RAISE_STEP_FRAMES, c.base, c.ceiling) \in c.base..c.ceiling
  <2>1. /\ c.target + RAISE_STEP_FRAMES \in Int /\ c.base \in Int
        /\ c.ceiling \in Int /\ c.base <= c.ceiling
    BY FrameConstants DEF Controllers, Ordered
  <2> QED
    BY <2>1, ClampBounds
<1> QED
  BY <1>1 DEF RaiseTarget, Controllers, Ordered

\* Lifting the ceiling stays under the cap and never uncovers the target.
LEMMA LiftCeilingSound ==
    ASSUME NEW c \in Controllers, Ordered(c)
    PROVE  LiftCeiling(c) \in Controllers /\ Ordered(LiftCeiling(c))
           /\ LiftCeiling(c).state = c.state
<1> DEFINE raised == Clamp(c.ceiling + CEILING_STEP_FRAMES, c.base, MAX_CEILING_FRAMES)
<1>1. raised \in c.ceiling..MAX_CEILING_FRAMES
  BY FrameConstants DEF Clamp, Controllers, Ordered
<1> HIDE DEF raised
<1>2. LiftCeiling(c) = [c EXCEPT !.ceiling = raised]
  BY DEF LiftCeiling, raised
<1> QED
  BY <1>1, <1>2, FrameConstants DEF Controllers, Ordered

\* An underrun, in each of the five states.
LEMMA AfterUnderrunSound ==
    ASSUME NEW c \in Sound
    PROVE  AfterUnderrun(c) \in Sound
<1>0. c \in Controllers /\ Ordered(c) /\ AtBase(c)
  BY DEF Sound
<1>1. CASE c.state = "Normal"
  <2>1. c.target = c.base
    BY <1>0, <1>1 DEF AtBase
  <2>2. Transition(c, "PreHolding") \in Sound
    BY <1>0, <2>1, TransitionSound DEF QueueState
  <2> QED
    BY <1>1, <2>2 DEF AfterUnderrun
<1>2. CASE c.state = "Holding"
  <2> DEFINE d == [c EXCEPT !.underruns = 1]
  <2>1. d \in Controllers /\ Ordered(d) /\ d.state = "Holding"
    BY <1>0, <1>2 DEF Controllers, Ordered
  <2> DEFINE e == RaiseTarget(LiftCeiling(d))
  <2> HIDE DEF d
  <2>2. e \in Controllers /\ Ordered(e) /\ e.state = "Holding"
    BY <2>1, LiftCeilingSound, RaiseTargetSound
  <2>3. AfterUnderrun(c) \in {d, e}
    BY <1>2 DEF AfterUnderrun, d
  <2> HIDE DEF e
  <2> QED
    BY <2>1, <2>2, <2>3 DEF Sound, AtBase
<1>3. CASE c.state \notin {"Normal", "Holding"}
  <2>1. RaiseTarget(c) \in Controllers /\ Ordered(RaiseTarget(c))
    BY <1>0, RaiseTargetSound
  <2>2. Transition(RaiseTarget(c), "Holding") \in Sound
    BY <2>1, TransitionSound DEF QueueState
  <2> QED
    BY <1>3, <2>2 DEF AfterUnderrun
<1> QED
  BY <1>1, <1>2, <1>3

\* The periodic ceiling growth.
LEMMA TrackCeilingSound ==
    ASSUME NEW c \in Sound, NEW buffered \in Nat
    PROVE  TrackCeiling(c, buffered) \in Sound
<1>0. c \in Controllers /\ Ordered(c) /\ AtBase(c)
  BY DEF Sound
<1> DEFINE raised == Clamp(buffered + CEILING_STEP_FRAMES, c.ceiling, MAX_CEILING_FRAMES)
<1>1. raised \in c.ceiling..MAX_CEILING_FRAMES
  <2>1. /\ buffered + CEILING_STEP_FRAMES \in Int /\ c.ceiling \in Int
        /\ MAX_CEILING_FRAMES \in Int /\ c.ceiling <= MAX_CEILING_FRAMES
    BY <1>0, FrameConstants DEF Controllers, Ordered
  <2> QED
    BY <2>1, ClampBounds
<1>2. TrackCeiling(c, buffered) \in {c, [c EXCEPT !.ceiling = raised]}
  BY DEF TrackCeiling
<1> HIDE DEF raised
<1> QED
  BY <1>0, <1>1, <1>2, FrameConstants DEF Sound, Controllers, Ordered, AtBase

\* Every way out of a state on a tick leads to a sound controller.
LEMMA SettleSound ==
    ASSUME NEW c \in Sound, NEW buffered \in Nat
    PROVE  Settle(c, buffered) \in Sound
<1>0. c \in Controllers /\ Ordered(c) /\ AtBase(c)
  BY DEF Sound
<1> DEFINE next == NextOnTick(c, buffered)
           drop == c.state = "PreEmptying" /\ next = "Normal"
           d == IF drop THEN [c EXCEPT !.target = c.base] ELSE c
<1>1. next \in QueueState
  BY <1>0 DEF NextOnTick, Controllers, QueueState
<1>2. next = "Normal" => c.state \in {"Normal", "PreHolding", "PreEmptying"}
  BY DEF NextOnTick
<1>3. next = "PreHolding" => c.state = "PreHolding"
  BY DEF NextOnTick
<1>4. Settle(c, buffered) = IF next = c.state THEN c ELSE Transition(d, next)
  BY DEF Settle
<1> HIDE DEF next
<1>5. d \in Controllers /\ Ordered(d)
  BY <1>0 DEF Controllers, Ordered
<1>6. next # c.state /\ next \in {"Normal", "PreHolding"} => d.target = d.base
  BY <1>0, <1>2, <1>3 DEF AtBase, Controllers
<1> HIDE DEF d
<1>7. next # c.state => Transition(d, next) \in Sound
  BY <1>1, <1>5, <1>6, TransitionSound
<1> QED
  BY <1>4, <1>7

\* A discard only moves the state, and to one that may hold any watermark.
LEMMA AfterDiscardSound ==
    ASSUME NEW c \in Sound
    PROVE  AfterDiscard(c) \in Sound
<1>1. Transition(c, "Emptying") \in Sound
  BY TransitionSound DEF Sound, QueueState
<1> QED
  BY <1>1 DEF AfterDiscard

\* The two advanced settings touch no watermark and no state.
LEMMA TuningSound ==
    ASSUME NEW c \in Sound, NEW frames \in Int
    PROVE  /\ WithPcmTarget(c, frames) \in Sound
           /\ WithCatchUp(c, frames) \in Sound
<1>1. Clamp(frames, 1, MAX_TUNING_FRAMES) \in 1..MAX_TUNING_FRAMES
  BY ClampBounds, FrameConstants
<1> QED
  BY <1>1 DEF WithPcmTarget, WithCatchUp, Sound, Controllers, Ordered, AtBase

\* Neither does the clock, which saturates.
LEMMA ElapsedSound ==
    ASSUME NEW c \in Sound
    PROVE  Elapsed(c) \in Sound
BY WindowConstants DEF Elapsed, Sound, Controllers, Ordered, AtBase

\* The member initialisers are sound: one watermark for all three.
LEMMA InitialSound == InitialController \in Sound
BY FrameConstants, WindowConstants
   DEF InitialController, Sound, Controllers, QueueState, Ordered, AtBase

-----------------------------------------------------------------------------

\* Every call of a member function keeps the controller sound.
LEMMA SoundStep ==
    ASSUME adaptive \in Sound, [Next]_adaptive
    PROVE  adaptive' \in Sound
<1>0. adaptive \in Controllers
  BY DEF Sound
<1>1. ASSUME NEW n \in Sizes, configure(n) PROVE adaptive' \in Sound
  BY <1>0, <1>1, ConfiguredSound, InputConstants DEF configure
<1>2. ASSUME NEW n \in Tunings, setPcmTarget(n) PROVE adaptive' \in Sound
  BY <1>2, TuningSound, InputConstants DEF setPcmTarget
<1>3. ASSUME NEW n \in Tunings, setCatchUp(n) PROVE adaptive' \in Sound
  BY <1>3, TuningSound, InputConstants DEF setCatchUp
<1>4. CASE onUnderrun
  BY <1>4, AfterUnderrunSound DEF onUnderrun
<1>5. ASSUME NEW b \in Occupancies, onTick(b) PROVE adaptive' \in Sound
  <2>1. TrackCeiling(adaptive, b) \in Sound
    BY TrackCeilingSound, InputConstants
  <2> QED
    BY <1>5, <2>1, SettleSound, InputConstants DEF onTick, AfterTick
<1>6. ASSUME NEW b \in Occupancies, onDiscarded(b) PROVE adaptive' \in Sound
  BY <1>6, AfterDiscardSound DEF onDiscarded
<1>7. CASE Elapse
  BY <1>7, ElapsedSound DEF Elapse
<1>8. CASE UNCHANGED adaptive
  BY <1>8
<1> QED
  BY <1>1, <1>2, <1>3, <1>4, <1>5, <1>6, <1>7, <1>8 DEF Next

\* Soundness is an invariant of the controller under any caller.
THEOREM ControllerSound == Spec => [](adaptive \in Sound)
<1>1. Init => adaptive \in Sound
  BY InitialSound DEF Init
<1>2. adaptive \in Sound /\ [Next]_adaptive => (adaptive \in Sound)'
  BY SoundStep
<1> QED
  BY <1>1, <1>2, PTL DEF Spec

\* Type correctness of the controller.
THEOREM ControllerTypeOK == Spec => []TypeOK
<1>1. adaptive \in Sound => TypeOK
  BY DEF Sound, TypeOK
<1> QED
  BY <1>1, ControllerSound, PTL

\* The watermark stays between the configured base and the ceiling, and the
\* ceiling under the cap, for every configuration and every link.
THEOREM ControllerOrdered == Spec => []WatermarksOrdered
<1>1. adaptive \in Sound => WatermarksOrdered
  BY DEF Sound, Ordered, WatermarksOrdered
<1> QED
  BY <1>1, ControllerSound, PTL

\* Every way back to the steady state has dropped the watermark to the base.
THEOREM ControllerSteadyAtBase == Spec => []SteadyAtBase
<1>1. adaptive \in Sound => SteadyAtBase
  BY DEF Sound, AtBase, SteadyAtBase
<1> QED
  BY <1>1, ControllerSound, PTL

\* A tick leaves base and ceiling to TrackCeiling; the target either stays or
\* becomes the base.
LEMMA SettleKeepsWatermarks ==
    ASSUME NEW c \in Controllers, NEW buffered \in Nat
    PROVE  /\ Settle(c, buffered).base = c.base
           /\ Settle(c, buffered).ceiling = c.ceiling
           /\ Settle(c, buffered).target \in {c.target, c.base}
BY DEF Settle, Transition, Controllers

\* The periodic growth moves nothing but the ceiling, only up, and not at all
\* when the ceiling is already a step above the occupancy.
LEMMA TrackCeilingGrows ==
    ASSUME NEW c \in Sound, NEW buffered \in Nat
    PROVE  /\ TrackCeiling(c, buffered).base = c.base
           /\ TrackCeiling(c, buffered).target = c.target
           /\ TrackCeiling(c, buffered).ceiling >= c.ceiling
           /\ buffered + CEILING_STEP_FRAMES <= c.ceiling
                => TrackCeiling(c, buffered).ceiling = c.ceiling
BY FrameConstants DEF TrackCeiling, Clamp, Sound, Controllers, Ordered

\* The periodic ceiling growth is self-limiting at every cap and step.
THEOREM ControllerSelfLimiting == Spec => CeilingSelfLimiting
<1>1. ASSUME adaptive \in Sound, NEW b \in Occupancies, onTick(b),
             b + CEILING_STEP_FRAMES <= adaptive.ceiling
      PROVE  adaptive'.ceiling = adaptive.ceiling
  <2> DEFINE t == TrackCeiling(adaptive, b)
  <2>1. t \in Controllers /\ t.ceiling = adaptive.ceiling
    BY <1>1, TrackCeilingSound, TrackCeilingGrows, InputConstants DEF Sound
  <2>2. adaptive' = Settle(t, b)
    BY <1>1 DEF onTick, AfterTick
  <2> HIDE DEF t
  <2> QED
    BY <2>1, <2>2, SettleKeepsWatermarks, InputConstants
<1>2. adaptive \in Sound =>
        \A b \in Occupancies :
            onTick(b) /\ b + CEILING_STEP_FRAMES <= adaptive.ceiling
                => adaptive'.ceiling = adaptive.ceiling
  BY <1>1
<1> QED
  BY <1>2, ControllerSound, PTL DEF CeilingSelfLimiting

\* Only configure moves the base or lowers the ceiling, and the watermark only
\* ever comes down all the way.
THEOREM ControllerFallsOnlyToBase == Spec => FallsOnlyToBase
<1> DEFINE c == adaptive
           Step == /\ adaptive'.base = adaptive.base
                   /\ adaptive'.ceiling >= adaptive.ceiling
                   /\ \/ adaptive'.target >= adaptive.target
                      \/ adaptive'.target = adaptive.base
           Step2 == (\E n \in Sizes : configure(n)) \/ Step
<1>1. ASSUME c \in Sound, [Next]_adaptive PROVE [Step2]_adaptive
  <2>0. c \in Controllers /\ Ordered(c)
    BY <1>1 DEF Sound
  <2>1. ASSUME NEW n \in Sizes, configure(n) PROVE Step2
    BY <2>1
  <2>2. ASSUME NEW n \in Tunings, setPcmTarget(n) \/ setCatchUp(n) PROVE Step
    BY <2>0, <2>2 DEF setPcmTarget, setCatchUp, WithPcmTarget, WithCatchUp, Controllers
  <2>3. ASSUME onUnderrun PROVE Step
    <3> DEFINE d == [c EXCEPT !.underruns = 1]
    <3>1. d \in Controllers /\ Ordered(d)
      BY <2>0 DEF Controllers, Ordered
    <3>2. /\ d.base = c.base /\ d.target = c.target /\ d.ceiling = c.ceiling
      BY <2>0 DEF Controllers
    <3>3. ASSUME NEW e \in Controllers, Ordered(e)
          PROVE  /\ RaiseTarget(e).base = e.base
                 /\ RaiseTarget(e).ceiling = e.ceiling
                 /\ RaiseTarget(e).target >= e.target
                 /\ LiftCeiling(e).base = e.base
                 /\ LiftCeiling(e).ceiling >= e.ceiling
                 /\ LiftCeiling(e).target = e.target
      BY <3>3, FrameConstants DEF RaiseTarget, LiftCeiling, Clamp, Controllers, Ordered
    <3> HIDE DEF d
    <3>4. CASE c.state = "Normal"
      <4>1. c' = Transition(c, "PreHolding")
        BY <2>3, <3>4 DEF onUnderrun, AfterUnderrun
      <4>2. c'.base = c.base /\ c'.target = c.target /\ c'.ceiling = c.ceiling
        BY <2>0, <4>1 DEF Transition, Controllers
      <4>3. c.target \in Nat /\ c.ceiling \in Nat
        BY <2>0 DEF Controllers
      <4> QED
        BY <4>2, <4>3
    <3>5. CASE c.state = "Holding"
      <4>1. c' \in {d, RaiseTarget(LiftCeiling(d))}
        BY <2>3, <3>5 DEF onUnderrun, AfterUnderrun, d
      <4>2. LiftCeiling(d) \in Controllers /\ Ordered(LiftCeiling(d))
        BY <3>1, LiftCeilingSound
      <4>3. /\ LiftCeiling(d).ceiling \in Nat /\ d.ceiling \in Nat
            /\ RaiseTarget(LiftCeiling(d)).ceiling \in Nat
            /\ LiftCeiling(d).target \in Nat /\ d.target \in Nat
            /\ RaiseTarget(LiftCeiling(d)).target \in Nat
        BY <3>1, <4>2, RaiseTargetSound DEF Controllers
      <4> QED
        BY <3>1, <3>2, <3>3, <4>1, <4>2, <4>3
    <3>6. CASE c.state \notin {"Normal", "Holding"}
      <4>1. c' = Transition(RaiseTarget(c), "Holding")
        BY <2>3, <3>6 DEF onUnderrun, AfterUnderrun
      <4>2. RaiseTarget(c) \in Controllers
        BY <2>0, RaiseTargetSound
      <4>3. /\ c'.base = RaiseTarget(c).base
            /\ c'.target = RaiseTarget(c).target
            /\ c'.ceiling = RaiseTarget(c).ceiling
        BY <4>1, <4>2 DEF Transition, Controllers
      <4>4. c.ceiling \in Nat
        BY <2>0 DEF Controllers
      <4> QED
        BY <2>0, <3>3, <4>3, <4>4
    <3> QED
      BY <3>4, <3>5, <3>6
  <2>4. ASSUME NEW b \in Occupancies, onTick(b) PROVE Step
    <3> DEFINE t == TrackCeiling(c, b)
    <3>1. /\ t \in Controllers /\ t.base = c.base /\ t.target = c.target
          /\ t.ceiling >= c.ceiling
      BY <1>1, TrackCeilingSound, TrackCeilingGrows, InputConstants DEF Sound
    <3>2. adaptive' = Settle(t, b)
      BY <2>4 DEF onTick, AfterTick
    <3> HIDE DEF t
    <3>3. c.target \in Nat /\ c.ceiling \in Nat
      BY <2>0 DEF Controllers
    <3> QED
      BY <3>1, <3>2, <3>3, SettleKeepsWatermarks, InputConstants
  <2>5. ASSUME NEW b \in Occupancies, onDiscarded(b) PROVE Step
    BY <2>0, <2>5 DEF onDiscarded, AfterDiscard, Transition, Controllers
  <2>6. ASSUME Elapse PROVE Step
    BY <2>0, <2>6 DEF Elapse, Elapsed, Controllers
  <2> HIDE DEF Step
  <2>7. Next => Step2
    BY <2>1, <2>2, <2>3, <2>4, <2>5, <2>6 DEF Next
  <2> QED
    BY <1>1, <2>7
<1> QED
  BY <1>1, ControllerSound, PTL DEF Spec, FallsOnlyToBase

-----------------------------------------------------------------------------
(* What the caller experienced. *)

\* Without an underrun the watermark is at the base.
RaisedByUnderruns == seen \in 0..2 /\ (seen = 0 => adaptive.target = adaptive.base)

\* A confirmation's clock runs only while the link is quiet.
ClockIsQuiet ==
    /\ quiet \in 0..HOLD_RELEASE
    /\ adaptive.state \in {"PreHolding", "PreEmptying"} => adaptive.elapsed <= quiet

Experienced == RaisedByUnderruns /\ ClockIsQuiet

\* The history only watches.
LEMMA HistoryWatches == [HNext]_hvars => [Next]_adaptive
BY DEF HNext, hvars, Next, Underrun, TimePasses, Reconfigure, Tune, Tick, Discard

\* Counting nothing changes nothing, but in the steady state.
LEMMA CountNothing ==
    ASSUME RaisedByUnderruns, CountUnderruns(0),
           \/ adaptive'.target = adaptive.target /\ adaptive'.base = adaptive.base
           \/ adaptive'.target = adaptive'.base,
           adaptive'.state = "Normal" => adaptive'.target = adaptive'.base
    PROVE  RaisedByUnderruns'
BY DEF RaisedByUnderruns, CountUnderruns

\* What a tick makes of the state, the clock and the watermark.
LEMMA TickMoves ==
    ASSUME NEW c \in Sound, NEW b \in Nat, NEW d, d = AfterTick(c, b)
    PROVE  /\ d.base = c.base /\ d.target \in {c.target, c.base}
           /\ d.state = c.state => d.elapsed = c.elapsed
           /\ d.state # c.state => d.elapsed = 0
           /\ d.state = "PreHolding" => c.state = "PreHolding"
           /\ d.state = "Normal" /\ c.state # "Normal" =>
                  \/ c.state = "PreHolding" /\ c.elapsed >= HOLD_CONFIRM
                  \/ c.state = "PreEmptying" /\ c.elapsed >= DRAIN_CONFIRM
<1> DEFINE t == TrackCeiling(c, b)
           next == NextOnTick(t, b)
<1>1. t \in Sound /\ t.base = c.base /\ t.target = c.target
  BY TrackCeilingSound, TrackCeilingGrows
<1>2. t.state = c.state /\ t.elapsed = c.elapsed
  BY DEF TrackCeiling, Sound, Controllers
<1>3. d = Settle(t, b)
  BY DEF AfterTick
<1> HIDE DEF t
<1>4. t \in Controllers
  BY <1>1 DEF Sound
<1>5. d.base = c.base /\ d.target \in {c.target, c.base}
  BY <1>1, <1>3, <1>4, SettleKeepsWatermarks
<1>6. d.state = next
  BY <1>3, <1>4 DEF Settle, Transition, Controllers
<1>7. d.elapsed = IF next = t.state THEN t.elapsed ELSE 0
  BY <1>3, <1>4 DEF Settle, Transition, Controllers
<1>8. /\ next = "PreHolding" => t.state = "PreHolding"
      /\ next = "Normal" /\ t.state # "Normal" =>
             \/ t.state = "PreHolding" /\ t.elapsed >= HOLD_CONFIRM
             \/ t.state = "PreEmptying" /\ t.elapsed >= DRAIN_CONFIRM
  BY DEF NextOnTick
<1> HIDE DEF next
<1> QED
  BY <1>2, <1>5, <1>6, <1>7, <1>8

\* What an underrun makes of the state and the clock.
LEMMA UnderrunMoves ==
    ASSUME NEW c \in Sound, NEW d, d = AfterUnderrun(c)
    PROVE  \/ d.state = "PreHolding" /\ d.elapsed = 0
           \/ d.state = "Holding"
<1>0. c \in Controllers /\ Ordered(c)
  BY DEF Sound
<1>1. CASE c.state = "Normal"
  BY <1>0, <1>1 DEF AfterUnderrun, Transition, Controllers
<1>2. CASE c.state = "Holding"
  <2> DEFINE e == [c EXCEPT !.underruns = 1]
  <2>1. e \in Controllers /\ Ordered(e) /\ e.state = "Holding"
    BY <1>0, <1>2 DEF Controllers, Ordered
  <2>2. d \in {e, RaiseTarget(LiftCeiling(e))}
    BY <1>2 DEF AfterUnderrun
  <2> HIDE DEF e
  <2> QED
    BY <2>1, <2>2, LiftCeilingSound, RaiseTargetSound
<1>3. CASE c.state \notin {"Normal", "Holding"}
  <2>1. d = Transition(RaiseTarget(c), "Holding") /\ RaiseTarget(c) \in Controllers
    BY <1>0, <1>3, RaiseTargetSound DEF AfterUnderrun
  <2> QED
    BY <2>1 DEF Transition, Controllers
<1> QED
  BY <1>1, <1>2, <1>3

LEMMA ExperienceKept ==
    ASSUME adaptive \in Sound, Experienced, [HNext]_hvars
    PROVE  Experienced'
<1> USE DEF Experienced
<1>0. adaptive \in Controllers /\ adaptive' \in Sound
  BY HistoryWatches, SoundStep DEF Sound
<1>1. adaptive'.state = "Normal" => adaptive'.target = adaptive'.base
  BY <1>0 DEF Sound, AtBase
<1>2. CASE Underrun
  <2>1. RaisedByUnderruns'
    <3>1. seen' = IF adaptive'.state = "Normal" THEN 0
                  ELSE IF seen + 1 > 2 THEN 2 ELSE seen + 1
      BY <1>2 DEF Underrun, CountUnderruns
    <3> QED
      BY <1>1, <3>1 DEF RaisedByUnderruns
  <2>2. quiet' = 0 /\ adaptive' = AfterUnderrun(adaptive)
    BY <1>2 DEF Underrun, onUnderrun
  <2>3. ClockIsQuiet'
    BY <2>2, UnderrunMoves, WindowConstants DEF ClockIsQuiet
  <2> QED
    BY <2>1, <2>3
<1>3. CASE TimePasses
  <2>1. /\ adaptive'.target = adaptive.target /\ adaptive'.base = adaptive.base
        /\ adaptive'.state = adaptive.state
        /\ adaptive'.elapsed = IF adaptive.elapsed < HOLD_RELEASE THEN adaptive.elapsed + 1
                               ELSE adaptive.elapsed
    BY <1>0, <1>3 DEF TimePasses, Elapse, Elapsed, Controllers
  <2>2. RaisedByUnderruns'
    BY <1>1, <1>3, <2>1, CountNothing DEF TimePasses
  <2>3. adaptive.elapsed \in 0..HOLD_RELEASE
    BY <1>0 DEF Controllers
  <2>4. ClockIsQuiet'
    BY <1>3, <2>1, <2>3, WindowConstants DEF TimePasses, ClockIsQuiet
  <2> QED
    BY <2>2, <2>4
<1>4. CASE Reconfigure
  <2>1. PICK n \in Sizes : adaptive' = Configured(adaptive, n)
    BY <1>4 DEF Reconfigure, configure
  <2>2. adaptive'.state = "Normal"
    BY <1>0, <2>1 DEF Configured, Transition, Controllers
  <2>3. RaisedByUnderruns'
    BY <1>1, <1>4, <2>2, CountNothing DEF Reconfigure
  <2> QED
    BY <1>4, <2>2, <2>3 DEF Reconfigure, ClockIsQuiet
<1>5. CASE Tune
  <2>1. /\ adaptive'.target = adaptive.target /\ adaptive'.base = adaptive.base
        /\ adaptive'.state = adaptive.state /\ adaptive'.elapsed = adaptive.elapsed
    BY <1>0, <1>5
    DEF Tune, setPcmTarget, setCatchUp, WithPcmTarget, WithCatchUp, Controllers
  <2>2. RaisedByUnderruns'
    BY <1>1, <1>5, <2>1, CountNothing DEF Tune
  <2> QED
    BY <1>5, <2>1, <2>2 DEF Tune, ClockIsQuiet
<1>6. ASSUME NEW b \in Occupancies, Tick(b) PROVE Experienced'
  <2>1. adaptive' = AfterTick(adaptive, b) /\ b \in Nat
    BY <1>6, InputConstants DEF Tick, onTick
  <2>2. /\ adaptive'.base = adaptive.base
        /\ adaptive'.target \in {adaptive.target, adaptive.base}
        /\ adaptive'.state = adaptive.state => adaptive'.elapsed = adaptive.elapsed
        /\ adaptive'.state # adaptive.state => adaptive'.elapsed = 0
    BY <2>1, TickMoves
  <2>3. RaisedByUnderruns'
    BY <1>1, <1>6, <2>2, CountNothing DEF Tick
  <2>4. ClockIsQuiet'
    BY <1>6, <2>2, WindowConstants DEF Tick, ClockIsQuiet
  <2> QED
    BY <2>3, <2>4
<1>7. ASSUME NEW b \in Occupancies, Discard(b) PROVE Experienced'
  <2>1. /\ adaptive'.target = adaptive.target /\ adaptive'.base = adaptive.base
        /\ adaptive'.state = "Emptying"
    BY <1>0, <1>7 DEF Discard, onDiscarded, AfterDiscard, Transition, Controllers
  <2>2. RaisedByUnderruns'
    BY <1>1, <1>7, <2>1, CountNothing DEF Discard
  <2> QED
    BY <1>7, <2>1, <2>2 DEF Discard, ClockIsQuiet
<1>8. CASE UNCHANGED hvars
  BY <1>8 DEF hvars, RaisedByUnderruns, ClockIsQuiet
<1> QED
  BY <1>2, <1>3, <1>4, <1>5, <1>6, <1>7, <1>8 DEF HNext

\* What the caller experienced agrees with the state the controller is in: the
\* history beside the controller that any caller drives (adaptive_buffer.h:112-222).
THEOREM ControllerExperienced == HSpec => [](adaptive \in Sound /\ Experienced)
<1>1. HInit => adaptive \in Sound /\ Experienced
  <2> SUFFICES ASSUME HInit PROVE adaptive \in Sound /\ Experienced
    OBVIOUS
  <2>1. adaptive = InitialController /\ quiet = HOLD_RELEASE /\ seen = 0
    BY DEF HInit, Init
  <2>2. adaptive.target = adaptive.base /\ adaptive.state = "Normal"
    BY <2>1 DEF InitialController
  <2> QED
    BY <2>1, <2>2, InitialSound, WindowConstants
    DEF Experienced, RaisedByUnderruns, ClockIsQuiet
<1>2. /\ adaptive \in Sound /\ Experienced /\ [HNext]_hvars
      => (adaptive \in Sound /\ Experienced)'
  BY HistoryWatches, SoundStep, ExperienceKept
<1> QED
  BY <1>1, <1>2, PTL DEF HSpec

\* Nothing but an underrun raises the watermark, for every cap, step and window
\* (adaptive_buffer.cpp's three ways to a higher target).
THEOREM ControllerRaisedByUnderruns == HSpec => []OnlyUnderrunsRaise
<1>1. Experienced => OnlyUnderrunsRaise
  BY DEF Experienced, RaisedByUnderruns, OnlyUnderrunsRaise
<1> QED
  BY <1>1, ControllerExperienced, PTL

\* No path through discards and transitions shortens the clean window before
\* the return to the steady state, for windows of every length.
THEOREM ControllerWaitsCleanWindow == HSpec => CleanWindowBeforeNormal
<1> DEFINE Waited == \/ Reconfigure
                     \/ adaptive'.state = "Normal" /\ adaptive.state # "Normal" =>
                          quiet >= IF adaptive.state = "PreHolding" THEN HOLD_CONFIRM
                                                                    ELSE DRAIN_CONFIRM
<1>1. ASSUME adaptive \in Sound, Experienced, HNext PROVE Waited
  <2>0. adaptive \in Controllers /\ adaptive.elapsed \in Nat
    BY <1>1 DEF Sound, Controllers
  <2>1. CASE Underrun
    <3>1. adaptive'.state # "Normal"
      BY <1>1, <2>1, UnderrunMoves DEF Underrun, onUnderrun
    <3> QED
      BY <3>1
  <2>2. CASE TimePasses \/ Tune
    <3>1. adaptive'.state = adaptive.state
      BY <2>0, <2>2 DEF TimePasses, Elapse, Elapsed, Tune, setPcmTarget, setCatchUp,
         WithPcmTarget, WithCatchUp, Controllers
    <3> QED
      BY <3>1
  <2>3. ASSUME NEW b \in Occupancies, Tick(b) PROVE Waited
    <3> SUFFICES ASSUME adaptive'.state = "Normal", adaptive.state # "Normal"
                 PROVE  quiet >= IF adaptive.state = "PreHolding" THEN HOLD_CONFIRM
                                                                  ELSE DRAIN_CONFIRM
      OBVIOUS
    <3>1. adaptive' = AfterTick(adaptive, b) /\ b \in Nat
      BY <2>3, InputConstants DEF Tick, onTick
    <3>2. \/ adaptive.state = "PreHolding" /\ adaptive.elapsed >= HOLD_CONFIRM
          \/ adaptive.state = "PreEmptying" /\ adaptive.elapsed >= DRAIN_CONFIRM
      BY <1>1, <3>1, TickMoves
    <3>3. quiet \in Nat /\ adaptive.elapsed <= quiet
      BY <1>1, <3>2, WindowConstants DEF Experienced, ClockIsQuiet
    <3> QED
      BY <2>0, <3>2, <3>3, WindowConstants
  <2>4. ASSUME NEW b \in Occupancies, Discard(b) PROVE Waited
    <3>1. adaptive'.state = "Emptying"
      BY <2>0, <2>4 DEF Discard, onDiscarded, AfterDiscard, Transition, Controllers
    <3> QED
      BY <3>1
  <2> QED
    BY <1>1, <2>1, <2>2, <2>3, <2>4 DEF HNext
<1> HIDE DEF Waited
<1>2. adaptive \in Sound /\ Experienced /\ [HNext]_hvars => [Waited]_hvars
  BY <1>1
<1>3. HSpec => [][Waited]_hvars
  BY <1>2, ControllerExperienced, PTL DEF HSpec
<1> QED
  BY <1>3 DEF Waited, CleanWindowBeforeNormal
=============================================================================
