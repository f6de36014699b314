--------------------------- MODULE AdaptiveBuffer ---------------------------
(***************************************************************************)
(* The adaptive jitter-buffer watermark controller of the Android player   *)
(* (android/app/src/main/cpp/adaptive_buffer.h).                           *)
(*                                                                         *)
(* The controller is one record; every member function is an operator from *)
(* a record to a record, so that the engine, which calls several of them   *)
(* under one mutex, composes them in a single step.  The specification at  *)
(* the end is the controller on its own, driven by any caller.             *)
(*                                                                         *)
(* Time: `elapsed' is now() - mStateEnteredAt in clock units, saturated at *)
(* the longest window; the code only ever compares it with the windows.    *)
(* mUnderrunsInState is only ever compared with 0: `underruns' is that     *)
(* count, saturated at 1.                                                  *)
(*                                                                         *)
(* An operator named X_<fault> is X with a seeded fault; no definition of  *)
(* the specification uses it.  It is there to show that some property      *)
(* notices when the code would have that fault.                            *)
(***************************************************************************)
EXTENDS Integers

CONSTANTS
    RAISE_STEP_FRAMES,        \* frames one confirmed underrun adds
    HOLD_CONFIRM,             \* the three windows, in clock units
    HOLD_RELEASE,
    DRAIN_CONFIRM,
    CEILING_MARGIN_FRAMES,    \* LATENCY_DIFF_THRESHOLD_MS / MS_PER_FRAME
    CEILING_STEP_FRAMES,      \* DIFF_TARGET_MS / MS_PER_FRAME
    MAX_CEILING_FRAMES,       \* hard cap of the ceiling
    DEFAULT_HEADROOM_FRAMES,  \* room between base and ceiling after configure
    MAX_TUNING_FRAMES,        \* upper clamp of the two advanced settings
    DEFAULT_FRAMES,           \* base, target and ceiling before any configure
    Sizes,                    \* arguments of configure
    Tunings,                  \* arguments of setPcmTarget and setCatchUp
    Occupancies               \* buffered frames a caller may report

ASSUME FrameConstants ==
    /\ RAISE_STEP_FRAMES \in Nat \ {0}
    /\ CEILING_MARGIN_FRAMES \in Nat \ {0}
    /\ CEILING_STEP_FRAMES \in Nat \ {0}
    /\ MAX_CEILING_FRAMES \in Nat \ {0}
    /\ DEFAULT_HEADROOM_FRAMES \in Nat
    /\ MAX_TUNING_FRAMES \in Nat \ {0}
    /\ DEFAULT_FRAMES \in 1..MAX_CEILING_FRAMES
    /\ DEFAULT_FRAMES <= MAX_TUNING_FRAMES

ASSUME WindowConstants ==
    /\ HOLD_CONFIRM \in Nat
    /\ DRAIN_CONFIRM \in Nat
    /\ HOLD_RELEASE \in Nat
    /\ HOLD_CONFIRM <= HOLD_RELEASE
    /\ DRAIN_CONFIRM <= HOLD_RELEASE

ASSUME InputConstants ==
    /\ Sizes \subseteq Int
    /\ Tunings \subseteq Int
    /\ Occupancies \subseteq Nat

-----------------------------------------------------------------------------

QueueState == {"Normal", "PreHolding", "Holding", "PreEmptying", "Emptying"}

Clamp(v, lo, hi) == IF v < lo THEN lo ELSE IF v > hi THEN hi ELSE v

Controllers ==
    [base: Nat, target: Nat, ceiling: Nat,
     pcmTarget: 1..MAX_TUNING_FRAMES, catchUp: 1..MAX_TUNING_FRAMES,
     state: QueueState, elapsed: 0..HOLD_RELEASE, underruns: 0..1]

\* The member initialisers: no headroom until the first configure.
InitialController ==
    [base |-> DEFAULT_FRAMES, target |-> DEFAULT_FRAMES,
     ceiling |-> DEFAULT_FRAMES, pcmTarget |-> DEFAULT_FRAMES, catchUp |-> 1,
     state |-> "Normal", elapsed |-> 0, underruns |-> 0]

Transition_KeepClock(c, next) == [c EXCEPT !.state = next, !.underruns = 0]

Transition(c, next) ==
    [c EXCEPT !.state = next, !.elapsed = 0, !.underruns = 0]

Configured_KeepTarget(c, frames) ==
    LET b == Clamp(frames, 1, MAX_CEILING_FRAMES)
    IN  Transition([c EXCEPT
            !.base    = b,
            !.ceiling = Clamp(b + DEFAULT_HEADROOM_FRAMES, b, MAX_CEILING_FRAMES),
            !.target  = Clamp(@, b, MAX_CEILING_FRAMES)], "Normal")

Configured(c, frames) ==
    LET b == Clamp(frames, 1, MAX_CEILING_FRAMES)
    IN  Transition([c EXCEPT
            !.base    = b,
            !.ceiling = Clamp(b + DEFAULT_HEADROOM_FRAMES, b, MAX_CEILING_FRAMES),
            !.target  = b], "Normal")

WithPcmTarget(c, frames) ==
    [c EXCEPT !.pcmTarget = Clamp(frames, 1, MAX_TUNING_FRAMES)]

WithCatchUp_NoFloor(c, frames) ==
    [c EXCEPT !.catchUp = Clamp(frames, 0, MAX_TUNING_FRAMES)]

WithCatchUp(c, frames) ==
    [c EXCEPT !.catchUp = Clamp(frames, 1, MAX_TUNING_FRAMES)]

ShouldDiscard(c, buffered) == buffered > c.target + c.catchUp

RaiseTarget_Unclamped(c) == [c EXCEPT !.target = @ + RAISE_STEP_FRAMES]

RaiseTarget(c) ==
    [c EXCEPT !.target = Clamp(@ + RAISE_STEP_FRAMES, c.base, c.ceiling)]

LiftCeiling(c) ==
    [c EXCEPT !.ceiling = Clamp(@ + CEILING_STEP_FRAMES, c.base, MAX_CEILING_FRAMES)]

\* An underrun is confirmed by a second one (PreHolding), lifts the ceiling
\* when even the raised watermark starves (Holding), and otherwise undoes a
\* drain (PreEmptying, Emptying).
AfterUnderrun(c) ==
    CASE c.state = "Normal"     -> Transition(c, "PreHolding")
      [] c.state = "Holding"    ->
            LET d == [c EXCEPT !.underruns = 1]
            IN  IF c.ceiling < MAX_CEILING_FRAMES
                THEN RaiseTarget(LiftCeiling(d)) ELSE d
      [] OTHER                  -> Transition(RaiseTarget(c), "Holding")

\* The periodic ceiling growth: relative to the occupancy, not to the ceiling.
TrackCeiling_Ratchet(c, buffered) ==
    IF buffered >= c.ceiling - CEILING_MARGIN_FRAMES THEN LiftCeiling(c) ELSE c

TrackCeiling(c, buffered) ==
    IF /\ c.ceiling < MAX_CEILING_FRAMES
       /\ buffered >= c.ceiling - CEILING_MARGIN_FRAMES
    THEN [c EXCEPT !.ceiling =
            Clamp(buffered + CEILING_STEP_FRAMES, @, MAX_CEILING_FRAMES)]
    ELSE c

NextOnTick_Strict(c, buffered) ==
    CASE /\ c.state = "PreHolding" /\ c.elapsed >= HOLD_CONFIRM   -> "Normal"
      [] /\ c.state = "Holding" /\ buffered >= c.target
         /\ c.elapsed >= HOLD_RELEASE                             -> "PreEmptying"
      [] /\ c.state = "PreEmptying" /\ c.elapsed >= DRAIN_CONFIRM -> "Normal"
      [] /\ c.state = "Emptying" /\ buffered < c.target           -> "PreEmptying"
      [] OTHER                                                    -> c.state

\* The state a tick at this occupancy moves the controller to.
NextOnTick(c, buffered) ==
    CASE /\ c.state = "PreHolding"
         /\ c.elapsed >= HOLD_CONFIRM /\ c.underruns = 0  -> "Normal"
      [] /\ c.state = "Holding"
         /\ buffered >= c.target
         /\ c.elapsed >= HOLD_RELEASE                   -> "PreEmptying"
      [] /\ c.state = "PreEmptying"
         /\ c.elapsed >= DRAIN_CONFIRM /\ c.underruns = 0 -> "Normal"
      [] /\ c.state = "Emptying"
         /\ buffered <= c.target                        -> "PreEmptying"
      [] OTHER                                          -> c.state

Settle_KeepTarget(c, buffered) ==
    IF NextOnTick(c, buffered) = c.state THEN c
    ELSE Transition(c, NextOnTick(c, buffered))

Settle_OneFrame(c, buffered) ==
    IF c.state = "PreEmptying" /\ NextOnTick(c, buffered) = "Normal"
    THEN IF c.target > c.base
         THEN Transition([c EXCEPT !.target = @ - 1], "PreEmptying")
         ELSE Transition(c, "Normal")
    ELSE Settle_KeepTarget(c, buffered)

\* Leaving PreEmptying drops the watermark to the base in one step.
Settle(c, buffered) ==
    LET next == NextOnTick(c, buffered)
        d    == IF c.state = "PreEmptying" /\ next = "Normal"
                THEN [c EXCEPT !.target = c.base] ELSE c
    IN  IF next = c.state THEN c ELSE Transition(d, next)

AfterTick(c, buffered) == Settle(TrackCeiling(c, buffered), buffered)

AfterDiscard(c) ==
    IF c.state = "Emptying" THEN c ELSE Transition(c, "Emptying")

\* One clock unit passes.
Elapsed(c) ==
    [c EXCEPT !.elapsed = IF @ < HOLD_RELEASE THEN @ + 1 ELSE @]

-----------------------------------------------------------------------------
(* The controller on its own. *)

VARIABLE adaptive

Init == adaptive = InitialController

configure(frames)    == adaptive' = Configured(adaptive, frames)
setPcmTarget(frames) == adaptive' = WithPcmTarget(adaptive, frames)
setCatchUp(frames)   == adaptive' = WithCatchUp(adaptive, frames)
onUnderrun           == adaptive' = AfterUnderrun(adaptive)
onTick(buffered)     == adaptive' = AfterTick(adaptive, buffered)

\* onDiscarded is only called from the loop that shouldDiscard guards.
onDiscarded(buffered) ==
    /\ ShouldDiscard(adaptive, buffered)
    /\ adaptive' = AfterDiscard(adaptive)

Elapse == adaptive' = Elapsed(adaptive)

Next ==
    \/ \E n \in Sizes : configure(n)
    \/ \E n \in Tunings : setPcmTarget(n)
    \/ \E n \in Tunings : setCatchUp(n)
    \/ onUnderrun
    \/ \E b \in Occupancies : onTick(b)
    \/ \E b \in Occupancies : onDiscarded(b)
    \/ Elapse

Spec == Init /\ [][Next]_adaptive

-----------------------------------------------------------------------------
(* Properties. *)

\* Every field of the controller keeps its type.
TypeOK == adaptive \in Controllers

\* The watermark never leaves [base, ceiling] and the ceiling never passes the
\* hard cap, whatever sequence of underruns, ticks and discards moves them:
\* target and ceiling are raised by different events and by different steps.
WatermarksOrdered ==
    /\ 1 <= adaptive.base
    /\ adaptive.base <= adaptive.target
    /\ adaptive.target <= adaptive.ceiling
    /\ adaptive.ceiling <= MAX_CEILING_FRAMES

\* The latency is never ratcheted up for good: whatever path leads back to the
\* steady state (or to the confirmation wait that follows it), the watermark
\* in force there is the configured one.
SteadyAtBase ==
    adaptive.state \in {"Normal", "PreHolding"} => adaptive.target = adaptive.base

\* The ceiling growth is self-limiting: a tick that finds the ceiling already
\* a margin above the occupancy leaves it alone, so a constant occupancy moves
\* it at most once.
CeilingSelfLimiting ==
    [][\A b \in Occupancies :
          onTick(b) /\ b + CEILING_STEP_FRAMES <= adaptive.ceiling
              => adaptive'.ceiling = adaptive.ceiling]_adaptive

\* Between two configures the ceiling never comes down and the base never
\* moves; the watermark comes down only back to the base.
FallsOnlyToBase ==
    [][\/ \E n \in Sizes : configure(n)
       \/ /\ adaptive'.base = adaptive.base
          /\ adaptive'.ceiling >= adaptive.ceiling
          /\ \/ adaptive'.target >= adaptive.target
             \/ adaptive'.target = adaptive.base]_adaptive
=============================================================================
