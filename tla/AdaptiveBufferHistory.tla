------------------------ MODULE AdaptiveBufferHistory ------------------------
(***************************************************************************)
(* The watermark controller together with what its caller experienced:     *)
(* `quiet', the clock units since the last underrun (saturated at the      *)
(* longest window), and `seen', the underruns since the controller was     *)
(* last in its steady state (saturated at 2).  The controller's own        *)
(* mUnderrunsInState and mStateEnteredAt restart with every transition,    *)
(* so what they say about the link is exactly what is in question.         *)
(***************************************************************************)
EXTENDS AdaptiveBuffer

VARIABLES quiet, seen

hvars == <<adaptive, quiet, seen>>

HInit == Init /\ quiet = HOLD_RELEASE /\ seen = 0

CountUnderruns(n) ==
    seen' = IF adaptive'.state = "Normal" THEN 0
            ELSE IF seen + n > 2 THEN 2 ELSE seen + n

Underrun == onUnderrun /\ quiet' = 0 /\ CountUnderruns(1)

TimePasses ==
    /\ Elapse
    /\ quiet' = IF quiet < HOLD_RELEASE THEN quiet + 1 ELSE quiet
    /\ CountUnderruns(0)

Reconfigure ==
    /\ \E n \in Sizes : configure(n)
    /\ UNCHANGED quiet /\ CountUnderruns(0)

Tune ==
    /\ \E n \in Tunings : setPcmTarget(n) \/ setCatchUp(n)
    /\ UNCHANGED quiet /\ CountUnderruns(0)

Tick(b) == onTick(b) /\ UNCHANGED quiet /\ CountUnderruns(0)

Discard(b) == onDiscarded(b) /\ UNCHANGED quiet /\ CountUnderruns(0)

HNext ==
    \/ Underrun
    \/ TimePasses
    \/ Reconfigure
    \/ Tune
    \/ \E b \in Occupancies : Tick(b)
    \/ \E b \in Occupancies : Discard(b)

HSpec == HInit /\ [][HNext]_hvars

\* Time does not stop; nothing else is assumed of the caller.
FairSpec == HSpec /\ WF_hvars(TimePasses)

-----------------------------------------------------------------------------

\* The watermark returns to the base, and the controller to its steady state,
\* only after the link really was clean for the window of the state it leaves:
\* no path through a discard or a transition shortens it.
CleanWindowBeforeNormal ==
    [][\/ Reconfigure
       \/ adaptive'.state = "Normal" /\ adaptive.state # "Normal" =>
            quiet >= IF adaptive.state = "PreHolding" THEN HOLD_CONFIRM
                                                      ELSE DRAIN_CONFIRM]_hvars

\* No underrun since the controller left the steady state means a base
\* watermark: nothing but an underrun ever raises it.
OnlyUnderrunsRaise == seen = 0 => adaptive.target = adaptive.base

Disturbance == Underrun \/ Reconfigure \/ \E b \in Occupancies : Discard(b)

\* A tick of the audio clock that finds the occupancy at the watermark: what a
\* clean link gives, its occupancy crossing the watermark a frame at a time.
AtWatermark == adaptive.target \in Occupancies /\ Tick(adaptive.target)

\* A link that stays clean brings every raised watermark back to the configured
\* latency and keeps it there, from whatever state the last disturbance left:
\* no state waits for an event that only a disturbance would bring.
Recovery ==
    <>[][~Disturbance]_hvars /\ WF_hvars(AtWatermark)
        => <>[](adaptive.state = "Normal" /\ adaptive.target = adaptive.base)

-----------------------------------------------------------------------------
(* What the documentation says and the code does not do (README.md, section *)
(* Divergences, names the step that breaks each). *)

\* adaptive_buffer.h:46 calls the windows "How long an underrun-free stretch
\* must last before changing state": leaving Holding too takes a clean window.
CleanWindowBeforeRelease ==
    [][adaptive.state = "Holding" /\ adaptive'.state = "PreEmptying"
            => quiet >= HOLD_RELEASE]_hvars

\* README.md and adaptive_buffer.h:19 say one stray underrun does not raise the
\* latency: a raised watermark has at least two underruns behind it.
RaiseIsConfirmed == adaptive.target > adaptive.base => seen >= 2
=============================================================================
