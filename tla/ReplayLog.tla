------------------------------ MODULE ReplayLog ------------------------------
(***************************************************************************)
(* What a streaming session promises about retransmissions, without        *)
(* saying how: a log of everything encoded so far, one frame per media     *)
(* tick from 0, of which the last `Capacity' frames since the last         *)
(* `Forget' can be had again, each under the tick it was first sent with.  *)
(* StreamWorker implements it with a bounded deque of (tick, frame) pairs  *)
(* that it never compares with the history.                                *)
(***************************************************************************)
EXTENDS Integers, Sequences

CONSTANT Capacity

VARIABLES
    log,    \* every frame encoded for the receiver; the frame of tick t is log[t + 1]
    low,    \* the oldest tick that can be had again
    out     \* what was last put on the network, if anything

logVars == <<log, low, out>>

Answer(t, f) == <<[tick |-> t, frame |-> f]>>

LogInit == log = << >> /\ low = 0 /\ out = << >>

\* A frame, any frame, is logged under the next tick, whether or not the packet
\* leaves.
Emit ==
    /\ Len(log') = Len(log) + 1
    /\ SubSeq(log', 1, Len(log)) = log
    /\ low' = IF Len(log) - low = Capacity THEN low + 1 ELSE low
    /\ out' \in {out, Answer(Len(log), log'[Len(log')])}

\* A retransmission carries the logged frame of a tick inside the window.
Serve(t) ==
    /\ out' \in {out, Answer(t, log[t + 1])}
    /\ UNCHANGED <<log, low>>

Forget == low' = Len(log) /\ UNCHANGED <<log, out>>

LogNext ==
    \/ Emit
    \/ \E t \in low..Len(log) - 1 : Serve(t)
    \/ Forget

LogSpec == LogInit /\ [][LogNext]_logVars
=============================================================================
