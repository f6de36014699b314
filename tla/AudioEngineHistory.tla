------------------------- MODULE AudioEngineHistory -------------------------
(***************************************************************************)
(* The playback engine with what an observer of the timeline remembers     *)
(* since the last reset: `received', the ticks that entered the jitter     *)
(* buffer; `lastOut', the last tick given to the codec (-1: none); `stale',*)
(* whether a reset overtook the frame the decode thread is working on; and *)
(* `asked', the resend requests made so far for the gap that ends just     *)
(* before the same queued packet (`gapEnd').                               *)
(***************************************************************************)
EXTENDS AudioEngine

VARIABLES received, lastOut, stale, gapEnd, asked

hist == <<received, lastOut, stale, gapEnd, asked>>
allVars == <<vars, hist>>

HistInit ==
    /\ EngineInit
    /\ received = {} /\ lastOut = -1 /\ stale = FALSE
    /\ gapEnd = -1 /\ asked = 0

Emits == pc \in {"top", "asleep"} /\ pc' \in {"requesting", "decoding"}

DecodeStep ==
    /\ DecodeTop \/ DecodeWake \/ DecodeTimeout
    /\ lastOut' = IF Emits THEN work'.tick ELSE lastOut
    /\ stale' = FALSE
    /\ UNCHANGED <<received, gapEnd, asked>>

SleepStep == DecodeSleep /\ UNCHANGED hist

RequestStep ==
    /\ RequestResend
    /\ gapEnd' = work.last
    /\ asked' = Cardinality(Requested) + IF gapEnd = work.last THEN asked ELSE 0
    /\ UNCHANGED <<received, lastOut, stale>>

AppendStep == DecodeAppend /\ UNCHANGED hist

PushStep ==
    /\ \E t \in Ticks : pushPacket(t) /\ received' = received \cup {t}
    /\ UNCHANGED <<lastOut, stale, gapEnd, asked>>

ResetStep ==
    /\ \/ resetInternal \/ start
       \/ \E n \in Sizes : setBufferSize(n)
    /\ received' = {} /\ lastOut' = -1 /\ gapEnd' = -1 /\ asked' = 0
    /\ stale' = (pc' \in {"requesting", "decoding"})

OtherStep ==
    /\ \/ onAudioReady \/ openStream \/ stop \/ joined
       \/ clockUnit \/ cooledDown
       \/ \E m, n \in Tunings : updateAdvancedSettings(m, n)
    /\ UNCHANGED hist

HistNext ==
    \/ DecodeStep
    \/ SleepStep
    \/ RequestStep
    \/ AppendStep
    \/ PushStep
    \/ ResetStep
    \/ OtherStep

HistSpec == HistInit /\ [][HistNext]_allVars

-----------------------------------------------------------------------------

\* Between two resets the codec is given each tick at most once and in the
\* order of the media timeline, played or concealed, although packets come
\* late, twice or out of order, the queue overflows and the catch-up loop and
\* the resynchronisation skip parts of the timeline.
InTimelineOrder ==
    [][Emits => work'.tick > lastOut]_allVars

-----------------------------------------------------------------------------
(* What the documentation says and the code does not do (README.md, section *)
(* Divergences, names the step that breaks each). *)

\* native-lib.cpp:92 calls the reset "Atomic & Synced": no frame taken before a
\* reset reaches the inventory after it.
ResetIsAtomic == [][DecodeAppend /\ pcm' # pcm => ~stale]_allVars

\* server/src/network.rs:51: the client requests "only the packets that
\* actually went missing": a requested tick was never received.
AsksOnlyForMissing ==
    pc = "requesting" /\ ~stale => Requested \cap received = {}

\* native-lib.cpp:230-232: the sender is asked "before we conceal audio that
\* still exists upstream": no requested tick has been passed already.
AsksBeforeConcealing ==
    pc = "requesting" /\ ~stale => \A t \in Requested : t >= expected

\* README.md:123 (and native-lib.cpp:249): at most MAX_REQUESTS requests are
\* made for one gap.
GapRequestsCapped == asked <= MAX_REQUESTS
=============================================================================
