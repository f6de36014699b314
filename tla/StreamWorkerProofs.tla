------------------------- MODULE StreamWorkerProofs -------------------------
(***************************************************************************)
(* The retransmission service of the audio worker, for every cache size,   *)
(* channel size, warm-up and stream length.                                *)
(*                                                                         *)
(* The invariant ties the cache to the history of the stream: entry i of   *)
(* the cache is the frame first stored for tick - Len(cache) + i - 1, and  *)
(* it was encoded with the present configuration.  The second half needs   *)
(* that the silence of a warm-up is of the present encoder too, which no   *)
(* checked property says.                                                  *)
(***************************************************************************)
EXTENDS StreamWorker, TLAPS

Backed(c, t, fs, e) ==
    \A i \in 1..Len(c) :
        /\ c[i].tick = t - Len(c) + i - 1
        /\ c[i].tick + 1 \in 1..Len(fs)
        /\ c[i].frame = fs[c[i].tick + 1]
        /\ c[i].frame.config = e

Exact(w, fs) ==
    \A i \in 1..Len(w) : w[i].flag = 1 =>
        /\ w[i].tick + 1 \in 1..Len(fs)
        /\ w[i].frame = fs[w[i].tick + 1]

Faithful ==
    /\ Len(first) = tick
    /\ Backed(cache, tick, first, encoder)
    /\ worker = "warming" => silence.config = encoder
    /\ Exact(wire, first)

\* What store does to a cache: it stays bounded, and gains one entry after
\* the last entries it had.
LEMMA StoreShape ==
    ASSUME NEW c \in Seq(Entries), Len(c) <= RESEND_CACHE_SIZE,
           NEW t \in Nat, NEW f \in Frames
    PROVE  LET s == Store(c, t, f)
               k == IF Len(c) >= RESEND_CACHE_SIZE THEN 1 ELSE 0
           IN  /\ s \in Seq(Entries)
               /\ Len(s) = Len(c) - k + 1 /\ Len(s) <= RESEND_CACHE_SIZE
               /\ s[Len(s)] = [tick |-> t, frame |-> f]
               /\ \A i \in 1..Len(s) - 1 : i + k \in 1..Len(c) /\ s[i] = c[i + k]
<1> DEFINE new == [tick |-> t, frame |-> f]
<1>0. new \in Entries
  BY DEF Entries
<1> HIDE DEF new
<1>1. CASE Len(c) >= RESEND_CACHE_SIZE
  <2> DEFINE d == Tail(c)
  <2>1. /\ d \in Seq(Entries) /\ Len(d) = Len(c) - 1
        /\ \A i \in 1..Len(d) : d[i] = c[i + 1]
    BY <1>1, WorkerConstants
  <2>2. Store(c, t, f) = Append(d, new)
    BY <1>1 DEF Store, new
  <2> HIDE DEF d
  <2>3. /\ Append(d, new) \in Seq(Entries) /\ Len(Append(d, new)) = Len(d) + 1
        /\ Append(d, new)[Len(d) + 1] = new
        /\ \A i \in 1..Len(d) : Append(d, new)[i] = d[i]
    BY <1>0, <2>1
  <2> QED
    BY <1>1, <2>1, <2>2, <2>3, WorkerConstants DEF new
<1>2. CASE Len(c) < RESEND_CACHE_SIZE
  <2>1. Store(c, t, f) = Append(c, new)
    BY <1>2, WorkerConstants DEF Store, new
  <2>2. /\ Append(c, new) \in Seq(Entries) /\ Len(Append(c, new)) = Len(c) + 1
        /\ Append(c, new)[Len(c) + 1] = new
        /\ \A i \in 1..Len(c) : Append(c, new)[i] = c[i]
    BY <1>0
  <2> QED
    BY <1>2, <2>1, <2>2, WorkerConstants DEF new
<1> QED
  BY <1>1, <1>2, WorkerConstants

\* A longer history keeps what it had.
LEMMA HistoryGrows ==
    ASSUME NEW fs \in Seq(Frames), NEW f \in Frames
    PROVE  LET gs == Append(fs, f)
           IN  /\ gs \in Seq(Frames) /\ Len(gs) = Len(fs) + 1 /\ gs[Len(gs)] = f
               /\ \A j \in 1..Len(fs) : j \in 1..Len(gs) /\ gs[j] = fs[j]
OBVIOUS

\* Storing the frame of the next tick keeps the cache backed by the history.
LEMMA StoreBacked ==
    ASSUME NEW c \in Seq(Entries), Len(c) <= RESEND_CACHE_SIZE,
           NEW t \in Nat, NEW f \in Frames, NEW fs \in Seq(Frames),
           NEW e \in Configs,
           Len(fs) = t, f.config = e, Backed(c, t, fs, e)
    PROVE  Backed(Store(c, t, f), t + 1, Append(fs, f), e)
<1> DEFINE s == Store(c, t, f)
           gs == Append(fs, f)
           k == IF Len(c) >= RESEND_CACHE_SIZE THEN 1 ELSE 0
<1>1. /\ Len(s) = Len(c) - k + 1
      /\ s[Len(s)] = [tick |-> t, frame |-> f]
      /\ \A i \in 1..Len(s) - 1 : i + k \in 1..Len(c) /\ s[i] = c[i + k]
  BY StoreShape
<1>2. /\ Len(gs) = t + 1 /\ gs[t + 1] = f
      /\ \A j \in 1..t : j \in 1..Len(gs) /\ gs[j] = fs[j]
  BY HistoryGrows
<1>3. Len(c) \in Nat /\ k \in {0, 1} /\ Len(s) \in Nat
  BY <1>1, WorkerConstants
<1> HIDE DEF s, gs, k
<1>4. ASSUME NEW i \in 1..Len(s)
      PROVE  /\ s[i].tick = t + 1 - Len(s) + i - 1
             /\ s[i].tick + 1 \in 1..Len(gs)
             /\ s[i].frame = gs[s[i].tick + 1]
             /\ s[i].frame.config = e
  <2>1. CASE i = Len(s)
    BY <1>1, <1>2, <1>3, <2>1
  <2>2. CASE i \in 1..Len(s) - 1
    <3>1. /\ i + k \in 1..Len(c) /\ s[i] = c[i + k]
          /\ s[i].tick = t - Len(c) + (i + k) - 1
          /\ s[i].tick + 1 \in 1..Len(fs)
          /\ s[i].frame = fs[s[i].tick + 1]
          /\ s[i].frame.config = e
      BY <1>1, <2>2 DEF Backed
    <3>2. s[i].tick = t + 1 - Len(s) + i - 1
      BY <1>1, <1>3, <2>2, <3>1
    <3> QED
      BY <1>2, <3>1, <3>2
  <2> QED
    BY <1>3, <2>1, <2>2
<1> QED
  BY <1>4 DEF Backed, s, gs

-----------------------------------------------------------------------------
(* Type correctness: one step per action.  TypeOK bounds the counters of   *)
(* the loops, and is inductive together with the states they are used in.  *)

Counters ==
    /\ worker = "warming" => warm >= 1
    /\ worker = "polling" => polls >= 1
    /\ IF worker = "framing" THEN pcm >= 2 ELSE pcm <= 1

Typed == TypeOK /\ Counters

\* What the channel operations keep.
LEMMA ChannelFacts ==
    ASSUME NEW S, NEW s \in Seq(S), NEW e \in S
    PROVE  /\ Append(s, e) \in Seq(S) /\ Len(Append(s, e)) = Len(s) + 1
           /\ <<e>> \in Seq(S) /\ Len(<<e>>) = 1 /\ <<e>>[1] = e
OBVIOUS

\* What recv leaves.
LEMMA HeadFacts ==
    ASSUME NEW S, NEW s \in Seq(S), s # << >>
    PROVE  /\ s[1] \in S
           /\ Tail(s) \in Seq(S) /\ Len(Tail(s)) = Len(s) - 1
OBVIOUS

\* What an awaited send leaves.
LEMMA JoinFacts ==
    ASSUME NEW S, NEW s \in Seq(S), NEW u \in Seq(S)
    PROVE  s \o u \in Seq(S) /\ Len(s \o u) = Len(s) + Len(u)
OBVIOUS

\* An empty channel is a channel.
LEMMA EmptyFacts == ASSUME NEW S PROVE << >> \in Seq(S) /\ Len(<< >>) = 0
OBVIOUS

\* validate_config clamps into its range.
LEMMA ValidInRange == \A raw \in Int : Valid(raw) \in Configs
BY WorkerConstants DEF Valid, Configs

\* What the session puts into the channel, and what the worker sends.
LEMMA Built ==
    /\ \A t \in Nat : [op |-> "Resend", arg |-> t] \in Commands
    /\ \A n \in Configs : [op |-> "Reconfigure", arg |-> n] \in Commands
    /\ \A r \in Switch : [op |-> "SetRedundancy", arg |-> r] \in Commands
    /\ \A t, q \in Nat, f \in Frames, b \in {0, 1} :
           [tick |-> t, seq |-> q, flag |-> b, frame |-> f] \in Packets
BY DEF Commands, Packets

\* What the worker finds in a command.
LEMMA CommandArgs ==
    /\ \A c \in Commands : c.op = "Reconfigure" => c.arg \in Configs
    /\ \A c \in Commands : c.op = "SetRedundancy" => c.arg \in Switch
BY DEF Commands

\* A frame is of the encoder that made it.
LEMMA NextFrameTyped ==
    TypeOK => NextFrame \in Frames /\ NextFrame.config = encoder
BY DEF TypeOK, NextFrame, Frames

\* Sending and storing a frame keeps the types.
LEMMA TransmitTyped ==
    ASSUME TypeOK, NEW f \in Frames, Transmit(f)
    PROVE  /\ tick' \in Nat /\ seq' \in Nat
           /\ cache' \in Seq(Entries) /\ Len(cache') <= RESEND_CACHE_SIZE
           /\ wire' \in Seq(Packets) /\ Len(wire') <= 1
           /\ first' \in Seq(Frames)
<1> DEFINE p == [tick |-> tick, seq |-> seq, flag |-> 0, frame |-> f]
           w == <<p>>
<1>1. p \in Packets
  BY Built DEF TypeOK
<1>2. w \in Seq(Packets) /\ Len(w) <= 1
  BY <1>1, ChannelFacts
<1>3. wire' \in Seq(Packets) /\ Len(wire') <= 1
  <2>1. wire' = w \/ wire' = wire
    BY DEF Transmit, SendAudio
  <2>2. wire \in Seq(Packets) /\ Len(wire) <= 1
    BY DEF TypeOK
  <2> HIDE DEF w
  <2> QED
    BY <1>2, <2>1, <2>2
<1>4. cache' \in Seq(Entries) /\ Len(cache') <= RESEND_CACHE_SIZE
  BY StoreShape DEF TypeOK, Transmit
<1>5. first' \in Seq(Frames)
  BY HistoryGrows DEF TypeOK, Transmit
<1> QED
  BY <1>3, <1>4, <1>5 DEF TypeOK, Transmit

\* A retransmission, if it gets out at all, is built from an entry of the cache.
LEMMA RetransmissionTyped ==
    ASSUME TypeOK, NEW t, NEW e \in Get(cache, t), SendRetransmission(e)
    PROVE  /\ \E i \in 1..Len(cache) : e = cache[i]
           /\ \/ wire' = wire
              \/ /\ wire' \in Seq(Packets) /\ Len(wire') = 1
                 /\ wire'[1].tick = e.tick /\ wire'[1].frame = e.frame
<1> DEFINE p == [tick |-> e.tick, seq |-> seq, flag |-> 1, frame |-> e.frame]
<1>1. \E i \in 1..Len(cache) : e = cache[i]
  BY DEF Get, TypeOK
<1>2. e \in Entries
  BY <1>1 DEF TypeOK
<1>3. e.tick \in Nat /\ e.frame \in Frames
  BY <1>2 DEF Entries
<1>4. p \in Packets
  BY <1>3, Built DEF TypeOK
<1>5. p.tick = e.tick /\ p.frame = e.frame
  OBVIOUS
<1> HIDE DEF p
<1>6. wire' = <<p>> \/ wire' = wire
  BY DEF SendRetransmission, p
<1>7. CASE wire' = <<p>>
  <2>1. wire' \in Seq(Packets) /\ Len(wire') = 1 /\ wire'[1] = p
    BY <1>4, <1>7
  <2> QED
    BY <1>1, <1>5, <2>1
<1>8. CASE wire' = wire
  BY <1>1, <1>8
<1> QED
  BY <1>6, <1>7, <1>8

\* Every action keeps types and counters.
LEMMA TypeStep == Typed /\ [Next]_vars => Typed'
<1> SUFFICES ASSUME Typed, [Next]_vars PROVE Typed'
  OBVIOUS
<1> USE DEF task, encoding, media, Typed, Counters
<1>0. TypeOK
  OBVIOUS
<1>1. ASSUME NEW t \in 0..MaxTick, OnResend(t) PROVE Typed'
  <2> DEFINE c == [op |-> "Resend", arg |-> t]
  <2>1. c \in Commands
    BY Built, WorkerConstants
  <2> HIDE DEF c
  <2>2. cmds' = Append(cmds, c) /\ Len(cmds) < CHANNEL
    BY <1>1 DEF OnResend, c
  <2>3. cmds' \in Seq(Commands) /\ Len(cmds') <= CHANNEL
    BY <1>0, <2>1, <2>2, ChannelFacts, WorkerConstants DEF TypeOK
  <2> QED
    BY <1>1, <2>3 DEF TypeOK, OnResend
<1>2. ASSUME NEW raw \in RawConfigs, OnConfig(raw) PROVE Typed'
  <2>1. current' \in Configs /\ changes' \in 0..MaxChanges
    BY <1>2, ValidInRange, WorkerConstants DEF TypeOK, OnConfig
  <2>2. pending' \in Seq(Commands) /\ Len(pending') <= 1
    BY <1>2, <2>1, Built DEF OnConfig
  <2> QED
    BY <1>2, <2>1, <2>2 DEF TypeOK, OnConfig
<1>3. ASSUME NEW r \in Switch, OnSetRedundancy(r) PROVE Typed'
  <2>1. pending' \in Seq(Commands) /\ Len(pending') <= 1
    BY <1>3, Built DEF OnSetRedundancy
  <2> QED
    BY <1>3, <2>1 DEF TypeOK, OnSetRedundancy
<1>4. CASE CompleteSend
  <2>1. cmds' \in Seq(Commands) /\ Len(cmds') <= CHANNEL
    <3> DEFINE s == cmds \o pending
    <3>1. s \in Seq(Commands) /\ Len(s) = Len(cmds) + Len(pending)
      BY <1>0, JoinFacts DEF TypeOK
    <3>2. \/ cmds' = s /\ Len(cmds) < CHANNEL
          \/ cmds' = cmds
      BY <1>4 DEF CompleteSend
    <3> HIDE DEF s
    <3>3. Len(cmds) \in Nat /\ Len(pending) \in Nat /\ Len(pending) <= 1
      BY <1>0 DEF TypeOK
    <3> QED
      BY <1>0, <3>1, <3>2, <3>3, WorkerConstants DEF TypeOK
  <2>2. pending' \in Seq(Commands) /\ Len(pending') <= 1
    BY <1>4, EmptyFacts DEF CompleteSend
  <2> QED
    BY <1>4, <2>1, <2>2 DEF TypeOK, CompleteSend
<1>5. CASE Leave
  BY <1>5 DEF TypeOK, Leave
<1>6. CASE Joined
  BY <1>6 DEF TypeOK, Joined
<1>7. CASE StartFails
  BY <1>7 DEF TypeOK, StartFails
<1>8. CASE StartWarmUp
  BY <1>8, NextFrameTyped, WorkerConstants DEF TypeOK, StartWarmUp, Encode
<1>9. CASE WarmUp
  <2>1. warm' \in 0..WARM_UP /\ (warm # 1 => warm' >= 1)
    BY <1>9, WorkerConstants DEF TypeOK, WarmUp
  <2>2. silence \in Frames /\ Transmit(silence)
    BY <1>9 DEF TypeOK, WarmUp
  <2> QED
    BY <1>9, <2>1, <2>2, TransmitTyped DEF TypeOK, WarmUp
<1>10. CASE Interval
  BY <1>10, WorkerConstants DEF TypeOK, Interval
<1>11. ASSUME NEW n \in 1..MaxChunk, Captured(n) PROVE Typed'
  <2>1. /\ pcm' \in 0..MaxChunk + 1 /\ polls' \in 0..POLLS
        /\ worker' \in {"framing", "select", "polling"}
        /\ worker' = "framing" => pcm' >= 2
        /\ worker' # "framing" => pcm' <= 1
        /\ worker' = "polling" => polls' >= 1
    BY <1>11, WorkerConstants DEF TypeOK, Captured, EndPolls
  <2> QED
    BY <1>11, <2>1 DEF TypeOK, Captured
<1>12. CASE NothingCaptured
  BY <1>12 DEF TypeOK, NothingCaptured
<1>13. CASE DeviceChanged
  <2>1. /\ pcm' \in 0..MaxChunk + 1 /\ polls' \in 0..POLLS /\ pcm' = 0
        /\ worker' \in {"select", "polling"}
        /\ worker' = "polling" => polls' >= 1
    BY <1>13, WorkerConstants DEF TypeOK, DeviceChanged, EndPolls
  <2> QED
    BY <1>13, <2>1 DEF TypeOK, DeviceChanged
<1>14. ASSUME worker = "framing", AfterFrame, polls' = polls
       PROVE  /\ pcm' \in 0..MaxChunk + 1
              /\ worker' \in {"framing", "select", "polling"}
              /\ worker' = "framing" => pcm' >= 2
              /\ worker' # "framing" => pcm' <= 1
              /\ worker' = "polling" => polls' >= 1
  BY <1>14, WorkerConstants DEF TypeOK, AfterFrame
<1>15. CASE SendFrame
  <2>1. serial' \in Nat
    BY <1>15 DEF TypeOK, SendFrame, Encode
  <2>2. NextFrame \in Frames /\ Transmit(NextFrame)
    BY <1>15, NextFrameTyped DEF SendFrame
  <2> QED
    BY <1>14, <1>15, <2>1, <2>2, TransmitTyped DEF TypeOK, SendFrame
<1>16. CASE FrameNotEncoded
  BY <1>14, <1>16 DEF TypeOK, FrameNotEncoded
<1>17. ASSUME NEW op, Receives(op), cmds' = Tail(cmds)
       PROVE  /\ cmds' \in Seq(Commands) /\ Len(cmds') <= CHANNEL
              /\ cmds[1] \in Commands /\ cmds[1].op = op
  BY <1>0, <1>17, HeadFacts, WorkerConstants DEF TypeOK, Receives
<1>18. CASE OnReconfigure
  <2>1. wanted' \in Configs
    BY <1>17, <1>18, CommandArgs DEF OnReconfigure
  <2> QED
    BY <1>17, <1>18, <2>1 DEF TypeOK, OnReconfigure, Receives
<1>19. CASE Reconfigured
  <2>1. cache' \in Seq(Entries) /\ Len(cache') <= RESEND_CACHE_SIZE
    BY <1>19, EmptyFacts, WorkerConstants DEF Reconfigured
  <2> QED
    BY <1>19, <2>1, WorkerConstants DEF TypeOK, Reconfigured
<1>20. CASE SetRedundancy
  <2>1. doubled' \in Switch
    BY <1>17, <1>20, CommandArgs DEF SetRedundancy
  <2> QED
    BY <1>17, <1>20, <2>1 DEF TypeOK, SetRedundancy
<1>21. CASE Resend
  <2>1. CASE UNCHANGED media
    BY <1>17, <1>21, <2>1 DEF TypeOK, Resend
  <2>2. ASSUME NEW e \in Get(cache, cmds[1].arg), SendRetransmission(e) PROVE Typed'
    <3>1. wire' = wire \/ (wire' \in Seq(Packets) /\ Len(wire') = 1)
      BY <1>0, <2>2, RetransmissionTyped
    <3>2. wire' \in Seq(Packets) /\ Len(wire') <= 1
      <4>1. CASE wire' = wire
        BY <1>0, <4>1 DEF TypeOK
      <4>2. CASE wire' \in Seq(Packets) /\ Len(wire') = 1
        BY <4>2
      <4> QED
        BY <3>1, <4>1, <4>2
    <3>3. tick' = tick /\ seq' = seq /\ cache' = cache /\ first' = first
      BY <2>2 DEF SendRetransmission
    <3>4. cmds' \in Seq(Commands) /\ Len(cmds') <= CHANNEL
      BY <1>17, <1>21 DEF Resend
    <3>5. UNCHANGED <<task, worker, encoding, doubled, polls, warm, pcm, serial>>
      BY <1>21 DEF Resend
    <3> QED
      BY <1>0, <3>2, <3>3, <3>4, <3>5 DEF TypeOK
  <2> QED
    BY <1>21, <2>1, <2>2 DEF Resend
<1>22. CASE Stopped
  BY <1>22 DEF TypeOK, Stopped
<1>23. CASE UNCHANGED vars
  BY <1>23 DEF TypeOK, vars
<1> QED
  BY <1>1, <1>2, <1>3, <1>4, <1>5, <1>6, <1>7, <1>8, <1>9, <1>10, <1>11, <1>12, <1>13,
     <1>15, <1>16, <1>18, <1>19, <1>20, <1>21, <1>22, <1>23 DEF Next, Session, Working

\* A session starts well typed.
LEMMA TypeInit == Init => Typed
<1> SUFFICES ASSUME Init PROVE Typed
  OBVIOUS
<1>1. current \in Configs
  BY ValidInRange, WorkerConstants DEF Init
<1>2. silence \in Frames
  BY <1>1 DEF Init, Frames
<1>3. /\ cmds \in Seq(Commands) /\ Len(cmds) <= CHANNEL
      /\ pending \in Seq(Commands) /\ Len(pending) <= 1
      /\ cache \in Seq(Entries) /\ Len(cache) <= RESEND_CACHE_SIZE
      /\ wire \in Seq(Packets) /\ Len(wire) <= 1
      /\ first \in Seq(Frames)
  BY EmptyFacts, WorkerConstants DEF Init
<1>4. /\ polls \in 0..POLLS /\ warm \in 0..WARM_UP /\ pcm \in 0..(MaxChunk + 1)
      /\ changes \in 0..MaxChanges
  BY WorkerConstants DEF Init
<1>5. TypeOK
  BY <1>1, <1>2, <1>3, <1>4 DEF Init, TypeOK
<1> QED
  BY <1>5 DEF Init, Typed, Counters

\* Every variable keeps its type, and cache and channel their bounds.
THEOREM WorkerTypeOK == Spec => []TypeOK
<1>1. Typed => TypeOK
  BY DEF Typed
<1> QED
  BY <1>1, TypeInit, TypeStep, PTL DEF Spec

-----------------------------------------------------------------------------
(* The cache and the wire are faithful to the history. *)

\* A longer history backs what a shorter one did.
LEMMA ExactGrows ==
    ASSUME NEW w \in Seq(Packets), NEW fs \in Seq(Frames), NEW f \in Frames,
           Exact(w, fs)
    PROVE  Exact(w, Append(fs, f))
<1> DEFINE gs == Append(fs, f)
<1>1. \A j \in 1..Len(fs) : j \in 1..Len(gs) /\ gs[j] = fs[j]
  BY HistoryGrows
<1> HIDE DEF gs
<1>2. Exact(w, gs)
  BY <1>1 DEF Exact
<1> QED
  BY <1>2 DEF gs

\* A fresh packet is no retransmission.
LEMMA TransmitFaithful ==
    ASSUME Typed, Faithful, NEW f \in Frames, f.config = encoder, Transmit(f)
    PROVE  /\ Len(first') = tick'
           /\ Backed(cache', tick', first', encoder)
           /\ Exact(wire', first')
<1>0. TypeOK /\ Len(first) = tick
  BY DEF Typed, Faithful
<1>1. Len(first') = tick'
  BY <1>0, HistoryGrows DEF TypeOK, Transmit
<1>2. Backed(cache', tick', first', encoder)
  BY <1>0, StoreBacked DEF TypeOK, Faithful, Transmit
<1>3. Exact(wire', first')
  <2>1. ASSUME wire' = <<[tick |-> tick, seq |-> seq, flag |-> 0, frame |-> f]>>
        PROVE  Exact(wire', first')
    BY <2>1 DEF Exact
  <2>2. ASSUME wire' = wire PROVE Exact(wire', first')
    BY <1>0, <2>2, ExactGrows DEF TypeOK, Faithful, Transmit
  <2> QED
    BY <2>1, <2>2 DEF Transmit, SendAudio
<1> QED
  BY <1>1, <1>2, <1>3

\* A retransmission carries an entry of the cache.
LEMMA RetransmissionFaithful ==
    ASSUME Typed, Faithful, NEW t, NEW e \in Get(cache, t), SendRetransmission(e)
    PROVE  Exact(wire', first')
<1>1. PICK i \in 1..Len(cache) : e = cache[i]
  BY RetransmissionTyped DEF Typed
<1>2. e.tick + 1 \in 1..Len(first) /\ e.frame = first[e.tick + 1]
  BY <1>1 DEF Faithful, Backed
<1>3. first' = first
  BY DEF SendRetransmission
<1>4. CASE wire' = wire
  BY <1>3, <1>4 DEF Faithful, Exact
<1>5. CASE Len(wire') = 1 /\ wire'[1].tick = e.tick /\ wire'[1].frame = e.frame
  BY <1>2, <1>3, <1>5 DEF Exact
<1> QED
  BY <1>4, <1>5, RetransmissionTyped DEF Typed

\* The five actions that touch the cache, the wire or the encoder; the others
\* keep what Faithful is about, and none starts a warm-up.
LEMMA FaithfulStep == Typed /\ Faithful /\ [Next]_vars => Faithful'
<1> SUFFICES ASSUME Typed, Faithful, [Next]_vars PROVE Faithful'
  OBVIOUS
<1>0. TypeOK
  BY DEF Typed
<1>1. CASE StartWarmUp
  BY <1>0, <1>1, NextFrameTyped DEF StartWarmUp, Faithful, media
<1>2. CASE WarmUp
  <2>1. silence \in Frames /\ silence.config = encoder /\ Transmit(silence)
    BY <1>0, <1>2 DEF TypeOK, Faithful, WarmUp
  <2> QED
    BY <1>2, <2>1, TransmitFaithful DEF WarmUp, Faithful, encoding
<1>3. CASE SendFrame
  <2>1. NextFrame \in Frames /\ NextFrame.config = encoder /\ Transmit(NextFrame)
    BY <1>0, <1>3, NextFrameTyped DEF SendFrame
  <2>2. worker' # "warming"
    BY <1>3 DEF SendFrame, AfterFrame
  <2> QED
    BY <1>3, <2>1, <2>2, TransmitFaithful DEF SendFrame, Faithful, encoding
<1>4. CASE Reconfigured
  BY <1>4 DEF Reconfigured, Faithful, Backed, Exact
<1>5. CASE Resend
  <2>1. worker' = worker /\ UNCHANGED encoding
    BY <1>5 DEF Resend
  <2>2. CASE UNCHANGED media
    BY <2>1, <2>2 DEF Faithful, media, encoding
  <2>3. ASSUME NEW e \in Get(cache, cmds[1].arg), SendRetransmission(e)
        PROVE  Faithful'
    <3>1. Exact(wire', first')
      BY <2>3, RetransmissionFaithful
    <3> QED
      BY <2>1, <2>3, <3>1 DEF Faithful, SendRetransmission, encoding
  <2> QED
    BY <1>5, <2>2, <2>3 DEF Resend
<1>6. ASSUME UNCHANGED <<encoder, silence, media>>,
             worker' = "warming" => worker = "warming"
      PROVE  Faithful'
  BY <1>6 DEF Faithful, media
<1>7. CASE Session \/ UNCHANGED vars
  <2>1. UNCHANGED <<encoder, silence, media, worker>>
    BY <1>7 DEF Session, OnResend, OnConfig, OnSetRedundancy, CompleteSend, Leave,
       Joined, vars, encoding, media
  <2> QED
    BY <1>6, <2>1
<1>8. CASE StartFails \/ Interval \/ NothingCaptured \/ SetRedundancy \/ Stopped
           \/ OnReconfigure
  BY <1>6, <1>8 DEF StartFails, Interval, NothingCaptured, SetRedundancy, Stopped,
     OnReconfigure, encoding, media
<1>9. CASE DeviceChanged \/ (\E n \in 1..MaxChunk : Captured(n)) \/ FrameNotEncoded
  BY <1>6, <1>9 DEF DeviceChanged, Captured, FrameNotEncoded, EndPolls, AfterFrame,
     encoding, media
<1> QED
  BY <1>1, <1>2, <1>3, <1>4, <1>5, <1>7, <1>8, <1>9 DEF Next, Working

\* The worker never loses the tie between its cache, what it puts on the wire
\* and the frames it encoded.
THEOREM WorkerFaithful == Spec => [](Typed /\ Faithful)
<1>1. Init => Faithful
  BY DEF Init, Faithful, Backed, Exact
<1> QED
  BY <1>1, TypeInit, TypeStep, FaithfulStep, PTL DEF Spec

\* The cache is a window onto the last ticks, without holes, for any cache
\* size (store, network.rs:64-73, and its three callers).
THEOREM WorkerCacheRecent == Spec => []CacheIsRecent
<1>1. Typed /\ Faithful => CacheIsRecent
  <2>1. Typed => DOMAIN cache = 1..Len(cache)
    BY DEF Typed, TypeOK
  <2>2. Faithful => \A i \in 1..Len(cache) : cache[i].tick = tick - Len(cache) + i - 1
    BY DEF Faithful, Backed
  <2> QED
    BY <2>1, <2>2 DEF CacheIsRecent
<1> QED
  BY <1>1, WorkerFaithful, PTL

\* Nothing encoded with an earlier configuration can be served: the clear of
\* main.rs:351 leaves nothing behind.
THEOREM WorkerCacheCurrent == Spec => []CacheIsCurrent
<1>1. Typed /\ Faithful => CacheIsCurrent
  BY DEF Typed, TypeOK, Faithful, Backed, CacheIsCurrent
<1> QED
  BY <1>1, WorkerFaithful, PTL

\* Every retransmission is the frame first sent under its tick, however many
\* reconfigurations and requests come between (main.rs:369-390).
THEOREM WorkerRetransmitsExactly == Spec => []RetransmitsExactly
<1>1. Typed /\ Faithful => RetransmitsExactly
  BY DEF Typed, TypeOK, Faithful, Exact, RetransmitsExactly
<1> QED
  BY <1>1, WorkerFaithful, PTL

-----------------------------------------------------------------------------
(* The settings on their way.                                              *)

\* A command behind the others decides its own setting and no other.
LEMMA GivesMore ==
    ASSUME NEW s \in Seq(Commands), NEW c \in Commands, NEW op, NEW now, NEW v,
           IF c.op = op THEN c.arg = v ELSE Gives(s, op, now, v)
    PROVE  Gives(Append(s, c), op, now, v)
<1> DEFINE n == Len(s) + 1
           u == Append(s, c)
<1>1. /\ DOMAIN s = 1..Len(s) /\ DOMAIN u = 1..n /\ Len(s) \in Nat /\ n = Len(s) + 1
      /\ u[n] = c /\ \A i \in 1..Len(s) : u[i] = s[i]
  OBVIOUS
<1> HIDE DEF n, u
<1>2. n \in 1..n /\ \A i \in 1..n : i <= n /\ (i = n \/ i \in 1..Len(s))
  BY <1>1
<1>3. \A i \in 1..Len(s) : i \in 1..n /\ i <= n
  BY <1>1
<1>4. CASE c.op = op
  BY <1>1, <1>2, <1>4 DEF Gives, u
<1>5. CASE c.op # op
  <2>1. CASE now = v /\ \A i \in DOMAIN s : s[i].op # op
    BY <1>1, <1>2, <1>5, <2>1 DEF Gives, u
  <2>2. ASSUME NEW i \in DOMAIN s, s[i].op = op, s[i].arg = v,
               \A j \in DOMAIN s : s[j].op = op => j <= i
        PROVE  Gives(u, op, now, v)
    <3>1. i \in DOMAIN u /\ u[i] = s[i]
      BY <1>1, <1>3, <2>2
    <3>2. \A j \in DOMAIN u : u[j].op = op => j <= i
      BY <1>1, <1>2, <1>5, <2>2
    <3> QED
      BY <2>2, <3>1, <3>2 DEF Gives
  <2> QED
    BY <1>5, <2>1, <2>2 DEF Gives, u
<1> QED
  BY <1>4, <1>5

\* Executing the first command changes nothing of what they all give.
LEMMA GivesLess ==
    ASSUME NEW s \in Seq(Commands), s # << >>, NEW op, NEW now, NEW v,
           Gives(s, op, now, v)
    PROVE  Gives(Tail(s), op, IF s[1].op = op THEN s[1].arg ELSE now, v)
<1> DEFINE u == Tail(s)
           then == IF s[1].op = op THEN s[1].arg ELSE now
<1>1. /\ Len(s) \in Nat \ {0} /\ DOMAIN s = 1..Len(s) /\ DOMAIN u = 1..Len(s) - 1
      /\ \A i \in 1..Len(s) - 1 : u[i] = s[i + 1]
  OBVIOUS
<1> HIDE DEF u
<1>2. \A i \in 1..Len(s) - 1 : i + 1 \in 1..Len(s) /\ i + 1 # 1
  BY <1>1
<1>3. CASE now = v /\ \A i \in DOMAIN s : s[i].op # op
  <2>1. then = v
    BY <1>1, <1>3
  <2>2. \A i \in DOMAIN u : u[i].op # op
    BY <1>1, <1>2, <1>3
  <2> QED
    BY <2>1, <2>2 DEF Gives, u
<1>4. ASSUME NEW i \in DOMAIN s, s[i].op = op, s[i].arg = v,
             \A j \in DOMAIN s : s[j].op = op => j <= i
      PROVE  Gives(u, op, then, v)
  <2>1. CASE i = 1
    <3>1. then = v
      BY <1>4, <2>1
    <3>2. \A j \in DOMAIN u : u[j].op # op
      <4> SUFFICES ASSUME NEW j \in 1..Len(s) - 1, u[j].op = op PROVE FALSE
        BY <1>1
      <4>1. j + 1 \in DOMAIN s /\ s[j + 1].op = op /\ ~(j + 1 <= 1)
        BY <1>1, <1>2
      <4> QED
        BY <1>4, <2>1, <4>1
    <3> QED
      BY <3>1, <3>2 DEF Gives
  <2>2. CASE i # 1
    <3>1. i - 1 \in 1..Len(s) - 1 /\ (i - 1) + 1 = i
      BY <1>1, <2>2
    <3>2. i - 1 \in DOMAIN u /\ u[i - 1] = s[i]
      BY <1>1, <3>1
    <3>3. ASSUME NEW j \in DOMAIN u, u[j].op = op PROVE j <= i - 1
      <4>1. j \in 1..Len(s) - 1 /\ j + 1 \in DOMAIN s /\ s[j + 1].op = op
        BY <1>1, <1>2, <3>3
      <4>2. j + 1 <= i
        BY <1>4, <4>1
      <4> QED
        BY <1>1, <4>1, <4>2
    <3> QED
      BY <1>4, <3>2, <3>3 DEF Gives
  <2> QED
    BY <2>1, <2>2
<1> QED
  BY <1>3, <1>4 DEF Gives, u

\* What is on its way is the channel with the pending command behind it.
LEMMA WayFacts ==
    ASSUME TypeOK
    PROVE  /\ OnTheWay \in Seq(Commands)
           /\ pending = << >> => OnTheWay = cmds
           /\ cmds # << >> => /\ OnTheWay # << >> /\ OnTheWay[1] = cmds[1]
                              /\ Tail(OnTheWay) = Tail(cmds) \o pending
<1>1. cmds \in Seq(Commands) /\ pending \in Seq(Commands)
  BY DEF TypeOK
<1>2. OnTheWay \in Seq(Commands)
  BY <1>1 DEF OnTheWay
<1>3. pending = << >> => OnTheWay = cmds
  BY <1>1 DEF OnTheWay
<1>4. ASSUME cmds # << >>
      PROVE  /\ OnTheWay # << >> /\ OnTheWay[1] = cmds[1]
             /\ Tail(OnTheWay) = Tail(cmds) \o pending
  BY <1>1, <1>4 DEF OnTheWay
<1> QED
  BY <1>2, <1>3, <1>4

\* The encoder the worker has, or is about to have.
Encoding == IF worker = "fading" THEN wanted ELSE encoder

\* Every step of a living worker keeps the settings on their way.
LEMMA SettingsStep == Typed /\ SettingsOnTheirWay /\ [Next]_vars => SettingsOnTheirWay'
<1> SUFFICES ASSUME Typed, SettingsOnTheirWay, [Next]_vars, Alive'
             PROVE  /\ Gives(OnTheWay', "Reconfigure", Encoding', current')
                    /\ Gives(OnTheWay', "SetRedundancy", doubled', redundancy')
  BY DEF SettingsOnTheirWay, Encoding
<1> DEFINE Kept == /\ Gives(OnTheWay', "Reconfigure", Encoding', current')
                   /\ Gives(OnTheWay', "SetRedundancy", doubled', redundancy')
<1> USE DEF task, encoding
<1>0. TypeOK /\ cmds \in Seq(Commands) /\ pending \in Seq(Commands)
  BY DEF Typed, TypeOK
<1>1. Alive => /\ Gives(OnTheWay, "Reconfigure", Encoding, current)
               /\ Gives(OnTheWay, "SetRedundancy", doubled, redundancy)
  BY DEF SettingsOnTheirWay, Encoding
<1>2. ASSUME Alive, OnTheWay' = OnTheWay,
             UNCHANGED <<current, redundancy, doubled>>, Encoding' = Encoding
      PROVE  Kept
  BY <1>1, <1>2
<1>3. ASSUME NEW c \in Commands, Alive, OnTheWay' = Append(OnTheWay, c),
             UNCHANGED <<worker, encoding, doubled>>,
             IF c.op = "Reconfigure" THEN c.arg = current' ELSE current' = current,
             IF c.op = "SetRedundancy" THEN c.arg = redundancy' ELSE redundancy' = redundancy
      PROVE  Kept
  <2>1. Encoding' = Encoding /\ doubled' = doubled
    BY <1>3 DEF Encoding
  <2>2. Gives(Append(OnTheWay, c), "Reconfigure", Encoding, current')
    BY <1>0, <1>1, <1>3, WayFacts, GivesMore
  <2>3. Gives(Append(OnTheWay, c), "SetRedundancy", doubled, redundancy')
    BY <1>0, <1>1, <1>3, WayFacts, GivesMore
  <2> QED
    BY <1>3, <2>1, <2>2, <2>3
<1>4. ASSUME NEW op, Receives(op), cmds' = Tail(cmds), UNCHANGED task,
             Encoding' = IF op = "Reconfigure" THEN cmds[1].arg ELSE Encoding,
             doubled' = IF op = "SetRedundancy" THEN cmds[1].arg ELSE doubled
      PROVE  Kept
  <2>1. cmds # << >> /\ cmds[1].op = op /\ Alive
    BY <1>4 DEF Receives, Alive
  <2>2. OnTheWay' = Tail(OnTheWay)
    BY <1>0, <1>4, <2>1, WayFacts DEF OnTheWay
  <2>3. OnTheWay \in Seq(Commands) /\ OnTheWay # << >> /\ OnTheWay[1].op = op
        /\ OnTheWay[1] = cmds[1]
    BY <1>0, <2>1, WayFacts
  <2>4. Gives(OnTheWay, "Reconfigure", Encoding, current)
    BY <1>1, <2>1
  <2>5. Gives(OnTheWay, "SetRedundancy", doubled, redundancy)
    BY <1>1, <2>1
  <2>6. Gives(Tail(OnTheWay), "Reconfigure", Encoding', current)
    BY <1>4, <2>3, <2>4, GivesLess
  <2>7. Gives(Tail(OnTheWay), "SetRedundancy", doubled', redundancy)
    BY <1>4, <2>3, <2>5, GivesLess
  <2> QED
    BY <1>4, <2>2, <2>6, <2>7
<1>5. ASSUME NEW t \in 0..MaxTick, OnResend(t) PROVE Kept
  <2> DEFINE c == [op |-> "Resend", arg |-> t]
  <2>1. c \in Commands /\ c.op = "Resend"
    BY Built, WorkerConstants
  <2>2. OnTheWay' = Append(OnTheWay, c)
    <3>1. pending = << >> /\ pending' = << >> /\ cmds' = Append(cmds, c)
      BY <1>5 DEF OnResend, Reading
    <3>2. Append(cmds, c) \in Seq(Commands)
      BY <1>0, <2>1
    <3> QED
      BY <1>0, <3>1, <3>2, WayFacts DEF OnTheWay
  <2>3. Alive /\ UNCHANGED <<worker, encoding, doubled, current, redundancy>>
    BY <1>5 DEF OnResend
  <2> HIDE DEF c
  <2> QED
    BY <1>3, <2>1, <2>2, <2>3
<1>6. ASSUME NEW c \in Commands, pending = << >>, pending' = <<c>>, cmds' = cmds
      PROVE  OnTheWay' = Append(OnTheWay, c)
  <2>1. OnTheWay = cmds
    BY <1>0, <1>6, WayFacts
  <2>2. cmds \o <<c>> = Append(cmds, c)
    BY <1>0, <1>6
  <2> QED
    BY <1>6, <2>1, <2>2 DEF OnTheWay
<1>7. ASSUME NEW raw \in RawConfigs, OnConfig(raw) PROVE Kept
  <2> DEFINE c == [op |-> "Reconfigure", arg |-> current']
  <2>1. current' \in Configs
    BY <1>7, ValidInRange, WorkerConstants DEF OnConfig
  <2>2. c \in Commands /\ c.op = "Reconfigure" /\ c.arg = current'
    BY <2>1, Built
  <2>3. pending = << >> /\ pending' = <<c>> /\ cmds' = cmds
    BY <1>7 DEF OnConfig, Reading
  <2>4. UNCHANGED <<worker, encoding, doubled, redundancy>>
    BY <1>7 DEF OnConfig
  <2> HIDE DEF c
  <2>5. Alive
    BY <2>4 DEF Alive
  <2> QED
    BY <1>3, <1>6, <2>2, <2>3, <2>4, <2>5
<1>8. ASSUME NEW r \in Switch, OnSetRedundancy(r) PROVE Kept
  <2> DEFINE c == [op |-> "SetRedundancy", arg |-> r]
  <2>1. c \in Commands /\ c.op = "SetRedundancy" /\ c.arg = r
    BY Built
  <2>2. pending = << >> /\ pending' = <<c>> /\ cmds' = cmds /\ redundancy' = r
    BY <1>8 DEF OnSetRedundancy, Reading
  <2>3. UNCHANGED <<worker, encoding, doubled, current>>
    BY <1>8 DEF OnSetRedundancy
  <2> HIDE DEF c
  <2>4. Alive
    BY <2>3 DEF Alive
  <2> QED
    BY <1>3, <1>6, <2>1, <2>2, <2>3, <2>4
<1>9. CASE CompleteSend
  <2>1. UNCHANGED <<worker, encoding, doubled, current, redundancy>> /\ pending' = << >>
    BY <1>9 DEF CompleteSend
  <2>2. Alive /\ Encoding' = Encoding
    BY <2>1 DEF Alive, Encoding
  <2>3. cmds' = cmds \o pending
    BY <1>9, <2>2 DEF CompleteSend
  <2>4. OnTheWay' = OnTheWay
    <3>1. cmds \o pending \in Seq(Commands)
      BY <1>0
    <3>2. (cmds \o pending) \o << >> = cmds \o pending
      BY <3>1
    <3> QED
      BY <2>1, <2>3, <3>2 DEF OnTheWay
  <2> QED
    BY <1>2, <2>1, <2>2, <2>4
<1>10. ASSUME UNCHANGED <<cmds, pending, current, redundancy, doubled>>, Alive,
              Encoding' = Encoding
       PROVE  Kept
  BY <1>2, <1>10 DEF OnTheWay
<1>11. CASE Leave \/ Joined \/ UNCHANGED vars
  <2>1. UNCHANGED <<cmds, pending, current, redundancy, doubled, worker, encoding>>
    BY <1>11 DEF Leave, Joined, vars
  <2> QED
    BY <1>10, <2>1 DEF Alive, Encoding
<1>12. CASE StartFails \/ StartWarmUp \/ WarmUp \/ Interval \/ NothingCaptured
            \/ DeviceChanged \/ SendFrame \/ FrameNotEncoded \/ Stopped
            \/ (\E n \in 1..MaxChunk : Captured(n))
  <2>1. UNCHANGED <<cmds, pending, current, redundancy, doubled, encoder>>
    BY <1>12 DEF StartFails, StartWarmUp, WarmUp, Interval, NothingCaptured,
       DeviceChanged, SendFrame, FrameNotEncoded, Stopped, Captured
  <2>2. worker \notin {"fading", "done", "panicked"} /\ worker' # "fading"
    BY <1>12 DEF StartFails, StartWarmUp, WarmUp, Interval, NothingCaptured,
       DeviceChanged, SendFrame, FrameNotEncoded, Stopped, Captured, EndPolls, AfterFrame
  <2> QED
    BY <1>10, <2>1, <2>2 DEF Alive, Encoding
<1>13. CASE Reconfigured
  BY <1>10, <1>13 DEF Reconfigured, Alive, Encoding
<1>14. CASE OnReconfigure
  BY <1>4, <1>14 DEF OnReconfigure, Encoding
<1>15. CASE SetRedundancy
  <2>1. Encoding' = Encoding
    BY <1>15 DEF SetRedundancy, Encoding
  <2> QED
    BY <1>4, <1>15, <2>1 DEF SetRedundancy
<1>16. CASE Resend
  <2>1. Encoding' = Encoding
    BY <1>16 DEF Resend, Encoding
  <2> QED
    BY <1>4, <1>16, <2>1 DEF Resend
<1> QED
  BY <1>5, <1>7, <1>8, <1>9, <1>11, <1>12, <1>13, <1>14, <1>15, <1>16
  DEF Next, Session, Working

\* With a channel of any size no setting is lost, whether it is pending, in the
\* channel or being carried out by a fade (main.rs:338-354, 412, 427, 446).
THEOREM WorkerSettingsArrive == Spec => []SettingsOnTheirWay
<1>1. Init => SettingsOnTheirWay
  <2> SUFFICES ASSUME Init PROVE SettingsOnTheirWay
    OBVIOUS
  <2>1. OnTheWay = << >>
    <3>1. << >> \o << >> = << >>
      OBVIOUS
    <3> QED
      BY <3>1 DEF Init, OnTheWay
  <2>2. encoder = current /\ doubled = redundancy /\ worker = "starting"
    BY DEF Init
  <2> QED
    BY <2>1, <2>2 DEF SettingsOnTheirWay, Gives
<1> QED
  BY <1>1, TypeInit, TypeStep, SettingsStep, PTL DEF Spec

-----------------------------------------------------------------------------
(* StreamWorker implements ReplayLog, for every cache size and whatever    *)
(* order of warm-ups, frames, reconfigurations and requests: a frame sent  *)
(* is an Emit, an entry resent a Serve, a reconfiguration a Forget, and    *)
(* everything else stutters.                                               *)

low == tick - Len(cache)

\* What one packet on the wire gives the receiver.
LEMMA GivenOne ==
    ASSUME NEW p
    PROVE  Given(<<p>>) = Replay!Answer(p.tick, p.frame)
BY DEF Given, Replay!Answer

\* A history that grew by one frame still begins with the old one.
LEMMA PrefixKept ==
    ASSUME NEW fs \in Seq(Frames), NEW f \in Frames
    PROVE  SubSeq(Append(fs, f), 1, Len(fs)) = fs
OBVIOUS

\* A cache is full or has room, and stays or grows accordingly.
LEMMA WindowMoves ==
    ASSUME TypeOK, NEW f \in Frames
    PROVE  Len(Store(cache, tick, f)) =
               IF Len(cache) = RESEND_CACHE_SIZE THEN Len(cache) ELSE Len(cache) + 1
<1> DEFINE s == Store(cache, tick, f)
           k == IF Len(cache) >= RESEND_CACHE_SIZE THEN 1 ELSE 0
<1>1. cache \in Seq(Entries) /\ Len(cache) <= RESEND_CACHE_SIZE /\ tick \in Nat
  BY DEF TypeOK
<1>2. Len(s) = Len(cache) - k + 1
  BY <1>1, StoreShape
<1>3. Len(cache) \in Nat /\ RESEND_CACHE_SIZE \in Nat
  BY <1>1, WorkerConstants
<1>4. CASE Len(cache) = RESEND_CACHE_SIZE
  <2>1. k = 1
    BY <1>3, <1>4
  <2> HIDE DEF s, k
  <2>2. Len(s) = Len(cache)
    BY <1>2, <1>3, <2>1
  <2> QED
    BY <1>4, <2>2 DEF s
<1>5. CASE Len(cache) < RESEND_CACHE_SIZE
  <2>1. k = 0
    BY <1>3, <1>5
  <2> HIDE DEF s, k
  <2>2. Len(s) = Len(cache) + 1
    BY <1>2, <1>3, <2>1
  <2>3. Len(cache) # RESEND_CACHE_SIZE
    BY <1>3, <1>5
  <2> QED
    BY <2>2, <2>3 DEF s
<1>6. Len(cache) = RESEND_CACHE_SIZE \/ Len(cache) < RESEND_CACHE_SIZE
  BY <1>1, <1>3
<1> QED
  BY <1>4, <1>5, <1>6

\* Sending and storing a frame logs it.
LEMMA TransmitEmits ==
    ASSUME Typed, Faithful, NEW f \in Frames, Transmit(f)
    PROVE  Replay!Emit
<1>0. TypeOK /\ Len(first) = tick /\ first \in Seq(Frames) /\ tick \in Nat
  BY DEF Typed, TypeOK, Faithful
<1>1. first' = Append(first, f) /\ tick' = tick + 1
  BY DEF Transmit
<1>2. /\ Len(first') = Len(first) + 1 /\ first'[Len(first')] = f
      /\ SubSeq(first', 1, Len(first)) = first
  BY <1>0, <1>1, HistoryGrows, PrefixKept
<1>3. Len(cache') =
          IF Len(cache) = RESEND_CACHE_SIZE THEN Len(cache) ELSE Len(cache) + 1
  BY <1>0, WindowMoves DEF Transmit
<1>4. low' = IF Len(first) - low = RESEND_CACHE_SIZE THEN low + 1 ELSE low
  <2>1. Len(cache) \in Nat /\ RESEND_CACHE_SIZE \in Nat
    BY <1>0, WorkerConstants DEF TypeOK
  <2> QED
    BY <1>0, <1>1, <1>3, <2>1 DEF low
<1>5. Given(wire') \in {Given(wire), Replay!Answer(Len(first), first'[Len(first')])}
  <2> DEFINE p == [tick |-> tick, seq |-> seq, flag |-> 0, frame |-> f]
  <2>1. p.tick = tick /\ p.frame = f
    OBVIOUS
  <2>2. wire' = <<p>> \/ wire' = wire
    BY DEF Transmit, SendAudio
  <2> HIDE DEF p
  <2>3. CASE wire' = <<p>>
    BY <1>0, <1>2, <2>1, <2>3, GivenOne
  <2>4. CASE wire' = wire
    BY <2>4
  <2> QED
    BY <2>2, <2>3, <2>4
<1> QED
  BY <1>2, <1>4, <1>5 DEF Replay!Emit, low

\* A retransmission serves a tick of the window.
LEMMA RetransmissionServes ==
    ASSUME Typed, Faithful, NEW t, NEW e \in Get(cache, t), SendRetransmission(e)
    PROVE  \E u \in low..Len(first) - 1 : Replay!Serve(u)
<1>0. TypeOK /\ Len(first) = tick /\ tick \in Nat /\ Len(cache) \in Nat
  BY DEF Typed, TypeOK, Faithful
<1>1. PICK i \in 1..Len(cache) : e = cache[i]
  BY <1>0, RetransmissionTyped
<1>2. e.tick = tick - Len(cache) + i - 1 /\ e.frame = first[e.tick + 1]
  BY <1>1 DEF Faithful, Backed
<1>3. e.tick \in low..Len(first) - 1
  BY <1>0, <1>2 DEF low
<1>4. Given(wire') \in {Given(wire), Replay!Answer(e.tick, first[e.tick + 1])}
  <2> DEFINE p == [tick |-> e.tick, seq |-> seq, flag |-> 1, frame |-> e.frame]
  <2>1. p.tick = e.tick /\ p.frame = e.frame
    OBVIOUS
  <2>2. wire' = <<p>> \/ wire' = wire
    BY DEF SendRetransmission
  <2> HIDE DEF p
  <2>3. CASE wire' = <<p>>
    BY <1>2, <2>1, <2>3, GivenOne
  <2>4. CASE wire' = wire
    BY <2>4
  <2> QED
    BY <2>2, <2>3, <2>4
<1>5. first' = first /\ tick' = tick /\ cache' = cache
  BY DEF SendRetransmission
<1> QED
  BY <1>3, <1>4, <1>5 DEF Replay!Serve

\* Every step of the session and its worker is a step of the log or stutters.
LEMMA ReplayStep ==
    ASSUME Typed, Faithful, [Next]_vars
    PROVE  [Replay!LogNext]_Replay!logVars
<1>0. TypeOK /\ Len(first) = tick
  BY DEF Typed, Faithful
<1>1. CASE WarmUp
  <2>1. silence \in Frames /\ Transmit(silence)
    BY <1>0, <1>1 DEF TypeOK, WarmUp
  <2> QED
    BY <2>1, TransmitEmits DEF Replay!LogNext
<1>2. CASE SendFrame
  <2>1. NextFrame \in Frames /\ Transmit(NextFrame)
    BY <1>0, <1>2, NextFrameTyped DEF SendFrame
  <2> QED
    BY <2>1, TransmitEmits DEF Replay!LogNext
<1>3. CASE Reconfigured
  <2>1. cache' = << >> /\ Len(cache') = 0
    BY <1>3 DEF Reconfigured
  <2>2. tick' = tick /\ first' = first /\ wire' = wire /\ tick \in Nat
    BY <1>0, <1>3 DEF Reconfigured, TypeOK
  <2>3. tick' - Len(cache') = Len(first)
    BY <1>0, <2>1, <2>2
  <2> QED
    BY <2>2, <2>3 DEF Replay!LogNext, Replay!Forget
<1>4. CASE Resend
  <2>1. CASE UNCHANGED media
    BY <2>1 DEF media, Replay!logVars
  <2>2. ASSUME NEW e \in Get(cache, cmds[1].arg), SendRetransmission(e)
        PROVE  Replay!LogNext
    BY <2>2, RetransmissionServes DEF Replay!LogNext, low
  <2> QED
    BY <1>4, <2>1, <2>2 DEF Resend
<1>5. ASSUME UNCHANGED media PROVE UNCHANGED Replay!logVars
  BY <1>5 DEF media, Replay!logVars
<1>6. CASE Session \/ UNCHANGED vars
  <2>1. UNCHANGED media
    BY <1>6 DEF Session, OnResend, OnConfig, OnSetRedundancy, CompleteSend, Leave,
       Joined, vars, media
  <2> QED
    BY <1>5, <2>1
<1>7. CASE StartFails \/ StartWarmUp \/ Interval \/ NothingCaptured \/ SetRedundancy
           \/ Stopped \/ OnReconfigure
  <2>1. UNCHANGED media
    BY <1>7 DEF StartFails, StartWarmUp, Interval, NothingCaptured, SetRedundancy,
       Stopped, OnReconfigure, media
  <2> QED
    BY <1>5, <2>1
<1>8. CASE DeviceChanged \/ (\E n \in 1..MaxChunk : Captured(n)) \/ FrameNotEncoded
  <2>1. UNCHANGED media
    BY <1>8 DEF DeviceChanged, Captured, FrameNotEncoded, EndPolls, AfterFrame, media
  <2> QED
    BY <1>5, <2>1
<1> QED
  BY <1>1, <1>2, <1>3, <1>4, <1>6, <1>7, <1>8 DEF Next, Working

\* The retransmission service implements the replay log: every tick inside the
\* window can be had again, and only as the frame it was first sent with
\* (network.rs:47-77, main.rs:285-299, 312-324, 344-365, 369-390).
THEOREM WorkerReplaysLog == Spec => ReplaysLog
<1>1. Init => Replay!LogInit
  <2> SUFFICES ASSUME Init PROVE Replay!LogInit
    OBVIOUS
  <2>1. first = << >> /\ tick = 0 /\ cache = << >> /\ wire = << >>
    BY DEF Init
  <2>2. Given(wire) = << >>
    BY <2>1 DEF Given
  <2>3. tick - Len(cache) = 0
    <3>1. Len(<< >>) = 0
      OBVIOUS
    <3>2. tick = 0 /\ Len(cache) = 0
      BY <2>1, <3>1
    <3> QED
      BY <3>2
  <2> QED
    BY <2>1, <2>2, <2>3 DEF Replay!LogInit
<1> QED
  BY <1>1, ReplayStep, WorkerFaithful, PTL DEF Spec, ReplaysLog, Replay!LogSpec
=============================================================================
