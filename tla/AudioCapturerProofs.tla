------------------------- MODULE AudioCapturerProofs -------------------------
(***************************************************************************)
(* Theorems of AudioCapturer for frames, gates, fades and polls of every   *)
(* length, any number of devices and silent runs without a bound.          *)
(***************************************************************************)
EXTENDS AudioCapturer, SequenceTheorems, FiniteSetTheorems, TLAPS

\* Whole frames and their remainder add up.
LEMMA WholeFrames ==
    ASSUME NEW a \in Nat, NEW n \in Nat \ {0}
    PROVE  /\ a \div n \in Nat /\ a % n \in 0 .. n - 1
           /\ (a \div n) * n + (a % n) = a
<1>1. a \div n \in Nat
      BY Z3
<1>2. a % n \in 0 .. n - 1
      BY Z3
<1>3. a % n = a - n * (a \div n)
      BY Z3T(30)
<1> DEFINE q == a \div n
           r == a % n
<1>4. q \in Nat /\ r \in Nat /\ r = a - n * q
      BY <1>1, <1>2, <1>3
<1> HIDE DEF q, r
<1>5. q * n + r = a
      BY <1>4
<1>6. (a \div n) * n + (a % n) = a
      BY <1>5 DEF q, r
<1> QED
    BY <1>1, <1>2, <1>6

\* What one gate loses at most is lost at most once in each gate's length.
LEMMA LossBounded ==
    ASSUME NEW base \in Nat, NEW lost \in Nat, NEW gate \in Nat, NEW most \in Nat,
           NEW wait \in Nat, NEW lag \in Nat, NEW more \in 0..most,
           lost * gate <= base * most, wait >= gate
    PROVE  (lost + more) * gate <= (base + wait + lag) * most
<1>1. (lost + more) * gate = lost * gate + more * gate
      BY Z3
<1>2. more * gate <= most * gate
      BY Z3
<1>3. most * gate <= wait * most
      BY Z3
<1>4. (base + wait + lag) * most = base * most + wait * most + lag * most
      BY Z3
<1>5. lag * most >= 0
      BY Z3
<1> DEFINE x1 == (lost + more) * gate   x2 == lost * gate   x3 == more * gate
           x4 == most * gate            x5 == base * most   x6 == wait * most
           x7 == lag * most             x8 == (base + wait + lag) * most
<1>6. /\ x1 = x2 + x3 /\ x3 <= x4 /\ x4 <= x6 /\ x8 = x5 + x6 + x7 /\ x7 >= 0 /\ x2 <= x5
      /\ x1 \in Int /\ x2 \in Int /\ x3 \in Int /\ x4 \in Int /\ x5 \in Int
      /\ x6 \in Int /\ x7 \in Int /\ x8 \in Int
      BY <1>1, <1>2, <1>3, <1>4, <1>5
<1> HIDE DEF x1, x2, x3, x4, x5, x6, x7, x8
<1>7. x1 <= x8
      BY <1>6
<1> QED
    BY <1>7 DEF x1, x8

LEMMA VolumeStays ==
    ASSUME volume \in 0..FADE, target \in {0, FADE}, NEW samples \in Nat, Process(samples)
    PROVE  volume' \in 0..FADE /\ target' = target
BY CapturerConstants DEF Process, Least, Most

-----------------------------------------------------------------------------
(* Types, part by part. *)

DevicesOK ==
    /\ default \in Devices \cup {NoDevice}
    /\ device \in Devices /\ lastName \in Devices
    /\ stream \in {"live", "broken"}
    /\ needsRestart \in BOOLEAN /\ streamFailed \in BOOLEAN /\ opening \in BOOLEAN
    /\ picked \in IF opening THEN Devices \cup {NoDevice} ELSE {NoDevice}
    /\ fresh \in IF picked = NoDevice THEN {"none"} ELSE {"none", "live", "broken"}
    /\ upsets \subseteq {"openFailed", "changeMissed"}

SoundOK ==
    /\ worker \in {"polls", "fading"} /\ volume \in 0..FADE /\ target \in {0, FADE}
    /\ queue \in Seq(Devices)

\* The silence emitted and the credit are of the time before the present wait,
\* and lose no more than each gate in it may.
Gates == since - elapsed
Credited == (paced * FRAME + credit) * MICRO
Worst == MICRO - 1 + MAX_LAG
PacedSoFar ==
    /\ elapsed <= since /\ Credited <= Gates
    /\ (Gates - Credited) * (GATE * MICRO) <= Gates * Worst

PacerOK == elapsed \in Nat /\ credit \in 0..FRAME - 1 /\ since \in Nat /\ paced \in Nat

LEMMA TypeParts == TypeOK <=> DevicesOK /\ SoundOK /\ PacerOK
BY DEF TypeOK, DevicesOK, SoundOK, PacerOK

LEMMA InitTyped ==
    ASSUME Init
    PROVE  DevicesOK /\ SoundOK /\ PacerOK /\ PacedSoFar
<1> USE CapturerConstants DEF Init
<1>1. DevicesOK
      BY DEF DevicesOK
<1>2. SoundOK
      <2>1. << >> \in Seq(Devices)
            OBVIOUS
      <2> QED
          BY <2>1 DEF SoundOK
<1>3. PacerOK
      BY DEF PacerOK
<1>4. PacedSoFar
      BY <1>3 DEF PacedSoFar, Gates, Credited, Worst, PacerOK
<1> QED
    BY <1>1, <1>2, <1>3, <1>4

LEMMA DevicesKept ==
    ASSUME DevicesOK, [Next]_vars
    PROVE  DevicesOK'
<1> USE CapturerConstants DEF DevicesOK, devices, opener
<1>1. CASE DefaultChanges
      BY <1>1 DEF DefaultChanges
<1>2. CASE ErrorCallback
      BY <1>2 DEF ErrorCallback
<1>3. CASE Monitor
      BY <1>3 DEF Monitor
<1>4. CASE BeginReinit
      BY <1>4 DEF BeginReinit
<1>5. CASE PickDevice
      BY <1>5 DEF PickDevice
<1>6. CASE PlayStream
      BY <1>6 DEF PlayStream
<1>7. CASE OpenSucceeds
      BY <1>7 DEF OpenSucceeds, EndReinit
<1>8. CASE OpenFails
      BY <1>8 DEF OpenFails, EndReinit
<1>9. CASE UNCHANGED <<devices, opener>>
      BY <1>9
<1> QED
    BY <1>1, <1>2, <1>3, <1>4, <1>5, <1>6, <1>7, <1>8, <1>9
    DEF Next, vars, DataCallback, Pass, StartFadeOut, TakeData, GiveUpStall, PaceSilence

LEMMA SoundKept ==
    ASSUME SoundOK, [Next]_vars
    PROVE  SoundOK'
<1> USE CapturerConstants DEF SoundOK, fader
<1>1. ASSUME NEW d \in Devices, DataCallback(d)
      PROVE  SoundOK'
      BY <1>1 DEF DataCallback
<1>2. CASE StartFadeOut
      BY <1>2 DEF StartFadeOut
<1>3. CASE BeginReinit
      BY <1>3 DEF BeginReinit
<1>4. CASE OpenSucceeds \/ OpenFails
      BY <1>4 DEF OpenSucceeds, OpenFails, EndReinit
<1>5. ASSUME NEW samples \in 1..FADE, TakeData(samples)
      PROVE  SoundOK'
      <2>1. volume' \in 0..FADE /\ target' = target
            BY <1>5, VolumeStays DEF TakeData
      <2> QED
          BY <1>5, <2>1 DEF TakeData, opener
<1>6. CASE GiveUpStall \/ PaceSilence
      <2>1. volume' \in 0..FADE /\ target' = target
            BY <1>6, VolumeStays DEF GiveUpStall, PaceSilence
      <2> QED
          BY <1>6, <2>1 DEF GiveUpStall, PaceSilence
<1>7. CASE UNCHANGED <<worker, fader, queue>>
      BY <1>7
<1> QED
    BY <1>1, <1>2, <1>3, <1>4, <1>5, <1>6, <1>7
    DEF Next, vars, DefaultChanges, ErrorCallback, Pass, Monitor, PickDevice, PlayStream

-----------------------------------------------------------------------------
(* The pacer's account. *)

LEMMA PacerKept ==
    ASSUME PacerOK, PacedSoFar, [Next]_vars
    PROVE  PacerOK' /\ PacedSoFar'
<1> USE CapturerConstants DEF PacerOK
<1>0. Worst \in Nat /\ GATE * MICRO \in Nat /\ Gates \in Nat /\ Credited \in Nat
      BY DEF Worst, Gates, Credited, PacedSoFar
<1>1. ASSUME RunRestarts
      PROVE  PacerOK' /\ PacedSoFar'
      <2>1. elapsed' = 0 /\ credit' = 0 /\ since' = 0 /\ paced' = 0
            BY <1>1 DEF RunRestarts
      <2>2. Gates' = 0 /\ Credited' = 0
            BY <2>1 DEF Gates, Credited
      <2> QED
          BY <1>0, <2>1, <2>2 DEF PacedSoFar, Worst
<1>2. ASSUME NEW d \in 1..MAX_POLL, Pass(d)
      PROVE  PacerOK' /\ PacedSoFar'
      <2>1. /\ elapsed' = elapsed + d /\ since' = since + d
            /\ credit' = credit /\ paced' = paced /\ d \in Nat
            BY <1>2 DEF Pass
      <2>2. Gates' = Gates /\ Credited' = Credited
            BY <2>1 DEF Gates, Credited
      <2> QED
          BY <2>1, <2>2 DEF PacedSoFar, Worst
<1>3. CASE PaceSilence
      <2> DEFINE micros == elapsed \div MICRO
                 rest == elapsed % MICRO
                 run == credit + micros
                 q == run \div FRAME
                 r == run % FRAME
      <2>1. PICK lag \in 0..MAX_LAG : since' = since + lag /\ elapsed' = 0
            BY <1>3 DEF PaceSilence, ReadClockAgain
      <2>2. paced' = paced + q /\ credit' = r /\ elapsed >= GATE * MICRO
            BY <1>3 DEF PaceSilence, Silent
      <2>3. micros \in Nat /\ rest \in 0 .. MICRO - 1 /\ micros * MICRO + rest = elapsed
            BY WholeFrames
      <2> HIDE DEF micros, rest
      <2>4. run \in Nat /\ FRAME \in Nat \ {0}
            BY <2>3
      <2>5. q \in Nat /\ r \in 0 .. FRAME - 1 /\ q * FRAME + r = run
            BY <2>4, WholeFrames
      <2>6. PacerOK'
            BY <2>1, <2>2, <2>5
      <2> HIDE DEF q, r
      <2>7. paced' * FRAME + credit' = (paced * FRAME + credit) + micros
            <3>1. (paced + q) * FRAME = paced * FRAME + q * FRAME
                  BY <2>4, <2>5
            <3> QED
                BY <2>2, <2>3, <2>5, <3>1
      <2>8. Credited' = Credited + micros * MICRO
            <3> DEFINE f == paced * FRAME + credit
            <3>1. f \in Nat
                  OBVIOUS
            <3> HIDE DEF f
            <3>2. (f + micros) * MICRO = f * MICRO + micros * MICRO
                  BY <2>3, <3>1
            <3> QED
                BY <2>7, <3>2 DEF Credited, f
      <2>9. Gates' = Gates + elapsed + lag
            BY <2>1 DEF Gates
      <2> DEFINE lost == Gates - Credited
                 more == rest + lag
      <2>10. /\ Gates' - Credited' = lost + more
             /\ lost \in Nat /\ more \in 0 .. Worst /\ Credited' \in Nat
             /\ lost * (GATE * MICRO) <= Gates * Worst
            <3>1. lost \in Nat /\ lost * (GATE * MICRO) <= Gates * Worst
                  BY <1>0 DEF PacedSoFar
            <3>2. more \in 0 .. Worst
                  BY <2>1, <2>3 DEF Worst
            <3> DEFINE whole == micros * MICRO
            <3>3. whole \in Nat /\ whole + rest = elapsed /\ Credited' = Credited + whole
                  BY <2>3, <2>8
            <3> HIDE DEF whole
            <3>4. Gates' - Credited' = lost + more
                  BY <1>0, <2>1, <2>3, <2>9, <3>3
            <3>5. Credited' \in Nat
                  BY <1>0, <3>3
            <3> QED
                BY <3>1, <3>2, <3>4, <3>5
      <2> HIDE DEF lost, more
      <2>11. (lost + more) * (GATE * MICRO) <= (Gates + elapsed + lag) * Worst
            BY <1>0, <2>1, <2>2, <2>10, LossBounded
      <2>12. Gates' \in Nat /\ Credited' <= Gates'
            <3>1. Gates' \in Nat
                  BY <1>0, <2>1, <2>9
            <3>2. lost + more \in Nat
                  BY <1>0, <2>10
            <3> DEFINE gates == Gates'
                       credited == Credited'
            <3>3. /\ gates \in Nat /\ credited \in Nat
                  /\ gates - credited = lost + more
                  BY <2>10, <3>1
            <3> HIDE DEF gates, credited
            <3>4. credited <= gates
                  BY <3>2, <3>3
            <3> QED
                BY <3>1, <3>4 DEF gates, credited
      <2>13. PacedSoFar'
            BY <2>1, <2>6, <2>9, <2>10, <2>11, <2>12 DEF PacedSoFar, Worst
      <2> QED
          BY <2>6, <2>13
<1>4. CASE UNCHANGED pacer
      BY <1>4 DEF pacer, PacedSoFar, Gates, Credited, Worst
<1>5. CASE BeginReinit
      BY <1>1, <1>5 DEF BeginReinit
<1>6. CASE GiveUpStall
      BY <1>1, <1>6 DEF GiveUpStall
<1>7. ASSUME NEW samples \in 1..FADE, TakeData(samples)
      PROVE  PacerOK' /\ PacedSoFar'
      BY <1>1, <1>7 DEF TakeData
<1> QED
    BY <1>2, <1>3, <1>4, <1>5, <1>6, <1>7
    DEF Next, vars, pacer, DefaultChanges, DataCallback, ErrorCallback, Monitor,
        StartFadeOut, PickDevice, PlayStream, OpenSucceeds, OpenFails

\* Type correctness for every value of the constants, and with it the bound of
\* the silence credit by one frame (audio.rs:341-345).
THEOREM CapturerTypeOK == Spec => []TypeOK
<1> DEFINE Inv == DevicesOK /\ SoundOK /\ PacerOK /\ PacedSoFar
<1>1. Init => Inv
      BY InitTyped
<1>2. Inv /\ [Next]_vars => Inv'
      BY DevicesKept, SoundKept, PacerKept
<1>3. Inv => TypeOK
      BY TypeParts
<1> QED
    BY <1>1, <1>2, <1>3, PTL DEF Spec

\* Silence at real time: no spacing of the polls invents a frame, and each gate
\* loses less than a microsecond and the lag of its second clock read
\* (audio.rs:320-326, 341-348).
THEOREM SilencePacedToRealTime == Spec => []PacedToRealTime
<1>1. Init => PacerOK /\ PacedSoFar
      BY InitTyped
<1>2. PacerOK /\ PacedSoFar /\ [Next]_vars => (PacerOK /\ PacedSoFar)'
      BY PacerKept
<1>3. PacerOK /\ PacedSoFar => PacedToRealTime
      <2> SUFFICES ASSUME PacerOK, PacedSoFar
                   PROVE  PacedToRealTime
          OBVIOUS
      <2> USE CapturerConstants DEF PacerOK
      <2>1. Lost = Gates - Credited /\ Gates \in Nat /\ Credited \in Nat /\ Gates <= since
            BY DEF Lost, Accounted, Gates, Credited, PacedSoFar
      <2>2. Lost \in Nat
            BY <2>1 DEF PacedSoFar
      <2>3. Lost * GATE * MICRO = Lost * (GATE * MICRO)
            BY <2>2
      <2>4. Lost * (GATE * MICRO) <= Gates * Worst
            BY <2>1 DEF PacedSoFar
      <2>5. Worst \in Nat /\ Gates * Worst <= since * Worst
            BY <2>1 DEF Worst
      <2> DEFINE x == Lost * (GATE * MICRO)   y == Gates * Worst   z == since * Worst
      <2>6. x \in Int /\ y \in Int /\ z \in Int /\ x <= y /\ y <= z
            BY <2>1, <2>2, <2>4, <2>5
      <2> HIDE DEF x, y, z
      <2>7. x <= z
            BY <2>6
      <2> QED
          BY <2>2, <2>3, <2>7 DEF x, z, Worst, PacedToRealTime
<1> QED
    BY <1>1, <1>2, <1>3, PTL DEF Spec

-----------------------------------------------------------------------------
(* The fades. *)

\* Only the fade-out of a reconfiguration takes the sound away, and while it
\* does the worker does not poll.
FadedForReinit == target = FADE \/ (worker = "fading" /\ ~opening)

LEMMA FadeKept ==
    ASSUME DevicesOK, FadedForReinit, [Next]_vars
    PROVE  FadedForReinit'
<1> USE DEF FadedForReinit, fader, opener
<1>1. CASE StartFadeOut
      BY <1>1 DEF StartFadeOut, Polling
<1>2. CASE BeginReinit
      BY <1>2 DEF BeginReinit
<1>3. CASE PickDevice \/ PlayStream
      BY <1>3 DEF PickDevice, PlayStream
<1>4. CASE OpenSucceeds \/ OpenFails
      <2>1. opening
            BY <1>4 DEF OpenSucceeds, OpenFails, DevicesOK
      <2> QED
          BY <1>4, <2>1 DEF OpenSucceeds, OpenFails, EndReinit
<1>5. ASSUME NEW samples \in 1..FADE, TakeData(samples)
      PROVE  FadedForReinit'
      BY <1>5 DEF TakeData, Process
<1>6. CASE GiveUpStall \/ PaceSilence
      BY <1>6 DEF GiveUpStall, PaceSilence, Process
<1>7. CASE UNCHANGED <<worker, opening, target>>
      BY <1>7
<1> QED
    BY <1>1, <1>2, <1>3, <1>4, <1>5, <1>6, <1>7
    DEF Next, vars, DefaultChanges, DataCallback, ErrorCallback, Pass, Monitor

\* Whenever audio is polled the fader leads to full volume, whether the
\* reinitialisations before it succeeded or not (main.rs:342-346, audio.rs:220).
THEOREM SoundComesBack == Spec => []NeverLeftMuted
<1>1. Init => DevicesOK /\ FadedForReinit
      BY InitTyped DEF Init, FadedForReinit
<1>2. DevicesOK /\ FadedForReinit /\ [Next]_vars => (DevicesOK /\ FadedForReinit)'
      BY DevicesKept, FadeKept
<1>3. FadedForReinit => NeverLeftMuted
      BY DEF FadedForReinit, NeverLeftMuted, Polling
<1> QED
    BY <1>1, <1>2, <1>3, PTL DEF Spec

-----------------------------------------------------------------------------
(* The chunks of the old device. *)

\* The chunks of other devices in a channel can be counted.
LEMMA ForeignFinite ==
    ASSUME NEW q \in Seq(Devices), NEW d
    PROVE  /\ IsFiniteSet(Foreign(q, d)) /\ Stale(q, d) \in Nat
           /\ Foreign(q, d) \subseteq 1 .. Len(q)
<1>1. Foreign(q, d) \subseteq 1 .. Len(q)
      BY DEF Foreign
<1>2. IsFiniteSet(1 .. Len(q))
      BY FS_Interval
<1>3. IsFiniteSet(Foreign(q, d))
      BY <1>1, <1>2, FS_Subset
<1> QED
    BY <1>1, <1>3, FS_CardinalityType DEF Stale

\* A chunk of the device itself is none of another.
LEMMA OwnChunkSent ==
    ASSUME NEW q \in Seq(Devices), NEW d \in Devices
    PROVE  Stale(Append(q, d), d) = Stale(q, d)
<1> DEFINE n == Len(q) + 1
           r == Append(q, d)
<1>1. /\ DOMAIN q = 1 .. Len(q) /\ DOMAIN r = 1 .. n /\ r[n] = d
      /\ \A i \in 1 .. Len(q) : r[i] = q[i]
      /\ 1 .. n = (1 .. Len(q)) \cup {n}
      OBVIOUS
<1> HIDE DEF n, r
<1>2. Foreign(r, d) = Foreign(q, d)
      BY <1>1 DEF Foreign
<1> QED
    BY <1>2 DEF Stale, r

\* Taking a chunk leaves no more of another device than there were.
LEMMA ChunkTaken ==
    ASSUME NEW q \in Seq(Devices), q # << >>, NEW d
    PROVE  Stale(Tail(q), d) <= Stale(q, d)
<1> DEFINE r == Tail(q)
           f == [i \in Foreign(r, d) |-> i + 1]
<1>1. /\ Len(q) \in Nat /\ DOMAIN q = 1 .. Len(q)
      /\ r \in Seq(Devices) /\ DOMAIN r = 1 .. (Len(q) - 1)
      /\ \A i \in 1 .. (Len(q) - 1) : r[i] = q[i + 1]
      OBVIOUS
<1> HIDE DEF r
<1>2. IsFiniteSet(Foreign(q, d)) /\ Foreign(r, d) \subseteq Nat
      <2>1. Foreign(r, d) \subseteq 1 .. (Len(q) - 1)
            BY <1>1 DEF Foreign
      <2>2. 1 .. (Len(q) - 1) \subseteq Nat
            OBVIOUS
      <2> QED
          BY <2>1, <2>2, ForeignFinite
<1>3. \A i \in Foreign(r, d) : i + 1 \in Foreign(q, d)
      BY <1>1 DEF Foreign
<1>4. f \in Injection(Foreign(r, d), Foreign(q, d))
      <2>1. f \in [Foreign(r, d) -> Foreign(q, d)]
            BY <1>3
      <2>2. \A i, j \in Foreign(r, d) : f[i] = f[j] => i = j
            BY <1>2
      <2> QED
          BY <2>1, <2>2 DEF Injection, IsInjective
<1>5. Cardinality(Foreign(r, d)) <= Cardinality(Foreign(q, d))
      BY <1>2, <1>4, FS_Injection
<1> QED
    BY <1>5 DEF Stale, r

\* A device that has been replaced adds nothing to what is to come, whatever
\* the channel still holds of it (audio.rs:296-298, main.rs:326-329).
THEOREM ReplacedDeviceDrains == Spec => OldDeviceOnlyDrains
<1> DEFINE Drains == ~opening /\ ~opening' => Stale(queue', device) <= Stale(queue, device)
<1>1. ASSUME DevicesOK, SoundOK, Next PROVE Drains
      <2> SUFFICES ASSUME ~opening, ~opening'
                   PROVE  Stale(queue', device) <= Stale(queue, device)
          OBVIOUS
      <2>0. queue \in Seq(Devices) /\ picked \notin Devices /\ fresh = "none"
            BY <1>1, CapturerConstants DEF SoundOK, DevicesOK
      <2>1. ASSUME NEW d \in Devices, DataCallback(d)
            PROVE  Stale(queue', device) <= Stale(queue, device)
            <3>1. d = device /\ queue' = Append(queue, d)
                  BY <2>0, <2>1 DEF DataCallback, Sources
            <3>2. Stale(queue', device) = Stale(queue, device)
                  BY <2>0, <3>1, OwnChunkSent
            <3>3. Stale(queue, device) \in Nat
                  BY <2>0, ForeignFinite
            <3> QED
                BY <3>2, <3>3
      <2>2. ASSUME NEW samples \in 1..FADE, TakeData(samples)
            PROVE  Stale(queue', device) <= Stale(queue, device)
            BY <2>0, <2>2, ChunkTaken DEF TakeData
      <2>3. CASE queue' = queue
            <3>1. Stale(queue, device) \in Nat
                  BY <2>0, ForeignFinite
            <3> QED
                BY <2>3, <3>1
      <2> QED
          BY <1>1, <2>1, <2>2, <2>3
          DEF Next, DefaultChanges, ErrorCallback, Pass, Monitor, StartFadeOut, BeginReinit,
              PickDevice, PlayStream, OpenSucceeds, OpenFails, GiveUpStall, PaceSilence
<1> HIDE DEF Drains
<1>2. Init => DevicesOK /\ SoundOK
      BY InitTyped
<1>3. DevicesOK /\ SoundOK /\ [Next]_vars => (DevicesOK /\ SoundOK)'
      BY DevicesKept, SoundKept
<1>4. DevicesOK /\ SoundOK /\ [Next]_vars => [Drains]_vars
      BY <1>1
<1>5. Spec => [][Drains]_vars
      BY <1>2, <1>3, <1>4, PTL DEF Spec
<1> QED
    BY <1>5 DEF Drains, OldDeviceOnlyDrains
==============================================================================
