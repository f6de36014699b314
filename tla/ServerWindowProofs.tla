------------------------- MODULE ServerWindowProofs -------------------------
(***************************************************************************)
(* Theorems of ServerWindow for channels of every size and any number of   *)
(* messages to the main thread.  The properties are about different        *)
(* variables; each has an invariant of its own.                            *)
(***************************************************************************)
EXTENDS ServerWindow, SequenceTheorems, FiniteSetTheorems, TLAPS

\* What is in the channel is a command, and no more than fits.
LEMMA ChannelSent ==
    ASSUME NEW c \in Commands, cmds \in Seq(Commands), Len(cmds) <= QUEUE, Accepts
    PROVE  Append(cmds, c) \in Seq(Commands) /\ Len(Append(cmds, c)) <= QUEUE
BY WindowConstants DEF Accepts

LEMMA ChannelRead ==
    ASSUME cmds \in Seq(Commands), Len(cmds) <= QUEUE, cmds # << >>
    PROVE  /\ Tail(cmds) \in Seq(Commands) /\ Len(Tail(cmds)) <= QUEUE
           /\ cmds[1] \in Commands
BY WindowConstants

LEMMA CommandsMade ==
    Toggle \in Commands /\ \A r \in BOOLEAN : Redundancy(r) \in Commands
BY DEF Toggle, Redundancy, Commands

ChannelOK ==
    /\ cmds \in Seq(Commands) /\ Len(cmds) <= QUEUE
    /\ redundancy \in BOOLEAN /\ switch \in BOOLEAN

LEMMA ChannelInit ==
    ASSUME Init
    PROVE  ChannelOK
<1>1. cmds = << >> /\ redundancy = FALSE /\ switch = FALSE
      BY DEF Init
<1>2. Len(<< >>) = 0 /\ << >> \in Seq(Commands)
      OBVIOUS
<1>3. Len(cmds) = 0 /\ cmds \in Seq(Commands)
      BY <1>1, <1>2
<1>4. Len(cmds) <= QUEUE
      BY <1>3, WindowConstants
<1> QED
    BY <1>1, <1>3, <1>4 DEF ChannelOK

LEMMA ChannelKept ==
    ASSUME ChannelOK, [Next]_vars
    PROVE  ChannelOK'
<1> USE DEF ChannelOK, task, texts, looks, loop
<1>1. CASE ClickToggle
      BY <1>1, ChannelSent, CommandsMade DEF ClickToggle, TrySendToggle
<1>2. CASE ClickRedundancy
      <2>1. switch' \in BOOLEAN
            BY <1>2 DEF ClickRedundancy
      <2> QED
          BY <1>2, <2>1, ChannelSent, CommandsMade DEF ClickRedundancy
<1>3. CASE MainHandles
      BY <1>3, ChannelSent, CommandsMade DEF MainHandles, TrySendToggle
<1>4. CASE ToggleServer
      BY <1>4, ChannelRead DEF ToggleServer, Takes
<1>5. CASE SetRedundancy
      <2>1. cmds[1].op = "SetRedundancy" /\ cmds[1] \in Commands
            BY <1>5, ChannelRead DEF SetRedundancy, Takes
      <2>2. cmds[1].arg \in BOOLEAN
            BY <2>1 DEF Commands
      <2> QED
          BY <1>5, <2>2, ChannelRead DEF SetRedundancy, Takes
<1>6. CASE UNCHANGED <<cmds, redundancy, switch>>
      BY <1>6
<1>7. CASE Bind
      <2>1. cmds' \in {<< >>, cmds} /\ UNCHANGED <<redundancy, switch>>
            BY <1>7 DEF Bind
      <2>2. << >> \in Seq(Commands) /\ Len(<< >>) <= QUEUE
            BY WindowConstants
      <2> QED
          BY <2>1, <2>2
<1>8. CASE UNCHANGED vars
      BY <1>6, <1>8 DEF vars
<1> QED
    BY <1>1, <1>2, <1>3, <1>4, <1>5, <1>6, <1>7, <1>8
    DEF Next, Window, Main, Server, Open, CloseHides, ClosePosts, Timer, UseTray,
        MainLooks, SessionBegins, SessionLeft, UpdateStats, SessionEnds

-----------------------------------------------------------------------------
(* Types. *)

\* What TypeOK says of the variables other than the channel; the newest text
\* is one text or none.
StateOK ==
    /\ server \in Servers /\ running \in BOOLEAN
    /\ stats = {} \/ \E t \in Texts : stats = {t}
    /\ shown \in BOOLEAN /\ client \in Texts
    /\ window \in {"opening", "shown", "closed", "hidden"}
    /\ closing \in BOOLEAN /\ visibleFlag \in BOOLEAN
    /\ posted \subseteq TrayEvents \cup {"null"}
    /\ main \in {"waiting", "looked", "gone"}
    /\ event \in TrayEvents \cup {"null"} /\ seen \in {"nothing", "shown", "hidden"}
    /\ on \in BOOLEAN /\ dropped \in BOOLEAN

LEMMA NewestText ==
    ASSUME StateOK
    PROVE  TextToBe \in Texts
<1>1. CASE stats = {}
      BY <1>1 DEF TextToBe, StateOK
<1>2. ASSUME NEW t \in Texts, stats = {t}
      PROVE  TextToBe \in Texts
      <2>1. stats # {} /\ (CHOOSE u \in stats : TRUE) \in stats
            BY <1>2
      <2> QED
          BY <1>2, <2>1 DEF TextToBe
<1> QED
    BY <1>1, <1>2 DEF StateOK

LEMMA StateKept ==
    ASSUME StateOK, [Next]_vars
    PROVE  StateOK'
<1> USE DEF StateOK, task, texts, looks, loop
<1>1. CASE Open \/ CloseHides \/ ClosePosts
      BY <1>1 DEF Open, CloseHides, ClosePosts
<1>2. CASE ClickToggle
      BY <1>2 DEF ClickToggle, TrySendToggle
<1>3. CASE ClickRedundancy
      BY <1>3 DEF ClickRedundancy
<1>4. CASE Timer
      BY <1>4, NewestText DEF Timer
<1>5. CASE UseTray
      BY <1>5 DEF UseTray
<1>6. CASE MainLooks
      <2>1. event' \in TrayEvents \cup {"null"} /\ posted' \subseteq TrayEvents \cup {"null"}
            BY <1>6 DEF MainLooks
      <2>2. seen' \in {"nothing", "shown", "hidden"}
            BY <1>6 DEF MainLooks
      <2> QED
          BY <1>6, <2>1, <2>2 DEF MainLooks
<1>7. CASE MainHandles
      <2>1. on' \in BOOLEAN
            BY <1>7 DEF MainHandles, TrySendToggle
      <2>2. window' \in {"opening", "shown", "closed", "hidden"}
            BY <1>7 DEF MainHandles
      <2>3. main' \in {"waiting", "gone"} /\ visibleFlag' \in BOOLEAN
            BY <1>7 DEF MainHandles
      <2> QED
          BY <1>7, <2>1, <2>2, <2>3 DEF MainHandles
<1>8. CASE ToggleServer
      <2>1. server' \in Servers /\ running' \in BOOLEAN
            BY <1>8 DEF ToggleServer, Servers
      <2> QED
          BY <1>8, <2>1 DEF ToggleServer
<1>9. CASE SessionEnds
      <2>1. server' \in Servers /\ running' \in BOOLEAN
            BY <1>9 DEF SessionEnds, Servers
      <2>2. \E t \in Texts : stats' = {t}
            BY <1>9 DEF SessionEnds, Texts
      <2> QED
          BY <1>9, <2>1, <2>2 DEF SessionEnds
<1>10. CASE UpdateStats
      <2>1. \E t \in Texts : stats' = {t}
            BY <1>10 DEF UpdateStats, Texts
      <2> QED
          BY <1>10, <2>1 DEF UpdateStats
<1>11. CASE Bind
      <2>1. server' \in Servers
            BY <1>11 DEF Bind, Servers
      <2> QED
          BY <1>11, <2>1 DEF Bind
<1>12. CASE SetRedundancy
      <2>1. UNCHANGED <<server, running, stats, texts, looks, loop, on>>
            BY <1>12 DEF SetRedundancy
      <2> QED
          BY <2>1
<1>13. CASE SessionBegins \/ SessionLeft
      <2>1. server' \in Servers
            BY <1>13 DEF SessionBegins, SessionLeft, Servers
      <2> QED
          BY <1>13, <2>1 DEF SessionBegins, SessionLeft
<1>14. CASE UNCHANGED vars
      BY <1>14 DEF vars
<1> QED
    BY <1>1, <1>2, <1>3, <1>4, <1>5, <1>6, <1>7, <1>8, <1>9, <1>10, <1>11, <1>12,
       <1>13, <1>14
    DEF Next, Window, Main, Server

\* Window, main thread and server keep their types, the command channel its
\* capacity, for channels of every size.
THEOREM WindowTyped == Spec => []TypeOK
<1>1. Init => ChannelOK /\ StateOK
      <2> SUFFICES ASSUME Init PROVE ChannelOK /\ StateOK
          OBVIOUS
      <2>1. ChannelOK
            BY ChannelInit
      <2> QED
          BY <2>1 DEF Init, StateOK, Servers, Texts
<1>2. ChannelOK /\ StateOK /\ [Next]_vars => (ChannelOK /\ StateOK)'
      BY ChannelKept, StateKept
<1>3. ChannelOK /\ StateOK => TypeOK
      <2> SUFFICES ASSUME ChannelOK, StateOK PROVE TypeOK
          OBVIOUS
      <2>1. stats \subseteq Texts /\ Cardinality(stats) <= 1
            <3>1. CASE stats = {}
                  BY <3>1, FS_EmptySet
            <3>2. ASSUME NEW t \in Texts, stats = {t}
                  PROVE  stats \subseteq Texts /\ Cardinality(stats) <= 1
                  <4>1. Cardinality({t}) = 1
                        BY FS_Singleton
                  <4> QED
                      BY <3>2, <4>1
            <3> QED
                BY <3>1, <3>2 DEF StateOK
      <2> QED
          BY <2>1 DEF ChannelOK, StateOK, TypeOK
<1> QED
    BY <1>1, <1>2, <1>3, PTL DEF Spec

-----------------------------------------------------------------------------
(* The switch and the commands on their way. *)

LEMMA SwitchKept ==
    ASSUME ChannelOK, SwitchIsOnItsWay, [Next]_vars
    PROVE  SwitchIsOnItsWay'
<1> USE DEF ChannelOK, task, texts, looks, loop
<1>1. ASSUME TrySendToggle, redundancy' = redundancy, switch' = switch,
             dropped' = dropped, server' = server
      PROVE  SwitchIsOnItsWay'
      <2>1. Settings' = Settings /\ \A i \in Settings : cmds'[i] = cmds[i]
            BY <1>1 DEF TrySendToggle, Settings, Toggle
      <2> QED
          BY <1>1, <2>1 DEF SwitchIsOnItsWay, Promises
<1>2. CASE ClickRedundancy
      <2>1. CASE ~Accepts
            BY <1>2, <2>1 DEF ClickRedundancy, SwitchIsOnItsWay
      <2>2. CASE Accepts
            <3>1. cmds' = Append(cmds, Redundancy(switch'))
                  BY <1>2, <2>2 DEF ClickRedundancy
            <3>2. /\ Len(cmds') = Len(cmds) + 1 /\ Len(cmds) \in Nat
                  /\ cmds'[Len(cmds) + 1] = Redundancy(switch')
                  /\ DOMAIN cmds' = 1 .. (Len(cmds) + 1)
                  BY <3>1
            <3>3. /\ Len(cmds) + 1 \in Settings'
                  /\ cmds'[Len(cmds) + 1].arg = switch'
                  BY <3>2 DEF Settings, Redundancy
            <3>4. \A j \in Settings' : j <= Len(cmds) + 1
                  BY <3>2 DEF Settings
            <3> QED
                BY <3>3, <3>4 DEF SwitchIsOnItsWay, Promises
      <2> QED
          BY <2>1, <2>2
<1>3. ASSUME cmds # << >>, cmds' = Tail(cmds), switch' = switch, dropped' = dropped,
             server # "dead",
             redundancy' = IF 1 \in Settings THEN cmds[1].arg ELSE redundancy
      PROVE  SwitchIsOnItsWay'
      <2>1. /\ Len(cmds) \in Nat /\ DOMAIN cmds = 1 .. Len(cmds)
            /\ DOMAIN cmds' = 1 .. (Len(cmds) - 1)
            /\ \A i \in 1 .. (Len(cmds) - 1) : cmds'[i] = cmds[i + 1]
            BY <1>3
      <2>2. \A i \in Nat : i \in Settings' <=> i + 1 \in Settings /\ i # 0
            BY <2>1 DEF Settings
      <2>3. Settings \subseteq Nat /\ Settings' \subseteq Nat /\ 0 \notin Settings
            BY <2>1 DEF Settings
      <2>4. CASE dropped
            BY <1>3, <2>4 DEF SwitchIsOnItsWay
      <2>5. CASE ~dropped /\ Settings = {}
            BY <1>3, <2>2, <2>3, <2>5 DEF SwitchIsOnItsWay, Promises
      <2>6. CASE ~dropped /\ Settings # {}
            <3>1. PICK i \in Settings : cmds[i].arg = switch /\ \A j \in Settings : j <= i
                  BY <1>3, <2>6 DEF SwitchIsOnItsWay, Promises
            <3>2. CASE i = 1
                  <4>1. Settings' = {}
                        <5> SUFFICES ASSUME NEW j \in Settings' PROVE FALSE
                            OBVIOUS
                        <5>1. j \in Nat /\ j + 1 \in Settings /\ j # 0
                              BY <2>2, <2>3
                        <5> QED
                            BY <3>1, <3>2, <5>1
                  <4> QED
                      BY <1>3, <3>1, <3>2, <4>1 DEF SwitchIsOnItsWay, Promises
            <3>3. CASE i # 1
                  <4>1. i \in Nat /\ i - 1 \in Nat /\ i - 1 # 0 /\ (i - 1) + 1 = i
                        BY <2>3, <3>1, <3>3
                  <4>2. i - 1 \in Settings' /\ cmds'[i - 1] = cmds[i]
                        BY <2>1, <2>2, <4>1 DEF Settings
                  <4>3. ASSUME NEW j \in Settings' PROVE j <= i - 1
                        <5>1. j \in Nat /\ j + 1 \in Settings
                              BY <2>2, <2>3
                        <5> QED
                            BY <3>1, <4>1, <5>1
                  <4> QED
                      BY <1>3, <3>1, <4>2, <4>3 DEF SwitchIsOnItsWay, Promises
            <3> QED
                BY <3>2, <3>3
      <2> QED
          BY <2>4, <2>5, <2>6
<1>4. CASE ToggleServer
      <2>1. 1 \notin Settings /\ server # "dead"
            BY <1>4 DEF ToggleServer, Takes, Settings
      <2> QED
          BY <1>3, <1>4, <2>1 DEF ToggleServer, Takes
<1>5. CASE SetRedundancy
      <2>1. 1 \in Settings /\ server # "dead"
            BY <1>5 DEF SetRedundancy, Takes, Settings
      <2> QED
          BY <1>3, <1>5, <2>1 DEF SetRedundancy, Takes
<1>6. ASSUME UNCHANGED <<cmds, redundancy, switch, dropped>>,
             server' # "dead" => server # "dead"
      PROVE  SwitchIsOnItsWay'
      BY <1>6 DEF SwitchIsOnItsWay, Promises, Settings
<1>7. CASE ClickToggle
      BY <1>1, <1>7 DEF ClickToggle
<1>8. CASE MainHandles
      BY <1>1, <1>6, <1>8 DEF MainHandles
<1>9. CASE Bind
      <2>1. CASE server' = "dead"
            BY <2>1 DEF SwitchIsOnItsWay
      <2>2. CASE server' # "dead"
            BY <1>6, <1>9, <2>2 DEF Bind
      <2> QED
          BY <2>1, <2>2
<1>10. CASE SessionBegins \/ SessionLeft \/ SessionEnds
      BY <1>6, <1>10 DEF SessionBegins, SessionLeft, SessionEnds
<1>11. CASE UNCHANGED <<server, cmds, redundancy, switch, dropped>>
      BY <1>6, <1>11
<1> QED
    BY <1>2, <1>4, <1>5, <1>7, <1>8, <1>9, <1>10, <1>11
    DEF Next, Window, Main, Server, vars, Open, CloseHides, ClosePosts, Timer, UseTray,
        MainLooks, UpdateStats

\* With a channel of any size, and as long as the server's task lives, the
\* switch shows what the server does or will do, but for a click that was lost
\* at a full channel (ui.rs:104-107, 223).
THEOREM SwitchFollowed == Spec => []SwitchIsOnItsWay
<1>1. Init => ChannelOK /\ SwitchIsOnItsWay
      <2> SUFFICES ASSUME Init PROVE ChannelOK /\ SwitchIsOnItsWay
          OBVIOUS
      <2>1. Settings = {}
            BY DEF Init, Settings
      <2>2. ChannelOK
            BY ChannelInit
      <2>3. redundancy = switch
            BY DEF Init
      <2> QED
          BY <2>1, <2>2, <2>3 DEF SwitchIsOnItsWay, Promises
<1>2. ChannelOK /\ SwitchIsOnItsWay /\ [Next]_vars => (ChannelOK /\ SwitchIsOnItsWay)'
      BY ChannelKept, SwitchKept
<1> QED
    BY <1>1, <1>2, PTL DEF Spec

-----------------------------------------------------------------------------
(* The text of the client. *)

\* Without a session what the window shows or will read is "None".
LEMMA TextKept ==
    ASSUME NoSessionNoClient, [Next]_vars
    PROVE  NoSessionNoClient'
<1> USE DEF NoSessionNoClient, task, texts, looks, loop
<1>1. CASE Timer
      <2>1. TextToBe' = TextToBe /\ server' = server
            BY <1>1 DEF Timer, TextToBe
      <2> QED
          BY <2>1
<1>2. CASE SessionEnds
      <2>1. (CHOOSE t \in {"None"} : TRUE) = "None"
            OBVIOUS
      <2>2. TextToBe' = "None"
            BY <1>2, <2>1 DEF SessionEnds, TextToBe
      <2> QED
          BY <2>2
<1>3. CASE UpdateStats
      BY <1>3 DEF UpdateStats
<1>4. CASE /\ UNCHANGED <<stats, client>>
           /\ server' \in {"streaming", "stopping", "ending"} \/
              server \notin {"streaming", "stopping", "ending"}
      <2>1. TextToBe' = TextToBe
            BY <1>4 DEF TextToBe
      <2> QED
          BY <1>4, <2>1
<1>5. CASE ToggleServer
      BY <1>4, <1>5 DEF ToggleServer
<1>6. CASE Bind \/ SessionBegins \/ SessionLeft
      BY <1>4, <1>6 DEF Bind, SessionBegins, SessionLeft
<1>7. CASE UNCHANGED <<server, stats, client>>
      BY <1>7 DEF TextToBe
<1> QED
    BY <1>1, <1>2, <1>3, <1>5, <1>6, <1>7
    DEF Next, Window, Main, Server, vars, Open, ClickToggle, ClickRedundancy, CloseHides,
        ClosePosts, UseTray, MainLooks, MainHandles, SetRedundancy

\* A window that is not told about the end of a session for being hidden shows
\* none when it appears again (main.rs:503, ui.rs:250-261).
THEOREM WindowForgetsClient == Spec => []NoSessionNoClient
<1>1. Init => NoSessionNoClient
      BY DEF Init, NoSessionNoClient, TextToBe
<1>2. NoSessionNoClient /\ [Next]_vars => NoSessionNoClient'
      BY TextKept
<1> QED
    BY <1>1, <1>2, PTL DEF Spec

-----------------------------------------------------------------------------
(* The closed window. *)

\* Of a closed window the main thread knows, or will find out: it has a
\* message left, or the look it is handling found the window hidden, or what
\* it stored last is right.
CloseIsNoticed ==
    window = "closed" /\ ~closing =>
        \/ posted # {}
        \/ main = "looked" /\ seen # "shown"
        \/ main = "waiting" /\ ~visibleFlag
        \/ main = "gone"

LEMMA CloseKept ==
    ASSUME CloseIsNoticed, [Next]_vars
    PROVE  CloseIsNoticed'
<1> USE DEF CloseIsNoticed, task, texts, looks, loop
<1>1. CASE ClosePosts
      BY <1>1 DEF ClosePosts
<1>2. CASE UseTray
      BY <1>2 DEF UseTray
<1>3. CASE MainLooks
      BY <1>3 DEF MainLooks
<1>4. CASE MainHandles
      <2>1. window' = "closed" => window = "closed"
            BY <1>4 DEF MainHandles
      <2> QED
          BY <1>4, <2>1 DEF MainHandles
<1>5. CASE Open \/ CloseHides
      BY <1>5 DEF Open, CloseHides
<1>6. CASE UNCHANGED <<window, closing, visibleFlag, posted, main, seen>>
      BY <1>6
<1> QED
    BY <1>1, <1>2, <1>3, <1>4, <1>5, <1>6
    DEF Next, Window, Main, Server, vars, ClickToggle, ClickRedundancy, Timer, Bind,
        ToggleServer, SetRedundancy, SessionBegins, SessionLeft, UpdateStats, SessionEnds

\* The message that the close callback posts is what makes a look before the
\* click harmless, in whatever order the messages are handled
\* (ui.rs:208-217, main.rs:543-545).
THEOREM ClosedWindowStaysAlone == Spec => []ClosedWindowIsLeftAlone
<1>1. Init => CloseIsNoticed
      BY DEF Init, CloseIsNoticed
<1>2. CloseIsNoticed /\ [Next]_vars => CloseIsNoticed'
      BY CloseKept
<1>3. CloseIsNoticed => ClosedWindowIsLeftAlone
      BY DEF CloseIsNoticed, ClosedWindowIsLeftAlone
<1> QED
    BY <1>1, <1>2, <1>3, PTL DEF Spec

-----------------------------------------------------------------------------
(* The toggles in the channel. *)

\* The positions of the toggles in a channel are finitely many.
LEMMA TogglesFinite ==
    ASSUME NEW q \in Seq(Commands)
    PROVE  IsFiniteSet(TogglesIn(q)) /\ TogglesIn(q) \subseteq 1 .. Len(q)
<1>1. TogglesIn(q) \subseteq 1 .. Len(q)
      BY DEF TogglesIn
<1>2. IsFiniteSet(1 .. Len(q))
      BY FS_Interval
<1> QED
    BY <1>1, <1>2, FS_Subset

\* A command sent counts if it is a toggle.
LEMMA ToggleSent ==
    ASSUME NEW q \in Seq(Commands), NEW c \in Commands
    PROVE  Cardinality(TogglesIn(Append(q, c))) =
               Cardinality(TogglesIn(q)) + IF c.op = "ToggleServer" THEN 1 ELSE 0
<1> DEFINE n == Len(q) + 1
           r == Append(q, c)
<1>1. /\ n \in Nat /\ DOMAIN r = 1 .. n /\ r[n] = c
      /\ DOMAIN q = 1 .. Len(q)
      /\ \A i \in 1 .. Len(q) : r[i] = q[i]
      OBVIOUS
<1>2. 1 .. n = (1 .. Len(q)) \cup {n} /\ n \notin 1 .. Len(q)
      OBVIOUS
<1>3. IsFiniteSet(TogglesIn(q)) /\ n \notin TogglesIn(q)
      BY <1>2, TogglesFinite
<1>4. Cardinality(TogglesIn(q)) \in Nat
      BY <1>3, FS_CardinalityType
<1> HIDE DEF n, r
<1>5. CASE c.op = "ToggleServer"
      <2>1. TogglesIn(r) = TogglesIn(q) \cup {n}
            BY <1>1, <1>2, <1>5 DEF TogglesIn
      <2> QED
          BY <1>3, <1>5, <2>1, FS_AddElement DEF r
<1>6. CASE c.op # "ToggleServer"
      <2>1. TogglesIn(r) = TogglesIn(q)
            BY <1>1, <1>2, <1>6 DEF TogglesIn
      <2> QED
          BY <1>4, <1>6, <2>1 DEF r
<1> QED
    BY <1>5, <1>6

\* A command received no longer counts; the others move up by one.
LEMMA ToggleReceived ==
    ASSUME NEW q \in Seq(Commands), q # << >>
    PROVE  Cardinality(TogglesIn(q)) =
               Cardinality(TogglesIn(Tail(q))) + IF q[1].op = "ToggleServer" THEN 1 ELSE 0
<1> DEFINE r == Tail(q)
           rest == TogglesIn(q) \ {1}
           f == [i \in TogglesIn(r) |-> i + 1]
<1>1. /\ Len(q) \in Nat \ {0} /\ DOMAIN q = 1 .. Len(q)
      /\ r \in Seq(Commands) /\ DOMAIN r = 1 .. (Len(q) - 1)
      /\ \A i \in 1 .. (Len(q) - 1) : r[i] = q[i + 1]
      OBVIOUS
<1> HIDE DEF r
<1>2. /\ IsFiniteSet(TogglesIn(q)) /\ TogglesIn(q) \subseteq 1 .. Len(q)
      /\ IsFiniteSet(TogglesIn(r)) /\ TogglesIn(r) \subseteq Nat
      <2>1. IsFiniteSet(TogglesIn(r)) /\ TogglesIn(r) \subseteq 1 .. Len(r)
            BY <1>1, TogglesFinite
      <2>2. 1 .. Len(r) \subseteq Nat
            BY <1>1
      <2> QED
          BY <2>1, <2>2, TogglesFinite
<1>3. \A i \in Nat : i \in TogglesIn(r) <=> i + 1 \in rest
      BY <1>1 DEF TogglesIn
<1>4. rest \subseteq Nat \ {0, 1}
      BY <1>1, <1>2
<1>5. f \in Bijection(TogglesIn(r), rest)
      <2>1. f \in [TogglesIn(r) -> rest]
            BY <1>2, <1>3
      <2>2. \A i, j \in TogglesIn(r) : f[i] = f[j] => i = j
            BY <1>2
      <2>3. ASSUME NEW k \in rest PROVE \E i \in TogglesIn(r) : f[i] = k
            <3>1. k - 1 \in Nat /\ (k - 1) + 1 = k
                  BY <1>4
            <3>2. k - 1 \in TogglesIn(r)
                  BY <1>3, <3>1
            <3> QED
                BY <3>1, <3>2
      <2> QED
          BY <2>1, <2>2, <2>3 DEF Bijection, Injection, Surjection, IsInjective
<1>6. Cardinality(rest) = Cardinality(TogglesIn(r))
      BY <1>2, <1>5, FS_Bijection DEF ExistsBijection
<1>7. Cardinality(TogglesIn(q)) \in Nat
      BY <1>2, FS_CardinalityType
<1>8. Cardinality(rest) =
          IF 1 \in TogglesIn(q) THEN Cardinality(TogglesIn(q)) - 1
                                ELSE Cardinality(TogglesIn(q))
      BY <1>2, FS_RemoveElement
<1>9. 1 \in TogglesIn(q) <=> q[1].op = "ToggleServer"
      BY <1>1 DEF TogglesIn
<1> HIDE DEF rest
<1> QED
    BY <1>6, <1>7, <1>8, <1>9 DEF r

LEMMA Parity == \A n \in Nat : (((n + 1) % 2) = 0) <=> ((n % 2) # 0)
BY Z3

LEMMA TogglesKept ==
    ASSUME ChannelOK, StateOK, TogglesCount, [Next]_vars
    PROVE  TogglesCount'
<1> USE DEF task, texts, looks, loop
<1>0. cmds \in Seq(Commands) /\ on \in BOOLEAN
      BY DEF ChannelOK, StateOK
<1>1. Toggles \in Nat
      BY <1>0, TogglesFinite, FS_CardinalityType DEF Toggles
<1>2. ASSUME UNCHANGED <<server, on>>, Toggles' = Toggles
      PROVE  TogglesCount'
      BY <1>2 DEF TogglesCount
<1>3. ASSUME TrySendToggle, server' = server
      PROVE  TogglesCount'
      <2>1. CASE Accepts
            <3>1. cmds' = Append(cmds, Toggle) /\ on' = ~on
                  BY <1>3, <2>1 DEF TrySendToggle
            <3>2. Toggles' = Toggles + 1
                  BY <1>0, <3>1, CommandsMade, ToggleSent DEF Toggles, Toggle
            <3> QED
                BY <1>0, <1>1, <1>3, <3>1, <3>2, Parity DEF TogglesCount
      <2>2. CASE ~Accepts
            BY <1>2, <1>3, <2>2 DEF TrySendToggle, Toggles
      <2> QED
          BY <2>1, <2>2
<1>4. CASE ClickRedundancy
      <2>1. CASE Accepts
            <3>1. cmds' = Append(cmds, Redundancy(switch')) /\ switch' \in BOOLEAN
                  BY <1>4, <2>1 DEF ClickRedundancy, ChannelOK
            <3>2. /\ Redundancy(switch') \in Commands
                  /\ Redundancy(switch').op # "ToggleServer"
                  BY <3>1, CommandsMade DEF Redundancy
            <3>3. Toggles' = Toggles
                  BY <1>0, <1>1, <3>1, <3>2, ToggleSent DEF Toggles
            <3> QED
                BY <1>2, <1>4, <3>3 DEF ClickRedundancy
      <2>2. CASE ~Accepts
            BY <1>2, <1>4, <2>2 DEF ClickRedundancy, Toggles
      <2> QED
          BY <2>1, <2>2
<1>5. CASE ToggleServer
      <2>1. /\ cmds # << >> /\ cmds[1].op = "ToggleServer" /\ cmds' = Tail(cmds)
            /\ on' = on
            BY <1>5 DEF ToggleServer, Takes
      <2>2. Toggles = Toggles' + 1 /\ Toggles' \in Nat
            <3>1. cmds' \in Seq(Commands)
                  BY <1>0, <2>1
            <3>2. Toggles' \in Nat
                  BY <3>1, TogglesFinite, FS_CardinalityType DEF Toggles
            <3>3. Toggles = Toggles' + 1
                  BY <1>0, <2>1, ToggleReceived DEF Toggles
            <3> QED
                BY <3>2, <3>3
      <2>3. /\ (server' \in {"idle", "stopping"}) <=> (server \notin {"idle", "stopping"})
            /\ server # "dead" /\ server' # "dead"
            BY <1>5 DEF ToggleServer
      <2>4. ((Toggles % 2) = 0) <=> ((Toggles' % 2) # 0)
            BY <2>2, Parity
      <2> QED
          BY <1>0, <2>1, <2>3, <2>4 DEF TogglesCount
<1>6. CASE SetRedundancy
      <2>1. /\ cmds # << >> /\ cmds[1].op # "ToggleServer" /\ cmds' = Tail(cmds)
            /\ UNCHANGED <<server, on>>
            BY <1>6 DEF SetRedundancy, Takes
      <2>2. Toggles' \in Nat
            <3>1. cmds' \in Seq(Commands)
                  BY <1>0, <2>1
            <3> QED
                BY <3>1, TogglesFinite, FS_CardinalityType DEF Toggles
      <2>3. Toggles' = Toggles
            BY <1>0, <2>1, <2>2, ToggleReceived DEF Toggles
      <2> QED
          BY <1>2, <2>1, <2>3
<1>7. CASE (Bind /\ server' # "dead") \/ SessionBegins \/ SessionLeft \/ SessionEnds
      <2>1. /\ (server' \in {"idle", "stopping"}) <=> (server \in {"idle", "stopping"})
            /\ server # "dead" /\ UNCHANGED <<cmds, on>>
            BY <1>7 DEF Bind, SessionBegins, SessionLeft, SessionEnds
      <2> QED
          BY <2>1 DEF TogglesCount, Toggles
<1>8. CASE UNCHANGED <<server, on, cmds>>
      BY <1>2, <1>8 DEF Toggles
<1>9. CASE ClickToggle
      BY <1>3, <1>9 DEF ClickToggle
<1>10. CASE MainHandles
      BY <1>3, <1>8, <1>10 DEF MainHandles
<1>11. CASE server' = "dead"
      BY <1>11 DEF TogglesCount
<1> QED
    BY <1>4, <1>5, <1>6, <1>7, <1>8, <1>9, <1>10, <1>11
    DEF Next, Window, Main, Server, vars, Open, CloseHides, ClosePosts, Timer, UseTray,
        MainLooks, UpdateStats

\* As long as the server's task lives, every accepted click counts exactly once,
\* with a channel of any size and whatever the server does while it waits
\* (main.rs:194-199, 216-218, 407-409).
THEOREM ClicksCountOnce == Spec => []TogglesCount
<1> DEFINE Inv == ChannelOK /\ StateOK /\ TogglesCount
<1>1. Init => Inv
      <2> SUFFICES ASSUME Init PROVE Inv
          OBVIOUS
      <2>1. ChannelOK
            BY ChannelInit
      <2>2. StateOK
            BY <2>1 DEF Init, StateOK, Servers, Texts
      <2>3. Toggles = 0
            <3>1. cmds = << >>
                  BY DEF Init
            <3>2. TogglesIn(<< >>) = {}
                  BY DEF TogglesIn
            <3> QED
                BY <3>1, <3>2, FS_EmptySet DEF Toggles
      <2>4. (0 % 2) = 0
            BY Z3
      <2>5. TogglesCount
            BY <2>3, <2>4 DEF Init, TogglesCount
      <2> QED
          BY <2>1, <2>2, <2>5
<1>2. Inv /\ [Next]_vars => Inv'
      BY ChannelKept, StateKept, TogglesKept
<1>3. Inv => TogglesCount
      OBVIOUS
<1> QED
    BY <1>1, <1>2, <1>3, PTL DEF Spec
==============================================================================
