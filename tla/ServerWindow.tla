---------------------------- MODULE ServerWindow ----------------------------
(***************************************************************************)
(* The server program around its sessions: the window's thread             *)
(* (server/src/ui.rs), the main thread with the tray icon                  *)
(* (server/src/main.rs:531-562), the server task (main.rs:167-510) and     *)
(* what they share: two flags, a bounded channel of commands to the server *)
(* and an unbounded one of statistics to the window.                       *)
(*                                                                         *)
(* A session is here only begun and ended; StreamWorker has its inside and *)
(* Connection what it says to the phone.  Of the statistics only the       *)
(* client's address is kept, and only the newest: the window reads all     *)
(* there are and each overwrites the one before.  A message to the main    *)
(* thread is the tray event that comes with it, or "null".                 *)
(***************************************************************************)
EXTENDS Integers, Sequences, FiniteSets

CONSTANTS
    QUEUE,          \* 10 commands
    MaxPosted       \* bound: messages to the main thread that it has not handled

ASSUME WindowConstants ==
    QUEUE \in Nat \ {0} /\ MaxPosted \in Nat \ {0}

VARIABLES
    server,       \* what the server task does
    running,      \* is_running
    redundancy,   \* the server's redundancy
    cmds,         \* the UiCommand channel
    stats,        \* the newest text in the UiMessage channel, if any
    shown,        \* the window's is_streaming
    switch,       \* its redundancy_enabled
    client,       \* its client_text
    window,       \* "opening", "shown", "closed" by its button, "hidden" by the tray
    closing,      \* the close button's callback has hidden the window
    visibleFlag,  \* is_ui_visible
    posted,       \* messages to the main thread
    main,         \* what the main thread does
    event,        \* the message it handles
    seen,         \* the window it found
    on,           \* auxiliary: the accepted toggles say that the server is on
    dropped       \* auxiliary: the last click on the switch was not taken

vars == <<server, running, redundancy, cmds, stats, shown, switch, client, window,
          closing, visibleFlag, posted, main, event, seen, on, dropped>>
task == <<server, running, redundancy>>
texts == <<shown, switch, client, dropped>>
looks == <<window, closing, visibleFlag>>
loop == <<posted, main, event, seen>>

Servers == {"binding", "listening", "streaming", "stopping", "ending",
            "idle", "dead"}
TrayEvents == {"toggle", "server_toggle", "double", "quit"}
Commands == [op : {"ToggleServer"}, arg : {FALSE}] \cup [op : {"SetRedundancy"}, arg : BOOLEAN]
Texts == {"None", "Client"}

\* is_running is set at once, the first socket is bound after three seconds.
Init ==
    /\ server = "binding" /\ running = TRUE /\ redundancy = FALSE
    /\ cmds = << >> /\ stats = {}
    /\ shown = FALSE /\ switch = FALSE /\ client = "None"
    /\ window = "opening" /\ closing = FALSE /\ visibleFlag = TRUE
    /\ posted = {} /\ main = "waiting" /\ event = "null" /\ seen = "nothing"
    /\ on = TRUE /\ dropped = FALSE

\* What try_send needs: room, and a receiver, which dies with the server task.
Accepts == Len(cmds) < QUEUE /\ server # "dead"
Toggle == [op |-> "ToggleServer", arg |-> FALSE]
Redundancy(r) == [op |-> "SetRedundancy", arg |-> r]

\* try_send(ToggleServer): at a full or closed channel the click is lost.
TrySendToggle ==
    IF Accepts
    THEN cmds' = Append(cmds, Toggle) /\ on' = ~on
    ELSE UNCHANGED <<cmds, on>>

-----------------------------------------------------------------------------
(* The window's thread.  While the close callback runs nothing else does. *)

WindowIdle == ~closing /\ main # "gone"
Usable == WindowIdle /\ window = "shown"

\* window.run().
Open ==
    /\ WindowIdle /\ window = "opening"
    /\ window' = "shown"
    /\ UNCHANGED <<task, cmds, stats, texts, closing, visibleFlag, loop, on>>

ClickToggle ==
    /\ Usable
    /\ TrySendToggle
    /\ UNCHANGED <<task, stats, texts, looks, loop>>

\* The switch is flipped before the command is sent.
ClickRedundancy ==
    /\ Usable
    /\ switch' = ~switch
    /\ dropped' = ~Accepts
    /\ cmds' = IF Accepts THEN Append(cmds, Redundancy(switch')) ELSE cmds
    /\ UNCHANGED <<task, stats, shown, client, looks, loop, on>>

\* The close button's callback: hide, clear the flag, wake the main thread.
CloseHides ==
    /\ Usable
    /\ window' = "closed" /\ closing' = TRUE
    /\ UNCHANGED <<task, cmds, stats, texts, visibleFlag, loop, on>>

\* A close callback that trusts its own store.
ClosePosts_Nothing ==
    /\ closing /\ main # "gone"
    /\ visibleFlag' = FALSE /\ closing' = FALSE
    /\ UNCHANGED <<task, cmds, stats, texts, window, loop, on>>

ClosePosts ==
    /\ closing /\ main # "gone"
    /\ visibleFlag' = FALSE /\ closing' = FALSE
    /\ posted' = posted \cup {"null"}
    /\ UNCHANGED <<task, cmds, stats, texts, window, main, event, seen, on>>

\* What client_text becomes when the statistics have been read.
TextToBe == IF stats = {} THEN client ELSE CHOOSE t \in stats : TRUE

\* Every 250 ms, hidden or not: the state, then all statistics there are.
Timer ==
    /\ WindowIdle
    /\ shown' = running
    /\ client' = TextToBe /\ stats' = {}
    /\ UNCHANGED <<task, cmds, switch, dropped, looks, loop, on>>

-----------------------------------------------------------------------------
(* The main thread. *)

Unhandled == Cardinality(posted) + (IF main = "looked" THEN 1 ELSE 0)

\* The user at the tray icon; moving the mouse over it is a message as well.
UseTray ==
    /\ main # "gone" /\ Unhandled < MaxPosted
    /\ \E m \in TrayEvents \cup {"null"} : posted' = posted \cup {m}
    /\ UNCHANGED <<task, cmds, stats, texts, looks, main, event, seen, on>>

\* FindWindowW and IsWindowVisible.
MainLooks ==
    /\ main = "waiting"
    /\ \E m \in posted : event' = m /\ posted' = posted \ {m}
    /\ seen' = CASE window = "opening" -> "nothing"
                 [] window = "shown"   -> "shown"
                 [] OTHER              -> "hidden"
    /\ main' = "looked"
    /\ UNCHANGED <<task, cmds, stats, texts, looks, on>>

Appears ==
    \/ event = "double" /\ seen # "nothing"
    \/ event = "toggle" /\ seen = "hidden"
Vanishes == event = "toggle" /\ seen = "shown" /\ window # "closed"

\* What was seen is stored, and then decides what the menu and the icon do.
MainHandles ==
    /\ main = "looked"
    /\ visibleFlag' = (seen = "shown")
    /\ main' = IF event = "quit" THEN "gone" ELSE "waiting"
    /\ window' = CASE Appears  -> "shown"
                   [] Vanishes -> "hidden"
                   [] OTHER    -> window
    /\ IF event = "server_toggle" THEN TrySendToggle ELSE UNCHANGED <<cmds, on>>
    /\ event' = "null" /\ seen' = "nothing"
    /\ UNCHANGED <<task, stats, texts, closing, posted>>

-----------------------------------------------------------------------------
(* The server task. *)

\* The process lives, and the task does not sleep, bind or await its worker.
Takes(op) == main # "gone" /\ cmds # << >> /\ cmds[1].op = op

\* bind_socket's result is expected: a failure panics the task, with which its
\* end of the channel goes and every command in it.  Nobody notices.
Bind ==
    /\ server = "binding" /\ main # "gone"
    /\ running' = TRUE
    /\ server' \in {"listening", "dead"}
    /\ cmds' = IF server' = "dead" THEN << >> ELSE cmds
    /\ UNCHANGED <<redundancy, stats, texts, looks, loop, on>>

\* A server that goes back to listening when it is told to stop streaming.
ToggleServer_KeepListening ==
    /\ Takes("ToggleServer") /\ server \in {"idle", "listening", "streaming"}
    /\ server' = IF server = "listening" THEN "idle"
                 ELSE IF server = "streaming" THEN "ending" ELSE "binding"
    /\ running' = (running /\ server # "listening")
    /\ cmds' = Tail(cmds)
    /\ UNCHANGED <<redundancy, stats, texts, looks, loop, on>>

\* A listening server that stops without clearing is_running.
ToggleServer_KeepFlag ==
    /\ Takes("ToggleServer") /\ server \in {"idle", "listening", "streaming"}
    /\ server' = IF server = "idle" THEN "binding"
                 ELSE IF server = "listening" THEN "idle" ELSE "stopping"
    /\ cmds' = Tail(cmds)
    /\ UNCHANGED <<running, redundancy, stats, texts, looks, loop, on>>

\* Idle begins with clearing is_running.
ToggleServer ==
    /\ Takes("ToggleServer") /\ server \in {"idle", "listening", "streaming"}
    /\ server' = IF server = "idle" THEN "binding"
                 ELSE IF server = "listening" THEN "idle" ELSE "stopping"
    /\ running' = (running /\ server' # "idle")
    /\ cmds' = Tail(cmds)
    /\ UNCHANGED <<redundancy, stats, texts, looks, loop, on>>

\* An idle server that waits for its toggle only.
SetRedundancy_NotIdle ==
    /\ Takes("SetRedundancy") /\ server \in {"idle", "listening", "streaming"}
    /\ redundancy' = IF server = "idle" THEN redundancy ELSE cmds[1].arg
    /\ cmds' = Tail(cmds)
    /\ UNCHANGED <<server, running, stats, texts, looks, loop, on>>

SetRedundancy ==
    /\ Takes("SetRedundancy") /\ server \in {"idle", "listening", "streaming"}
    /\ redundancy' = cmds[1].arg
    /\ cmds' = Tail(cmds)
    /\ UNCHANGED <<server, running, stats, texts, looks, loop, on>>

\* A CONFIG begins a session; GOODBYE or silence ends it.
SessionBegins ==
    /\ server = "listening" /\ main # "gone" /\ server' = "streaming"
    /\ UNCHANGED <<running, redundancy, cmds, stats, texts, looks, loop, on>>

SessionLeft ==
    /\ server = "streaming" /\ main # "gone" /\ server' = "ending"
    /\ UNCHANGED <<running, redundancy, cmds, stats, texts, looks, loop, on>>

\* At most every 200 ms, and only for a window that is believed visible.
UpdateStats ==
    /\ server = "streaming" /\ main # "gone"
    /\ visibleFlag
    /\ stats' = {"Client"}
    /\ UNCHANGED <<task, cmds, texts, looks, loop, on>>

\* A last update for those who look only.
SessionEnds_IfVisible ==
    /\ server \in {"stopping", "ending"} /\ main # "gone"
    /\ server' = IF server = "stopping" THEN "idle" ELSE "binding"
    /\ running' = (running /\ server' # "idle")
    /\ stats' = IF visibleFlag THEN {"None"} ELSE stats
    /\ UNCHANGED <<redundancy, cmds, texts, looks, loop, on>>

\* The worker has ended and, for a stopped session, GOODBYE is sent.
SessionEnds ==
    /\ server \in {"stopping", "ending"} /\ main # "gone"
    /\ server' = IF server = "stopping" THEN "idle" ELSE "binding"
    /\ running' = (running /\ server' # "idle")
    /\ stats' = {"None"}
    /\ UNCHANGED <<redundancy, cmds, texts, looks, loop, on>>

-----------------------------------------------------------------------------

Window ==
    \/ Open
    \/ ClickToggle
    \/ ClickRedundancy
    \/ CloseHides
    \/ ClosePosts
    \/ Timer

Main ==
    \/ UseTray
    \/ MainLooks
    \/ MainHandles

Server ==
    \/ Bind
    \/ ToggleServer
    \/ SetRedundancy
    \/ SessionBegins
    \/ SessionLeft
    \/ UpdateStats
    \/ SessionEnds

Next == Window \/ Main \/ Server

Spec == Init /\ [][Next]_vars

\* The window's timer fires between other events; the bind and the worker's end come; a
\* select! that is entered again and again takes a command that waits.
FairSpec ==
    /\ Spec
    /\ SF_vars(Timer) /\ WF_vars(ClosePosts)
    /\ WF_vars(Bind \/ SessionEnds)
    /\ SF_vars(ToggleServer \/ SetRedundancy)

-----------------------------------------------------------------------------
(* Properties. *)

TypeOK ==
    /\ server \in Servers /\ running \in BOOLEAN /\ redundancy \in BOOLEAN
    /\ cmds \in Seq(Commands) /\ Len(cmds) <= QUEUE
    /\ stats \subseteq Texts /\ Cardinality(stats) <= 1
    /\ shown \in BOOLEAN /\ switch \in BOOLEAN /\ client \in Texts
    /\ window \in {"opening", "shown", "closed", "hidden"}
    /\ closing \in BOOLEAN /\ visibleFlag \in BOOLEAN
    /\ posted \subseteq TrayEvents \cup {"null"}
    /\ main \in {"waiting", "looked", "gone"}
    /\ event \in TrayEvents \cup {"null"} /\ seen \in {"nothing", "shown", "hidden"}
    /\ on \in BOOLEAN /\ dropped \in BOOLEAN

TogglesIn(q) == {i \in DOMAIN q : q[i].op = "ToggleServer"}
Toggles == Cardinality(TogglesIn(cmds))

\* As long as the server's task lives, every accepted click of either button
\* counts exactly once, whatever the server is doing when it comes: executing
\* the toggles still in the channel makes the server on or off as the clicks so
\* far say (main.rs:194-199, 216-218, 407-409).
TogglesCount ==
    \/ server = "dead"
    \/ (server \notin {"idle", "stopping"}) = (IF Toggles % 2 = 0 THEN on ELSE ~on)

Settings == {i \in DOMAIN cmds : cmds[i].op = "SetRedundancy"}

\* The server's redundancy when it has read its commands.
Promises(r) ==
    \/ Settings = {} /\ redundancy = r
    \/ \E i \in Settings : cmds[i].arg = r /\ \A j \in Settings : j <= i

\* As long as the server's task lives, the switch shows what the server does or
\* will do as soon as it reads its commands, unless the last click was lost at a
\* full channel (ui.rs:104-107, 223).
SwitchIsOnItsWay == server # "dead" /\ ~dropped => Promises(switch)

\* Without a session the window names no client, or is about to: the last
\* message of a session reaches a hidden window too (main.rs:503, ui.rs:250-261).
NoSessionNoClient ==
    server \notin {"streaming", "stopping", "ending"} => TextToBe = "None"

\* A window closed by its button is not sent statistics once the main thread
\* has nothing left to do, although that thread stores what it saw before the
\* click after the callback has cleared the flag (ui.rs:208-217, main.rs:543-545).
ClosedWindowIsLeftAlone ==
    window = "closed" /\ ~closing /\ main = "waiting" /\ posted = {} => ~visibleFlag

\* main.rs:175: setting is_running "is enough for UI visual": once the
\* server's state stays, the window shows whether it is on.
WindowFollows ==
    <>[][server' = server]_server =>
        <>[](main = "gone" \/ shown = (server # "idle"))

-----------------------------------------------------------------------------
(* What the program shows and does not do (README.md, section Divergences,  *)
(* names the step that breaks each).                                        *)

\* A switch that shows what the server does, also after a lost click.
SwitchIsHonoured == Promises(switch)

\* A window that is shown, by whoever, is sent statistics.
ShownWindowIsFed ==
    window = "shown" /\ ~closing /\ main = "waiting" /\ posted = {} => visibleFlag

\* "Streaming" in the window means that there is a server.
ShownServerLives == []<>(main = "gone" \/ ~(shown /\ server = "dead"))
=============================================================================
