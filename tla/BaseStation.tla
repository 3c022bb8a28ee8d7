----------------------------- MODULE BaseStation -----------------------------
(***************************************************************************)
(* The operator's program, BaseStation/MainWindow.xaml.cs: threads that    *)
(* share the drive mode, the connection flags and the robot's endpoint     *)
(* without a lock.                                                         *)
(*                                                                         *)
(*   gui        the dispatcher thread: Go button, mode list, sliders, close*)
(*   worker     connectionThread, ConnectingWorker                         *)
(*   callbacks  PacketReceiveCallback; the next receive is posted before a *)
(*              packet is handled, so several packets are handled at once  *)
(*   joystick   ReadJoystickValues                                         *)
(*   timer      QueryHeartbeatEvent, every 15 s                            *)
(*                                                                         *)
(* A step makes at most one access to data another thread also touches.    *)
(* What a packet carries beyond its opcode is left out, and so are the     *)
(* widgets that only show something.  Which packets come is left open.     *)
(***************************************************************************)
EXTENDS Naturals

CONSTANTS
    Endpoints,      \* addresses the operator may type
    Nowhere         \* robotPacketEndpoint == null

ASSUME EndpointAssumption == Nowhere \notin Endpoints

VARIABLES
    selected,       \* robotModeListBox.SelectedIndex
    selecting,      \* a closure that selects "Remote Drive" is in the queue
    driveMode,      \* currentDriveMode
    isConnected,
    endpoint,       \* robotPacketEndpoint
    heard,          \* lastHeartbeatReceived != DateTime.MinValue
    acked,          \* receivedDriveModeAck
    listening,      \* a receive is posted
    handling,       \* the opcodes that callbacks hold and have not acted on
    worker,         \* connectionThread: where it is, and its local variables
    gui,            \* where the dispatcher thread is
    joystick,       \* where joystickReadThread is
    timer,          \* where the timer's handler is
    closing,        \* windowClosing
    out,            \* what the last step handed to packetSocket
    spoken          \* something was sent: the network can answer with an error

link == <<heard, acked, listening, handling>>
settings == <<selected, selecting, driveMode, isConnected, endpoint>>
vars == <<settings, link, worker, gui, joystick, timer, closing, out, spoken>>

-----------------------------------------------------------------------------
Modes == {"Direct", "Remote", "AI"}
Items == {"Remote", "AI"}           \* of robotModeListBox, MainWindow.xaml:102

\* The opcodes PacketReceiveCallback acts on; it drops the others.
Handled == {"REPORT_HEARTBEAT", "REMOTE_SWITCH", "SWITCH_MODE_ACK"}

Requests == {"QUERY_CAMERA_IMAGE", "SET_CAMERA"}
Outgoing == [op : Requests \cup {"QUERY_HEARTBEAT", "REMOTE_SWITCH", "AI_INIT",
                                 "DRIVE", "EMPTY"},
             to : Endpoints \cup {Nowhere}]

Places == {"none", "flags", "flags2", "forget", "forgetAck", "loop", "query",
           "send", "check", "connect", "ending"}
Workers == [pc : Places, query : BOOLEAN, set : BOOLEAN, chosen : Modes]
NoWorker == [pc |-> "none", query |-> FALSE, set |-> FALSE, chosen |-> "Direct"]
Alive == worker.pc # "none"

Send(op) == out' = {[op |-> op, to |-> endpoint]} /\ spoken' = TRUE
SendNothing == out' = {} /\ UNCHANGED spoken

Init ==
    /\ selected = "nothing" /\ selecting = FALSE
    /\ driveMode = "Direct"
    /\ isConnected = FALSE
    /\ endpoint = Nowhere
    /\ heard = FALSE /\ acked = FALSE
    /\ listening = TRUE /\ handling = {}
    /\ worker = NoWorker
    /\ gui = "idle" /\ joystick = "loop" /\ timer = "idle"
    /\ closing = FALSE
    /\ out = {} /\ spoken = FALSE

-----------------------------------------------------------------------------
(* PacketReceiveCallback *)

Receive(op) ==
    /\ listening
    /\ handling' = handling \cup {op}
    /\ SendNothing
    /\ UNCHANGED <<settings, heard, acked, listening, worker, gui, joystick,
                   timer, closing>>

\* An ICMP error for something sent earlier.  No receive is posted after it.
ReceiveError ==
    /\ listening
    /\ spoken
    /\ listening' = FALSE
    /\ worker' = NoWorker
    /\ SendNothing
    /\ UNCHANGED <<settings, heard, acked, handling, gui, joystick, timer,
                   closing>>

HandleHeartbeat ==
    /\ "REPORT_HEARTBEAT" \in handling
    /\ handling' = handling \ {"REPORT_HEARTBEAT"}
    /\ heard' = TRUE
    /\ SendNothing
    /\ UNCHANGED <<settings, acked, listening, worker, gui, joystick, timer,
                   closing>>

HandleAck ==
    /\ "SWITCH_MODE_ACK" \in handling
    /\ handling' = handling \ {"SWITCH_MODE_ACK"}
    /\ acked' = TRUE
    /\ SendNothing
    /\ UNCHANGED <<settings, heard, listening, worker, gui, joystick, timer,
                   closing>>

\* The robot gave up on the AI.  The list follows when the dispatcher gets to it.
HandleRemoteSwitch ==
    /\ "REMOTE_SWITCH" \in handling
    /\ handling' = handling \ {"REMOTE_SWITCH"}
    /\ driveMode' = "Remote"
    /\ selecting' = TRUE
    /\ SendNothing
    /\ UNCHANGED <<selected, isConnected, endpoint, heard, acked, listening,
                   worker, gui, joystick, timer, closing>>

Callback == HandleHeartbeat \/ HandleAck \/ HandleRemoteSwitch

-----------------------------------------------------------------------------
(* ConnectingWorker *)

WorkerOnly(w) ==
    /\ worker' = w
    /\ UNCHANGED <<settings, link, gui, joystick, timer, closing>>

At(pc) == worker.pc = pc
To(pc) == [worker EXCEPT !.pc = pc]

\* queryHeartbeatState = !isConnected; setDriveModeState = isConnected
WorkerQueryFlag ==
    /\ At("flags")
    /\ WorkerOnly([To("flags2") EXCEPT !.query = ~isConnected])
    /\ SendNothing

WorkerSetFlag ==
    /\ At("flags2")
    /\ WorkerOnly([To("forget") EXCEPT !.set = isConnected])
    /\ SendNothing

WorkerForgetHeartbeat ==
    /\ At("forget")
    /\ heard' = FALSE
    /\ worker' = To("forgetAck")
    /\ SendNothing
    /\ UNCHANGED <<settings, acked, listening, handling, gui, joystick, timer,
                   closing>>

WorkerForgetAck ==
    /\ At("forgetAck")
    /\ acked' = FALSE
    /\ worker' = To("loop")
    /\ SendNothing
    /\ UNCHANGED <<settings, heard, listening, handling, gui, joystick, timer,
                   closing>>

\* Every turn of the loop ends with a sleep of 150 ms.
WorkerHeard ==
    /\ At("loop") /\ worker.query
    /\ WorkerOnly(IF heard THEN [worker EXCEPT !.query = FALSE, !.set = TRUE]
                  ELSE To("query"))
    /\ SendNothing

WorkerQuery ==
    /\ At("query")
    /\ Send("QUERY_HEARTBEAT")
    /\ WorkerOnly(To("loop"))

\* With neither flag set the thread gives up.
WorkerChoose ==
    /\ At("loop") /\ ~worker.query
    /\ WorkerOnly(IF worker.set THEN [To("send") EXCEPT !.chosen = driveMode]
                  ELSE NoWorker)
    /\ SendNothing

\* An array of no bytes is sent in Direct mode.
SwitchPacket(m) ==
    IF m = "Remote" THEN "REMOTE_SWITCH" ELSE IF m = "AI" THEN "AI_INIT" ELSE "EMPTY"

\* The packet goes out before the acknowledgement is looked at.
WorkerSend ==
    /\ At("send")
    /\ Send(SwitchPacket(worker.chosen))
    /\ WorkerOnly(To("check"))

WorkerCheckNothing ==                                       \* mutant: no check
    /\ At("check")
    /\ WorkerOnly(To("connect"))
    /\ SendNothing
WorkerCheckOnce ==                                          \* mutant: no retry
    /\ At("check") /\ acked
    /\ WorkerOnly(To("connect"))
    /\ SendNothing
WorkerCheck ==
    /\ At("check")
    /\ WorkerOnly(To(IF acked THEN "connect" ELSE "loop"))
    /\ SendNothing

WorkerConnect ==
    /\ At("connect")
    /\ isConnected' = TRUE
    /\ worker' = To("ending")
    /\ SendNothing
    /\ UNCHANGED <<selected, selecting, driveMode, endpoint, link, gui,
                   joystick, timer, closing>>

\* The last sleep: isConnected is set and the thread is still alive.
WorkerEnd ==
    /\ At("ending")
    /\ WorkerOnly(NoWorker)
    /\ SendNothing

Worker ==
    \/ WorkerQueryFlag \/ WorkerSetFlag
    \/ WorkerForgetHeartbeat \/ WorkerForgetAck
    \/ WorkerHeard \/ WorkerQuery \/ WorkerChoose \/ WorkerSend \/ WorkerCheck
    \/ WorkerConnect \/ WorkerEnd

-----------------------------------------------------------------------------
(* ReadJoystickValues, with a controller that is plugged in *)

JoystickOnly(pc) ==
    /\ joystick' = pc
    /\ UNCHANGED <<settings, link, worker, gui, timer, closing>>

JoystickLoop ==
    /\ joystick = "loop" /\ ~closing
    /\ JoystickOnly("read")
    /\ SendNothing

JoystickConnected ==
    /\ joystick = "read"
    /\ JoystickOnly(IF isConnected THEN "mode" ELSE "loop")
    /\ SendNothing

JoystickAnyMode ==                                          \* mutant: no check
    /\ joystick = "mode"
    /\ JoystickOnly("send")
    /\ SendNothing
JoystickMode ==
    /\ joystick = "mode"
    /\ JoystickOnly(IF driveMode = "Remote" THEN "send" ELSE "loop")
    /\ SendNothing

JoystickSend ==
    /\ joystick = "send"
    /\ Send("DRIVE")
    /\ JoystickOnly("loop")

JoystickEnd ==
    /\ joystick = "loop" /\ closing
    /\ JoystickOnly("ended")
    /\ SendNothing

Joystick ==
    JoystickLoop \/ JoystickConnected \/ JoystickMode \/ JoystickSend \/ JoystickEnd

-----------------------------------------------------------------------------
(* QueryHeartbeatEvent *)

HeartbeatElapsed ==
    /\ timer = "idle"
    /\ isConnected /\ endpoint # Nowhere
    /\ timer' = "send"
    /\ SendNothing
    /\ UNCHANGED <<settings, link, worker, gui, joystick, closing>>

HeartbeatSend ==
    /\ timer = "send"
    /\ Send("QUERY_HEARTBEAT")
    /\ timer' = "idle"
    /\ UNCHANGED <<settings, link, worker, gui, joystick, closing>>

-----------------------------------------------------------------------------
(* The dispatcher thread *)

SelectMode(item) ==
    /\ gui = "idle"
    /\ selected' = item
    /\ SendNothing
    /\ UNCHANGED <<selecting, driveMode, isConnected, endpoint, link, worker,
                   gui, joystick, timer, closing>>

\* The closure of HandleRemoteSwitch.
ShowRemote ==
    /\ gui = "idle"
    /\ selecting
    /\ selected' = "Remote" /\ selecting' = FALSE
    /\ SendNothing
    /\ UNCHANGED <<driveMode, isConnected, endpoint, link, worker, gui,
                   joystick, timer, closing>>

\* RequestImageClicked, QualityValueChanged and their like.  Only this thread
\* clears isConnected, so what it has just read still holds.
Request(op) ==
    /\ gui = "idle"
    /\ isConnected
    /\ Send(op)
    /\ UNCHANGED <<settings, link, worker, gui, joystick, timer, closing>>

GoButtonClicked ==
    /\ gui = "idle"
    /\ gui' = IF isConnected THEN "update" ELSE "endpoint"
    /\ SendNothing
    /\ UNCHANGED <<settings, link, worker, joystick, timer, closing>>

\* GetDriveMode, for the press that updates and for the one that connects.
GoUnselected ==                                     \* mutant: index not checked
    /\ gui \in {"update", "mode"}
    /\ driveMode' = selected
    /\ gui' = IF gui = "update" THEN "clear" ELSE "start"
    /\ SendNothing
    /\ UNCHANGED <<selected, selecting, isConnected, endpoint, link, worker,
                   joystick, timer, closing>>
GetDriveMode ==
    /\ gui \in {"update", "mode"}
    /\ IF selected = "nothing"
       THEN gui' = "idle" /\ UNCHANGED driveMode
       ELSE /\ driveMode' = selected
            /\ gui' = IF gui = "update" THEN "clear" ELSE "start"
    /\ SendNothing
    /\ UNCHANGED <<selected, selecting, isConnected, endpoint, link, worker,
                   joystick, timer, closing>>

\* The update of a connected base station disconnects it first.
GoClear ==
    /\ gui = "clear"
    /\ isConnected' = FALSE
    /\ gui' = "start"
    /\ SendNothing
    /\ UNCHANGED <<selected, selecting, driveMode, endpoint, link, worker,
                   joystick, timer, closing>>

GoInvalidAddress ==
    /\ gui = "endpoint"
    /\ gui' = "idle"
    /\ SendNothing
    /\ UNCHANGED <<settings, link, worker, joystick, timer, closing>>

GoEndpoint(addr) ==
    /\ gui = "endpoint"
    /\ endpoint' = addr
    /\ gui' = "mode"
    /\ SendNothing
    /\ UNCHANGED <<selected, selecting, driveMode, isConnected, link, worker,
                   joystick, timer, closing>>

StartConnection ==
    /\ gui = "start"
    /\ gui' = "idle"
    /\ worker' = IF Alive THEN worker ELSE [NoWorker EXCEPT !.pc = "flags"]
    /\ SendNothing
    /\ UNCHANGED <<settings, link, joystick, timer, closing>>

WindowClosingUntold ==                              \* mutant: flag forgotten
    /\ gui = "idle"
    /\ gui' = "abort"
    /\ SendNothing
    /\ UNCHANGED <<settings, link, worker, joystick, timer, closing>>
WindowClosing ==
    /\ gui = "idle"
    /\ closing' = TRUE
    /\ gui' = "abort"
    /\ SendNothing
    /\ UNCHANGED <<settings, link, worker, joystick, timer>>

AbortWorker ==
    /\ gui = "abort"
    /\ gui' = "join"
    /\ worker' = NoWorker
    /\ SendNothing
    /\ UNCHANGED <<settings, link, joystick, timer, closing>>

\* Nothing is modelled of the process after this.
JoinJoystick ==
    /\ gui = "join"
    /\ joystick = "ended"
    /\ gui' = "closed"
    /\ SendNothing
    /\ UNCHANGED <<settings, link, worker, joystick, timer, closing>>

\* A handler that was entered runs to its end.
GuiHandler ==
    \/ GetDriveMode \/ GoClear \/ StartConnection \/ AbortWorker \/ JoinJoystick
    \/ \E addr \in Endpoints : GoEndpoint(addr)
    \/ GoInvalidAddress

Gui ==
    \/ \E item \in Items : SelectMode(item)
    \/ ShowRemote
    \/ \E op \in Requests : Request(op)
    \/ GoButtonClicked \/ WindowClosing
    \/ GuiHandler

-----------------------------------------------------------------------------
\* Everything but the arrival of a packet.
Local ==
    \/ ReceiveError \/ Callback \/ Worker \/ Joystick
    \/ HeartbeatElapsed \/ HeartbeatSend \/ Gui

Next == Local \/ \E op \in Handled : Receive(op)

Spec == Init /\ [][Next]_vars

\* Threads keep running; nothing makes the operator or the network act.
Fairness == WF_vars(Joystick) /\ WF_vars(GuiHandler)

-----------------------------------------------------------------------------
\* Every variable stays within the values the code can give it.
TypeOK ==
    /\ selected \in Items \cup {"nothing"} /\ selecting \in BOOLEAN
    /\ driveMode \in Modes
    /\ isConnected \in BOOLEAN
    /\ endpoint \in Endpoints \cup {Nowhere}
    /\ heard \in BOOLEAN /\ acked \in BOOLEAN /\ listening \in BOOLEAN
    /\ handling \subseteq Handled
    /\ worker \in Workers
    /\ gui \in {"idle", "update", "endpoint", "mode", "clear", "start",
                "abort", "join", "closed"}
    /\ joystick \in {"loop", "read", "mode", "send", "ended"}
    /\ timer \in {"idle", "send"}
    /\ closing \in BOOLEAN
    /\ out \subseteq Outgoing /\ spoken \in BOOLEAN

\* No thread hands packetSocket a null endpoint or a packet of no bytes: the
\* flags that let it send imply that the operator gave an address and a mode
\* (PacketReceiveCallback to StartConnection, MainWindow.xaml.cs:112-570).
SendsAreReal == \A d \in out : d.to # Nowhere /\ d.op # "EMPTY"

\* Joining the joystick thread from the dispatcher thread does not hang the
\* window, whatever that thread was doing (MainWindow.xaml.cs:601).
WindowCloses == gui = "abort" ~> gui = "closed"

-----------------------------------------------------------------------------
(* What a message says *)

\* "Updating drive mode to ..." (MainWindow.xaml.cs:530): after the press the
\* base station is connected or on its way to be.
UpdateIsTried ==
    [][gui = "start" /\ gui' = "idle" => isConnected' \/ worker'.pc \in
          {"flags", "flags2", "forget", "forgetAck", "loop", "query", "send",
           "check", "connect"}]_vars
=============================================================================
