------------------------- MODULE BaseStationProofs --------------------------
(***************************************************************************)
(* For any set of endpoints: the base station's variables keep their       *)
(* types, and no thread sends to a null endpoint or sends an empty packet. *)
(*                                                                         *)
(* endpoint and driveMode are set for good by the first press of Go that   *)
(* gets that far.  Ready says which places in the threads lie behind it.   *)
(***************************************************************************)
EXTENDS QuietConsole, TLAPS

Located == endpoint # Nowhere
Chosen == driveMode # "Direct"

Ready ==
    /\ gui = "mode" => Located
    /\ gui \in {"update", "clear", "start"} => Located
    /\ gui \in {"clear", "start"} => Chosen
    /\ Alive \/ isConnected => Located /\ Chosen
    /\ worker.pc = "send" => worker.chosen # "Direct"
    /\ joystick \in {"mode", "send"} => Located
    /\ timer = "send" => Located

Inv == TypeOK /\ Ready /\ SendsAreReal

USE EndpointAssumption DEF Located, Chosen, Alive

\* A worker's place changes, and its variables with it.
LEMMA Moving ==
    ASSUME worker \in Workers, NEW pc \in Places
    PROVE  To(pc) \in Workers
BY DEF To, Workers

\* The same when a flag changes with it.
LEMMA Moving2 ==
    ASSUME worker \in Workers, NEW pc \in Places, NEW b \in BOOLEAN, NEW c \in BOOLEAN
    PROVE  /\ [To(pc) EXCEPT !.query = b] \in Workers
           /\ [To(pc) EXCEPT !.set = b] \in Workers
           /\ [worker EXCEPT !.query = b, !.set = c] \in Workers
BY DEF To, Workers

\* The same when the mode is read.
LEMMA Moving3 ==
    ASSUME worker \in Workers, NEW pc \in Places, NEW m \in Modes
    PROVE  [To(pc) EXCEPT !.chosen = m] \in Workers
BY DEF To, Workers

\* A new worker, or none.
LEMMA Starting ==
    NoWorker \in Workers /\ \A pc \in Places : [NoWorker EXCEPT !.pc = pc] \in Workers
BY DEF NoWorker, Workers, Modes, Places

\* The initial states.
LEMMA InitInv == Init => Inv
<1> SUFFICES ASSUME Init PROVE Inv
  OBVIOUS
<1>1. TypeOK
  <2>1. worker \in Workers /\ driveMode \in Modes
    BY Starting DEF Init, Modes
  <2>2. /\ selecting \in BOOLEAN /\ isConnected \in BOOLEAN /\ heard \in BOOLEAN
        /\ acked \in BOOLEAN /\ listening \in BOOLEAN /\ closing \in BOOLEAN
        /\ spoken \in BOOLEAN
    BY DEF Init
  <2> QED
    BY <2>1, <2>2 DEF Init, TypeOK
<1>2. Ready /\ SendsAreReal
  BY DEF Init, Ready, SendsAreReal, NoWorker
<1> QED
  BY <1>1, <1>2 DEF Inv

\* A packet that is sent to a located robot, or none.
LEMMA Sending ==
    ASSUME Inv, NEW op \in Requests \cup {"QUERY_HEARTBEAT", "REMOTE_SWITCH", "AI_INIT", "DRIVE"},
           Send(op), endpoint # Nowhere
    PROVE  SendsAreReal' /\ out' \subseteq Outgoing /\ spoken' \in BOOLEAN
BY DEF Send, SendsAreReal, Outgoing, Requests, Inv, TypeOK

\* A step that sends nothing.
LEMMA NotSending ==
    ASSUME Inv, SendNothing
    PROVE  SendsAreReal' /\ out' \subseteq Outgoing /\ spoken' \in BOOLEAN
BY DEF SendNothing, SendsAreReal, Inv, TypeOK

\* Packets and errors touch neither endpoint, nor the mode except to make it Remote.
LEMMA NetworkStep ==
    ASSUME Inv, Callback \/ ReceiveError \/ \E op \in Handled : Receive(op)
    PROVE  Inv'
<1> USE DEF Inv, settings, link
<1>1. CASE HandleHeartbeat
  <2>1. SendsAreReal' /\ out' \subseteq Outgoing /\ spoken' \in BOOLEAN
    BY <1>1, NotSending DEF HandleHeartbeat
  <2>2. TypeOK'
    BY <1>1, <2>1 DEF TypeOK, HandleHeartbeat
  <2>3. Ready'
    BY <1>1 DEF Ready, HandleHeartbeat
  <2> QED
    BY <2>1, <2>2, <2>3
<1>2. CASE HandleAck
  <2>1. SendsAreReal' /\ out' \subseteq Outgoing /\ spoken' \in BOOLEAN
    BY <1>2, NotSending DEF HandleAck
  <2>2. TypeOK'
    BY <1>2, <2>1 DEF TypeOK, HandleAck
  <2>3. Ready'
    BY <1>2 DEF Ready, HandleAck
  <2> QED
    BY <2>1, <2>2, <2>3
<1>3. CASE \E op \in Handled : Receive(op)
  <2>1. SendsAreReal' /\ out' \subseteq Outgoing /\ spoken' \in BOOLEAN
    BY <1>3, NotSending DEF Receive
  <2>2. TypeOK'
    BY <1>3, <2>1 DEF TypeOK, Receive
  <2>3. Ready'
    BY <1>3 DEF Ready, Receive
  <2> QED
    BY <2>1, <2>2, <2>3
<1>4. CASE HandleRemoteSwitch
  <2>1. SendsAreReal' /\ out' \subseteq Outgoing /\ spoken' \in BOOLEAN
    BY <1>4, NotSending DEF HandleRemoteSwitch
  <2>2. TypeOK'
    BY <1>4, <2>1 DEF TypeOK, HandleRemoteSwitch, Modes
  <2>3. Ready'
    BY <1>4 DEF Ready, HandleRemoteSwitch
  <2> QED
    BY <2>1, <2>2, <2>3
<1>5. CASE ReceiveError
  <2>1. listening' \in BOOLEAN
    BY <1>5 DEF ReceiveError
  <2>2. SendsAreReal' /\ out' \subseteq Outgoing /\ spoken' \in BOOLEAN
    BY <1>5, <2>1, NotSending DEF ReceiveError
  <2>3. worker' \in Workers
    BY <1>5, Starting DEF TypeOK, ReceiveError
  <2>4. TypeOK'
    BY <1>5, <2>1, <2>2, <2>3 DEF TypeOK, ReceiveError
  <2>5. Ready'
    BY <1>5, <2>1 DEF Ready, ReceiveError, NoWorker
  <2> QED
    BY <2>2, <2>4, <2>5
<1> QED
  BY <1>1, <1>2, <1>3, <1>4, <1>5 DEF Callback

\* The worker runs only when there is an endpoint and a mode to use.
LEMMA WorkerStep ==
    ASSUME Inv, Worker
    PROVE  Inv'
<1> USE DEF Inv, At, WorkerOnly, settings, link
<1>1. CASE WorkerQueryFlag
  <2>1. SendsAreReal' /\ out' \subseteq Outgoing /\ spoken' \in BOOLEAN
    BY <1>1, NotSending DEF WorkerQueryFlag
  <2>2. worker' \in Workers
    BY <1>1, Moving2 DEF TypeOK, WorkerQueryFlag, Places
  <2>3. TypeOK'
    BY <1>1, <2>1, <2>2 DEF TypeOK, WorkerQueryFlag
  <2>4. Ready'
    BY <1>1 DEF Ready, WorkerQueryFlag, To, Workers, TypeOK
  <2> QED
    BY <2>1, <2>3, <2>4
<1>2. CASE WorkerSetFlag
  <2>1. SendsAreReal' /\ out' \subseteq Outgoing /\ spoken' \in BOOLEAN
    BY <1>2, NotSending DEF WorkerSetFlag
  <2>2. worker' \in Workers
    BY <1>2, Moving2 DEF TypeOK, WorkerSetFlag, Places
  <2>3. TypeOK'
    BY <1>2, <2>1, <2>2 DEF TypeOK, WorkerSetFlag
  <2>4. Ready'
    BY <1>2 DEF Ready, WorkerSetFlag, To, Workers, TypeOK
  <2> QED
    BY <2>1, <2>3, <2>4
<1>3. CASE WorkerForgetHeartbeat
  <2>1. heard' \in BOOLEAN
    BY <1>3 DEF WorkerForgetHeartbeat
  <2>2. SendsAreReal' /\ out' \subseteq Outgoing /\ spoken' \in BOOLEAN
    BY <1>3, <2>1, NotSending DEF WorkerForgetHeartbeat
  <2>3. worker' \in Workers
    BY <1>3, Moving DEF TypeOK, WorkerForgetHeartbeat, Places
  <2>4. TypeOK'
    BY <1>3, <2>1, <2>2, <2>3 DEF TypeOK, WorkerForgetHeartbeat
  <2>5. Ready'
    BY <1>3, <2>1 DEF Ready, WorkerForgetHeartbeat, To, Workers, TypeOK
  <2> QED
    BY <2>2, <2>4, <2>5
<1>4. CASE WorkerForgetAck
  <2>1. acked' \in BOOLEAN
    BY <1>4 DEF WorkerForgetAck
  <2>2. SendsAreReal' /\ out' \subseteq Outgoing /\ spoken' \in BOOLEAN
    BY <1>4, <2>1, NotSending DEF WorkerForgetAck
  <2>3. worker' \in Workers
    BY <1>4, Moving DEF TypeOK, WorkerForgetAck, Places
  <2>4. TypeOK'
    BY <1>4, <2>1, <2>2, <2>3 DEF TypeOK, WorkerForgetAck
  <2>5. Ready'
    BY <1>4, <2>1 DEF Ready, WorkerForgetAck, To, Workers, TypeOK
  <2> QED
    BY <2>2, <2>4, <2>5
<1>5. CASE WorkerHeard
  <2>1. SendsAreReal' /\ out' \subseteq Outgoing /\ spoken' \in BOOLEAN
    BY <1>5, NotSending DEF WorkerHeard
  <2>2. worker' \in Workers
    BY <1>5, Moving, Moving2 DEF TypeOK, WorkerHeard, Places
  <2>3. TypeOK'
    BY <1>5, <2>1, <2>2 DEF TypeOK, WorkerHeard
  <2>4. Ready'
    BY <1>5 DEF Ready, WorkerHeard, To, Workers, TypeOK
  <2> QED
    BY <2>1, <2>3, <2>4
<1>6. CASE WorkerQuery
  <2>1. SendsAreReal' /\ out' \subseteq Outgoing /\ spoken' \in BOOLEAN
    BY <1>6, Sending DEF WorkerQuery, Ready
  <2>2. worker' \in Workers
    BY <1>6, Moving DEF TypeOK, WorkerQuery, Places
  <2>3. TypeOK'
    BY <1>6, <2>1, <2>2 DEF TypeOK, WorkerQuery
  <2>4. Ready'
    BY <1>6 DEF Ready, WorkerQuery, To, Workers, TypeOK
  <2> QED
    BY <2>1, <2>3, <2>4
<1>7. CASE WorkerChoose
  <2>1. SendsAreReal' /\ out' \subseteq Outgoing /\ spoken' \in BOOLEAN
    BY <1>7, NotSending DEF WorkerChoose
  <2>2. worker' \in Workers
    BY <1>7, Moving3, Starting DEF TypeOK, WorkerChoose, Places
  <2>3. TypeOK'
    BY <1>7, <2>1, <2>2 DEF TypeOK, WorkerChoose
  <2>4. Ready'
    BY <1>7 DEF Ready, WorkerChoose, To, Workers, TypeOK, NoWorker
  <2> QED
    BY <2>1, <2>3, <2>4
<1>8. CASE WorkerSend
  <2>1. SwitchPacket(worker.chosen) \in {"REMOTE_SWITCH", "AI_INIT"}
    BY <1>8 DEF WorkerSend, SwitchPacket, Modes, Ready, TypeOK, Workers
  <2>2. SendsAreReal' /\ out' \subseteq Outgoing /\ spoken' \in BOOLEAN
    BY <1>8, <2>1, Sending DEF WorkerSend, Ready
  <2>3. worker' \in Workers
    BY <1>8, Moving DEF TypeOK, WorkerSend, Places
  <2>4. TypeOK'
    BY <1>8, <2>1, <2>2, <2>3 DEF TypeOK, WorkerSend
  <2>5. Ready'
    BY <1>8, <2>1 DEF Ready, WorkerSend, To, Workers, TypeOK
  <2> QED
    BY <2>2, <2>4, <2>5
<1>9. CASE WorkerCheck
  <2>1. SendsAreReal' /\ out' \subseteq Outgoing /\ spoken' \in BOOLEAN
    BY <1>9, NotSending DEF WorkerCheck
  <2>2. worker' \in Workers
    BY <1>9, Moving DEF TypeOK, WorkerCheck, Places
  <2>3. TypeOK'
    BY <1>9, <2>1, <2>2 DEF TypeOK, WorkerCheck
  <2>4. Ready'
    BY <1>9 DEF Ready, WorkerCheck, To, Workers, TypeOK
  <2> QED
    BY <2>1, <2>3, <2>4
<1>10. CASE WorkerConnect
  <2>1. SendsAreReal' /\ out' \subseteq Outgoing /\ spoken' \in BOOLEAN
    BY <1>10, NotSending DEF WorkerConnect
  <2>2. worker' \in Workers
    BY <1>10, Moving DEF TypeOK, WorkerConnect, Places
  <2>3. TypeOK'
    BY <1>10, <2>1, <2>2 DEF TypeOK, WorkerConnect
  <2>4. Ready'
    BY <1>10 DEF Ready, WorkerConnect, To, Workers, TypeOK
  <2> QED
    BY <2>1, <2>3, <2>4
<1>11. CASE WorkerEnd
  <2>1. SendsAreReal' /\ out' \subseteq Outgoing /\ spoken' \in BOOLEAN
    BY <1>11, NotSending DEF WorkerEnd
  <2>2. worker' \in Workers
    BY <1>11, Starting DEF TypeOK, WorkerEnd
  <2>3. TypeOK'
    BY <1>11, <2>1, <2>2 DEF TypeOK, WorkerEnd
  <2>4. Ready'
    BY <1>11 DEF Ready, WorkerEnd, NoWorker
  <2> QED
    BY <2>1, <2>3, <2>4
<1> QED
  BY <1>1, <1>2, <1>3, <1>4, <1>5, <1>6, <1>7, <1>8, <1>9, <1>10, <1>11 DEF Worker

\* The joystick and the timer send only after they saw the connection.
LEMMA JoystickTimerStep ==
    ASSUME Inv, Joystick \/ HeartbeatElapsed \/ HeartbeatSend
    PROVE  Inv'
<1> USE DEF Inv, JoystickOnly, settings, link
<1>1. CASE JoystickConnected
  <2>1. SendsAreReal' /\ out' \subseteq Outgoing /\ spoken' \in BOOLEAN
    BY <1>1, NotSending DEF JoystickConnected
  <2>2. TypeOK'
    BY <1>1, <2>1 DEF TypeOK, JoystickConnected
  <2>3. Ready'
    BY <1>1 DEF Ready, JoystickConnected
  <2> QED
    BY <2>1, <2>2, <2>3
<1>7. CASE JoystickLoop
  <2>1. SendsAreReal' /\ out' \subseteq Outgoing /\ spoken' \in BOOLEAN
    BY <1>7, NotSending DEF JoystickLoop
  <2>2. TypeOK'
    BY <1>7, <2>1 DEF TypeOK, JoystickLoop
  <2>3. Ready'
    BY <1>7 DEF Ready, JoystickLoop
  <2> QED
    BY <2>1, <2>2, <2>3
<1>2. CASE JoystickMode
  <2>1. SendsAreReal' /\ out' \subseteq Outgoing /\ spoken' \in BOOLEAN
    BY <1>2, NotSending DEF JoystickMode
  <2>2. TypeOK'
    BY <1>2, <2>1 DEF TypeOK, JoystickMode
  <2>3. Ready'
    BY <1>2 DEF Ready, JoystickMode
  <2> QED
    BY <2>1, <2>2, <2>3
<1>3. CASE JoystickEnd
  <2>1. SendsAreReal' /\ out' \subseteq Outgoing /\ spoken' \in BOOLEAN
    BY <1>3, NotSending DEF JoystickEnd
  <2>2. TypeOK'
    BY <1>3, <2>1 DEF TypeOK, JoystickEnd
  <2>3. Ready'
    BY <1>3 DEF Ready, JoystickEnd
  <2> QED
    BY <2>1, <2>2, <2>3
<1>4. CASE HeartbeatElapsed
  <2>1. SendsAreReal' /\ out' \subseteq Outgoing /\ spoken' \in BOOLEAN
    BY <1>4, NotSending DEF HeartbeatElapsed
  <2>2. TypeOK'
    BY <1>4, <2>1 DEF TypeOK, HeartbeatElapsed
  <2>3. Ready'
    BY <1>4 DEF Ready, HeartbeatElapsed
  <2> QED
    BY <2>1, <2>2, <2>3
<1>5. CASE JoystickSend
  <2>1. SendsAreReal' /\ out' \subseteq Outgoing /\ spoken' \in BOOLEAN
    BY <1>5, Sending DEF JoystickSend, Ready
  <2>2. TypeOK'
    BY <1>5, <2>1 DEF TypeOK, JoystickSend
  <2>3. Ready'
    BY <1>5 DEF Ready, JoystickSend
  <2> QED
    BY <2>1, <2>2, <2>3
<1>6. CASE HeartbeatSend
  <2>1. SendsAreReal' /\ out' \subseteq Outgoing /\ spoken' \in BOOLEAN
    BY <1>6, Sending DEF HeartbeatSend, Ready
  <2>2. TypeOK'
    BY <1>6, <2>1 DEF TypeOK, HeartbeatSend
  <2>3. Ready'
    BY <1>6 DEF Ready, HeartbeatSend
  <2> QED
    BY <2>1, <2>2, <2>3
<1> QED
  BY <1>1, <1>2, <1>3, <1>4, <1>5, <1>6, <1>7 DEF Joystick

\* The GUI starts a worker only after it has set endpoint and mode.
LEMMA GuiStep ==
    ASSUME Inv, Gui
    PROVE  Inv'
<1> USE DEF Inv, settings, link
<1>1. CASE \E op \in Requests : Request(op)
  <2>1. SendsAreReal' /\ out' \subseteq Outgoing /\ spoken' \in BOOLEAN
    BY <1>1, Sending DEF Request, Ready
  <2>2. TypeOK'
    BY <1>1, <2>1 DEF TypeOK, Request
  <2>3. Ready'
    BY <1>1 DEF Ready, Request
  <2> QED
    BY <2>1, <2>2, <2>3
<1>2. CASE \E item \in Items : SelectMode(item)
  <2>1. SendsAreReal' /\ out' \subseteq Outgoing /\ spoken' \in BOOLEAN
    BY <1>2, NotSending DEF SelectMode
  <2>2. TypeOK'
    BY <1>2, <2>1 DEF TypeOK, SelectMode, Items
  <2>3. Ready'
    BY <1>2 DEF Ready, SelectMode
  <2> QED
    BY <2>1, <2>2, <2>3
<1>3. CASE ShowRemote
  <2>1. SendsAreReal' /\ out' \subseteq Outgoing /\ spoken' \in BOOLEAN
    BY <1>3, NotSending DEF ShowRemote
  <2>2. TypeOK'
    BY <1>3, <2>1 DEF TypeOK, ShowRemote, Items
  <2>3. Ready'
    BY <1>3 DEF Ready, ShowRemote
  <2> QED
    BY <2>1, <2>2, <2>3
<1>4. CASE GoButtonClicked
  <2>1. SendsAreReal' /\ out' \subseteq Outgoing /\ spoken' \in BOOLEAN
    BY <1>4, NotSending DEF GoButtonClicked
  <2>2. TypeOK'
    BY <1>4, <2>1 DEF TypeOK, GoButtonClicked
  <2>3. Ready'
    BY <1>4 DEF Ready, GoButtonClicked
  <2> QED
    BY <2>1, <2>2, <2>3
<1>5. CASE WindowClosing
  <2>1. SendsAreReal' /\ out' \subseteq Outgoing /\ spoken' \in BOOLEAN
    BY <1>5, NotSending DEF WindowClosing
  <2>2. TypeOK'
    BY <1>5, <2>1 DEF TypeOK, WindowClosing
  <2>3. Ready'
    BY <1>5 DEF Ready, WindowClosing
  <2> QED
    BY <2>1, <2>2, <2>3
<1>6. CASE GetDriveMode
  <2>1. driveMode' \in Modes /\ (driveMode # "Direct" => driveMode' # "Direct")
    BY <1>6 DEF GetDriveMode, Items, Modes, TypeOK
  <2>2. SendsAreReal' /\ out' \subseteq Outgoing /\ spoken' \in BOOLEAN
    BY <1>6, <2>1, NotSending DEF GetDriveMode
  <2>3. TypeOK'
    BY <1>6, <2>1, <2>2 DEF TypeOK, GetDriveMode
  <2>4. Ready'
    BY <1>6, <2>1 DEF Ready, GetDriveMode, Items, TypeOK
  <2> QED
    BY <2>2, <2>3, <2>4
<1>7. CASE GoClear
  <2>1. SendsAreReal' /\ out' \subseteq Outgoing /\ spoken' \in BOOLEAN
    BY <1>7, NotSending DEF GoClear
  <2>2. TypeOK'
    BY <1>7, <2>1 DEF TypeOK, GoClear
  <2>3. Ready'
    BY <1>7 DEF Ready, GoClear
  <2> QED
    BY <2>1, <2>2, <2>3
<1>8. CASE GoInvalidAddress
  <2>1. SendsAreReal' /\ out' \subseteq Outgoing /\ spoken' \in BOOLEAN
    BY <1>8, NotSending DEF GoInvalidAddress
  <2>2. TypeOK'
    BY <1>8, <2>1 DEF TypeOK, GoInvalidAddress
  <2>3. Ready'
    BY <1>8 DEF Ready, GoInvalidAddress
  <2> QED
    BY <2>1, <2>2, <2>3
<1>9. CASE \E addr \in Endpoints : GoEndpoint(addr)
  <2>1. SendsAreReal' /\ out' \subseteq Outgoing /\ spoken' \in BOOLEAN
    BY <1>9, NotSending DEF GoEndpoint
  <2>2. TypeOK'
    BY <1>9, <2>1 DEF TypeOK, GoEndpoint
  <2>3. Ready'
    BY <1>9 DEF Ready, GoEndpoint
  <2> QED
    BY <2>1, <2>2, <2>3
<1>10. CASE StartConnection
  <2>1. SendsAreReal' /\ out' \subseteq Outgoing /\ spoken' \in BOOLEAN
    BY <1>10, NotSending DEF StartConnection
  <2>2. worker' \in Workers
    BY <1>10, Starting DEF TypeOK, StartConnection, Places
  <2>3. TypeOK'
    BY <1>10, <2>1, <2>2 DEF TypeOK, StartConnection
  <2>4. Ready'
    BY <1>10 DEF Ready, StartConnection, NoWorker
  <2> QED
    BY <2>1, <2>3, <2>4
<1>11. CASE AbortWorker
  <2>1. SendsAreReal' /\ out' \subseteq Outgoing /\ spoken' \in BOOLEAN
    BY <1>11, NotSending DEF AbortWorker
  <2>2. worker' \in Workers
    BY <1>11, Starting DEF TypeOK, AbortWorker
  <2>3. TypeOK'
    BY <1>11, <2>1, <2>2 DEF TypeOK, AbortWorker
  <2>4. Ready'
    BY <1>11 DEF Ready, AbortWorker, NoWorker
  <2> QED
    BY <2>1, <2>3, <2>4
<1>12. CASE JoinJoystick
  <2>1. SendsAreReal' /\ out' \subseteq Outgoing /\ spoken' \in BOOLEAN
    BY <1>12, NotSending DEF JoinJoystick
  <2>2. TypeOK'
    BY <1>12, <2>1 DEF TypeOK, JoinJoystick
  <2>3. Ready'
    BY <1>12 DEF Ready, JoinJoystick
  <2> QED
    BY <2>1, <2>2, <2>3
<1> QED
  BY <1>1, <1>2, <1>3, <1>4, <1>5, <1>6, <1>7, <1>8, <1>9, <1>10, <1>11, <1>12 DEF Gui, GuiHandler

\* Inv holds in every state.
LEMMA Invariance == Spec => []Inv
<1>1. Inv /\ [Next]_vars => Inv'
  <2> SUFFICES ASSUME Inv, [Next]_vars PROVE Inv'
    OBVIOUS
  <2>1. CASE Next
    BY <2>1, NetworkStep, WorkerStep, JoystickTimerStep, GuiStep DEF Next, Local
  <2>2. CASE UNCHANGED vars
    BY <2>2 DEF vars, settings, link, Inv, TypeOK, Ready, SendsAreReal
  <2> QED
    BY <2>1, <2>2
<1> QED
  BY <1>1, InitInv, PTL DEF Spec

\* The base station's variables keep their types, with any number of robots to
\* choose from (MainWindow.xaml.cs).
THEOREM TypeCorrect == Spec => []TypeOK
BY Invariance, PTL DEF Inv

\* No thread sends to a null endpoint or sends an empty packet, although none of
\* them holds a lock when it checks (MainWindow.xaml.cs:112-570).
THEOREM SendsReal == Spec => []SendsAreReal
BY Invariance, PTL DEF Inv

-----------------------------------------------------------------------------
(* QuietConsole: after a stray packet the joystick thread is back at the    *)
(* top of its loop, and while the settings rest it fails one of its checks. *)

StrayInv ==
    /\ strays \in {0, 1}
    /\ strays = 1 =>
           /\ ~MayDrive
           /\ joystick # "send"
           /\ joystick = "mode" => driveMode # "Remote"

\* Nothing but its own steps moves the joystick thread.
LEMMA JoystickFrame ==
    ASSUME Next, ~Joystick
    PROVE  joystick' = joystick
<1>1. CASE ReceiveError \/ Callback \/ \E op \in Handled : Receive(op)
  BY <1>1 DEF ReceiveError, Callback, HandleHeartbeat, HandleAck,
     HandleRemoteSwitch, Receive
<1>2. CASE Worker
  BY <1>2 DEF Worker, WorkerOnly, WorkerQueryFlag, WorkerSetFlag,
     WorkerForgetHeartbeat, WorkerForgetAck, WorkerHeard, WorkerQuery,
     WorkerChoose, WorkerSend, WorkerCheck, WorkerConnect, WorkerEnd
<1>3. CASE HeartbeatElapsed \/ HeartbeatSend
  BY <1>3 DEF HeartbeatElapsed, HeartbeatSend
<1>4. CASE Gui
  <2>1. CASE GuiHandler
    BY <2>1 DEF GuiHandler, GetDriveMode, GoClear, StartConnection, AbortWorker,
       JoinJoystick, GoEndpoint, GoInvalidAddress
  <2>2. CASE ~GuiHandler
    BY <1>4, <2>2 DEF Gui, SelectMode, ShowRemote, Request, GoButtonClicked,
       WindowClosing
  <2> QED
    BY <2>1, <2>2
<1> QED
  BY <1>1, <1>2, <1>3, <1>4 DEF Next, Local

\* A step that changes the settings starts the count again; one that does not
\* leaves a stray packet where the joystick thread cannot send another.
LEMMA StrayStep ==
    ASSUME StrayInv, Next, Observe
    PROVE  StrayInv'
<1>1. CASE ~(UNCHANGED <<isConnected, driveMode>> /\ ~MayDrive)
  BY <1>1 DEF StrayInv, Observe
<1>2. CASE UNCHANGED <<isConnected, driveMode>> /\ ~MayDrive
  <2>1. ~MayDrive'
    BY <1>2 DEF MayDrive
  <2>2. CASE JoystickSend
    BY <1>2, <2>1, <2>2 DEF StrayInv, Observe, JoystickSend, JoystickOnly
  <2>3. CASE ~JoystickSend
    <3>1. strays' = strays
      BY <1>2, <2>3 DEF Observe
    <3>2. CASE Joystick
      BY <1>2, <2>1, <2>3, <3>1, <3>2 DEF StrayInv, MayDrive, Joystick,
         JoystickLoop, JoystickConnected, JoystickMode, JoystickEnd, JoystickOnly
    <3>3. CASE ~Joystick
      <4>1. joystick' = joystick
        BY <3>3, JoystickFrame
      <4> QED
        BY <1>2, <2>1, <3>1, <4>1 DEF StrayInv
    <3> QED
      BY <3>2, <3>3
  <2> QED
    BY <2>2, <2>3
<1> QED
  BY <1>1, <1>2

\* A press that disconnects, or that leaves Remote mode, lets at most one more
\* DRIVE packet out (ReadJoystickValues, MainWindow.xaml.cs:499).
THEOREM AtMostOneStray == MonSpec => []QuietAfterPress
<1>1. MonInit => StrayInv
  BY DEF MonInit, StrayInv
<1>2. StrayInv /\ [MonNext]_<<vars, strays>> => StrayInv'
  <2> SUFFICES ASSUME StrayInv, [MonNext]_<<vars, strays>>
               PROVE  StrayInv'
    OBVIOUS
  <2>1. CASE MonNext
    BY <2>1, StrayStep DEF MonNext
  <2>2. CASE UNCHANGED <<vars, strays>>
    BY <2>2 DEF vars, settings, StrayInv, MayDrive
  <2> QED
    BY <2>1, <2>2
<1>3. StrayInv => QuietAfterPress
  BY DEF StrayInv, QuietAfterPress
<1> QED
  BY <1>1, <1>2, <1>3, PTL DEF MonSpec
=============================================================================
