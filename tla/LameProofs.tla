------------------------------ MODULE LameProofs ------------------------------
(***************************************************************************)
(* ConnectedRobotObeys for all modes the operator may choose.  The robot   *)
(* leaves Remote mode for nothing this base station sends, and every       *)
(* acknowledgement, however late or repeated, was sent after it entered    *)
(* that mode.                                                              *)
(***************************************************************************)
EXTENDS Lame, TLAPS

-----------------------------------------------------------------------------
\* No switch to another mode is under way or being handled.
NoOtherSwitch ==
    /\ toRobot \cap {"AI_SWITCH", "DIRECT_SWITCH"} = {}
    /\ udp.pc \notin {"AI_SWITCH", "DIRECT_SWITCH"}

\* The reader is only busy with datagrams of the base station.
FromBase == udp.pc # "recv" => baseAddr = Base

\* An acknowledgement, wherever it or what it led to is found now.
Acknowledged ==
    \/ "SWITCH_MODE_ACK" \in toBase
    \/ "SWITCH_MODE_ACK" \in handling
    \/ acked
    \/ worker.pc = "connect"
    \/ isConnected

Obeys == mode = "Remote" /\ baseAddr = Base

Readers == [pc : R!Requests \cup {"recv", "DRIVE", "DRIVE_TOOLS", "DRIVE_TIME", "REMOTE_MODE"},
            drive : {R!NoDrive}, from : {Base, Nowhere}]

Types ==
    /\ udp \in Readers
    /\ worker \in B!Workers
    /\ driveMode \in B!Modes /\ selected \in B!Items \cup {"nothing"}
    /\ isConnected \in BOOLEAN /\ heard \in BOOLEAN /\ acked \in BOOLEAN

Inv == Types /\ NoOtherSwitch /\ FromBase /\ (Acknowledged => Obeys)

-----------------------------------------------------------------------------
(* Records *)

\* The reader's place, alone or with the datagram.
LEMMA Reading ==
    /\ R!Idling \in Readers /\ R!Idling.pc = "recv"
    /\ \A op \in R!Requests :
           LET u == [pc |-> op, drive |-> R!NoDrive, from |-> Base]
           IN  u \in Readers /\ u.pc = op
    /\ \A u \in Readers : \A pc \in {"DRIVE_TOOLS", "DRIVE_TIME", "REMOTE_MODE"} :
           [u EXCEPT !.pc = pc] \in Readers /\ [u EXCEPT !.pc = pc].pc = pc
BY DEF Readers, R!Idling

\* A worker's place changes, and its variables with it.
LEMMA Moving ==
    ASSUME worker \in B!Workers, NEW pc \in B!Places
    PROVE  B!To(pc) \in B!Workers /\ B!To(pc).pc = pc
BY DEF B!To, B!Workers

\* The same when a flag changes with it.
LEMMA Flagging ==
    ASSUME worker \in B!Workers, NEW pc \in B!Places, NEW b \in BOOLEAN, NEW c \in BOOLEAN
    PROVE  /\ [B!To(pc) EXCEPT !.query = b] \in B!Workers
           /\ [B!To(pc) EXCEPT !.query = b].pc = pc
           /\ [B!To(pc) EXCEPT !.set = b] \in B!Workers
           /\ [B!To(pc) EXCEPT !.set = b].pc = pc
           /\ [worker EXCEPT !.query = b, !.set = c] \in B!Workers
           /\ [worker EXCEPT !.query = b, !.set = c].pc = worker.pc
BY DEF B!To, B!Workers

\* The same when the mode is read.
LEMMA Choosing ==
    ASSUME worker \in B!Workers, NEW pc \in B!Places, NEW m \in B!Modes
    PROVE  /\ [B!To(pc) EXCEPT !.chosen = m] \in B!Workers
           /\ [B!To(pc) EXCEPT !.chosen = m].pc = pc
BY DEF B!To, B!Workers

\* A new worker, or none.
LEMMA Starting ==
    /\ B!NoWorker \in B!Workers /\ B!NoWorker.pc = "none"
    /\ [B!NoWorker EXCEPT !.pc = "flags"] \in B!Workers
    /\ [B!NoWorker EXCEPT !.pc = "flags"].pc = "flags"
BY DEF B!NoWorker, B!Workers, B!Modes, B!Places

-----------------------------------------------------------------------------
\* The initial states.
LEMMA InitInv == Init => Inv
<1> SUFFICES ASSUME Init PROVE Inv
  OBVIOUS
<1>1. /\ isConnected = FALSE /\ heard = FALSE /\ acked = FALSE
      /\ worker = B!NoWorker /\ udp = R!Idling /\ handling = {}
      /\ driveMode = "Direct" /\ selected = "nothing" /\ toRobot = {} /\ toBase = {}
  BY DEF Init, R!Init, B!Init
<1>2. Types
  <2>1. isConnected \in BOOLEAN /\ heard \in BOOLEAN /\ acked \in BOOLEAN
    BY <1>1
  <2> QED
    BY <1>1, <2>1, Reading, Starting DEF Types, B!Modes
<1> QED
  BY <1>1, <1>2, Reading, Starting DEF Inv, NoOtherSwitch, FromBase, Acknowledged

\* The robot takes a datagram: its sender is the base station from now on.
LEMMA ReceivesStep ==
    ASSUME Inv, NEW op \in toRobot, RobotReceives(op)
    PROVE  Inv'
<1>1. /\ baseAddr' = Base /\ mode' = mode
      /\ toRobot' = toRobot /\ toBase' = toBase
      /\ UNCHANGED <<handling, acked, worker, isConnected, heard, driveMode, selected>>
  BY AddressAssumption
     DEF RobotReceives, R!UdpReceive, R!NoteSender, AsDatagram, BaseRests, base
<1>2. udp' \in Readers /\ udp'.pc \in {"recv", op}
  <2>1. udp' = R!Idling \/ /\ op \in R!Requests
                           /\ udp' = [pc |-> op, drive |-> R!NoDrive, from |-> Base]
    BY DEF RobotReceives, R!UdpReceive, AsDatagram, R!Requests
  <2> QED
    BY <2>1, Reading
<1>3. Types'
  BY <1>1, <1>2 DEF Inv, Types
<1>4. NoOtherSwitch' /\ FromBase'
  BY <1>1, <1>2 DEF Inv, NoOtherSwitch, FromBase
<1>5. (Acknowledged => Obeys)'
  BY <1>1 DEF Inv, Acknowledged, Obeys
<1> QED
  BY <1>3, <1>4, <1>5 DEF Inv

\* The robot acts on a datagram: an acknowledgement goes out with the mode.
LEMMA HandlesStep ==
    ASSUME Inv, RobotHandles
    PROVE  Inv'
<1>1. /\ toRobot' = toRobot
      /\ toBase' = toBase \cup {d.op : d \in {r \in sent' : r.to = Base}}
      /\ UNCHANGED <<handling, acked, worker, isConnected, heard, driveMode, selected>>
  BY DEF RobotHandles, BaseRests, base
<1>2. ASSUME udp' \in Readers, baseAddr' = baseAddr,
             udp'.pc \notin {"AI_SWITCH", "DIRECT_SWITCH"},
             udp'.pc # "recv" => udp.pc # "recv",
             \/ mode' = mode /\ \A d \in sent' : d.op # "SWITCH_MODE_ACK"
             \/ mode' = "Remote" /\ baseAddr = Base
      PROVE  Inv'
  <2>1. Types'
    BY <1>1, <1>2 DEF Inv, Types
  <2>2. NoOtherSwitch' /\ FromBase'
    BY <1>1, <1>2 DEF Inv, NoOtherSwitch, FromBase
  <2>3. (Acknowledged => Obeys)'
    <3>1. CASE mode' = "Remote" /\ baseAddr = Base
      BY <3>1, <1>2 DEF Obeys
    <3>2. CASE mode' = mode /\ \A d \in sent' : d.op # "SWITCH_MODE_ACK"
      <4>1. "SWITCH_MODE_ACK" \in toBase' => "SWITCH_MODE_ACK" \in toBase
        BY <3>2, <1>1
      <4>2. Acknowledged' => Acknowledged
        BY <4>1, <1>1 DEF Acknowledged
      <4> QED
        BY <4>2, <3>2, <1>2 DEF Inv, Obeys
    <3> QED
      BY <3>1, <3>2, <1>2
  <2> QED
    BY <2>1, <2>2, <2>3 DEF Inv
<1>3. CASE R!RemoteSwitchMode
  BY <1>2, <1>3, Reading DEF R!RemoteSwitchMode, Inv, FromBase
<1>4. CASE R!QueryHeartbeat
  BY <1>2, <1>4, Reading DEF R!QueryHeartbeat, R!Send
<1>5. CASE R!RemoteSwitchTime \/ R!DriveWheels \/ R!DriveTools
  <2>1. /\ udp.pc # "recv" /\ UNCHANGED <<mode, baseAddr>> /\ sent' = {}
        /\ \E pc \in {"DRIVE_TOOLS", "DRIVE_TIME", "REMOTE_MODE"} :
               udp' = [udp EXCEPT !.pc = pc]
    BY <1>5 DEF R!RemoteSwitchTime, R!DriveWheels, R!DriveTools, R!SendNothing, Inv,
                Types, Readers
  <2>2. udp' \in Readers /\ udp'.pc \in {"DRIVE_TOOLS", "DRIVE_TIME", "REMOTE_MODE"}
    <3>1. PICK pc \in {"DRIVE_TOOLS", "DRIVE_TIME", "REMOTE_MODE"} :
              udp' = [udp EXCEPT !.pc = pc]
      BY <2>1
    <3> DEFINE Moved == [udp EXCEPT !.pc = pc]
    <3>2. Moved \in Readers /\ Moved.pc = pc
      BY Reading DEF Inv, Types
    <3> HIDE DEF Moved
    <3>3. udp' = Moved
      BY <3>1 DEF Moved
    <3> QED
      BY <3>2, <3>3
  <2> QED
    BY <1>2, <2>1, <2>2
<1>6. CASE R!DriveTime
  BY <1>2, <1>6, Reading DEF R!DriveTime, R!SendNothing
<1> QED
  BY <1>3, <1>4, <1>5, <1>6
     DEF RobotHandles, R!UdpHandle, R!AiSwitch, R!DirectSwitch, Inv, NoOtherSwitch

-----------------------------------------------------------------------------
\* What every step of the base station keeps, and how a connection comes about:
\* from an acknowledgement the worker has found.
BaseKeeps ==
    /\ worker' \in B!Workers
    /\ driveMode' \in B!Modes /\ selected' \in B!Items \cup {"nothing"}
    /\ isConnected' \in BOOLEAN /\ heard' \in BOOLEAN /\ acked' \in BOOLEAN
    /\ \A d \in out' : d.op \notin {"AI_SWITCH", "DIRECT_SWITCH"}
    /\ handling' \subseteq handling
    /\ acked' => acked \/ "SWITCH_MODE_ACK" \in handling
    /\ worker'.pc = "connect" => acked \/ worker.pc = "connect"
    /\ isConnected' => isConnected \/ worker.pc = "connect"

\* A step that keeps this keeps Inv, as the robot rests in it.
LEMMA BaseStep ==
    ASSUME Inv, RobotRests, UNCHANGED toBase, BaseKeeps,
           toRobot' = toRobot \cup {d.op : d \in {r \in out' : r.to = Robot}}
    PROVE  Inv'
<1> USE DEF RobotRests, robot
<1>1. Types'
  BY DEF Inv, Types, BaseKeeps
<1>2. NoOtherSwitch' /\ FromBase'
  BY DEF Inv, NoOtherSwitch, FromBase, BaseKeeps
<1>3. (Acknowledged => Obeys)'
  <2>1. Acknowledged' => Acknowledged
    BY DEF BaseKeeps, Acknowledged
  <2> QED
    BY <2>1 DEF Inv, Obeys
<1> QED
  BY <1>1, <1>2, <1>3 DEF Inv

\* ConnectingWorker.
LEMMA WorkerStep ==
    ASSUME Types, B!Worker
    PROVE  BaseKeeps
<1> USE DEF Types, B!WorkerOnly, B!At, B!settings, B!link, B!SendNothing
<1>1. CASE B!WorkerQueryFlag
  <2>1. worker' \in B!Workers /\ worker'.pc = "flags2"
    <3>1. (~isConnected) \in BOOLEAN
      OBVIOUS
    <3>2. [B!To("flags2") EXCEPT !.query = ~isConnected] \in B!Workers
      BY <3>1, Flagging DEF B!Places
    <3>3. [B!To("flags2") EXCEPT !.query = ~isConnected].pc = "flags2"
      BY DEF B!To, B!Workers
    <3> QED
      BY <1>1, <3>2, <3>3 DEF B!WorkerQueryFlag
  <2> QED
    BY <1>1, <2>1 DEF B!WorkerQueryFlag, BaseKeeps
<1>2. CASE B!WorkerSetFlag
  <2>1. worker' \in B!Workers /\ worker'.pc = "forget"
    BY <1>2, Flagging DEF B!WorkerSetFlag, B!Places
  <2> QED
    BY <1>2, <2>1 DEF B!WorkerSetFlag, BaseKeeps
<1>3. CASE B!WorkerForgetHeartbeat
  <2>1. worker' \in B!Workers /\ worker'.pc = "forgetAck"
    BY <1>3, Moving DEF B!WorkerForgetHeartbeat, B!Places
  <2>2. heard' \in BOOLEAN
    BY <1>3 DEF B!WorkerForgetHeartbeat
  <2> QED
    BY <1>3, <2>1, <2>2 DEF B!WorkerForgetHeartbeat, BaseKeeps
<1>4. CASE B!WorkerForgetAck
  <2>1. worker' \in B!Workers /\ worker'.pc = "loop"
    BY <1>4, Moving DEF B!WorkerForgetAck, B!Places
  <2>2. acked' \in BOOLEAN /\ ~acked'
    BY <1>4 DEF B!WorkerForgetAck
  <2> QED
    BY <1>4, <2>1, <2>2 DEF B!WorkerForgetAck, BaseKeeps
<1>5. CASE B!WorkerHeard
  <2>1. worker' \in B!Workers /\ worker'.pc \in {"loop", "query"}
    BY <1>5, Moving, Flagging DEF B!WorkerHeard, B!Places
  <2> QED
    BY <1>5, <2>1 DEF B!WorkerHeard, BaseKeeps
<1>6. CASE B!WorkerQuery
  <2>1. worker' \in B!Workers /\ worker'.pc = "loop"
    BY <1>6, Moving DEF B!WorkerQuery, B!Places
  <2> QED
    BY <1>6, <2>1 DEF B!WorkerQuery, B!Send, BaseKeeps
<1>7. CASE B!WorkerChoose
  <2>1. worker' \in B!Workers /\ worker'.pc \in {"send", "none"}
    BY <1>7, Choosing, Starting DEF B!WorkerChoose, B!Places
  <2> QED
    BY <1>7, <2>1 DEF B!WorkerChoose, BaseKeeps
<1>8. CASE B!WorkerSend
  <2>1. worker' \in B!Workers /\ worker'.pc = "check"
    BY <1>8, Moving DEF B!WorkerSend, B!Places
  <2>2. B!SwitchPacket(worker.chosen) \in {"REMOTE_SWITCH", "AI_INIT", "EMPTY"}
    BY DEF B!SwitchPacket
  <2> QED
    BY <1>8, <2>1, <2>2 DEF B!WorkerSend, B!Send, BaseKeeps
<1>9. CASE B!WorkerCheck
  <2>1. worker' \in B!Workers /\ (worker'.pc = "connect" => acked)
    <3>1. CASE acked
      BY <3>1, <1>9, Moving DEF B!WorkerCheck, B!Places
    <3>2. CASE ~acked
      BY <3>2, <1>9, Moving DEF B!WorkerCheck, B!Places
    <3> QED
      BY <3>1, <3>2
  <2> QED
    BY <1>9, <2>1 DEF B!WorkerCheck, BaseKeeps
<1>10. CASE B!WorkerConnect
  <2>1. worker' \in B!Workers /\ worker'.pc = "ending"
    BY <1>10, Moving DEF B!WorkerConnect, B!Places
  <2>2. isConnected' \in BOOLEAN /\ worker.pc = "connect"
    BY <1>10 DEF B!WorkerConnect
  <2> QED
    BY <1>10, <2>1, <2>2 DEF B!WorkerConnect, BaseKeeps
<1>11. CASE B!WorkerEnd
  <2>1. worker' \in B!Workers /\ worker'.pc = "none"
    BY <1>11, Starting DEF B!WorkerEnd
  <2> QED
    BY <1>11, <2>1 DEF B!WorkerEnd, BaseKeeps
<1> QED
  BY <1>1, <1>2, <1>3, <1>4, <1>5, <1>6, <1>7, <1>8, <1>9, <1>10, <1>11 DEF B!Worker

\* PacketReceiveCallback.
LEMMA CallbackStep ==
    ASSUME Types, B!Callback
    PROVE  BaseKeeps
<1> USE DEF Types, B!SendNothing
<1>1. CASE B!HandleHeartbeat
  <2>1. heard' \in BOOLEAN
    BY <1>1 DEF B!HandleHeartbeat
  <2> QED
    BY <1>1, <2>1 DEF B!HandleHeartbeat, BaseKeeps, B!settings
<1>2. CASE B!HandleAck
  <2>1. acked' \in BOOLEAN /\ "SWITCH_MODE_ACK" \in handling
    BY <1>2 DEF B!HandleAck
  <2> QED
    BY <1>2, <2>1 DEF B!HandleAck, BaseKeeps, B!settings
<1>3. CASE B!HandleRemoteSwitch
  BY <1>3 DEF B!HandleRemoteSwitch, BaseKeeps, B!Modes
<1> QED
  BY <1>1, <1>2, <1>3 DEF B!Callback

\* The operator: his choices, whichever of the modes they are, and presses of Go.
LEMMA OperatorStep ==
    ASSUME Types, Operator
    PROVE  BaseKeeps
<1> USE DEF Types, B!SendNothing, B!settings, B!link
<1>1. CASE \E item \in Choices : B!SelectMode(item)
  BY <1>1, OperatorAssumption DEF B!SelectMode, B!Items, BaseKeeps
<1>2. CASE B!GoButtonClicked
  BY <1>2 DEF B!GoButtonClicked, BaseKeeps
<1>3. CASE B!GetDriveMode
  <2>1. driveMode' \in B!Modes
    BY <1>3 DEF B!GetDriveMode, B!Items, B!Modes
  <2> QED
    BY <1>3, <2>1 DEF B!GetDriveMode, BaseKeeps
<1>4. CASE B!GoClear
  <2>1. isConnected' \in BOOLEAN /\ ~isConnected'
    BY <1>4 DEF B!GoClear
  <2> QED
    BY <1>4, <2>1 DEF B!GoClear, BaseKeeps
<1>5. CASE B!StartConnection
  <2>1. worker' \in B!Workers /\ (worker'.pc = "connect" => worker.pc = "connect")
    BY <1>5, Starting DEF B!StartConnection
  <2> QED
    BY <1>5, <2>1 DEF B!StartConnection, BaseKeeps
<1>6. CASE B!AbortWorker
  <2>1. worker' \in B!Workers /\ worker'.pc = "none"
    BY <1>6, Starting DEF B!AbortWorker
  <2> QED
    BY <1>6, <2>1 DEF B!AbortWorker, BaseKeeps
<1>7. CASE B!JoinJoystick
  BY <1>7 DEF B!JoinJoystick, BaseKeeps
<1>8. CASE \E addr \in {Robot} : B!GoEndpoint(addr)
  BY <1>8 DEF B!GoEndpoint, BaseKeeps
<1>9. CASE B!GoInvalidAddress
  BY <1>9 DEF B!GoInvalidAddress, BaseKeeps
<1> QED
  BY <1>1, <1>2, <1>3, <1>4, <1>5, <1>6, <1>7, <1>8, <1>9 DEF Operator, B!GuiHandler

\* The network hands out, or loses, what was sent.
LEMMA NetworkStep ==
    ASSUME Inv, Lose \/ \E op \in toBase : BaseReceives(op)
    PROVE  Inv'
<1>1. /\ UNCHANGED <<mode, baseAddr, udp, acked, worker, isConnected, heard, driveMode,
                     selected>>
      /\ toRobot' \subseteq toRobot /\ toBase' \subseteq toBase
      /\ handling' \subseteq handling \cup toBase
  BY DEF Lose, BaseReceives, RobotRests, BaseRests, robot, base, B!Receive, B!settings
<1>2. Types'
  BY <1>1 DEF Inv, Types
<1>3. NoOtherSwitch' /\ FromBase'
  BY <1>1 DEF Inv, NoOtherSwitch, FromBase
<1>4. (Acknowledged => Obeys)'
  <2>1. Acknowledged' => Acknowledged
    BY <1>1 DEF Acknowledged
  <2> QED
    BY <2>1, <1>1 DEF Inv, Obeys
<1> QED
  BY <1>2, <1>3, <1>4 DEF Inv

\* Inv holds in every state.
LEMMA Invariance == Spec => []Inv
<1>1. Inv /\ [Next]_vars => Inv'
  <2> SUFFICES ASSUME Inv, [Next]_vars PROVE Inv'
    OBVIOUS
  <2>1. CASE BaseActs
    <3>1. BaseKeeps
      BY <2>1, WorkerStep, CallbackStep, OperatorStep DEF BaseActs, Inv
    <3> QED
      BY <2>1, <3>1, BaseStep DEF BaseActs
  <2>2. CASE UNCHANGED vars
    <3>1. Types' /\ NoOtherSwitch' /\ FromBase'
      BY <2>2 DEF vars, robot, base, Inv, Types, NoOtherSwitch, FromBase
    <3>2. (Acknowledged => Obeys)'
      BY <2>2 DEF vars, robot, base, Inv, Acknowledged, Obeys
    <3> QED
      BY <3>1, <3>2 DEF Inv
  <2> QED
    BY <2>1, <2>2, ReceivesStep, HandlesStep, NetworkStep DEF Next
<1> QED
  BY <1>1, InitInv, PTL DEF Spec

\* A connected base station has a robot in Remote mode that answers to it, whatever
\* modes the operator goes through and whatever is lost, repeated or late on the
\* way (ConnectingWorker, MainWindow.xaml.cs:319).
THEOREM ConnectedObeys == Spec => []ConnectedRobotObeys
<1>1. Inv => ConnectedRobotObeys
  BY DEF Inv, Acknowledged, Obeys, ConnectedRobotObeys
<1> QED
  BY <1>1, Invariance, PTL
=============================================================================
