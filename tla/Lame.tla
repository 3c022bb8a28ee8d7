-------------------------------- MODULE Lame ---------------------------------
(***************************************************************************)
(* Robot and base station together: the UDP reader of Bler and the whole   *)
(* connection protocol of BaseStation, over a network that loses,          *)
(* duplicates, delays and reorders datagrams.  Execute, the clock and the  *)
(* camera threads of the robot, the joystick, the timer and the window's   *)
(* end do not take part in the protocol and are left out here, and so are  *)
(* camera requests, which only delay the reader, and socket errors, which  *)
(* end the receiving.                                                      *)
(***************************************************************************)
EXTENDS Naturals

CONSTANTS
    Base, Robot,    \* the two addresses
    Nowhere, Ai, Halt, Idle,
    Choices         \* modes the operator selects

ASSUME OperatorAssumption == Choices \subseteq {"Remote", "AI"}
ASSUME AddressAssumption == Base # Ai /\ Nowhere \notin {Base, Robot, Ai}

VARIABLES
    mode, aiConnected, latestDrive, driveAge, aiAge, baseAddr, udp, exec, dog,
    motor, sent,
    selected, selecting, driveMode, isConnected, endpoint, heard, acked,
    listening, handling, worker, gui, joystick, timer, closing, out, spoken,
    toRobot, toBase     \* opcodes of the datagrams under way

R == INSTANCE Bler WITH
         Stations <- {Base}, Unset <- Nowhere, Wheels <- {Halt}, Tools <- {Idle},
         DriveTimeout <- 0, AiTimeout <- 0, Started <- {"udpRead"}
B == INSTANCE BaseStation WITH Endpoints <- {Robot}

robot == <<mode, aiConnected, latestDrive, driveAge, aiAge, baseAddr, udp, exec,
           dog, motor>>
base == <<selected, selecting, driveMode, isConnected, endpoint, heard, acked,
          listening, handling, worker, gui, joystick, timer, closing, spoken>>
vars == <<robot, sent, base, out, toRobot, toBase>>

RobotRests == UNCHANGED robot /\ sent' = {}
BaseRests == UNCHANGED base /\ out' = {}

-----------------------------------------------------------------------------
Init == R!Init /\ B!Init /\ toRobot = {} /\ toBase = {}

\* What the robot makes of an opcode: it has a case for AI_SWITCH, which no
\* base station sends, and none for AI_INIT, which the worker sends.
AsDatagram(op) ==
    [op |-> IF op \in R!Requests THEN op ELSE "OTHER",
     from |-> Base, drive |-> R!NoDrive]

\* A datagram that was received may be received again, until it is lost.
RobotReceives(op) ==
    /\ op \in toRobot
    /\ R!UdpReceive(AsDatagram(op))
    /\ BaseRests /\ UNCHANGED <<toRobot, toBase>>

RobotHandles ==
    /\ R!UdpHandle
    /\ toBase' = toBase \cup {d.op : d \in {r \in sent' : r.to = Base}}
    /\ BaseRests /\ UNCHANGED toRobot

BaseReceives(op) ==
    /\ op \in toBase
    /\ B!Receive(op)
    /\ RobotRests /\ UNCHANGED <<toRobot, toBase>>

Operator ==
    \/ \E item \in Choices : B!SelectMode(item)
    \/ B!GoButtonClicked
    \/ B!GuiHandler

BaseActs ==
    /\ Operator \/ B!Worker \/ B!Callback
    /\ toRobot' = toRobot \cup {d.op : d \in {r \in out' : r.to = Robot}}
    /\ RobotRests /\ UNCHANGED toBase

Lose ==
    /\ RobotRests /\ BaseRests
    /\ \/ \E op \in toRobot : toRobot' = toRobot \ {op} /\ UNCHANGED toBase
       \/ \E op \in toBase : toBase' = toBase \ {op} /\ UNCHANGED toRobot

Next ==
    \/ \E op \in toRobot : RobotReceives(op)
    \/ RobotHandles
    \/ \E op \in toBase : BaseReceives(op)
    \/ BaseActs
    \/ Lose

Spec == Init /\ [][Next]_vars

\* Threads keep running, and what is sent again and again is received, or
\* received and handled, at last.  (A datagram waits in the robot's socket while
\* the reader is busy, so SF_vars(RobotReceives(op)) would be too weak: the
\* network could lose each copy before the reader is back.)
Received(op) == []<>(op \in toRobot) => []<><<RobotReceives(op)>>_vars
Answered(op) ==
    []<>(op \in toBase) =>
        []<><<BaseActs /\ B!Callback /\ handling' = handling \ {op}>>_vars
Fairness ==
    /\ WF_vars(RobotHandles)
    /\ WF_vars(BaseActs /\ B!Worker)
    /\ Received("QUERY_HEARTBEAT") /\ Received("REMOTE_SWITCH")
    /\ Answered("REPORT_HEARTBEAT") /\ Answered("SWITCH_MODE_ACK")

FairSpec == Spec /\ Fairness

-----------------------------------------------------------------------------
\* A connected base station has a robot that obeys it: it is in Remote mode and
\* answers to this base station (ConnectingWorker, MainWindow.xaml.cs:319).
ConnectedRobotObeys == isConnected => mode = "Remote" /\ baseAddr = Base

\* A worker that asks for Remote mode gets it, whatever the network loses or
\* repeats, unless the operator changes his mind.
Trying(m) == driveMode = m /\ (worker.query \/ worker.set) /\ worker.pc # "ending"
Settled(m) == isConnected \/ driveMode # m

RemoteConnects == Trying("Remote") ~> Settled("Remote")

\* "Updating drive mode to AI" (MainWindow.xaml.cs:530).
AiConnects == Trying("AI") ~> Settled("AI")

\* "Mode switched successfully." (MainWindow.xaml.cs:322): the robot is in the
\* mode the worker asked for.
SwitchedSuccessfully ==
    [][~isConnected /\ isConnected' => mode = worker.chosen]_vars
=============================================================================
