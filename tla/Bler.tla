-------------------------------- MODULE Bler --------------------------------
(***************************************************************************)
(* The robot's control core, Robot/src/BLER.cpp: the threads that share    *)
(* the drive mode, the last drive payload, the two time stamps and the     *)
(* base station's address, none of them under a lock.                      *)
(*                                                                         *)
(*   UDP reader   ReceivePacketsFromUdp, one datagram at a time            *)
(*   execute      the 100 ms loop that writes drive packets to the serial  *)
(*                port                                                     *)
(*   watchdog     QueryHeartbeatAI                                         *)
(*   camera       CameraSendThread, as far as it reads the address         *)
(*                                                                         *)
(* A step makes at most one access to data another thread also touches     *)
(* (the race on the five-byte payload is two accesses: wheels, tools).     *)
(* time(nullptr) has a resolution of a second: the two stamps are kept as  *)
(* their ages, which stop one second past the limit they are compared to.  *)
(* The datagrams are those left after framing (PacketCodec); who sends     *)
(* them, and when, is left open.                                           *)
(***************************************************************************)
EXTENDS Naturals

CONSTANTS
    Stations,       \* source addresses of base stations
    Ai,             \* aiAddr, the loopback address of the AI program
    Unset,          \* baseStationAddr before any datagram: uninitialised
    Wheels,         \* the pairs left/right of a DrivePayload
    Halt,           \* both wheels zero
    Tools,          \* the triples vibrator/actuator/scooper
    Idle,           \* all three zero
    DriveTimeout,   \* the "2" of Execute
    AiTimeout,      \* AI_TIMEOUT_INTERVAL
    Started         \* the threads that Run starts

ASSUME DriveAssumption == Halt \in Wheels /\ Idle \in Tools
ASSUME AddressAssumption == Ai \notin Stations /\ Unset \notin Stations \cup {Ai}
ASSUME TimeoutAssumption == DriveTimeout \in Nat /\ AiTimeout \in Nat
ASSUME StartedAssumption ==
    Started \subseteq {"udpRead", "execute", "aiHeartbeat", "cameraSend"}

VARIABLES
    mode,           \* currentMode
    aiConnected,
    latestDrive,    \* latestDrivePayload
    driveAge,       \* seconds since lastDrivePayloadReceivedTime
    aiAge,          \* seconds since lastAIHeartbeatReceivedTime
    baseAddr,       \* baseStationAddr
    udp,            \* where the UDP reader is, and the datagram it handles
    exec,           \* where Execute is, and its localPayload
    dog,            \* where QueryHeartbeatAI is
    motor,          \* the last drive packet written to the serial port
    sent            \* what the last step handed to the UDP or TCP socket

vars == <<mode, aiConnected, latestDrive, driveAge, aiAge, baseAddr,
          udp, exec, dog, motor, sent>>

-----------------------------------------------------------------------------
\* What Run starts.  aiHeartbeatThread, a member that the destructor joins, is
\* never given its function QueryHeartbeatAI.
RunThreads == {"udpRead", "execute", "cameraSend"}
AllThreads == RunThreads \cup {"aiHeartbeat"}

Modes == {"Direct", "Remote", "AI"}
Drives == [wheels : Wheels, tools : Tools]
NoDrive == [wheels |-> Halt, tools |-> Idle]
Senders == Stations \cup {Ai}

\* OTHER: the opcodes whose handlers touch nothing modelled here (camera
\* quality, encoder switches, everything the switch does not know).
Requests == {"QUERY_HEARTBEAT", "AI_SWITCH", "REMOTE_SWITCH",
             "DIRECT_SWITCH", "QUERY_CAMERA_IMAGE", "OTHER"}

\* A datagram as ReadPacketHeader and ParseDrivePayload leave it.
Datagrams == [op : {"DRIVE"}, from : Senders, drive : Drives] \cup
             [op : Requests, from : Senders, drive : {NoDrive}]

Replies == [op : {"REPORT_HEARTBEAT", "SWITCH_MODE_ACK", "AI_INIT",
                  "REMOTE_SWITCH", "QUERY_HEARTBEAT", "IMAGE"},
            to : Senders \cup {Unset}]

Send(op, to) == sent' = {[op |-> op, to |-> to]}
SendNothing == sent' = {}

Idling == [pc |-> "recv", drive |-> NoDrive, from |-> Unset]
Sleeping == [pc |-> "sleep", local |-> NoDrive]

Init ==
    /\ mode = "Direct"
    /\ aiConnected = FALSE
    /\ latestDrive = NoDrive
    /\ driveAge = 0 /\ aiAge = 0
    /\ baseAddr = Unset
    /\ udp = Idling
    /\ exec = Sleeping
    /\ dog = "sleep"
    /\ motor = NoDrive
    /\ sent = {}

-----------------------------------------------------------------------------
(* Time *)

Older(age, limit) == IF age > limit THEN age ELSE age + 1

Tick ==
    /\ driveAge <= DriveTimeout \/ aiAge <= AiTimeout
    /\ driveAge' = Older(driveAge, DriveTimeout)
    /\ aiAge' = Older(aiAge, AiTimeout)
    /\ SendNothing
    /\ UNCHANGED <<mode, aiConnected, latestDrive, baseAddr, udp, exec, dog,
                   motor>>

-----------------------------------------------------------------------------
(* ReceivePacketsFromUdp *)

\* The AI program is not taken for the base station.
NoteSender(from) == baseAddr' = IF from = Ai THEN baseAddr ELSE from

\* The address is taken before the opcode is looked at.
UdpReceive(d) ==
    /\ udp.pc = "recv"
    /\ NoteSender(d.from)
    /\ udp' = IF d.op = "OTHER" THEN Idling
              ELSE [pc |-> d.op, drive |-> d.drive, from |-> d.from]
    /\ SendNothing
    /\ UNCHANGED <<mode, aiConnected, latestDrive, driveAge, aiAge, exec, dog,
                   motor>>

QueryHeartbeat ==
    /\ udp.pc = "QUERY_HEARTBEAT"
    /\ Send("REPORT_HEARTBEAT", udp.from)
    /\ aiConnected' = (aiConnected \/ udp.from = Ai)
    /\ aiAge' = IF udp.from = Ai THEN 0 ELSE aiAge
    /\ udp' = Idling
    /\ UNCHANGED <<mode, latestDrive, driveAge, baseAddr, exec, dog, motor>>

AiSwitch ==
    /\ udp.pc = "AI_SWITCH"
    /\ mode' = "AI"
    /\ sent' = {[op |-> op, to |-> udp.from] :
                   op \in {"SWITCH_MODE_ACK"} \cup
                          (IF aiConnected THEN {"AI_INIT"} ELSE {})}
    /\ udp' = Idling
    /\ UNCHANGED <<aiConnected, latestDrive, driveAge, aiAge, baseAddr, exec,
                   dog, motor>>

\* lastDrivePayloadReceivedTime first, then the mode and the answer.
RemoteSwitchTime ==
    /\ udp.pc = "REMOTE_SWITCH"
    /\ driveAge' = 0
    /\ udp' = [udp EXCEPT !.pc = "REMOTE_MODE"]
    /\ SendNothing
    /\ UNCHANGED <<mode, aiConnected, latestDrive, aiAge, baseAddr, exec, dog,
                   motor>>

RemoteSwitchMode ==
    /\ udp.pc = "REMOTE_MODE"
    /\ mode' = "Remote"
    /\ Send("SWITCH_MODE_ACK", baseAddr)
    /\ udp' = Idling
    /\ UNCHANGED <<aiConnected, latestDrive, driveAge, aiAge, baseAddr, exec,
                   dog, motor>>

DirectSwitch ==
    /\ udp.pc = "DIRECT_SWITCH"
    /\ mode' = "Direct"
    /\ udp' = Idling
    /\ SendNothing
    /\ UNCHANGED <<aiConnected, latestDrive, driveAge, aiAge, baseAddr, exec,
                   dog, motor>>

\* SendCameraImage runs in the reader's thread, which reads no datagram until
\* TCP is done with the image (or there was no frame, or no connection).
QueryCameraImage(gotThrough) ==
    /\ udp.pc = "QUERY_CAMERA_IMAGE"
    /\ IF gotThrough THEN Send("IMAGE", baseAddr) ELSE SendNothing
    /\ udp' = Idling
    /\ UNCHANGED <<mode, aiConnected, latestDrive, driveAge, aiAge, baseAddr,
                   exec, dog, motor>>

\* latestDrivePayload = localPayload, field after field, then the time.
DriveWheels ==
    /\ udp.pc = "DRIVE"
    /\ latestDrive' = [latestDrive EXCEPT !.wheels = udp.drive.wheels]
    /\ udp' = [udp EXCEPT !.pc = "DRIVE_TOOLS"]
    /\ SendNothing
    /\ UNCHANGED <<mode, aiConnected, driveAge, aiAge, baseAddr, exec, dog,
                   motor>>

DriveTools ==
    /\ udp.pc = "DRIVE_TOOLS"
    /\ latestDrive' = [latestDrive EXCEPT !.tools = udp.drive.tools]
    /\ udp' = [udp EXCEPT !.pc = "DRIVE_TIME"]
    /\ SendNothing
    /\ UNCHANGED <<mode, aiConnected, driveAge, aiAge, baseAddr, exec, dog,
                   motor>>

DriveNoTime ==                                      \* mutant: stamp forgotten
    /\ udp.pc = "DRIVE_TIME"
    /\ udp' = Idling
    /\ SendNothing
    /\ UNCHANGED <<mode, aiConnected, latestDrive, driveAge, aiAge, baseAddr,
                   exec, dog, motor>>
DriveTime ==
    /\ udp.pc = "DRIVE_TIME"
    /\ driveAge' = 0
    /\ udp' = Idling
    /\ SendNothing
    /\ UNCHANGED <<mode, aiConnected, latestDrive, aiAge, baseAddr, exec, dog,
                   motor>>

UdpHandle ==
    \/ QueryHeartbeat \/ AiSwitch \/ RemoteSwitchTime \/ RemoteSwitchMode
    \/ DirectSwitch \/ DriveWheels \/ DriveTools \/ DriveTime

-----------------------------------------------------------------------------
(* Execute *)

\* In Direct mode with a joystick: the wheels come from the sticks, the other
\* three fields of the packet are never assigned.
ExecuteDirect(stick, garbage) ==
    /\ exec.pc = "sleep"
    /\ mode = "Direct"
    /\ exec' = [pc |-> "write", local |-> [wheels |-> stick, tools |-> garbage]]
    /\ SendNothing
    /\ UNCHANGED <<mode, aiConnected, latestDrive, driveAge, aiAge, baseAddr,
                   udp, dog, motor>>

ExecuteRemoteOrAi ==                                        \* mutant: no case AI
    /\ exec.pc = "sleep"
    /\ mode # "Direct"
    /\ exec' = [exec EXCEPT !.pc = "wheels"]
    /\ SendNothing
    /\ UNCHANGED <<mode, aiConnected, latestDrive, driveAge, aiAge, baseAddr,
                   udp, dog, motor>>
ExecuteRemote ==
    /\ exec.pc = "sleep"
    /\ mode = "Remote"
    /\ exec' = [exec EXCEPT !.pc = "wheels"]
    /\ SendNothing
    /\ UNCHANGED <<mode, aiConnected, latestDrive, driveAge, aiAge, baseAddr,
                   udp, dog, motor>>

\* In AI mode, and in Direct mode without a joystick, the loop only sleeps.
ExecuteNothing ==
    /\ exec.pc = "sleep"
    /\ mode # "Remote"
    /\ SendNothing
    /\ UNCHANGED <<mode, aiConnected, latestDrive, driveAge, aiAge, baseAddr,
                   udp, exec, dog, motor>>

CopyWheels ==
    /\ exec.pc = "wheels"
    /\ exec' = [pc |-> "tools",
                local |-> [exec.local EXCEPT !.wheels = latestDrive.wheels]]
    /\ SendNothing
    /\ UNCHANGED <<mode, aiConnected, latestDrive, driveAge, aiAge, baseAddr,
                   udp, dog, motor>>

CopyNoTools ==                                      \* mutant: tools left out
    /\ exec.pc = "tools"
    /\ exec' = [exec EXCEPT !.pc = "check"]
    /\ SendNothing
    /\ UNCHANGED <<mode, aiConnected, latestDrive, driveAge, aiAge, baseAddr,
                   udp, dog, motor>>
CopyTools ==
    /\ exec.pc = "tools"
    /\ exec' = [pc |-> "check",
                local |-> [exec.local EXCEPT !.tools = latestDrive.tools]]
    /\ SendNothing
    /\ UNCHANGED <<mode, aiConnected, latestDrive, driveAge, aiAge, baseAddr,
                   udp, dog, motor>>

\* After the timeout the wheels stop; actuator, scooper and vibrator do not.
TimedOutTools(drive) ==                                             \* mutant
    IF driveAge > DriveTimeout THEN [drive EXCEPT !.tools = Idle] ELSE drive
TimedOut(drive) ==
    IF driveAge > DriveTimeout THEN [drive EXCEPT !.wheels = Halt] ELSE drive

CheckTimeout ==
    /\ exec.pc = "check"
    /\ exec' = [pc |-> "write", local |-> TimedOut(exec.local)]
    /\ SendNothing
    /\ UNCHANGED <<mode, aiConnected, latestDrive, driveAge, aiAge, baseAddr,
                   udp, dog, motor>>

WriteSerial ==
    /\ exec.pc = "write"
    /\ motor' = exec.local
    /\ exec' = Sleeping
    /\ SendNothing
    /\ UNCHANGED <<mode, aiConnected, latestDrive, driveAge, aiAge, baseAddr,
                   udp, dog>>

Execute ==
    \/ \E stick \in Wheels, garbage \in Tools : ExecuteDirect(stick, garbage)
    \/ ExecuteRemote \/ ExecuteNothing
    \/ CopyWheels \/ CopyTools \/ CheckTimeout \/ WriteSerial

-----------------------------------------------------------------------------
(* QueryHeartbeatAI *)

WatchdogMode ==
    /\ dog = "sleep"
    /\ mode = "AI"
    /\ dog' = "check"
    /\ SendNothing
    /\ UNCHANGED <<mode, aiConnected, latestDrive, driveAge, aiAge, baseAddr,
                   udp, exec, motor>>

AiDead == aiAge > AiTimeout

WatchdogCheck ==
    /\ dog = "check"
    /\ dog' = IF AiDead THEN "revert" ELSE "query"
    /\ SendNothing
    /\ UNCHANGED <<mode, aiConnected, latestDrive, driveAge, aiAge, baseAddr,
                   udp, exec, motor>>

WatchdogRevert ==
    /\ dog = "revert"
    /\ mode' = "Remote"
    /\ dog' = "notify"
    /\ SendNothing
    /\ UNCHANGED <<aiConnected, latestDrive, driveAge, aiAge, baseAddr, udp,
                   exec, motor>>

WatchdogNotify ==
    /\ dog = "notify"
    /\ Send("REMOTE_SWITCH", baseAddr)
    /\ dog' = "query"
    /\ UNCHANGED <<mode, aiConnected, latestDrive, driveAge, aiAge, baseAddr,
                   udp, exec, motor>>

WatchdogQuery ==
    /\ dog = "query"
    /\ Send("QUERY_HEARTBEAT", Ai)
    /\ dog' = "sleep"
    /\ UNCHANGED <<mode, aiConnected, latestDrive, driveAge, aiAge, baseAddr,
                   udp, exec, motor>>

Watchdog ==
    \/ WatchdogMode \/ WatchdogCheck \/ WatchdogRevert
    \/ WatchdogNotify \/ WatchdogQuery

-----------------------------------------------------------------------------
(* CameraSendThread: every 200 ms an image to whatever the address holds. *)

CameraSend ==
    /\ Send("IMAGE", baseAddr)
    /\ UNCHANGED <<mode, aiConnected, latestDrive, driveAge, aiAge, baseAddr,
                   udp, exec, dog, motor>>

-----------------------------------------------------------------------------
UdpThread ==
    \/ \E d \in Datagrams : UdpReceive(d)
    \/ UdpHandle
    \/ \E gotThrough \in BOOLEAN : QueryCameraImage(gotThrough)

Next ==
    \/ Tick
    \/ "udpRead" \in Started /\ UdpThread
    \/ "execute" \in Started /\ Execute
    \/ "aiHeartbeat" \in Started /\ Watchdog
    \/ "cameraSend" \in Started /\ CameraSend

Spec == Init /\ [][Next]_vars

\* A started thread keeps running and the clock advances. Nothing promises
\* that a datagram arrives, nor that TCP ever finishes with an image.
Fairness ==
    /\ WF_vars(Tick)
    /\ WF_vars("udpRead" \in Started /\ UdpHandle)
    /\ WF_vars("execute" \in Started /\ Execute)
    /\ WF_vars("aiHeartbeat" \in Started /\ Watchdog)

FairSpec == Spec /\ Fairness

-----------------------------------------------------------------------------
\* Every variable stays within the values the code can give it.
TypeOK ==
    /\ mode \in Modes
    /\ aiConnected \in BOOLEAN
    /\ latestDrive \in Drives
    /\ driveAge \in 0 .. DriveTimeout + 1
    /\ aiAge \in 0 .. AiTimeout + 1
    /\ baseAddr \in Stations \cup {Unset}
    /\ udp \in [pc : (Requests \ {"OTHER"}) \cup
                     {"recv", "DRIVE", "DRIVE_TOOLS", "DRIVE_TIME", "REMOTE_MODE"},
                drive : Drives, from : Senders \cup {Unset}]
    /\ exec \in [pc : {"sleep", "wheels", "tools", "check", "write"},
                 local : Drives]
    /\ dog \in {"sleep", "check", "revert", "notify", "query"}
    /\ motor \in Drives
    /\ sent \subseteq Replies

\* The condition under which Execute zeroes the wheels.
Stale == mode = "Remote" /\ driveAge > DriveTimeout

\* A robot in Remote mode whose operator fell silent does come to a stop,
\* unless the silence ends first, whatever the other threads are busy with
\* (Execute, BLER.cpp:324).
SilenceStops == Stale ~> (motor.wheels = Halt \/ ~Stale)

\* "AI is probably dead, revert to remote control" (BLER.cpp:364): a robot in
\* AI mode that does not hear from the AI falls back to Remote mode.
DeadAiReverts ==
    (mode = "AI" /\ aiAge > AiTimeout) ~> (mode # "AI" \/ aiAge <= AiTimeout)
=============================================================================
