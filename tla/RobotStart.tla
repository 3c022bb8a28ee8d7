------------------------------ MODULE RobotStart ------------------------------
(***************************************************************************)
(* The robot's program up to its threads: main, BLER's constructor and     *)
(* Run, the two endpoints they open, and the destructor, which only a      *)
(* failed Run comes to.  What the threads do then is Bler and CameraImage. *)
(***************************************************************************)
EXTENDS Naturals, Sequences

CONSTANT NoHandle       \* what the members hold before the first success

VARIABLES
    place,          \* where main is
    socketOpen,     \* UdpSocket::isOpen
    serialOpen,     \* SerialPort::opened
    socketHandle,
    serialHandle,
    opened,         \* what the system has open for the process
    cameras,        \* the cameras that could be opened
    isRunning,
    started         \* the threads Run has started, in that order

endpoints == <<socketOpen, serialOpen, socketHandle, serialHandle, opened>>
vars == <<place, endpoints, cameras, isRunning, started>>

-----------------------------------------------------------------------------
Threads == <<"serialRead", "udpRead", "execute", "cameraRead", "cameraSend">>

Handles == {"socket", "serial"}

Init ==
    /\ place = "arguments"
    /\ socketOpen = FALSE /\ serialOpen = FALSE
    /\ socketHandle = NoHandle /\ serialHandle = NoHandle /\ opened = {}
    /\ cameras = {} /\ isRunning = FALSE /\ started = <<>>

At(p) == place = p
To(p) == place' = p

\* Serial port not specified: nothing is constructed yet.
NoSerialPort ==
    /\ At("arguments")
    /\ To("exited")
    /\ UNCHANGED <<endpoints, cameras, isRunning, started>>

\* SerialPort::Open gives its result, and does nothing if it was successful before.
OpenSerialPort(ok) ==
    /\ ok \/ ~serialOpen
    /\ serialOpen' = ok
    /\ serialHandle' = IF ok THEN "serial" ELSE NoHandle
    /\ opened' = IF ok THEN opened \cup {"serial"} ELSE opened

\* BLER::BLER: whether the port opens makes no difference yet.
Construct ==
    /\ At("arguments")
    /\ \E ok \in BOOLEAN : OpenSerialPort(ok)
    /\ To("socket")
    /\ UNCHANGED <<socketOpen, socketHandle, cameras, isRunning, started>>

\* UdpSocket::Open.  If the port is taken the new socket is forgotten, not closed.
OpenSocket ==
    /\ At("socket")
    /\ socketOpen' = TRUE /\ socketHandle' = "socket"
    /\ opened' = opened \cup {"socket"}
    /\ To("serial")
    /\ UNCHANGED <<serialOpen, serialHandle, cameras, isRunning, started>>

SocketFails ==
    /\ At("socket")
    /\ opened' \in {opened, opened \cup {"socket"}}
    /\ To("failed")
    /\ UNCHANGED <<socketOpen, serialOpen, socketHandle, serialHandle, cameras,
                   isRunning, started>>

OpenSerialAnyway ==                                 \* mutant: result ignored
    /\ At("serial")
    /\ \E ok \in BOOLEAN : OpenSerialPort(ok)
    /\ To("joystick")
    /\ UNCHANGED <<socketOpen, socketHandle, cameras, isRunning, started>>
OpenSerial ==
    /\ At("serial")
    /\ \E ok \in BOOLEAN :
           /\ OpenSerialPort(ok)
           /\ To(IF ok THEN "joystick" ELSE "failed")
    /\ UNCHANGED <<socketOpen, socketHandle, cameras, isRunning, started>>

InitializeJoysticks ==
    /\ At("joystick")
    /\ \E next \in {"cameras", "failed"} : To(next)
    /\ UNCHANGED <<endpoints, cameras, isRunning, started>>

\* A robot without cameras runs.
OpenCameras ==
    /\ At("cameras")
    /\ cameras' \in SUBSET {0, 1}
    /\ isRunning' = TRUE
    /\ To("threads")
    /\ UNCHANGED <<endpoints, started>>

StartThread ==
    /\ At("threads")
    /\ started' = Append(started, Threads[Len(started) + 1])
    /\ To(IF Len(started) + 1 = Len(Threads) THEN "running" ELSE "threads")
    /\ UNCHANGED <<endpoints, cameras, isRunning>>

\* std::thread throws what nobody catches.
StartThreadThrows ==
    /\ At("threads")
    /\ To("terminated")
    /\ opened' = {} /\ started' = <<>>
    /\ UNCHANGED <<socketOpen, serialOpen, socketHandle, serialHandle, cameras,
                   isRunning>>

\* main returns, and BLER::~BLER closes what is open: no thread is joinable.
Destroy ==
    /\ At("failed")
    /\ isRunning' = FALSE
    /\ socketOpen' = FALSE /\ serialOpen' = FALSE
    /\ opened' = {h \in opened : /\ serialOpen => h # serialHandle
                                 /\ socketOpen => h # socketHandle}
    /\ To("exited")
    /\ UNCHANGED <<socketHandle, serialHandle, cameras, started>>

\* main sleeps for ever; the system closes what a process leaves open.
End ==
    /\ place \in {"running", "exited", "terminated"}
    /\ UNCHANGED vars

Next ==
    \/ NoSerialPort \/ Construct \/ OpenSocket \/ SocketFails \/ OpenSerial
    \/ InitializeJoysticks \/ OpenCameras \/ StartThread \/ StartThreadThrows
    \/ Destroy \/ End

Spec == Init /\ [][Next]_vars

-----------------------------------------------------------------------------
TypeOK ==
    /\ place \in {"arguments", "socket", "serial", "joystick", "cameras", "threads",
                  "running", "failed", "exited", "terminated"}
    /\ socketOpen \in BOOLEAN /\ serialOpen \in BOOLEAN /\ isRunning \in BOOLEAN
    /\ {socketHandle, serialHandle} \subseteq Handles \cup {NoHandle}
    /\ opened \subseteq Handles /\ cameras \subseteq {0, 1}
    /\ Len(started) <= Len(Threads)
    /\ \A i \in 1 .. Len(started) : started[i] = Threads[i]

\* A thread that Read or Write of an endpoint is called in never meets a handle that
\* was not opened or is closed, although neither function checks isOpen, the serial
\* port is tried twice and only the second try counts (BLER.cpp:27, 412-457,
\* UdpSocket.cpp:68-88, Serial.cpp:172-186); and none is left behind by an exit.
StartedIsWhole ==
    started # <<>> =>
        /\ isRunning
        /\ socketOpen /\ serialOpen
        /\ {socketHandle, serialHandle} = {"socket", "serial"}
        /\ {socketHandle, serialHandle} \subseteq opened
        /\ place \in {"threads", "running"}
=============================================================================
