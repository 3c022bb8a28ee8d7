--------------------------- MODULE FailSafeProofs ---------------------------
(***************************************************************************)
(* Type correctness of the robot's control core, and the wheels'           *)
(* guarantees of FailSafe, for every set of stations and drive values,     *)
(* every pair of timeouts and every choice of threads: the inductive       *)
(* invariant FailSafeInv, the three properties it contains, and the dead   *)
(* man's switch of DeadMan.  FailSafeInv is needed because a step can only *)
(* be judged by where Execute is: a write under way when a condition began *)
(* is the one exception each property makes.  Last, that a live operator   *)
(* is not cut off (StaleDrive).                                            *)
(***************************************************************************)
EXTENDS StaleDrive, TLAPS

USE DriveAssumption, AddressAssumption, TimeoutAssumption

-----------------------------------------------------------------------------
(* Types *)

\* The constructor leaves every variable within its type.
LEMMA InitType == Init => TypeOK
<1> SUFFICES ASSUME Init PROVE TypeOK
  OBVIOUS
<1>1. NoDrive \in Drives
  BY DEF NoDrive, Drives
<1>2. udp \in [pc : (Requests \ {"OTHER"}) \cup
                   {"recv", "DRIVE", "DRIVE_TOOLS", "DRIVE_TIME", "REMOTE_MODE"},
              drive : Drives, from : Senders \cup {Unset}]
  BY <1>1 DEF Init, Idling
<1>3. exec \in [pc : {"sleep", "wheels", "tools", "check", "write"}, local : Drives]
  BY <1>1 DEF Init, Sleeping
<1>4. aiConnected \in BOOLEAN
  BY Zenon DEF Init
<1>5. driveAge \in 0 .. DriveTimeout + 1 /\ aiAge \in 0 .. AiTimeout + 1
  BY DEF Init
<1>6. mode \in Modes
  BY DEF Init, Modes
<1> QED
  BY <1>1, <1>2, <1>3, <1>4, <1>5, <1>6, Zenon DEF Init, TypeOK

\* An age stops one second past its limit.
LEMMA OlderType ==
    ASSUME NEW limit \in Nat, NEW age \in 0 .. limit + 1
    PROVE  Older(age, limit) \in 0 .. limit + 1
BY DEF Older

\* No step of a thread, nor of the clock, leaves the types.
LEMMA NextType == TypeOK /\ [Next]_vars => TypeOK'
<1> SUFFICES ASSUME TypeOK, [Next]_vars PROVE TypeOK'
  OBVIOUS
<1> USE DEF TypeOK, Modes, Drives, NoDrive, Senders, SendNothing
<1>1. CASE Tick
  BY <1>1, OlderType DEF Tick
<1>2. CASE \E d \in Datagrams : UdpReceive(d)
  BY <1>2 DEF UdpReceive, NoteSender, Datagrams, Requests, Idling
<1>3. CASE UdpHandle
  <2> USE DEF Requests, Idling
  <2>1. CASE QueryHeartbeat
    BY <2>1 DEF QueryHeartbeat, Send, Replies
  <2>2. CASE AiSwitch
    BY <2>2 DEF AiSwitch, Replies
  <2>3. CASE RemoteSwitchTime
    BY <2>3 DEF RemoteSwitchTime
  <2>4. CASE RemoteSwitchMode
    BY <2>4 DEF RemoteSwitchMode, Send, Replies
  <2>5. CASE DirectSwitch
    BY <2>5 DEF DirectSwitch
  <2>6. CASE DriveWheels
    BY <2>6 DEF DriveWheels
  <2>7. CASE DriveTools
    BY <2>7 DEF DriveTools
  <2>8. CASE DriveTime
    BY <2>8 DEF DriveTime
  <2> QED
    BY <1>3, <2>1, <2>2, <2>3, <2>4, <2>5, <2>6, <2>7, <2>8 DEF UdpHandle
<1>4. CASE \E gotThrough \in BOOLEAN : QueryCameraImage(gotThrough)
  BY <1>4 DEF QueryCameraImage, Send, Replies, Requests, Idling
<1>5. CASE Execute
  <2> USE DEF Sleeping
  <2>1. CASE \E stick \in Wheels, garbage \in Tools : ExecuteDirect(stick, garbage)
    BY <2>1 DEF ExecuteDirect
  <2>2. CASE ExecuteRemote
    BY <2>2 DEF ExecuteRemote
  <2>3. CASE ExecuteNothing
    BY <2>3 DEF ExecuteNothing
  <2>4. CASE CopyWheels
    BY <2>4 DEF CopyWheels
  <2>5. CASE CopyTools
    BY <2>5 DEF CopyTools
  <2>6. CASE CheckTimeout
    BY <2>6 DEF CheckTimeout, TimedOut
  <2>7. CASE WriteSerial
    BY <2>7 DEF WriteSerial
  <2> QED
    BY <1>5, <2>1, <2>2, <2>3, <2>4, <2>5, <2>6, <2>7 DEF Execute
<1>6. CASE Watchdog
  BY <1>6 DEF Watchdog, WatchdogMode, WatchdogCheck, WatchdogRevert,
              WatchdogNotify, WatchdogQuery, Send, Replies
<1>7. CASE CameraSend
  BY <1>7 DEF CameraSend, Send, Replies
<1>8. CASE UNCHANGED vars
  BY <1>8 DEF vars
<1> QED
  BY <1>1, <1>2, <1>3, <1>4, <1>5, <1>6, <1>7, <1>8 DEF Next, UdpThread

\* TypeOK holds in every state of every execution.
THEOREM TypeCorrect == Spec => []TypeOK
BY InitType, NextType, PTL DEF Spec

\* A monitor that counts writes stays within 0..2.
LEMMA CountType ==
    ASSUME NEW n \in 0 .. 2
    PROVE  Count(n) \in 0 .. 2
BY DEF Count

\* MonTypeOK is inductive.
LEMMA MonTypeStep == MonTypeOK /\ [MonNext]_allVars => MonTypeOK'
<1> SUFFICES ASSUME MonTypeOK, [MonNext]_allVars PROVE MonTypeOK'
  OBVIOUS
<1>1. TypeOK'
  <2>1. [Next]_vars
    BY DEF MonNext, allVars, vars
  <2> QED
    BY <2>1, NextType DEF MonTypeOK
<1>2. CASE Monitor
  <2>1. /\ staleWrites \in 0 .. 2 /\ Count(staleWrites) \in 0 .. 2
        /\ modeWrites \in 0 .. 2 /\ Count(modeWrites) \in 0 .. 2
        /\ orderWrites \in 0 .. 2 /\ Count(orderWrites) \in 0 .. 2
    BY CountType DEF MonTypeOK
  <2>2. /\ staleWrites' \in 0 .. 2
        /\ modeWrites' \in 0 .. 2
        /\ orderWrites' \in 0 .. 2
    BY <1>2, <2>1 DEF Monitor
  <2> QED
    BY <1>1, <2>2 DEF MonTypeOK
<1>3. CASE UNCHANGED allVars
  BY <1>1, <1>3 DEF MonTypeOK, allVars
<1> QED
  BY <1>2, <1>3 DEF MonNext

-----------------------------------------------------------------------------
(* How Execute moves *)

\* What a step can do to the loop's period, its copy and the serial port.
PeriodStep ==
    \/ UNCHANGED <<exec, motor>>
    \/ exec.pc = "sleep" /\ mode = "Direct" /\ mode' = mode /\ UNCHANGED motor
    \/ exec.pc = "sleep" /\ mode = "Remote" /\ exec'.pc = "wheels" /\ UNCHANGED motor
    \/ /\ exec.pc = "wheels" /\ exec'.pc = "tools"
       /\ exec'.local.wheels = latestDrive.wheels
       /\ UNCHANGED <<motor, mode, latestDrive>>
    \/ /\ exec.pc = "tools" /\ exec'.pc = "check"
       /\ exec'.local.wheels = exec.local.wheels
       /\ exec'.local.tools = latestDrive.tools
       /\ UNCHANGED <<motor, mode, latestDrive>>
    \/ /\ exec.pc = "check" /\ exec'.pc = "write"
       /\ exec'.local.tools = exec.local.tools
       /\ exec'.local.wheels = IF driveAge > DriveTimeout THEN Halt
                                                         ELSE exec.local.wheels
       /\ UNCHANGED <<motor, mode, driveAge, latestDrive>>
    \/ /\ exec.pc = "write" /\ exec'.pc = "sleep" /\ motor' = exec.local
       /\ UNCHANGED <<mode, driveAge, latestDrive>>

\* Every step of the program is one of these.
LEMMA PeriodSteps == TypeOK /\ [Next]_vars => PeriodStep
<1> SUFFICES ASSUME TypeOK, [Next]_vars PROVE PeriodStep
  OBVIOUS
<1> USE DEF PeriodStep
<1>1. CASE Execute
  <2> USE <1>1 DEF TypeOK, Drives, NoDrive, Sleeping
  <2>1. CASE \E stick \in Wheels, garbage \in Tools : ExecuteDirect(stick, garbage)
    BY <2>1 DEF ExecuteDirect
  <2>2. CASE ExecuteRemote
    BY <2>2 DEF ExecuteRemote
  <2>3. CASE ExecuteNothing
    BY <2>3 DEF ExecuteNothing
  <2>4. CASE CopyWheels
    BY <2>4 DEF CopyWheels
  <2>5. CASE CopyTools
    BY <2>5 DEF CopyTools
  <2>6. CASE CheckTimeout
    BY <2>6 DEF CheckTimeout, TimedOut
  <2>7. CASE WriteSerial
    BY <2>7 DEF WriteSerial
  <2> QED
    BY <2>1, <2>2, <2>3, <2>4, <2>5, <2>6, <2>7 DEF Execute
<1>2. CASE ~Execute
  <2>1. UNCHANGED <<exec, motor>>
    BY <1>2 DEF Next, vars, Tick, UdpThread, UdpReceive, UdpHandle,
                QueryHeartbeat, AiSwitch, RemoteSwitchTime, RemoteSwitchMode,
                DirectSwitch, DriveWheels, DriveTools, DriveTime,
                QueryCameraImage, Watchdog, WatchdogMode, WatchdogCheck,
                WatchdogRevert, WatchdogNotify, WatchdogQuery, CameraSend
  <2> QED
    BY <2>1
<1> QED
  BY <1>1, <1>2

-----------------------------------------------------------------------------
(* The invariant *)

\* Nothing holds back a robot that starts in Direct mode.
LEMMA InitInv == MonInit => FailSafeInv
<1> SUFFICES ASSUME MonInit PROVE FailSafeInv
  OBVIOUS
<1>1. TypeOK
  BY InitType DEF MonInit
<1>2. mode = "Direct" /\ staleWrites = 0 /\ modeWrites = 0 /\ orderWrites = 0
  BY DEF MonInit, Init
<1> QED
  BY <1>1, <1>2 DEF FailSafeInv, MonTypeOK, StopInv, StopsWhenSilent, Stale,
                    QuietInv, OrderInv, SettlesOnLastDrive

\* Once the command is too old, only the write under way can move the robot.
LEMMA StopStep ==
    ASSUME MonTypeOK, StopInv, PeriodStep, Monitor
    PROVE  StopInv'
<1>1. CASE Stale /\ Stale'
  BY <1>1 DEF StopInv, StopsWhenSilent, PeriodStep, Monitor, Stale, Count,
              Wrote, MonTypeOK, TypeOK
<1>2. CASE ~(Stale /\ Stale')
  BY <1>2 DEF StopInv, StopsWhenSilent, Monitor
<1> QED
  BY <1>1, <1>2

\* In AI mode no period begins that ends in a write.
LEMMA QuietStep ==
    ASSUME MonTypeOK, QuietInv, PeriodStep, Monitor
    PROVE  QuietInv'
BY DEF QuietInv, PeriodStep, Monitor, Count, Wrote, MonTypeOK

\* A period that begins after the payload settled copies that payload whole.
LEMMA OrderStep ==
    ASSUME MonTypeOK, OrderInv, PeriodStep, Monitor
    PROVE  OrderInv'
<1>1. CASE mode' = mode /\ latestDrive' = latestDrive
  BY <1>1 DEF OrderInv, SettlesOnLastDrive, PeriodStep, Monitor, Count, Wrote,
              MonTypeOK
<1>2. CASE ~(mode' = mode /\ latestDrive' = latestDrive)
  BY <1>2 DEF OrderInv, SettlesOnLastDrive, Monitor
<1> QED
  BY <1>1, <1>2

\* FailSafeInv is inductive.
LEMMA FailSafeStep == FailSafeInv /\ [MonNext]_allVars => FailSafeInv'
<1> SUFFICES ASSUME FailSafeInv, [MonNext]_allVars PROVE FailSafeInv'
  OBVIOUS
<1>1. MonTypeOK'
  BY MonTypeStep DEF FailSafeInv
<1>2. CASE MonNext
  <2>1. PeriodStep
    BY <1>2, PeriodSteps DEF MonNext, FailSafeInv, MonTypeOK
  <2> QED
    BY <1>1, <1>2, <2>1, StopStep, QuietStep, OrderStep
       DEF MonNext, FailSafeInv
<1>3. CASE UNCHANGED allVars
  BY <1>1, <1>3 DEF allVars, FailSafeInv, StopInv, StopsWhenSilent, Stale,
                    QuietInv, OrderInv, SettlesOnLastDrive
<1> QED
  BY <1>2, <1>3

\* The inductive invariant holds throughout.
THEOREM Invariance == MonSpec => []FailSafeInv
BY InitInv, FailSafeStep, PTL DEF MonSpec

\* The control core's variables and the monitors' counters stay within their types.
THEOREM MonTypeCorrect == MonSpec => []MonTypeOK
<1>1. FailSafeInv => MonTypeOK
  BY DEF FailSafeInv
<1> QED
  BY <1>1, Invariance, PTL

\* The second serial write after the drive command became too old, and every
\* later one, holds the wheels still.
THEOREM SilentRobotStops == MonSpec => []StopsWhenSilent
<1>1. FailSafeInv => StopsWhenSilent
  BY DEF FailSafeInv, StopInv
<1> QED
  BY <1>1, Invariance, PTL

\* After the switch to AI mode at most one more serial write is made.
THEOREM AiModeQuiet == MonSpec => []AiModeIsQuiet
<1>1. FailSafeInv => AiModeIsQuiet
  BY DEF FailSafeInv, QuietInv, AiModeIsQuiet
<1> QED
  BY <1>1, Invariance, PTL

\* A torn payload is gone from the serial port after two writes.
THEOREM TornDriveHeals == MonSpec => []SettlesOnLastDrive
<1>1. FailSafeInv => SettlesOnLastDrive
  BY DEF FailSafeInv, OrderInv
<1> QED
  BY <1>1, Invariance, PTL

-----------------------------------------------------------------------------
(* The dead man's switch *)

\* A step of the threads is a step of the switch, or none.
LEMMA SwitchStep ==
    FailSafeInv /\ FailSafeInv' /\ [MonNext]_allVars
        => [Switch!Next]_(Switch!dvars)
<1> SUFFICES ASSUME FailSafeInv, FailSafeInv', [MonNext]_allVars
             PROVE  [Switch!Next]_(Switch!dvars)
  OBVIOUS
<1> USE DEF Switch!Next, Switch!dvars
<1>1. CASE MonNext
  <2>1. PeriodStep /\ Monitor
    BY <1>1, PeriodSteps DEF MonNext, FailSafeInv, MonTypeOK
  <2>2. CASE Stale /\ Stale'
    <3>1. CASE Wrote
      <4>1. staleWrites >= 1 => motor'.wheels = Halt
        BY <2>1, <2>2, <3>1 DEF PeriodStep, Wrote, FailSafeInv, StopInv
      <4>2. staleWrites' = IF staleWrites = 2 THEN 2 ELSE staleWrites + 1
        BY <2>1, <2>2, <3>1 DEF Monitor, Count
      <4>3. staleWrites > 0 => ~(motor.wheels # Halt)'
        BY <4>1 DEF FailSafeInv, MonTypeOK
      <4>4. (motor.wheels # Halt)' \in BOOLEAN
        OBVIOUS
      <4>5. Switch!LatePeriod
        BY <2>2, <4>2, <4>3, <4>4, Zenon DEF Switch!LatePeriod, Stale
      <4> QED
        BY <4>5
    <3>2. CASE ~Wrote
      BY <2>1, <2>2, <3>2 DEF PeriodStep, Wrote, Monitor, Count
    <3> QED
      BY <3>1, <3>2
  <2>3. CASE ~Stale /\ ~Stale'
    <3>1. staleWrites = 0 /\ staleWrites' = 0
      BY <2>1, <2>3 DEF Monitor, FailSafeInv, StopInv
    <3>2. (motor.wheels # Halt)' \in BOOLEAN
      OBVIOUS
    <3>3. Switch!DrivePeriod
      BY <2>3, <3>1, <3>2, Zenon DEF Switch!DrivePeriod, Stale
    <3> QED
      BY <3>3
  <2>4. CASE ~Stale /\ Stale'
    BY <2>1, <2>4 DEF Monitor, Switch!FallSilent, PeriodStep, Stale
  <2>5. CASE Stale /\ ~Stale'
    BY <2>1, <2>5 DEF Monitor, Switch!Resume, PeriodStep, Stale
  <2> QED
    BY <2>2, <2>3, <2>4, <2>5
<1>2. CASE UNCHANGED allVars
  BY <1>2 DEF allVars, Stale
<1> QED
  BY <1>1, <1>2

\* The robot's threads implement the dead man's switch.
THEOREM ImplementsDeadMan == MonSpec => DeadManSpec
<1>1. MonInit => Switch!Init
  BY DEF MonInit, Init, NoDrive, Stale, Switch!Init
<1> QED
  BY <1>1, SwitchStep, Invariance, PTL DEF MonSpec, DeadManSpec, Switch!Spec

-----------------------------------------------------------------------------
(* The age of the payload *)

\* What a step can do to the payload, its stamp and where the reader is in a DRIVE.
PayloadStep ==
    \/ Tick
    \/ /\ Storing' = Storing /\ latestDrive' = latestDrive /\ driveAge' \in {0, driveAge}
       /\ Storing => driveAge' = driveAge
    \/ Storing'
    \/ Storing /\ ~Storing' /\ driveAge' = 0

LEMMA PayloadSteps == TypeOK /\ [Next]_vars => PayloadStep
  BY DEF PayloadStep, Storing, TypeOK, Requests, Idling, Datagrams,
         Next, vars, UdpThread, UdpReceive, UdpHandle, QueryHeartbeat,
         AiSwitch, RemoteSwitchTime, RemoteSwitchMode, DirectSwitch, DriveWheels,
         DriveTools, DriveTime, QueryCameraImage, Execute, ExecuteDirect,
         ExecuteRemote, ExecuteNothing, CopyWheels, CopyTools, CheckTimeout,
         WriteSerial, Watchdog, WatchdogMode, WatchdogCheck, WatchdogRevert,
         WatchdogNotify, WatchdogQuery, CameraSend

\* What FreshInv needs of the values.
AgeTypeOK ==
    /\ MonTypeOK
    /\ payloadAge \in 0 .. DriveTimeout + 1
    /\ freshWrites \in 0 .. 2

LEMMA AgeTypeStep == AgeTypeOK /\ [AgeNext]_ageVars => AgeTypeOK'
<1> SUFFICES ASSUME AgeTypeOK, [AgeNext]_ageVars PROVE AgeTypeOK'
  OBVIOUS
<1>1. MonTypeOK'
  BY MonTypeStep DEF AgeTypeOK, AgeNext, ageVars
<1>2. CASE Measure
  <2>1. Older(payloadAge, DriveTimeout) \in 0 .. DriveTimeout + 1
    BY OlderType DEF AgeTypeOK
  <2>2. Count(freshWrites) \in 0 .. 2
    BY CountType DEF AgeTypeOK
  <2> QED
    BY <1>1, <1>2, <2>1, <2>2 DEF AgeTypeOK, Measure
<1>3. CASE UNCHANGED ageVars
  BY <1>1, <1>3 DEF AgeTypeOK, ageVars
<1> QED
  BY <1>2, <1>3 DEF AgeNext

\* Outside the two lines a step leaves the payload alone, and ages the stamp
\* no more than the payload.
LEMMA StampStep ==
    ASSUME AgeTypeOK, AgeTypeOK', FreshInv, PayloadStep, Measure
    PROVE  /\ ~Storing' => driveAge' <= payloadAge'
           /\ Storing' => freshWrites' = 0
           /\ ~Storing /\ ~Storing' => latestDrive' = latestDrive /\ payloadAge <= payloadAge'
<1> USE DEF AgeTypeOK, MonTypeOK, TypeOK
<1>1. CASE Tick
  BY <1>1 DEF Tick, Measure, Older, FreshInv, Storing
<1>2. CASE ~Tick
  BY <1>2 DEF PayloadStep, Measure, Older, FreshInv
<1> QED
  BY <1>1, <1>2

\* A period that begins after the payload was stamped copies it whole and, as the
\* stamp is no older, is not cut.
LEMMA FreshStep == AgeTypeOK /\ FreshInv /\ [AgeNext]_ageVars => FreshInv'
<1> SUFFICES ASSUME AgeTypeOK, FreshInv, [AgeNext]_ageVars PROVE FreshInv'
  OBVIOUS
<1>1. CASE AgeNext
  <2>1. [Next]_vars
    BY <1>1 DEF AgeNext, MonNext
  <2>2. PeriodStep /\ PayloadStep
    BY <2>1, PeriodSteps, PayloadSteps DEF AgeTypeOK, MonTypeOK
  <2>3. /\ ~Storing' => driveAge' <= payloadAge'
        /\ Storing' => freshWrites' = 0
        /\ ~Storing /\ ~Storing' => latestDrive' = latestDrive /\ payloadAge <= payloadAge'
    BY <1>1, <2>2, AgeTypeStep, StampStep DEF AgeNext
  <2>4. CASE Storing \/ Storing' \/ mode' # mode
    <3>1. freshWrites' = 0
      BY <1>1, <2>4 DEF AgeNext, Measure
    <3> QED
      BY <2>3, <3>1 DEF FreshInv, FreshDrivePasses
  <2>5. CASE ~Storing /\ ~Storing' /\ mode' = mode
    <3>1. freshWrites' = Count(freshWrites)
      BY <1>1, <2>5 DEF AgeNext, Measure
    <3>2. driveAge <= payloadAge /\ latestDrive' = latestDrive /\ payloadAge <= payloadAge'
      BY <2>3, <2>5 DEF FreshInv
    <3>3. /\ latestDrive \in Drives /\ exec.local \in Drives
          /\ driveAge \in Nat /\ payloadAge \in Nat /\ payloadAge' \in Nat
      BY <1>1, AgeTypeStep DEF AgeTypeOK, MonTypeOK, TypeOK
    <3>4. CASE mode = "Remote" /\ payloadAge' <= DriveTimeout /\ freshWrites' >= 1
      <4>1. mode = "Remote" /\ payloadAge <= DriveTimeout /\ driveAge <= DriveTimeout
        BY <3>2, <3>3, <3>4
      <4>2. CASE Wrote
        <5>1. exec.pc = "write" /\ exec'.pc = "sleep" /\ motor' = exec.local
          BY <2>2, <4>2 DEF Wrote, PeriodStep
        <5>2. freshWrites' = 2 => motor' = latestDrive
          <6>1. SUFFICES ASSUME freshWrites >= 1 PROVE exec.local = latestDrive
            BY <3>1, <4>2, <5>1 DEF Count, AgeTypeOK
          <6>2. /\ exec.local.wheels = latestDrive.wheels
                /\ exec.local.tools = latestDrive.tools
            BY <4>1, <5>1, <6>1 DEF FreshInv
          <6> QED
            BY <3>3, <6>2 DEF Drives
        <5> QED
          BY <2>3, <3>2, <5>1, <5>2 DEF FreshInv, FreshDrivePasses
      <4>3. CASE ~Wrote
        <5>1. freshWrites' = freshWrites
          BY <3>1, <4>3 DEF Count
        <5>2. motor' = motor
          BY <2>2, <4>3 DEF PeriodStep, Wrote
        <5>3. /\ exec.pc \in {"tools", "check", "write"} =>
                     exec.local.wheels = latestDrive.wheels
              /\ exec.pc \in {"check", "write"} => exec.local.tools = latestDrive.tools
          BY <3>4, <4>1, <5>1 DEF FreshInv
        <5>4. /\ exec'.pc \in {"tools", "check", "write"} =>
                     exec'.local.wheels = latestDrive.wheels
              /\ exec'.pc \in {"check", "write"} => exec'.local.tools = latestDrive.tools
          BY <1>1, <2>2, <3>3, <4>1, <4>3, <5>3 DEF PeriodStep, Wrote
        <5> QED
          BY <2>3, <3>2, <4>1, <5>1, <5>2, <5>4 DEF FreshInv, FreshDrivePasses
      <4> QED
        BY <4>2, <4>3
    <3>5. CASE ~(mode = "Remote" /\ payloadAge' <= DriveTimeout /\ freshWrites' >= 1)
      BY <2>3, <2>5, <3>5 DEF FreshInv, FreshDrivePasses
    <3> QED
      BY <3>4, <3>5
  <2> QED
    BY <2>4, <2>5
<1>2. CASE UNCHANGED ageVars
  BY <1>2 DEF ageVars, allVars, FreshInv, FreshDrivePasses, Storing
<1> QED
  BY <1>1, <1>2

\* A live operator is not cut off: the second serial write after a drive command was
\* stored and stamped carries all of it, and so does every later one within the limit.
THEOREM FreshPasses == AgeSpec => []FreshDrivePasses
<1>1. AgeInit => AgeTypeOK /\ FreshInv
  BY InitInv DEF AgeInit, AgeTypeOK, FailSafeInv, FreshInv, FreshDrivePasses,
                 Storing, MonInit, Init, Idling
<1>2. FreshInv => FreshDrivePasses
  BY DEF FreshInv
<1> QED
  BY <1>1, <1>2, AgeTypeStep, FreshStep, PTL DEF AgeSpec
=============================================================================
