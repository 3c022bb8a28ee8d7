------------------------------ MODULE FailSafe ------------------------------
(***************************************************************************)
(* What the robot's control core (Bler) promises about the wheels.  The    *)
(* properties speak of the serial writes made since something changed;     *)
(* monitors count them beside the code's own state and never restrict it.  *)
(***************************************************************************)
EXTENDS Bler

VARIABLES
    staleWrites,    \* serial writes since the drive command became too old
    modeWrites,     \* serial writes since the mode changed
    orderWrites     \* serial writes since the mode or the payload changed

monitors == <<staleWrites, modeWrites, orderWrites>>
allVars == <<mode, aiConnected, latestDrive, driveAge, aiAge, baseAddr, udp,
             exec, dog, motor, sent, staleWrites, modeWrites, orderWrites>>

Wrote == exec.pc = "write" /\ exec'.pc = "sleep"

\* Counts to two: one write may be under way when the count starts.
Count(n) == IF ~Wrote THEN n ELSE IF n = 2 THEN 2 ELSE n + 1

Monitor ==
    /\ staleWrites' = IF Stale /\ Stale' THEN Count(staleWrites) ELSE 0
    /\ modeWrites' = IF mode' = mode THEN Count(modeWrites) ELSE 0
    /\ orderWrites' = IF mode' = mode /\ latestDrive' = latestDrive
                      THEN Count(orderWrites) ELSE 0

MonInit ==
    /\ Init
    /\ staleWrites = 0 /\ modeWrites = 0 /\ orderWrites = 0

MonNext == Next /\ Monitor
MonSpec == MonInit /\ [][MonNext]_allVars

-----------------------------------------------------------------------------
MonTypeOK ==
    /\ TypeOK
    /\ staleWrites \in 0 .. 2 /\ modeWrites \in 0 .. 2 /\ orderWrites \in 0 .. 2

\* The timeout of Execute works whatever the threads do in between: once the
\* command in force is older than the limit, the write already under way may
\* still move the robot, the second and every later one holds the wheels
\* until a DRIVE or a mode switch ends the silence.
StopsWhenSilent == Stale /\ staleWrites = 2 => motor.wheels = Halt

\* AI mode takes the motors away from the loop: after the switch at most the
\* one write that was under way reaches the serial port.
AiModeIsQuiet == mode = "AI" => modeWrites <= 1

\* The race on latestDrivePayload heals: two writes after the payload and the
\* mode settled, the serial port has the tools of the last payload, and its
\* wheels or none, never a mixture of two payloads.
SettlesOnLastDrive ==
    mode = "Remote" /\ orderWrites = 2 =>
        /\ motor.tools = latestDrive.tools
        /\ motor.wheels \in {latestDrive.wheels, Halt}

\* The inductive invariant: a serial write counted after the condition began
\* means that the period now under way, if any, began after it as well.
StopInv ==
    /\ ~Stale => staleWrites = 0
    /\ Stale /\ staleWrites >= 1 /\ exec.pc = "write" => exec.local.wheels = Halt
    /\ StopsWhenSilent

QuietInv == mode = "AI" => \/ modeWrites = 0
                           \/ modeWrites = 1 /\ exec.pc = "sleep"

OrderInv ==
    /\ mode = "Remote" /\ orderWrites >= 1 =>
        /\ exec.pc \in {"tools", "check"} =>
               exec.local.wheels = latestDrive.wheels
        /\ exec.pc = "write" => exec.local.wheels \in {latestDrive.wheels, Halt}
        /\ exec.pc \in {"check", "write"} => exec.local.tools = latestDrive.tools
    /\ SettlesOnLastDrive

FailSafeInv == MonTypeOK /\ StopInv /\ QuietInv /\ OrderInv

\* The dead man's switch, which the threads together implement.
Switch == INSTANCE DeadMan WITH
    overdue <- Stale, late <- staleWrites, moving <- (motor.wheels # Halt)

DeadManSpec == Switch!Spec
=============================================================================
