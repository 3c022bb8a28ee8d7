----------------------------- MODULE StaleDrive -----------------------------
(***************************************************************************)
(* How old the drive payload is that Execute lets through.  History        *)
(* variables measure the payload itself, which is new from the moment the  *)
(* reader stores it (206) until it has stamped it (207); the code compares *)
(* the stamp alone, which between those lines is still the old one, and    *)
(* which REMOTE_SWITCH renews without a payload.                           *)
(***************************************************************************)
EXTENDS FailSafe

VARIABLES
    payloadAge,     \* seconds since the reader was done with a payload, one
                    \* past the limit if it never was
    freshWrites     \* serial writes since then, in one mode

ageVars == <<allVars, payloadAge, freshWrites>>

\* The reader has begun to store a payload and has not stamped it.
Storing == udp.pc \in {"DRIVE_TOOLS", "DRIVE_TIME"}

Measure ==
    /\ payloadAge' = IF Storing \/ Storing' THEN 0
                     ELSE IF driveAge' > driveAge THEN Older(payloadAge, DriveTimeout)
                     ELSE payloadAge
    /\ freshWrites' = IF Storing \/ Storing' \/ mode' # mode THEN 0
                      ELSE Count(freshWrites)

AgeInit == MonInit /\ payloadAge = DriveTimeout + 1 /\ freshWrites = 0
AgeNext == MonNext /\ Measure
AgeSpec == AgeInit /\ [][AgeNext]_ageVars

-----------------------------------------------------------------------------
\* A live operator is not cut off.  While a payload is stored and not stamped
\* (BLER.cpp:206, 207) the loop may stop the wheels on account of the old stamp,
\* and so may the write under way when the stamp comes; the second write after it
\* puts the whole command on the serial port, and there it stays until the command
\* is older than the limit.
FreshDrivePasses ==
    mode = "Remote" /\ payloadAge <= DriveTimeout /\ freshWrites = 2 =>
        motor = latestDrive

\* The inductive invariant: outside those two lines the stamp is no older than
\* the payload, and a period that began after them has copied it whole.
FreshInv ==
    /\ ~Storing => driveAge <= payloadAge
    /\ Storing => freshWrites = 0
    /\ mode = "Remote" /\ payloadAge <= DriveTimeout /\ freshWrites >= 1 =>
        /\ exec.pc \in {"tools", "check", "write"} =>
               exec.local.wheels = latestDrive.wheels
        /\ exec.pc \in {"check", "write"} => exec.local.tools = latestDrive.tools
    /\ FreshDrivePasses

\* "timeout: 2 seconds" (BLER.cpp:323) of lastDrivePayloadReceivedTime: the check
\* lets no wheels through when the reader was done with the last payload longer ago.
DriveTimesOut ==
    [][exec.pc = "check" /\ exec'.pc = "write" /\ exec'.local.wheels # Halt
           => payloadAge <= DriveTimeout]_ageVars
=============================================================================
