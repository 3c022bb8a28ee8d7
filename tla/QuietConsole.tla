---------------------------- MODULE QuietConsole -----------------------------
(***************************************************************************)
(* The joystick thread checks the connection and the mode, and sends       *)
(* later.  strays counts the DRIVE packets sent since these two last       *)
(* changed, while they forbid driving.                                     *)
(***************************************************************************)
EXTENDS BaseStation

VARIABLE strays

MayDrive == isConnected /\ driveMode = "Remote"

Observe ==
    strays' = IF UNCHANGED <<isConnected, driveMode>> /\ ~MayDrive
              THEN IF JoystickSend /\ strays < 2 THEN strays + 1 ELSE strays
              ELSE 0

MonInit == Init /\ strays = 0
MonNext == Next /\ Observe
MonSpec == MonInit /\ [][MonNext]_<<vars, strays>>
FairMonSpec == MonSpec /\ Fairness

\* A press that disconnects, or that leaves Remote mode, lets at most one more
\* DRIVE packet out (ReadJoystickValues, MainWindow.xaml.cs:499).
QuietAfterPress == strays <= 1
=============================================================================
