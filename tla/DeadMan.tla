------------------------------ MODULE DeadMan -------------------------------
(***************************************************************************)
(* What the timeout of Execute promises, without its threads: a dead man's *)
(* switch served by a periodic loop.  Once the operator has been silent    *)
(* for too long, at most one more period, the one already under way, may   *)
(* leave the wheels turning; from the second on they stand still until     *)
(* the silence ends.  Outside the silence anything goes.                   *)
(***************************************************************************)
EXTENDS Naturals

VARIABLES
    overdue,    \* the operator has been silent for too long
    late,       \* periods completed since, counted up to 2
    moving      \* the wheels turn

dvars == <<overdue, late, moving>>

Init == overdue = FALSE /\ late = 0 /\ moving = FALSE

FallSilent ==
    /\ ~overdue
    /\ overdue' = TRUE
    /\ late' = 0
    /\ UNCHANGED moving

Resume ==
    /\ overdue
    /\ overdue' = FALSE
    /\ late' = 0
    /\ UNCHANGED moving

DrivePeriod ==
    /\ ~overdue
    /\ moving' \in BOOLEAN
    /\ UNCHANGED <<overdue, late>>

LatePeriod ==
    /\ overdue
    /\ late' = IF late = 2 THEN 2 ELSE late + 1
    /\ moving' \in BOOLEAN
    /\ late > 0 => ~moving'
    /\ UNCHANGED overdue

Next == FallSilent \/ Resume \/ DrivePeriod \/ LatePeriod

Spec == Init /\ [][Next]_dvars
=============================================================================
