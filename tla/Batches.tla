-------------------------------- MODULE Batches --------------------------------
(***************************************************************************)
(* What the detector relies on in its thread pool, without the threads:    *)
(* tasks are collected and carried out in any order, each one once, some   *)
(* perhaps before the last is collected, and the caller is not let go      *)
(* before all are done.  While it takes the list down nothing is carried   *)
(* out at all.                                                             *)
(***************************************************************************)
EXTENDS Naturals

CONSTANT Tasks

VARIABLES
    doing,      \* whether the caller is "collecting", "running" or "over" with a run
    listed,     \* how many tasks have been collected
    done        \* how often each was carried out

bvars == <<doing, listed, done>>

-----------------------------------------------------------------------------
Listed == {t \in Tasks : t <= listed}
Undone == [t \in Tasks |-> 0]
Complete == [t \in Tasks |-> IF t \in Listed THEN 1 ELSE 0]

Init == doing = "collecting" /\ listed = 0 /\ done = Undone

Collect ==
    /\ doing = "collecting"
    /\ listed + 1 \in Tasks
    /\ listed' = listed + 1
    /\ UNCHANGED <<doing, done>>

Begin ==
    /\ doing = "collecting"
    /\ doing' = "running"
    /\ UNCHANGED <<listed, done>>

CarryOut(t) ==
    /\ doing \in {"collecting", "running"}
    /\ done[t] = 0
    /\ done' = [done EXCEPT ![t] = 1]
    /\ UNCHANGED <<doing, listed>>

LetGo ==
    /\ doing = "running"
    /\ done = Complete
    /\ doing' = "over"
    /\ UNCHANGED <<listed, done>>

\* Without threads the caller carries them all out.
AtOnce ==
    /\ doing = "collecting"
    /\ done' = Complete
    /\ doing' = "over"
    /\ UNCHANGED listed

Forget ==
    /\ doing = "over"
    /\ doing' = "collecting"
    /\ listed' = 0
    /\ done' = Undone

Next ==
    \/ Collect \/ Begin \/ LetGo \/ AtOnce \/ Forget
    \/ \E t \in Listed : CarryOut(t)

Spec == Init /\ [][Next]_bvars
=============================================================================
