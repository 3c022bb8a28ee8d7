------------------------------ MODULE WorkerPool ------------------------------
(***************************************************************************)
(* apriltags/common/workerpool.c: threads that take tasks from an array.   *)
(* Whatever happens under the mutex is one step, up to the wait or the     *)
(* unlock that ends it; the caller reads and writes some of the same       *)
(* fields without the mutex, each access a step of its own.                *)
(*                                                                         *)
(* workerpool_create does not wait for its threads, so that the pool may   *)
(* be used, and taken down, before they have reached startcond.  Nothing   *)
(* but a broadcast wakes a thread, and what a thread writes is seen by the *)
(* others in the order it is written.                                      *)
(***************************************************************************)
EXTENDS Naturals, FiniteSets

CONSTANTS
    MaxThreads,     \* bound: td->nthreads
    MaxTasks        \* bound: tasks of one run

\* Assumed by Parts.
PoolAssumption == MaxThreads \in Nat \ {0} /\ MaxTasks \in Nat \ {0}

VARIABLES
    nthreads,
    caller,         \* where the thread is that uses the pool
    pc,             \* where each worker is
    slot,           \* the slot that its pointer task is to
    size,           \* zarray_size(tasks)
    slots,          \* the memory of tasks, which zarray_clear leaves alone
    taskspos,
    end_count,
    done,           \* how often each task of this run was carried out
    crossed         \* a thread met the caller where neither expects the other

pool == <<size, slots, taskspos, end_count>>
vars == <<nthreads, caller, pc, slot, pool, done, crossed>>

-----------------------------------------------------------------------------
Threads == 1 .. MaxThreads
Workers == IF nthreads > 1 THEN 1 .. nthreads ELSE {}
Tasks == 1 .. MaxTasks
Slots == 1 .. MaxTasks + MaxThreads
Null == 0                                   \* f of a task that asks to exit

Init ==
    /\ nthreads = 1 /\ caller = "none"
    /\ pc = [w \in Threads |-> "gone"]
    /\ slot = [w \in Threads |-> 0]
    /\ size = 0 /\ slots = [s \in Slots |-> Null]
    /\ taskspos = 0 /\ end_count = 0
    /\ done = [t \in Tasks |-> 0]
    /\ crossed = FALSE

CallerAt(place) == caller = place
CallerTo(place) == caller' = place
Broadcast == [w \in Threads |-> IF pc[w] = "waiting" THEN "lock" ELSE pc[w]]

-----------------------------------------------------------------------------
(* worker_thread *)

WorkerTo(w, place) == pc' = [pc EXCEPT ![w] = place]

\* No task: it reports so and waits for startcond.  A report between the caller's
\* end_count = 0 and its broadcast counts for a run that wakes the thread again.
Park(w) ==
    /\ pc[w] = "lock"
    /\ taskspos = size
    /\ end_count' = end_count + 1
    /\ caller' = IF caller = "asleep" THEN "woken" ELSE caller
    /\ WorkerTo(w, "waiting")
    /\ crossed' = (crossed \/ caller = "start")
    /\ UNCHANGED <<nthreads, slot, size, slots, taskspos, done>>

\* With taskspos beyond size, which only a crossing can bring about, the assertion of
\* zarray_get_volatile ends the process.
TakeAgain(w) ==                             \* mutant: taskspos not advanced
    /\ pc[w] = "lock"
    /\ taskspos < size
    /\ slot' = [slot EXCEPT ![w] = taskspos + 1]
    /\ WorkerTo(w, "taken")
    /\ UNCHANGED <<nthreads, caller, pool, done, crossed>>
Take(w) ==
    /\ pc[w] = "lock"
    /\ taskspos < size
    /\ slot' = [slot EXCEPT ![w] = taskspos + 1]
    /\ taskspos' = taskspos + 1
    /\ WorkerTo(w, "taken")
    /\ UNCHANGED <<nthreads, caller, size, slots, end_count, done, crossed>>

\* task->f is read after the unlock.
ReadTask(w) ==
    /\ pc[w] = "taken"
    /\ WorkerTo(w, IF slots[slot[w]] = Null THEN "gone" ELSE "busy")
    /\ UNCHANGED <<nthreads, caller, slot, pool, done, crossed>>

Task(w) == slots[slot[w]]

Finish(w) ==
    /\ pc[w] = "busy"
    /\ done' = [done EXCEPT ![Task(w)] = @ + 1]
    /\ WorkerTo(w, "lock")
    /\ UNCHANGED <<nthreads, caller, slot, pool, crossed>>

Worker(w) == Park(w) \/ Take(w) \/ ReadTask(w) \/ Finish(w)

-----------------------------------------------------------------------------
(* The caller *)

Create(n) ==
    /\ CallerAt("none")
    /\ nthreads' = n
    /\ pc' = [w \in Threads |-> IF n > 1 /\ w <= n THEN "lock" ELSE "gone"]
    /\ CallerTo("idle")
    /\ size' = 0 /\ taskspos' = 0 /\ end_count' = 0
    /\ slots' = [s \in Slots |-> Null]
    /\ slot' = [w \in Threads |-> 0]
    /\ UNCHANGED <<done, crossed>>

\* zarray_add.  Beyond the 8 places of the first realloc the array may move while a
\* thread still has a pointer into it.
FirstAlloc == 8
Push(t) ==
    /\ size' = size + 1
    /\ slots' = [slots EXCEPT ![size + 1] = t]
    /\ crossed' = \/ crossed
                  \/ size >= FirstAlloc /\ \E w \in Workers : pc[w] = "taken"

AddTask ==
    /\ CallerAt("idle")
    /\ size < MaxTasks
    /\ Push(size + 1)
    /\ UNCHANGED <<nthreads, caller, pc, slot, taskspos, end_count, done>>

\* workerpool_run
BeginWithout ==                             \* mutant: end_count not reset
    /\ CallerAt("idle") /\ nthreads > 1
    /\ CallerTo("start")
    /\ UNCHANGED <<nthreads, pc, slot, pool, done, crossed>>
Begin ==
    /\ CallerAt("idle") /\ nthreads > 1
    /\ end_count' = 0
    /\ CallerTo("start")
    /\ UNCHANGED <<nthreads, pc, slot, size, slots, taskspos, done, crossed>>

\* The same, without the mutex, while a thread is between reading end_count and
\* writing it one higher: the 0 is lost.
BeginLost(w) ==
    /\ CallerAt("idle") /\ nthreads > 1
    /\ pc[w] = "lock"
    /\ taskspos = size
    /\ end_count' = end_count + 1
    /\ CallerTo("start")
    /\ WorkerTo(w, "waiting")
    /\ crossed' = TRUE
    /\ UNCHANGED <<nthreads, slot, size, slots, taskspos, done>>

WaitOrGo == CallerTo(IF end_count < nthreads THEN "asleep" ELSE "rewind")

StartUnheard ==                             \* mutant: no broadcast
    /\ CallerAt("start")
    /\ WaitOrGo
    /\ UNCHANGED <<nthreads, pc, slot, pool, done, crossed>>
Start ==
    /\ CallerAt("start")
    /\ pc' = Broadcast
    /\ WaitOrGo
    /\ UNCHANGED <<nthreads, slot, pool, done, crossed>>

Wake ==
    /\ CallerAt("woken")
    /\ WaitOrGo
    /\ UNCHANGED <<nthreads, pc, slot, pool, done, crossed>>

Rewind ==
    /\ CallerAt("rewind")
    /\ taskspos' = 0
    /\ CallerTo("clear")
    /\ UNCHANGED <<nthreads, pc, slot, size, slots, end_count, done, crossed>>

Clear ==
    /\ CallerAt("clear")
    /\ size' = 0
    /\ done' = [t \in Tasks |-> 0]
    /\ CallerTo("idle")
    /\ UNCHANGED <<nthreads, pc, slot, slots, taskspos, end_count, crossed>>

\* workerpool_run_single: all the tasks, one after the other.
RunSingle ==
    /\ CallerAt("idle") /\ nthreads = 1
    /\ done' = [t \in Tasks |-> IF t <= size THEN done[t] + 1 ELSE done[t]]
    /\ CallerTo("clear")
    /\ UNCHANGED <<nthreads, pc, slot, pool, crossed>>

\* workerpool_destroy, which the detector calls when td->nthreads has changed.
Destroy ==
    /\ CallerAt("idle")
    /\ size = 0
    /\ CallerTo(IF nthreads > 1 THEN "stop" ELSE "none")
    /\ UNCHANGED <<nthreads, pc, slot, pool, done, crossed>>

AddExit ==
    /\ CallerAt("stop")
    /\ size < nthreads
    /\ Push(Null)
    /\ UNCHANGED <<nthreads, caller, pc, slot, taskspos, end_count, done>>

StartExit ==
    /\ CallerAt("stop")
    /\ size = nthreads
    /\ pc' = Broadcast
    /\ CallerTo("join")
    /\ UNCHANGED <<nthreads, slot, pool, done, crossed>>

Join ==
    /\ CallerAt("join")
    /\ \A w \in Workers : pc[w] = "gone"
    /\ CallerTo("none")
    /\ UNCHANGED <<nthreads, pc, slot, pool, done, crossed>>

Inside == Start \/ Wake \/ Rewind \/ Clear \/ AddExit \/ StartExit \/ Join

Caller ==
    \/ \E n \in Threads : Create(n)
    \/ \E w \in Threads : BeginLost(w)
    \/ AddTask \/ Begin \/ RunSingle \/ Destroy
    \/ Inside

Next ==
    \/ Caller
    \/ \E w \in Threads : Worker(w)

Spec == Init /\ [][Next]_vars

\* The threads run; nobody makes the detector call the pool.
Fairness == WF_vars(Inside) /\ \A w \in Threads : WF_vars(Worker(w))
FairSpec == Spec /\ Fairness

-----------------------------------------------------------------------------
\* "runs all added tasks, waits for them to complete" (workerpool.c:182): when the
\* wait is over every task has been carried out once and no worker still runs one
\* or has a pointer to one that the next list will overwrite.  Not so in general: a
\* thread that took tasks before the run began and reports between lines 186 and 188
\* reports twice, in the place of one that is still busy.
RunWaits ==
    caller \in {"rewind", "clear"} =>
        /\ \A t \in Tasks : done[t] = (IF t <= size THEN 1 ELSE 0)
        /\ \A w \in Workers : pc[w] \notin {"taken", "busy"}

\* It is so as long as no thread has crossed the caller.
RunWaitsUncrossed == ~crossed => RunWaits

\* A run ends, and so does the end of the pool, whose threads all take the task
\* that asks them to exit (workerpool.c:136-145, 191-194).
RunReturns == caller \notin {"idle", "none"} ~> caller \in {"idle", "none"} \/ crossed
=============================================================================
