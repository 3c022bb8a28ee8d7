--------------------------- MODULE WorkerPoolProofs ----------------------------
(***************************************************************************)
(* RunWaits for any number of threads and tasks, as long as no thread has  *)
(* crossed the caller.  Threads may come late and take tasks while the     *)
(* caller still adds them.                                                 *)
(***************************************************************************)
EXTENDS WorkerPool, FiniteSetTheorems, TLAPS

-----------------------------------------------------------------------------
Places == {"gone", "lock", "waiting", "taken", "busy"}

TypeInv ==
    /\ nthreads \in Threads
    /\ caller \in {"none", "idle", "start", "asleep", "woken", "rewind", "clear", "stop",
                   "join"}
    /\ pc \in [Threads -> Places]
    /\ \A w \in Threads \ Workers : pc[w] = "gone"
    /\ slot \in [Threads -> Nat] /\ slots \in [Slots -> Nat]
    /\ size \in Nat /\ taskspos \in Nat /\ end_count \in Nat
    /\ done \in [Tasks -> Nat]

AllWaiting == \A w \in Workers : pc[w] = "waiting"

Waiting == {w \in Workers : pc[w] = "waiting"}

Holds(w) == pc[w] \in {"taken", "busy"}

Listed == size <= MaxTasks /\ \A s \in 1 .. size : slots[s] = s

NoneDone == \A t \in Tasks : done[t] = 0

AllDone == \A t \in Tasks : done[t] = (IF t <= size THEN 1 ELSE 0)

\* As long as tasks may be taken: what was taken is held by one worker or done.
Taking ==
    /\ nthreads > 1 /\ Listed /\ taskspos <= size
    /\ \A w \in Workers : pc[w] # "gone"
    /\ \A w \in Workers : Holds(w) => slot[w] \in 1 .. taskspos
    /\ \A v, w \in Workers : Holds(v) /\ Holds(w) /\ slot[v] = slot[w] => v = w
    /\ \A t \in Tasks :
           done[t] = IF t <= taskspos /\ \A w \in Workers : ~(Holds(w) /\ slot[w] = t)
                     THEN 1 ELSE 0

\* While the caller waits those who wait have left nothing and are all counted.
Running ==
    /\ Taking
    /\ \A w \in Workers : pc[w] = "waiting" => taskspos = size
    /\ end_count = Cardinality(Waiting)

Stopping ==
    /\ size <= nthreads /\ nthreads > 1 /\ \A s \in 1 .. size : slots[s] = Null
    /\ NoneDone /\ taskspos <= size
    /\ \A w \in Workers : pc[w] # "busy" /\ (pc[w] = "taken" => slot[w] \in 1 .. taskspos)

Uncrossed ==
    /\ TypeInv
    /\ caller = "none" => (\A w \in Threads : pc[w] = "gone") /\ NoneDone
    /\ caller = "idle" => \/ Taking
                          \/ nthreads = 1 /\ Listed /\ NoneDone /\ taskspos = 0
    /\ caller = "start" => Taking /\ end_count = 0
    /\ caller \in {"asleep", "woken"} => Running
    /\ caller = "rewind" => AllWaiting /\ AllDone /\ Listed
    /\ caller = "clear" => AllWaiting /\ AllDone /\ taskspos = 0
    /\ caller \in {"stop", "join"} => Stopping

PoolInv == ~crossed => Uncrossed

-----------------------------------------------------------------------------
LEMMA Counting ==
    ASSUME PoolAssumption, TypeInv, nthreads > 1
    PROVE  /\ IsFiniteSet(Waiting) /\ Cardinality(Waiting) \in Nat
           /\ Cardinality(Waiting) >= nthreads => AllWaiting
<1>1. Workers = 1 .. nthreads /\ nthreads \in Nat
  BY DEF Workers, TypeInv, Threads, PoolAssumption
<1>2. IsFiniteSet(Workers) /\ Cardinality(Workers) = nthreads
  BY <1>1, FS_Interval
<1>3. Waiting \subseteq Workers
  BY DEF Waiting
<1>4. /\ IsFiniteSet(Waiting) /\ Cardinality(Waiting) \in Nat
      /\ Cardinality(Waiting) <= Cardinality(Workers)
      /\ Cardinality(Waiting) = Cardinality(Workers) => Waiting = Workers
  BY <1>2, <1>3, FS_Subset, FS_CardinalityType
<1>5. Waiting = Workers => AllWaiting
  BY DEF Waiting, AllWaiting
<1> QED
  BY <1>1, <1>2, <1>4, <1>5

LEMMA PoolInit == PoolAssumption /\ Init => PoolInv
  BY DEF Init, PoolInv, Uncrossed, TypeInv, PoolAssumption, Threads, Places, Workers, NoneDone,
         Null, Slots, Tasks

\* What a thread has crossed stays crossed.
LEMMA CrossedStays == crossed /\ [Next]_vars => crossed'
<1> SUFFICES ASSUME crossed, [Next]_vars PROVE crossed'
  OBVIOUS
<1>1. CASE Caller
  BY <1>1 DEF Caller, Inside, Create, BeginLost, AddTask, Push, Begin, RunSingle, Destroy,
     Start, Wake, Rewind, Clear, AddExit, StartExit, Join
<1>2. ASSUME NEW w \in Threads, Worker(w)
      PROVE  crossed'
  BY <1>2 DEF Worker, Park, Take, ReadTask, Finish
<1>3. CASE UNCHANGED vars
  BY <1>3 DEF vars
<1> QED
  BY <1>1, <1>2, <1>3 DEF Next

LEMMA CallerSteps ==
    ASSUME PoolAssumption, Uncrossed, Caller, ~crossed'
    PROVE  Uncrossed'
<1> USE DEF Uncrossed, TypeInv, CallerAt, CallerTo
<1>a. /\ MaxThreads \in Nat \ {0} /\ MaxTasks \in Nat \ {0}
      /\ nthreads \in Nat /\ nthreads >= 1 /\ nthreads <= MaxThreads
  BY DEF PoolAssumption, Threads
<1>1. ASSUME NEW n \in Threads, Create(n)
      PROVE  Uncrossed'
  <2>1. /\ caller = "none" /\ caller' = "idle" /\ nthreads' = n
        /\ pc' = [w \in Threads |-> IF n > 1 /\ w <= n THEN "lock" ELSE "gone"]
        /\ size' = 0 /\ taskspos' = 0 /\ end_count' = 0
        /\ slots' = [s \in Slots |-> Null] /\ slot' = [w \in Threads |-> 0]
        /\ done' = done
    BY <1>1 DEF Create
  <2>2. n \in Nat /\ n >= 1 /\ NoneDone' /\ Listed'
    BY <1>a, <2>1 DEF Threads, NoneDone, Listed
  <2>3. TypeInv'
    BY <1>a, <2>1, <2>2 DEF Threads, Workers, Places, Slots, Null
  <2>4. CASE n = 1
    BY <2>1, <2>2, <2>3, <2>4
  <2>5. CASE n > 1
    <3>1. Workers' = 1 .. n /\ \A w \in Workers' : pc'[w] = "lock"
      BY <1>a, <2>1, <2>2, <2>5 DEF Workers, Threads
    <3>2. (\A w \in Workers' : ~Holds(w)') /\ taskspos' = 0 /\ size' = 0 /\ nthreads' > 1
      BY <2>1, <2>5, <3>1 DEF Holds
    <3>3. \A t \in Tasks : done'[t] = 0 /\ ~(t <= 0)
      BY <1>a, <2>2 DEF NoneDone, Tasks
    <3>4. Taking'
      BY <2>2, <3>1, <3>2, <3>3 DEF Taking
    <3> QED
      BY <2>1, <2>3, <3>4
  <2> QED
    BY <2>2, <2>4, <2>5
<1>2. CASE AddTask
  <2>1. size + 1 \in Slots
    BY <1>2, <1>a DEF AddTask, Slots
  <2>2. /\ size' = size + 1 /\ slots' = [slots EXCEPT ![size + 1] = size + 1]
        /\ caller = "idle" /\ size < MaxTasks
        /\ UNCHANGED <<nthreads, caller, pc, slot, taskspos, end_count, done>>
    BY <1>2 DEF AddTask, Push
  <2>3. Listed => Listed'
    BY <1>a, <2>1, <2>2 DEF Listed
  <2>4. TypeInv'
    BY <1>a, <2>1, <2>2 DEF Workers
  <2>5. CASE Taking
    <3>1. Taking'
      BY <2>2, <2>3, <2>5 DEF Taking, Holds, Workers
    <3> QED
      BY <2>2, <2>4, <3>1
  <2>6. CASE nthreads = 1 /\ Listed /\ NoneDone /\ taskspos = 0
    BY <2>2, <2>3, <2>4, <2>6 DEF NoneDone
  <2> QED
    BY <2>2, <2>5, <2>6
<1>3. CASE Begin
  <2>1. /\ caller = "idle" /\ caller' = "start" /\ nthreads > 1 /\ end_count' = 0
        /\ UNCHANGED <<nthreads, pc, slot, size, slots, taskspos, done>>
    BY <1>3 DEF Begin
  <2>2. Taking
    BY <2>1
  <2>3. Taking'
    BY <2>1, <2>2 DEF Taking, Holds, Workers, Listed
  <2> QED
    BY <2>1, <2>3 DEF Workers
<1>4. CASE Start
  <2>1. /\ caller = "start" /\ caller' = "asleep" /\ pc' = Broadcast
        /\ UNCHANGED <<nthreads, slot, size, slots, taskspos, end_count, done>>
    BY <1>4, <1>a DEF Start, WaitOrGo, pool
  <2>2. TypeInv'
    BY <2>1 DEF Broadcast, Places, Workers
  <2>3. /\ Workers' = Workers /\ Workers \subseteq Threads
        /\ \A w \in Workers :
               /\ pc'[w] = IF pc[w] = "waiting" THEN "lock" ELSE pc[w]
               /\ Holds(w)' <=> Holds(w)
    BY <1>a, <2>1 DEF Broadcast, Workers, Threads, Holds
  <2>4. Waiting' = {}
    BY <2>3 DEF Waiting
  <2>5. Cardinality(Waiting') = 0
    BY <2>4, FS_EmptySet
  <2>6. Taking'
    BY <2>1, <2>3 DEF Taking, Listed
  <2>7. Running'
    BY <2>1, <2>4, <2>5, <2>6 DEF Running, Waiting
  <2> QED
    BY <2>1, <2>2, <2>7
<1>5. CASE Wake
  <2>1. /\ Running
        /\ caller' = IF end_count < nthreads THEN "asleep" ELSE "rewind"
        /\ UNCHANGED <<nthreads, pc, slot, size, slots, taskspos, end_count, done>>
    BY <1>5 DEF Wake, WaitOrGo, pool
  <2>2. CASE end_count < nthreads
    BY <2>1, <2>2 DEF Running, Taking, Listed, Holds, Waiting, Workers
  <2>3. CASE ~(end_count < nthreads)
    <3>1. AllWaiting
      BY <1>a, <2>1, <2>3, Counting DEF Running, Taking
    <3>2. AllDone
      BY <1>a, <2>1, <3>1 DEF Running, Taking, AllWaiting, AllDone, Holds, Workers, Tasks
    <3> QED
      BY <2>1, <2>3, <3>1, <3>2 DEF AllWaiting, AllDone, Listed, Running, Taking, Workers
  <2> QED
    BY <2>2, <2>3
<1>6. CASE Rewind
  BY <1>6 DEF Rewind, AllWaiting, AllDone, Workers
<1>7. CASE Clear
  <2>1. /\ caller = "clear" /\ caller' = "idle" /\ size' = 0 /\ taskspos = 0 /\ AllWaiting
        /\ done' = [t \in Tasks |-> 0]
        /\ UNCHANGED <<nthreads, pc, slot, slots, taskspos, end_count>>
    BY <1>7 DEF Clear
  <2>2. TypeInv' /\ Listed' /\ NoneDone'
    BY <1>a, <2>1 DEF Workers, Listed, NoneDone
  <2>3. CASE nthreads = 1
    BY <2>1, <2>2, <2>3
  <2>4. CASE nthreads > 1
    <3>1. Taking'
      BY <2>1, <2>2, <2>4 DEF Taking, Holds, AllWaiting, Workers, Tasks
    <3> QED
      BY <2>1, <2>2, <3>1
  <2> QED
    BY <1>a, <2>3, <2>4
<1>8. CASE RunSingle
  <2>1. /\ caller = "idle" /\ nthreads = 1 /\ caller' = "clear" /\ NoneDone /\ taskspos = 0
        /\ done' = [t \in Tasks |-> IF t <= size THEN done[t] + 1 ELSE done[t]]
        /\ UNCHANGED <<nthreads, pc, slot, size, slots, taskspos, end_count>>
    BY <1>8 DEF RunSingle, pool, Taking
  <2> QED
    BY <2>1 DEF AllWaiting, AllDone, NoneDone, Workers
<1>9. CASE Destroy
  <2>1. /\ caller = "idle" /\ size = 0
        /\ caller' = IF nthreads > 1 THEN "stop" ELSE "none"
        /\ UNCHANGED <<nthreads, pc, slot, size, slots, taskspos, end_count, done>>
    BY <1>9 DEF Destroy, pool
  <2>2. TypeInv'
    BY <2>1 DEF Workers
  <2>3. CASE nthreads > 1
    <3>1. Taking /\ taskspos = 0
      BY <2>1, <2>3 DEF Taking
    <3>2. NoneDone
      BY <1>a, <3>1 DEF Taking, NoneDone, Tasks
    <3>3. Stopping'
      <4>1. \A w \in Workers : pc[w] \notin {"taken", "busy"}
        BY <3>1 DEF Taking, Holds
      <4>2. Workers' = Workers /\ NoneDone'
        BY <2>1, <3>2 DEF Workers, NoneDone
      <4> QED
        BY <1>a, <2>1, <2>3, <3>1, <4>1, <4>2 DEF Stopping
    <3> QED
      BY <2>1, <2>2, <2>3, <3>3
  <2>4. CASE nthreads = 1
    BY <2>1, <2>2, <2>4 DEF Taking, NoneDone, Workers
  <2> QED
    BY <1>a, <2>3, <2>4
<1>10. CASE AddExit
  <2>1. size + 1 \in Slots
    BY <1>10, <1>a DEF AddExit, Slots, Stopping
  <2>2. /\ caller = "stop" /\ size < nthreads
        /\ size' = size + 1 /\ slots' = [slots EXCEPT ![size + 1] = Null]
        /\ UNCHANGED <<nthreads, caller, pc, slot, taskspos, end_count, done>>
    BY <1>10 DEF AddExit, Push
  <2>3. TypeInv'
    BY <1>a, <2>1, <2>2 DEF Workers, Null
  <2>4. Stopping'
    BY <1>a, <2>1, <2>2 DEF Stopping, NoneDone, Workers
  <2> QED
    BY <2>2, <2>3, <2>4
<1>11. CASE StartExit
  <2>1. /\ caller = "stop" /\ caller' = "join" /\ pc' = Broadcast
        /\ UNCHANGED <<nthreads, slot, size, slots, taskspos, end_count, done>>
    BY <1>11 DEF StartExit, pool
  <2>2. TypeInv'
    BY <2>1 DEF Broadcast, Places, Workers
  <2>3. Stopping'
    BY <1>a, <2>1 DEF Broadcast, NoneDone, Workers, Threads, Stopping
  <2> QED
    BY <2>1, <2>2, <2>3
<1>12. CASE Join
  BY <1>12 DEF Join, NoneDone, Stopping, Workers, pool
<1>13. ASSUME NEW w \in Threads, BeginLost(w)
       PROVE  FALSE
  BY <1>13 DEF BeginLost
<1> QED
  BY <1>1, <1>2, <1>3, <1>4, <1>5, <1>6, <1>7, <1>8, <1>9, <1>10, <1>11, <1>12, <1>13
     DEF Caller, Inside

\* Whatever a worker does, the tasks stay with those who took them.
LEMMA WorkerTakes ==
    ASSUME PoolAssumption, TypeInv, Taking, NEW w \in Threads, Worker(w)
    PROVE  TypeInv' /\ Taking'
<1> USE DEF TypeInv, WorkerTo
<1>a. /\ MaxThreads \in Nat \ {0} /\ MaxTasks \in Nat \ {0}
      /\ nthreads \in Nat /\ nthreads >= 1 /\ nthreads <= MaxThreads
  BY DEF PoolAssumption, Threads
<1>b. w \in Workers /\ pc[w] # "gone" /\ pc[w] # "waiting"
  BY DEF Worker, Park, Take, ReadTask, Finish
<1>1. CASE Park(w)
  <2>1. /\ pc[w] = "lock" /\ taskspos = size
        /\ end_count' = end_count + 1
        /\ caller' = IF caller = "asleep" THEN "woken" ELSE caller
        /\ pc' = [pc EXCEPT ![w] = "waiting"]
        /\ UNCHANGED <<nthreads, slot, size, slots, taskspos, done>>
    BY <1>1 DEF Park
  <2>2. TypeInv'
    BY <2>1, <1>b DEF Places, Workers
  <2>3. Taking'
    BY <1>b, <2>1 DEF Taking, Holds, Listed, Workers
  <2> QED
    BY <2>2, <2>3
<1>2. CASE Take(w)
  <2>1. /\ pc[w] = "lock" /\ taskspos < size
        /\ slot' = [slot EXCEPT ![w] = taskspos + 1]
        /\ taskspos' = taskspos + 1
        /\ pc' = [pc EXCEPT ![w] = "taken"]
        /\ UNCHANGED <<nthreads, caller, size, slots, end_count, done>>
    BY <1>2 DEF Take
  <2>2. TypeInv'
    BY <2>1, <1>b DEF Places, Workers
  <2>3. /\ ~Holds(w) /\ Holds(w)' /\ slot'[w] = taskspos + 1
        /\ \A v \in Workers : v # w => (Holds(v)' <=> Holds(v)) /\ slot'[v] = slot[v]
    BY <1>b, <2>1 DEF Holds, Workers
  <2>4. taskspos' <= size /\ \A v \in Workers : Holds(v)' => slot'[v] \in 1 .. taskspos'
    BY <2>1, <2>3 DEF Taking
  <2>5. \A u, v \in Workers : Holds(u)' /\ Holds(v)' /\ slot'[u] = slot'[v] => u = v
    BY <2>1, <2>3 DEF Taking
  <2>6. ASSUME NEW t \in Tasks
        PROVE  done[t] = IF /\ t <= taskspos'
                            /\ \A v \in Workers : ~(Holds(v)' /\ slot'[v] = t)
                         THEN 1 ELSE 0
    <3>1. CASE t = taskspos + 1
      BY <1>a, <1>b, <2>1, <2>3, <3>1 DEF Taking, Tasks
    <3>2. CASE t # taskspos + 1
      <4>1. t <= taskspos' <=> t <= taskspos
        BY <1>a, <2>1, <3>2 DEF Tasks
      <4>2. (\A v \in Workers : ~(Holds(v)' /\ slot'[v] = t)) <=>
            (\A v \in Workers : ~(Holds(v) /\ slot[v] = t))
        BY <1>b, <2>3, <3>2
      <4> QED
        BY <4>1, <4>2 DEF Taking
    <3> QED
      BY <3>1, <3>2
  <2>7. Taking'
    BY <1>a, <1>b, <2>1, <2>4, <2>5, <2>6 DEF Taking, Listed, Workers
  <2> QED
    BY <2>2, <2>7
<1>3. CASE ReadTask(w)
  <2>1. /\ pc[w] = "taken"
        /\ pc' = [pc EXCEPT ![w] = IF slots[slot[w]] = Null THEN "gone" ELSE "busy"]
        /\ UNCHANGED <<nthreads, caller, slot, size, slots, taskspos, end_count, done>>
    BY <1>3 DEF ReadTask, pool
  <2>2. slots[slot[w]] = slot[w] /\ slot[w] # Null
    BY <1>b, <2>1 DEF Taking, Listed, Holds, Null
  <2>3. pc' = [pc EXCEPT ![w] = "busy"]
    BY <2>1, <2>2
  <2>4. TypeInv'
    BY <2>1, <2>3, <1>b DEF Places, Workers
  <2>5. \A v \in Workers : Holds(v)' <=> Holds(v)
    BY <1>b, <2>1, <2>3 DEF Holds, Workers
  <2>6. Taking'
    BY <1>a, <1>b, <2>1, <2>3, <2>5 DEF Taking, Listed, Workers
  <2> QED
    BY <2>4, <2>6
<1>4. CASE Finish(w)
  <2>1. /\ pc[w] = "busy"
        /\ done' = [done EXCEPT ![slots[slot[w]]] = @ + 1]
        /\ pc' = [pc EXCEPT ![w] = "lock"]
        /\ UNCHANGED <<nthreads, caller, slot, size, slots, taskspos, end_count>>
    BY <1>4 DEF Finish, Task, pool
  <2>2. slot[w] \in 1 .. taskspos /\ slots[slot[w]] = slot[w] /\ slot[w] \in Tasks
    BY <1>a, <1>b, <2>1 DEF Taking, Listed, Holds, Tasks
  <2>3. done' = [done EXCEPT ![slot[w]] = @ + 1] /\ done[slot[w]] = 0
    BY <1>b, <2>1, <2>2 DEF Taking, Holds
  <2>4. TypeInv'
    BY <1>b, <2>1, <2>2, <2>3 DEF Places, Workers
  <2>5. ASSUME NEW t \in Tasks
        PROVE  done'[t] = IF t <= taskspos /\ \A v \in Workers : ~(Holds(v)' /\ slot[v] = t)
                          THEN 1 ELSE 0
    <3>1. CASE t = slot[w]
      BY <1>a, <1>b, <2>1, <2>2, <2>3, <3>1 DEF Taking, Holds, Workers, Tasks
    <3>2. CASE t # slot[w]
      BY <1>a, <1>b, <2>1, <2>2, <2>3, <3>2 DEF Taking, Holds, Workers, Tasks
    <3> QED
      BY <3>1, <3>2
  <2>6. Taking'
    BY <1>a, <1>b, <2>1, <2>5 DEF Taking, Holds, Listed, Workers
  <2> QED
    BY <2>4, <2>6
<1> QED
  BY <1>1, <1>2, <1>3, <1>4 DEF Worker

\* While the caller waits, those who report are counted.
LEMMA WorkerCounts ==
    ASSUME PoolAssumption, TypeInv, Running, NEW w \in Threads, Worker(w)
    PROVE  Running'
<1> USE DEF TypeInv, WorkerTo
<1>a. nthreads \in Nat /\ MaxThreads \in Nat /\ nthreads <= MaxThreads
  BY DEF PoolAssumption, Threads
<1>1. Taking' /\ nthreads > 1 /\ nthreads' = nthreads
  BY WorkerTakes DEF Running, Taking, Worker, Park, Take, ReadTask, Finish
<1>2. w \in Workers /\ Workers' = Workers
  BY DEF Worker, Park, Take, ReadTask, Finish, Workers
<1>3. CASE Park(w)
  <2>1. /\ pc[w] = "lock" /\ taskspos = size /\ end_count' = end_count + 1
        /\ pc' = [pc EXCEPT ![w] = "waiting"] /\ UNCHANGED <<size, taskspos>>
    BY <1>3 DEF Park
  <2>2. Waiting' = Waiting \cup {w} /\ w \notin Waiting
    BY <1>2, <2>1 DEF Waiting
  <2>3. IsFiniteSet(Waiting) /\ Cardinality(Waiting) \in Nat
    BY <1>1, Counting
  <2>4. Cardinality(Waiting') = Cardinality(Waiting) + 1
    BY <2>2, <2>3, FS_AddElement
  <2> QED
    BY <1>1, <2>1, <2>4 DEF Running
<1>4. CASE Take(w)
  <2>1. /\ pc[w] = "lock" /\ taskspos < size /\ pc' = [pc EXCEPT ![w] = "taken"]
        /\ end_count' = end_count
    BY <1>4 DEF Take
  <2>2. Waiting' = Waiting /\ Waiting = {}
    BY <1>2, <2>1 DEF Waiting, Running
  <2> QED
    BY <1>1, <1>2, <2>1, <2>2 DEF Running, Waiting
<1>5. CASE ReadTask(w) \/ Finish(w)
  <2>1. /\ pc[w] # "waiting" /\ pc'[w] # "waiting"
        /\ \A v \in Workers : v # w => pc'[v] = pc[v]
        /\ UNCHANGED <<size, taskspos, end_count>>
    <3>1. /\ pc[w] # "waiting" /\ w \in Threads /\ Workers \subseteq Threads
          /\ UNCHANGED <<size, taskspos, end_count>>
      BY <1>5, <1>a DEF ReadTask, Finish, pool, Workers, Threads
    <3>2. \/ pc' = [pc EXCEPT ![w] = "gone"]
          \/ pc' = [pc EXCEPT ![w] = "busy"]
          \/ pc' = [pc EXCEPT ![w] = "lock"]
      <4>1. CASE ReadTask(w)
        <5>1. CASE slots[slot[w]] = Null
          BY <4>1, <5>1 DEF ReadTask
        <5>2. CASE slots[slot[w]] # Null
          BY <4>1, <5>2 DEF ReadTask
        <5> QED
          BY <5>1, <5>2
      <4>2. CASE Finish(w)
        BY <4>2 DEF Finish
      <4> QED
        BY <1>5, <4>1, <4>2
    <3> QED
      BY <3>1, <3>2
  <2>2. Waiting' = Waiting
    BY <1>2, <2>1 DEF Waiting
  <2> QED
    BY <1>1, <1>2, <2>1, <2>2 DEF Running
<1> QED
  BY <1>3, <1>4, <1>5 DEF Worker

LEMMA WorkerSteps ==
    ASSUME PoolAssumption, Uncrossed, NEW w \in Threads, Worker(w), ~crossed'
    PROVE  Uncrossed'
<1> USE DEF Uncrossed, WorkerTo
<1>1. w \in Workers /\ pc[w] # "gone" /\ pc[w] # "waiting" /\ nthreads > 1
  BY DEF TypeInv, Worker, Park, Take, ReadTask, Finish, Workers
<1>2. caller' = IF Park(w) /\ caller = "asleep" THEN "woken" ELSE caller
  BY DEF Worker, Park, Take, ReadTask, Finish
<1>3. caller \in {"idle", "start", "asleep", "woken", "stop", "join"}
  BY <1>1 DEF TypeInv, AllWaiting
<1>4. CASE caller = "idle"
  BY <1>1, <1>2, <1>4, WorkerTakes
<1>5. CASE caller = "start"
  <2>1. ~Park(w)
    BY <1>5 DEF Park
  <2>2. end_count' = end_count
    BY <2>1 DEF Worker, Take, ReadTask, Finish, pool
  <2> QED
    BY <1>2, <1>5, <2>1, <2>2, WorkerTakes
<1>6. CASE caller \in {"asleep", "woken"}
  <2>1. TypeInv' /\ Running'
    BY <1>6, WorkerTakes, WorkerCounts DEF Running
  <2> QED
    BY <1>2, <1>6, <2>1
<1>7. CASE caller \in {"stop", "join"}
  <2> USE DEF TypeInv
  <2>1. Stopping /\ caller' = caller /\ nthreads' = nthreads
    BY <1>2, <1>7 DEF Worker, Park, Take, ReadTask, Finish
  <2>2. CASE Park(w)
    BY <1>1, <1>7, <2>1, <2>2 DEF Park, Stopping, NoneDone, Places, Workers
  <2>3. CASE Take(w)
    BY <1>1, <1>7, <2>1, <2>3 DEF Take, Stopping, NoneDone, Places, Workers
  <2>4. CASE ReadTask(w)
    <3>1. slots[slot[w]] = Null
      BY <1>1, <2>1, <2>4 DEF ReadTask, Stopping
    <3> QED
      BY <1>1, <1>7, <2>1, <2>4, <3>1 DEF ReadTask, pool, Stopping, NoneDone, Places, Workers
  <2>5. ~Finish(w)
    BY <1>1, <2>1 DEF Finish, Stopping
  <2> QED
    BY <2>2, <2>3, <2>4, <2>5 DEF Worker
<1> QED
  BY <1>3, <1>4, <1>5, <1>6, <1>7

LEMMA PoolStep ==
    ASSUME PoolAssumption, PoolInv, [Next]_vars
    PROVE  PoolInv'
<1> SUFFICES ASSUME ~crossed' PROVE Uncrossed'
  BY DEF PoolInv
<1>0. Uncrossed
  BY CrossedStays DEF PoolInv
<1>1. CASE UNCHANGED vars
  BY <1>0, <1>1 DEF vars, pool, Uncrossed, TypeInv, AllWaiting, Listed, NoneDone, AllDone,
     Taking, Running, Stopping, Waiting, Holds, Workers
<1>2. CASE Next
  BY <1>0, <1>2, CallerSteps, WorkerSteps DEF Next
<1> QED
  BY <1>1, <1>2

LEMMA PoolWaits == PoolInv => RunWaitsUncrossed
  BY DEF PoolInv, Uncrossed, RunWaitsUncrossed, RunWaits, AllWaiting, AllDone

\* A run is over only when each of its tasks was carried out once and no worker is left
\* with one (workerpool.c:67-101, 182-205), unless a thread has crossed the caller.
THEOREM PoolRunWaits == PoolAssumption => (Spec => []RunWaitsUncrossed)
<1> SUFFICES ASSUME PoolAssumption PROVE Spec => []RunWaitsUncrossed
  OBVIOUS
<1>1. Init => PoolInv
  BY PoolInit
<1>2. PoolInv /\ [Next]_vars => PoolInv'
  BY PoolStep
<1> QED
  BY <1>1, <1>2, PoolWaits, PTL DEF Spec
=============================================================================
