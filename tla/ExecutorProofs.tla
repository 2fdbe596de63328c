--------------------------- MODULE ExecutorProofs ---------------------------
(***************************************************************************)
(* Proofs about the executor, for every queue capacity and every number of *)
(* tasks, and about the GPU drivers that start on it, for every set of     *)
(* drivers.                                                                *)
(***************************************************************************)
EXTENDS GpuStartup, FiniteSetTheorems, SequenceTheorems, TLAPS

-----------------------------------------------------------------------------
(* What ArrayQueue::push does to a queue and to the ids in it. *)
LEMMA PushFacts ==
    ASSUME NEW S, NEW q \in Seq(S), NEW e \in S, Len(q) <= QueueCap
    PROVE  /\ ArrayPush(q, e) \in Seq(S)
           /\ Len(ArrayPush(q, e)) <= QueueCap
           /\ Range(ArrayPush(q, e)) \subseteq Range(q) \cup {e}
           /\ ~IsFull(q) => Range(ArrayPush(q, e)) = Range(q) \cup {e}
           /\ IsInjective(q) /\ e \notin Range(q)
                 => IsInjective(ArrayPush(q, e))
<1>1. CASE IsFull(q)
  BY <1>1 DEF ArrayPush
<1>2. CASE ~IsFull(q)
  <2>1. /\ ArrayPush(q, e) = Append(q, e)
        /\ Len(q) \in Nat /\ Len(q) + 1 <= QueueCap
    BY <1>2, QueueAssumption, LenProperties DEF ArrayPush, IsFull
  <2>2. /\ Append(q, e) \in Seq(S)
        /\ Len(Append(q, e)) = Len(q) + 1
        /\ DOMAIN Append(q, e) = 1 .. Len(q) + 1
        /\ DOMAIN q = 1 .. Len(q)
        /\ \A i \in 1 .. Len(q) : Append(q, e)[i] = q[i]
        /\ Append(q, e)[Len(q) + 1] = e
    BY AppendProperties, LenProperties
  <2>3. Range(Append(q, e)) = Range(q) \cup {e}
    BY <2>1, <2>2 DEF Range
  <2>4. IsInjective(q) /\ e \notin Range(q) => IsInjective(Append(q, e))
    <3> SUFFICES ASSUME IsInjective(q), e \notin Range(q),
                        NEW a \in 1 .. Len(q) + 1, NEW b \in 1 .. Len(q) + 1,
                        Append(q, e)[a] = Append(q, e)[b]
                 PROVE  a = b
      BY <2>2 DEF IsInjective
    <3>1. CASE a \in 1 .. Len(q) /\ b \in 1 .. Len(q)
      BY <3>1, <2>2 DEF IsInjective
    <3>2. CASE a \in 1 .. Len(q) /\ b = Len(q) + 1
      BY <3>2, <2>2 DEF Range
    <3>3. CASE a = Len(q) + 1 /\ b \in 1 .. Len(q)
      BY <3>3, <2>2 DEF Range
    <3> QED BY <3>1, <3>2, <3>3, <2>1
  <2> QED BY <1>2, <2>1, <2>2, <2>3, <2>4
<1> QED BY <1>1, <1>2

(* What ArrayQueue::pop does: the head leaves, nothing else changes. *)
LEMMA PopFacts ==
    ASSUME NEW S, NEW q \in Seq(S), q # <<>>
    PROVE  /\ Head(q) \in S /\ Tail(q) \in Seq(S)
           /\ Len(q) \in Nat /\ Len(Tail(q)) <= Len(q)
           /\ Range(q) = Range(Tail(q)) \cup {Head(q)}
           /\ IsInjective(q) => /\ IsInjective(Tail(q))
                                /\ Head(q) \notin Range(Tail(q))
<1>1. /\ Head(q) \in S /\ Tail(q) \in Seq(S)
      /\ Len(q) \in Nat /\ Len(q) > 0
      /\ Len(Tail(q)) = Len(q) - 1
      /\ DOMAIN q = 1 .. Len(q)
      /\ DOMAIN Tail(q) = 1 .. Len(q) - 1
      /\ \A i \in 1 .. Len(q) - 1 : Tail(q)[i] = q[i + 1]
      /\ Head(q) = q[1]
  BY HeadTailProperties, LenProperties, EmptySeq
<1>2. Range(q) \subseteq Range(Tail(q)) \cup {Head(q)}
  <2> SUFFICES ASSUME NEW i \in 1 .. Len(q)
               PROVE  q[i] \in Range(Tail(q)) \cup {Head(q)}
    BY <1>1 DEF Range
  <2>1. CASE i = 1
    BY <2>1, <1>1
  <2>2. CASE i # 1
    <3>1. i - 1 \in 1 .. Len(q) - 1 /\ Tail(q)[i - 1] = q[i]
      BY <2>2, <1>1
    <3> QED BY <3>1, <1>1 DEF Range
  <2> QED BY <2>1, <2>2
<1>3. Range(Tail(q)) \cup {Head(q)} \subseteq Range(q)
  BY <1>1 DEF Range
<1>4. ASSUME IsInjective(q)
      PROVE  IsInjective(Tail(q)) /\ Head(q) \notin Range(Tail(q))
  <2>1. \A a, b \in 1 .. Len(q) : q[a] = q[b] => a = b
    BY <1>1, <1>4 DEF IsInjective
  <2>2. IsInjective(Tail(q))
    <3> SUFFICES ASSUME NEW a \in 1 .. Len(q) - 1, NEW b \in 1 .. Len(q) - 1,
                        Tail(q)[a] = Tail(q)[b]
                 PROVE  a = b
      BY <1>1 DEF IsInjective
    <3>1. a + 1 \in 1 .. Len(q) /\ b + 1 \in 1 .. Len(q)
      BY <1>1
    <3>2. q[a + 1] = q[b + 1]
      BY <1>1
    <3> QED BY <3>1, <3>2, <2>1
  <2>3. Head(q) \notin Range(Tail(q))
    <3> SUFFICES ASSUME NEW a \in 1 .. Len(q) - 1, Tail(q)[a] = Head(q)
                 PROVE  FALSE
      BY <1>1 DEF Range
    <3>1. a + 1 \in 1 .. Len(q) /\ q[a + 1] = q[1] /\ 1 \in 1 .. Len(q)
      BY <1>1
    <3> QED BY <3>1, <2>1
  <2> QED BY <2>2, <2>3
<1> QED BY <1>1, <1>2, <1>3, <1>4

(* A queue without repetitions is no longer than a set its ids come from. *)
LEMMA DistinctLen ==
    ASSUME NEW S, NEW q \in Seq(S), IsInjective(q),
           NEW T, IsFiniteSet(T), Range(q) \subseteq T
    PROVE  Len(q) \in Nat /\ Len(q) <= Cardinality(T)
<1>1. Len(q) \in Nat /\ q \in [1 .. Len(q) -> S] /\ DOMAIN q = 1 .. Len(q)
  BY LenProperties
<1>2. q \in [1 .. Len(q) -> T]
  BY <1>1 DEF Range
<1>3. q \in Injection(1 .. Len(q), T)
  BY <1>2 DEF Injection
<1>4. Cardinality(1 .. Len(q)) <= Cardinality(T)
  BY <1>3, FS_Injection
<1>5. Cardinality(1 .. Len(q)) = Len(q)
  BY <1>1, FS_Interval
<1> QED BY <1>1, <1>4, <1>5

-----------------------------------------------------------------------------
(* A poll is running exactly where run_ready_tasks is inside task.poll. *)
CurrentInv ==
    /\ pc \in {"poll", "pollwake"} => current # NoTask
    /\ pc \notin {"poll", "pollwake", "panicked"} => current = NoTask

(* NEXT_ID is fresh and a queued Task has not been adopted yet. *)
FreshInv ==
    /\ IsInjective(spawn_queue)
    /\ Range(spawn_queue) \cap tasks = {}
    /\ \A id \in Alive : id < next_id

(* The inductive invariant that holds whatever the number of tasks. *)
IInv == TypeOK /\ CurrentInv /\ FreshInv /\ OneTokenPerTask

(* The same for a queue of task ids, in the form the steps below use. *)
LEMMA PushIds ==
    ASSUME NEW q \in Seq(TaskIds), NEW e \in TaskIds, Len(q) <= QueueCap,
           IsInjective(q), e \notin Range(q), NEW p, p = ArrayPush(q, e)
    PROVE  /\ p \in Seq(TaskIds) /\ Len(p) <= QueueCap
           /\ Range(p) \subseteq Range(q) \cup {e}
           /\ IsInjective(p)
BY PushFacts

(* The value of "no task" is no id. *)
LEMMA NoTaskFacts == NoTask \notin TaskIds
BY BootAssumption DEF NoTask, TaskIds

(* The boot queue of kernel_main holds distinct ids below NEXT_ID. *)
LEMMA InitIInv == Init => IInv
<1> SUFFICES ASSUME Init PROVE IInv
  OBVIOUS
<1> USE DEF Init
<1>1. spawn_queue \in Seq(TaskIds) /\ Len(spawn_queue) = BootTasks
  BY BootAssumption DEF TaskIds
<1>2. /\ DOMAIN spawn_queue = 1 .. BootTasks
      /\ \A i \in 1 .. BootTasks : spawn_queue[i] = i - 1
      /\ BootTasks \in Nat
  BY BootAssumption
<1>3. IsInjective(spawn_queue)
  BY <1>2 DEF IsInjective
<1>4. Range(task_queue) = {} /\ Range(YIELDERS) = {}
  BY DEF Range
<1>5. IsInjective(task_queue) /\ IsInjective(YIELDERS)
  BY DEF IsInjective
<1>6. \A id \in Range(spawn_queue) : id < BootTasks
  BY <1>2 DEF Range
<1>7. TypeOK
  BY <1>1, BootAssumption, QueueAssumption DEF TypeOK, PCs
<1>8. CurrentInv /\ FreshInv
  BY <1>3, <1>6 DEF CurrentInv, FreshInv, Alive
<1>9. OneTokenPerTask
  BY <1>4, <1>5 DEF OneTokenPerTask, Tokens
<1> QED BY <1>7, <1>8, <1>9 DEF IInv

(* Every step of the executor loop and of the polled futures keeps it. *)
LEMMA NextIInv == IInv /\ [Next]_vars => IInv'
<1> SUFFICES ASSUME IInv, [Next]_vars PROVE IInv'
  OBVIOUS
<1> USE NoTaskFacts DEF IInv
<1>1. CASE Spawn
  <2> DEFINE id == Head(spawn_queue)
  <2>1. /\ id \in TaskIds /\ Tail(spawn_queue) \in Seq(TaskIds)
        /\ Len(Tail(spawn_queue)) <= QueueCap
        /\ Range(spawn_queue) = Range(Tail(spawn_queue)) \cup {id}
        /\ IsInjective(Tail(spawn_queue))
        /\ id \notin Range(Tail(spawn_queue))
    BY <1>1, PopFacts, LenProperties, QueueAssumption DEF Spawn, TypeOK, FreshInv
  <2>2. id \notin tasks
    BY <2>1 DEF FreshInv
  <2>3. /\ task_queue' = ArrayPush(task_queue, id)
        /\ pc' \in {"spawn", "panicked"} /\ pc = "spawn"
        /\ spawn_queue' = Tail(spawn_queue)
        /\ tasks' = tasks \cup {id}
        /\ UNCHANGED << next_id, waker_cache, YIELDERS, parked, current >>
    BY <1>1, <2>2 DEF Spawn, WakeTask
  <2>4. id \notin Range(task_queue) /\ id \notin Range(YIELDERS)
        /\ id \notin parked /\ id # current
    BY <2>1, <2>2 DEF OneTokenPerTask, Tokens
  <2>5. /\ task_queue' \in Seq(TaskIds) /\ Len(task_queue') <= QueueCap
        /\ Range(task_queue') \subseteq Range(task_queue) \cup {id}
        /\ IsInjective(task_queue')
    BY <2>1, <2>3, <2>4, PushIds DEF TypeOK, OneTokenPerTask
  <2>6. TypeOK'
    BY <2>1, <2>3, <2>5 DEF TypeOK, PCs
  <2>7. CurrentInv'
    BY <2>3 DEF CurrentInv
  <2>8. FreshInv'
    BY <2>1, <2>3 DEF FreshInv, Alive
  <2>9. OneTokenPerTask'
    BY <2>3, <2>4, <2>5 DEF OneTokenPerTask, Tokens
  <2> QED BY <2>6, <2>7, <2>8, <2>9
<1>2. CASE SpawnDone
  BY <1>2 DEF SpawnDone, TypeOK, PCs, CurrentInv, FreshInv, Alive,
              OneTokenPerTask, Tokens
<1>3. CASE PopTask
  <2> DEFINE id == Head(task_queue)
  <2>1. /\ id \in TaskIds /\ Tail(task_queue) \in Seq(TaskIds)
        /\ Len(Tail(task_queue)) <= QueueCap
        /\ Range(task_queue) = Range(Tail(task_queue)) \cup {id}
        /\ IsInjective(Tail(task_queue))
        /\ id \notin Range(Tail(task_queue))
    BY <1>3, PopFacts, LenProperties, QueueAssumption
       DEF PopTask, TypeOK, OneTokenPerTask
  <2>2. id \in tasks
    BY <2>1 DEF OneTokenPerTask, Tokens
  <2>3. /\ task_queue' = Tail(task_queue) /\ current' = id
        /\ waker_cache' = waker_cache \cup {id} /\ pc' = "poll"
        /\ UNCHANGED << next_id, tasks, spawn_queue, YIELDERS, parked >>
    BY <1>3, <2>2 DEF PopTask
  <2>4. TypeOK'
    BY <2>1, <2>3 DEF TypeOK, PCs
  <2>5. CurrentInv' /\ FreshInv'
    BY <2>1, <2>3 DEF CurrentInv, FreshInv, Alive
  <2>6. OneTokenPerTask'
    BY <2>1, <2>2, <2>3 DEF OneTokenPerTask, Tokens
  <2> QED BY <2>4, <2>5, <2>6
<1>4. CASE ReadyDone
  BY <1>4 DEF ReadyDone, TypeOK, PCs, CurrentInv, FreshInv, Alive,
              OneTokenPerTask, Tokens
<1>5. CASE SpawnerRun
  <2>1. /\ next_id \in TaskIds /\ next_id + 1 \in 0 .. MaxTasks
        /\ next_id \in Nat /\ next_id' = next_id + 1
        /\ spawn_queue' = ArrayPush(spawn_queue, next_id)
        /\ UNCHANGED << tasks, waker_cache, task_queue, YIELDERS, parked,
                        current, pc >>
    BY <1>5, BootAssumption DEF SpawnerRun, TypeOK, TaskIds
  <2>2. next_id \notin Range(spawn_queue) /\ next_id \notin tasks
    BY <2>1 DEF FreshInv, Alive
  <2>3. /\ spawn_queue' \in Seq(TaskIds) /\ Len(spawn_queue') <= QueueCap
        /\ Range(spawn_queue') \subseteq Range(spawn_queue) \cup {next_id}
        /\ IsInjective(spawn_queue')
    BY <2>1, <2>2, PushIds DEF TypeOK, FreshInv
  <2>4. TypeOK'
    BY <2>1, <2>3 DEF TypeOK
  <2>5. FreshInv'
    <3>1. Alive' \subseteq Alive \cup {next_id}
      BY <2>1, <2>3 DEF Alive
    <3>2. \A x \in Alive : x \in Nat /\ x < next_id
      BY BootAssumption DEF FreshInv, Alive, TypeOK, TaskIds, Range
    <3>3. \A x \in Alive' : x < next_id'
      BY <2>1, <3>1, <3>2
    <3> QED BY <2>1, <2>2, <2>3, <3>3 DEF FreshInv
  <2>6. CurrentInv' /\ OneTokenPerTask'
    BY <2>1 DEF CurrentInv, OneTokenPerTask, Tokens
  <2> QED BY <2>4, <2>5, <2>6
<1>6. ASSUME NEW id \in TaskIds, WakeParked(id) PROVE IInv'
  <2>1. /\ id \in parked /\ parked' = parked \ {id}
        /\ task_queue' = ArrayPush(task_queue, id)
        /\ pc \in {"poll", "pollwake"} /\ pc' \in {"pollwake", "panicked"}
        /\ UNCHANGED << next_id, tasks, waker_cache, spawn_queue, YIELDERS,
                        current >>
    BY <1>6 DEF WakeParked, WakeTask
  <2>2. id \notin Range(task_queue) /\ id \notin Range(YIELDERS)
        /\ id # current /\ id \in tasks
    BY <2>1 DEF OneTokenPerTask, Tokens
  <2>3. /\ task_queue' \in Seq(TaskIds) /\ Len(task_queue') <= QueueCap
        /\ Range(task_queue') \subseteq Range(task_queue) \cup {id}
        /\ IsInjective(task_queue')
    BY <2>1, <2>2, PushIds DEF TypeOK, OneTokenPerTask
  <2>4. TypeOK'
    BY <2>1, <2>3 DEF TypeOK, PCs
  <2>5. CurrentInv' /\ FreshInv'
    BY <2>1 DEF CurrentInv, FreshInv, Alive
  <2>6. OneTokenPerTask'
    BY <2>1, <2>2, <2>3 DEF OneTokenPerTask, Tokens
  <2> QED BY <2>4, <2>5, <2>6
<1>7. CASE PollReady
  BY <1>7 DEF PollReady, TypeOK, PCs, CurrentInv, FreshInv, Alive,
              OneTokenPerTask, Tokens
<1>8. CASE PollYield
  <2>1. /\ current \in TaskIds /\ current \in tasks
        /\ YIELDERS' = ArrayPush(YIELDERS, current)
        /\ current' = NoTask /\ pc' = "ready"
        /\ UNCHANGED << next_id, tasks, waker_cache, spawn_queue, task_queue,
                        parked >>
    BY <1>8 DEF PollYield, TypeOK, CurrentInv, OneTokenPerTask, Tokens
  <2>2. /\ YIELDERS' \in Seq(TaskIds) /\ Len(YIELDERS') <= QueueCap
        /\ Range(YIELDERS') \subseteq Range(YIELDERS) \cup {current}
        /\ IsInjective(YIELDERS')
    BY <2>1, PushIds DEF TypeOK, OneTokenPerTask
  <2>3. TypeOK'
    BY <2>1, <2>2 DEF TypeOK, PCs
  <2>4. CurrentInv' /\ FreshInv'
    BY <2>1 DEF CurrentInv, FreshInv, Alive
  <2>5. NoTask \notin parked \cup Range(task_queue) \cup Range(YIELDERS')
    <3>1. Range(task_queue) \subseteq TaskIds /\ Range(YIELDERS') \subseteq TaskIds
      BY <2>2, RangeOfSeq DEF TypeOK
    <3> QED BY <3>1 DEF TypeOK
  <2>6. OneTokenPerTask'
    BY <2>1, <2>2, <2>5 DEF OneTokenPerTask, Tokens
  <2> QED BY <2>3, <2>4, <2>6
<1>9. CASE PollPark
  <2>1. Range(task_queue) \subseteq TaskIds /\ Range(YIELDERS) \subseteq TaskIds
    BY RangeOfSeq DEF TypeOK
  <2>2. NoTask \notin parked' \cup Range(task_queue) \cup Range(YIELDERS)
    BY <1>9, <2>1 DEF PollPark, TypeOK, CurrentInv
  <2> QED BY <1>9, <2>2 DEF PollPark, TypeOK, PCs, CurrentInv, FreshInv,
                            Alive, OneTokenPerTask, Tokens
<1>10. CASE IdleCheck
  BY <1>10 DEF IdleCheck, TypeOK, PCs, CurrentInv, FreshInv, Alive,
               OneTokenPerTask, Tokens
<1>11. CASE Interrupt
  BY <1>11 DEF Interrupt, TypeOK, PCs, CurrentInv, FreshInv, Alive,
               OneTokenPerTask, Tokens
<1>12. CASE WakeYielder
  <2> DEFINE id == Head(YIELDERS)
  <2>1. /\ id \in TaskIds /\ Tail(YIELDERS) \in Seq(TaskIds)
        /\ Len(Tail(YIELDERS)) <= QueueCap
        /\ Range(YIELDERS) = Range(Tail(YIELDERS)) \cup {id}
        /\ IsInjective(Tail(YIELDERS))
        /\ id \notin Range(Tail(YIELDERS))
    BY <1>12, PopFacts, LenProperties, QueueAssumption
       DEF WakeYielder, TypeOK, OneTokenPerTask
  <2>2. /\ YIELDERS' = Tail(YIELDERS)
        /\ task_queue' = ArrayPush(task_queue, id)
        /\ pc = "yielders" /\ pc' \in {"yielders", "panicked"}
        /\ UNCHANGED << next_id, tasks, waker_cache, spawn_queue, parked,
                        current >>
    BY <1>12 DEF WakeYielder, WakeTask
  <2>3. id \notin Range(task_queue) /\ id \notin parked /\ id # current
        /\ id \in tasks
    BY <2>1 DEF OneTokenPerTask, Tokens
  <2>4. /\ task_queue' \in Seq(TaskIds) /\ Len(task_queue') <= QueueCap
        /\ Range(task_queue') \subseteq Range(task_queue) \cup {id}
        /\ IsInjective(task_queue')
    BY <2>1, <2>2, <2>3, PushIds DEF TypeOK, OneTokenPerTask
  <2>5. TypeOK'
    BY <2>1, <2>2, <2>4 DEF TypeOK, PCs
  <2>6. CurrentInv' /\ FreshInv'
    BY <2>2 DEF CurrentInv, FreshInv, Alive
  <2>7. OneTokenPerTask'
    BY <2>1, <2>2, <2>3, <2>4 DEF OneTokenPerTask, Tokens
  <2> QED BY <2>5, <2>6, <2>7
<1>13. CASE YieldersDone
  BY <1>13 DEF YieldersDone, TypeOK, PCs, CurrentInv, FreshInv, Alive,
               OneTokenPerTask, Tokens
<1>14. CASE UNCHANGED vars
  BY <1>14 DEF vars, TypeOK, CurrentInv, FreshInv, Alive, OneTokenPerTask,
               Tokens
<1> QED
  BY <1>1, <1>2, <1>3, <1>4, <1>5, <1>6, <1>7, <1>8, <1>9, <1>10, <1>11,
     <1>12, <1>13, <1>14 DEF Next

(* The executor's variables keep their types and its queues never exceed *)
(* their capacity, however many tasks there are.                         *)
THEOREM TypeCorrect == Spec => []TypeOK
<1>1. IInv => TypeOK
  BY DEF IInv
<1> QED BY <1>1, InitIInv, NextIInv, PTL DEF Spec

(* However many tasks live, spawn_queue, task_queue, YIELDERS and the     *)
(* drivers never hold two tokens of one task, so run_ready_tasks polls a  *)
(* task at most once per wake.                                            *)
THEOREM TokensUnique == Spec => []OneTokenPerTask
<1>1. IInv => OneTokenPerTask
  BY DEF IInv
<1> QED BY <1>1, InitIInv, NextIInv, PTL DEF Spec

-----------------------------------------------------------------------------
(* What holds besides when the live tasks fit in the queues. *)
FitInv ==
    /\ NoLostTask
    /\ Cardinality(Alive) <= MaxLive

(* Live ids form a finite set. *)
LEMMA AliveFinite == TypeOK => IsFiniteSet(Alive) /\ Alive \subseteq TaskIds
<1> SUFFICES ASSUME TypeOK PROVE IsFiniteSet(Alive) /\ Alive \subseteq TaskIds
  OBVIOUS
<1>1. Alive \subseteq TaskIds
  BY RangeOfSeq DEF TypeOK, Alive
<1>2. IsFiniteSet(TaskIds)
  BY BootAssumption, FS_Interval DEF TaskIds
<1> QED BY <1>1, <1>2, FS_Subset

(* There is room for the token of a live task that has none in the queue. *)
LEMMA RoomForToken ==
    ASSUME TypeOK, Cardinality(Alive) <= MaxLive, MaxLive <= QueueCap,
           NEW q \in Seq(TaskIds), IsInjective(q), Range(q) \subseteq Alive,
           NEW e \in Alive, e \notin Range(q)
    PROVE  ~IsFull(q)
<1>1. IsFiniteSet(Alive)
  BY AliveFinite
<1>2. /\ IsFiniteSet(Alive \ {e}) /\ Cardinality(Alive) \in Nat
      /\ Cardinality(Alive \ {e}) = Cardinality(Alive) - 1
  BY <1>1, FS_RemoveElement, FS_CardinalityType
<1>3. Range(q) \subseteq Alive \ {e}
  OBVIOUS
<1>4. Len(q) \in Nat /\ Len(q) <= Cardinality(Alive \ {e})
  BY <1>2, <1>3, DistinctLen
<1> QED BY <1>2, <1>4, BootAssumption, QueueAssumption DEF IsFull

(* A new executor holds no token. *)
LEMMA InitFitInv == Init => FitInv
<1> SUFFICES ASSUME Init PROVE FitInv
  OBVIOUS
<1>1. IInv
  BY InitIInv
<1>2. spawn_queue \in Seq(TaskIds) /\ Range(spawn_queue) = 0 .. BootTasks - 1
  <2>1. /\ DOMAIN spawn_queue = 1 .. BootTasks /\ BootTasks \in Nat
        /\ \A i \in 1 .. BootTasks : spawn_queue[i] = i - 1
    BY BootAssumption DEF Init
  <2>2. \A k \in 0 .. BootTasks - 1 : k + 1 \in 1 .. BootTasks /\ (k + 1) - 1 = k
    BY <2>1
  <2>3. \A i \in 1 .. BootTasks : i - 1 \in 0 .. BootTasks - 1
    BY <2>1
  <2>4. Range(spawn_queue) \subseteq 0 .. BootTasks - 1
    BY <2>1, <2>3 DEF Range
  <2>5. 0 .. BootTasks - 1 \subseteq Range(spawn_queue)
    <3> SUFFICES ASSUME NEW k \in 0 .. BootTasks - 1
                 PROVE  k \in Range(spawn_queue)
      OBVIOUS
    <3>1. spawn_queue[k + 1] = k /\ k + 1 \in DOMAIN spawn_queue
      BY <2>1, <2>2
    <3> QED BY <3>1 DEF Range
  <2> QED BY <1>1, <2>4, <2>5 DEF IInv, TypeOK
<1>3. Alive = 0 .. BootTasks - 1
  BY <1>2 DEF Alive, Init
<1>4. Cardinality(Alive) = BootTasks
  BY <1>3, FS_Interval, BootAssumption
<1> QED BY <1>4, BootAssumption DEF FitInv, NoLostTask, Init

(* With room for every live task no push fails, so no token is dropped *)
(* and no expect() fires.                                              *)
LEMMA NextFitInv ==
    ASSUME MaxLive <= QueueCap
    PROVE  IInv /\ FitInv /\ [Next]_vars => FitInv'
<1> SUFFICES ASSUME IInv, FitInv, [Next]_vars PROVE FitInv'
  OBVIOUS
<1> USE NoTaskFacts DEF IInv
<1>1. Range(task_queue) \subseteq Alive /\ Range(YIELDERS) \subseteq Alive
      /\ parked \subseteq Alive
  BY DEF OneTokenPerTask, Tokens, Alive
<1>2. IInv'
  BY NextIInv
<1>3. CASE Spawn
  <2> DEFINE id == Head(spawn_queue)
  <2>1. /\ id \in TaskIds
        /\ Range(spawn_queue) = Range(Tail(spawn_queue)) \cup {id}
    BY <1>3, PopFacts DEF Spawn, TypeOK
  <2>2. id \notin tasks /\ id \in Alive
    BY <2>1 DEF FreshInv, Alive
  <2>3. id \notin Range(task_queue)
    BY <2>2 DEF OneTokenPerTask, Tokens
  <2>4. ~IsFull(task_queue)
    BY <1>1, <2>2, <2>3, RoomForToken DEF FitInv, TypeOK, OneTokenPerTask
  <2>5. /\ task_queue' = ArrayPush(task_queue, id) /\ pc' = "spawn"
        /\ spawn_queue' = Tail(spawn_queue) /\ tasks' = tasks \cup {id}
        /\ UNCHANGED << YIELDERS, parked, current >>
    BY <1>3, <2>2, <2>4 DEF Spawn, WakeTask
  <2>6. Range(task_queue') = Range(task_queue) \cup {id}
    BY <2>1, <2>4, <2>5, PushFacts DEF TypeOK
  <2>7. Alive' = Alive
    BY <2>1, <2>5 DEF Alive
  <2> QED BY <2>5, <2>6, <2>7 DEF FitInv, NoLostTask, Tokens
<1>4. CASE PopTask
  <2> DEFINE id == Head(task_queue)
  <2>1. id \in TaskIds /\ Range(task_queue) = Range(Tail(task_queue)) \cup {id}
    BY <1>4, PopFacts DEF PopTask, TypeOK
  <2>2. id \in tasks
    BY <2>1 DEF OneTokenPerTask, Tokens
  <2>3. /\ task_queue' = Tail(task_queue) /\ current' = id /\ pc' = "poll"
        /\ UNCHANGED << tasks, spawn_queue, YIELDERS, parked >>
    BY <1>4, <2>2 DEF PopTask
  <2>4. current = NoTask
    BY <1>4 DEF PopTask, CurrentInv
  <2>5. Alive' = Alive
    BY <2>3 DEF Alive
  <2> QED BY <2>1, <2>3, <2>4, <2>5 DEF FitInv, NoLostTask, Tokens
<1>5. CASE SpawnerRun
  <2>1. /\ next_id \in TaskIds /\ Cardinality(Alive) < MaxLive
        /\ spawn_queue' = ArrayPush(spawn_queue, next_id)
        /\ UNCHANGED << tasks, task_queue, YIELDERS, parked, current, pc >>
    BY <1>5, BootAssumption DEF SpawnerRun, TypeOK, TaskIds
  <2>2. Alive' \subseteq Alive \cup {next_id}
    BY <2>1, PushFacts DEF Alive, TypeOK
  <2>3. Cardinality(Alive') <= Cardinality(Alive) + 1
        /\ Cardinality(Alive) \in Nat /\ Cardinality(Alive') \in Nat
    <3>1. IsFiniteSet(Alive) /\ Cardinality(Alive) \in Nat
      BY AliveFinite, FS_CardinalityType
    <3>2. /\ IsFiniteSet(Alive \cup {next_id})
          /\ Cardinality(Alive \cup {next_id}) =
                IF next_id \in Alive THEN Cardinality(Alive)
                ELSE Cardinality(Alive) + 1
      BY <3>1, FS_AddElement
    <3>3. Cardinality(Alive') <= Cardinality(Alive \cup {next_id})
          /\ Cardinality(Alive') \in Nat
          /\ Cardinality(Alive \cup {next_id}) \in Nat
      BY <2>2, <3>2, FS_Subset, FS_CardinalityType
    <3> QED BY <3>1, <3>2, <3>3
  <2>4. Cardinality(Alive') <= MaxLive
    BY <2>1, <2>3, BootAssumption
  <2> QED BY <2>1, <2>4 DEF FitInv, NoLostTask, Tokens
<1>6. ASSUME NEW id \in TaskIds, WakeParked(id) PROVE FitInv'
  <2>1. id \in parked /\ id \in Alive /\ id \notin Range(task_queue)
    BY <1>1, <1>6 DEF WakeParked, OneTokenPerTask
  <2>2. ~IsFull(task_queue)
    BY <1>1, <2>1, RoomForToken DEF FitInv, TypeOK, OneTokenPerTask
  <2>3. /\ task_queue' = ArrayPush(task_queue, id) /\ pc' = "pollwake"
        /\ parked' = parked \ {id}
        /\ UNCHANGED << tasks, spawn_queue, YIELDERS, current >>
    BY <1>6, <2>2 DEF WakeParked, WakeTask
  <2>4. Range(task_queue') = Range(task_queue) \cup {id}
    BY <2>2, <2>3, PushFacts DEF TypeOK
  <2>5. Alive' = Alive
    BY <2>3 DEF Alive
  <2> QED BY <2>3, <2>4, <2>5 DEF FitInv, NoLostTask, Tokens
<1>7. CASE PollReady
  <2>1. Alive' \subseteq Alive
    BY <1>7 DEF PollReady, Alive
  <2>2. IsFiniteSet(Alive)
    BY AliveFinite
  <2>3. Cardinality(Alive') <= MaxLive
    <3>1. Cardinality(Alive') <= Cardinality(Alive)
          /\ Cardinality(Alive') \in Nat /\ Cardinality(Alive) \in Nat
      BY <2>1, <2>2, FS_Subset, FS_CardinalityType
    <3> QED BY <3>1, BootAssumption DEF FitInv
  <2> QED BY <1>7, <2>3 DEF PollReady, FitInv, NoLostTask, Tokens
<1>8. CASE PollYield
  <2>1. /\ current \in TaskIds /\ current \in Alive
        /\ current \notin Range(YIELDERS)
    BY <1>8 DEF PollYield, TypeOK, CurrentInv, OneTokenPerTask, Tokens, Alive
  <2>2. ~IsFull(YIELDERS)
    BY <1>1, <2>1, RoomForToken DEF FitInv, TypeOK, OneTokenPerTask
  <2>3. /\ YIELDERS' = ArrayPush(YIELDERS, current)
        /\ current' = NoTask /\ pc' = "ready"
        /\ UNCHANGED << tasks, spawn_queue, task_queue, parked >>
    BY <1>8 DEF PollYield
  <2>4. Range(YIELDERS') = Range(YIELDERS) \cup {current}
    BY <2>1, <2>2, <2>3, PushFacts DEF TypeOK
  <2>5. Alive' = Alive
    BY <2>3 DEF Alive
  <2> QED BY <2>3, <2>4, <2>5 DEF FitInv, NoLostTask, Tokens
<1>9. CASE PollPark
  <2>1. Alive' = Alive
    BY <1>9 DEF PollPark, Alive
  <2> QED BY <1>9, <2>1 DEF PollPark, FitInv, NoLostTask, Tokens
<1>10. CASE WakeYielder
  <2> DEFINE id == Head(YIELDERS)
  <2>1. id \in TaskIds /\ Range(YIELDERS) = Range(Tail(YIELDERS)) \cup {id}
    BY <1>10, PopFacts DEF WakeYielder, TypeOK
  <2>2. id \in Alive /\ id \notin Range(task_queue)
    BY <1>1, <2>1 DEF OneTokenPerTask
  <2>3. ~IsFull(task_queue)
    BY <1>1, <2>2, RoomForToken DEF FitInv, TypeOK, OneTokenPerTask
  <2>4. /\ task_queue' = ArrayPush(task_queue, id) /\ pc' = "yielders"
        /\ YIELDERS' = Tail(YIELDERS)
        /\ UNCHANGED << tasks, spawn_queue, parked, current >>
    BY <1>10, <2>3 DEF WakeYielder, WakeTask
  <2>5. Range(task_queue') = Range(task_queue) \cup {id}
    BY <2>1, <2>3, <2>4, PushFacts DEF TypeOK
  <2>6. Alive' = Alive
    BY <2>4 DEF Alive
  <2> QED BY <2>1, <2>4, <2>5, <2>6 DEF FitInv, NoLostTask, Tokens
<1>11. CASE SpawnDone \/ ReadyDone \/ IdleCheck \/ Interrupt \/ YieldersDone
            \/ UNCHANGED vars
  <2>1. /\ UNCHANGED << tasks, spawn_queue, task_queue, YIELDERS, parked,
                        current >>
        /\ pc' # "panicked"
    BY <1>11 DEF SpawnDone, ReadyDone, IdleCheck, Interrupt, YieldersDone,
                 vars, FitInv, NoLostTask
  <2>2. Alive' = Alive
    BY <2>1 DEF Alive
  <2> QED BY <2>1, <2>2 DEF FitInv, NoLostTask, Tokens
<1> QED
  BY <1>3, <1>4, <1>5, <1>6, <1>7, <1>8, <1>9, <1>10, <1>11 DEF Next

(* When at most QueueCap tasks (100 in the code) are alive or waiting to   *)
(* be adopted, yield_once, wake_task and spawn never meet a full queue: no *)
(* task is forgotten and no expect() panics.                               *)
THEOREM NothingLost ==
    ASSUME MaxLive <= QueueCap
    PROVE  Spec => []NoLostTask
<1>1. IInv /\ FitInv => NoLostTask
  BY DEF FitInv
<1>2. Init => IInv /\ FitInv
  BY InitIInv, InitFitInv
<1>3. IInv /\ FitInv /\ [Next]_vars => (IInv /\ FitInv)'
  BY NextIInv, NextFitInv
<1> QED BY <1>1, <1>2, <1>3, PTL DEF Spec

-----------------------------------------------------------------------------
(* The executor implements the scheduler. *)

(* The ids that wait in a queue for their turn. *)
Queued == Range(spawn_queue) \cup Range(task_queue) \cup Range(YIELDERS)

(* What tells the state of a task, in the form the steps below use. *)
LEMMA StateKept ==
    ASSUME NEW id \in TaskIds, id = current <=> id = current',
           id \in Queued <=> id \in Queued', id \in parked <=> id \in parked',
           id \in tasks \/ id \in Queued <=> id \in tasks' \/ id \in Queued',
           id < next_id <=> id < next_id'
    PROVE  StateOf(id)' = StateOf(id)
BY DEF StateOf, Queued

LEMMA StatesKept ==
    ASSUME current' = current, Queued' = Queued, parked' = parked,
           tasks' \cup Queued = tasks \cup Queued, next_id' = next_id
    PROVE  TaskState' = TaskState
<1>1. \A id \in TaskIds : StateOf(id)' = StateOf(id)
  BY StateKept
<1> QED BY <1>1 DEF TaskState

(* One task's state changes. *)
LEMMA OneStateChanges ==
    ASSUME NEW t \in TaskIds, NEW x, StateOf(t)' = x,
           \A id \in TaskIds : id # t => StateOf(id)' = StateOf(id)
    PROVE  TaskState' = [TaskState EXCEPT ![t] = x]
<1>1. TaskState' = [id \in TaskIds |-> IF id = t THEN x ELSE StateOf(id)]
  BY DEF TaskState
<1>2. [TaskState EXCEPT ![t] = x] = [id \in TaskIds |-> IF id = t THEN x ELSE StateOf(id)]
  BY DEF TaskState
<1> QED BY <1>1, <1>2

(* A task is running exactly when there is a current one. *)
LEMMA BusyIsCurrent ==
    ASSUME IInv
    PROVE  Sched!Busy <=> current # NoTask
<1>1. \A id \in TaskIds : TaskState[id] = "running" <=> id = current
  BY DEF TaskState, StateOf
<1>2. current \in TaskIds \cup {NoTask} /\ NoTask \notin TaskIds
  BY NoTaskFacts DEF IInv, TypeOK
<1> QED BY <1>1, <1>2 DEF Sched!Busy

(* A push to a queue with room adds the id, one of the three a time. *)
LEMMA PushRange ==
    ASSUME NEW q \in Seq(TaskIds), NEW e \in TaskIds, ~IsFull(q), Len(q) <= QueueCap
    PROVE  Range(ArrayPush(q, e)) = Range(q) \cup {e}
BY PushFacts

LEMMA SchedulerStep ==
    ASSUME IInv, FitInv, FitInv', MaxLive <= QueueCap, [Next]_vars
    PROVE  [Sched!Next]_TaskState
<1> SUFFICES Sched!Next \/ TaskState' = TaskState
  OBVIOUS
<1>1. /\ pc # "panicked" /\ pc' # "panicked" /\ NoTask \notin TaskIds
      /\ tasks \subseteq TaskIds /\ parked \subseteq TaskIds
      /\ spawn_queue \in Seq(TaskIds) /\ task_queue \in Seq(TaskIds)
      /\ YIELDERS \in Seq(TaskIds)
      /\ Len(spawn_queue) <= QueueCap /\ Len(task_queue) <= QueueCap
      /\ Len(YIELDERS) <= QueueCap
  BY NoTaskFacts DEF FitInv, NoLostTask, IInv, TypeOK
<1>2. CASE Spawn
  <2>1. /\ Head(spawn_queue) \in TaskIds
        /\ Range(spawn_queue) = Range(Tail(spawn_queue)) \cup {Head(spawn_queue)}
    BY <1>1, <1>2, PopFacts DEF Spawn
  <2>2. ~IsFull(task_queue) /\ task_queue' = ArrayPush(task_queue, Head(spawn_queue))
    BY <1>1, <1>2 DEF Spawn, WakeTask
  <2>3. Range(task_queue') = Range(task_queue) \cup {Head(spawn_queue)}
    BY <1>1, <2>1, <2>2, PushRange
  <2>4. /\ spawn_queue' = Tail(spawn_queue) /\ tasks' = tasks \cup {Head(spawn_queue)}
        /\ UNCHANGED << next_id, YIELDERS, parked, current >>
    BY <1>2 DEF Spawn
  <2>5. Queued' = Queued /\ Head(spawn_queue) \in Queued
    BY <2>1, <2>3, <2>4 DEF Queued
  <2> QED BY <2>4, <2>5, StatesKept
<1>3. CASE SpawnDone \/ ReadyDone \/ IdleCheck \/ Interrupt \/ YieldersDone
              \/ UNCHANGED vars
  <2>1. UNCHANGED << next_id, tasks, spawn_queue, task_queue, YIELDERS, parked, current >>
    BY <1>3 DEF SpawnDone, ReadyDone, IdleCheck, Interrupt, YieldersDone, vars
  <2> QED BY <2>1, StatesKept DEF Queued
<1>4. CASE PopTask
  <2>1. PICK t \in TaskIds : t = Head(task_queue)
    BY <1>1, <1>4, PopFacts DEF PopTask
  <2>2. /\ Range(task_queue) = Range(Tail(task_queue)) \cup {t}
        /\ t \notin Range(Tail(task_queue)) /\ IsInjective(task_queue)
    BY <1>1, <1>4, <2>1, PopFacts DEF PopTask, IInv, OneTokenPerTask
  <2>3. /\ t \in tasks /\ t \notin Range(YIELDERS) /\ t \notin Range(spawn_queue)
        /\ t # current /\ current = NoTask
    BY <1>1, <1>4, <2>2 DEF PopTask, IInv, OneTokenPerTask, Tokens, FreshInv, CurrentInv
  <2>4. /\ task_queue' = Tail(task_queue) /\ current' = t
        /\ UNCHANGED << next_id, tasks, spawn_queue, YIELDERS, parked >>
    BY <1>4, <2>1, <2>3 DEF PopTask
  <2>5. Queued' = Queued \ {t} /\ t \in Queued
    BY <2>2, <2>3, <2>4 DEF Queued
  <2>6. StateOf(t)' = "running" /\ StateOf(t) = "ready"
    BY <2>3, <2>4, <2>5 DEF StateOf, Queued
  <2>7. ASSUME NEW id \in TaskIds, id # t
        PROVE  StateOf(id)' = StateOf(id)
    BY <1>1, <2>3, <2>4, <2>5, <2>7, StateKept
  <2>8. TaskState' = [TaskState EXCEPT ![t] = "running"] /\ TaskState[t] = "ready"
    BY <2>6, <2>7, OneStateChanges DEF TaskState
  <2>9. ~Sched!Busy
    BY <2>3, BusyIsCurrent
  <2>10. Sched!Dispatch(t)
    BY <2>8, <2>9 DEF Sched!Dispatch, Sched!Becomes
  <2> QED BY <2>10 DEF Sched!Next
<1>5. CASE SpawnerRun
  <2>1. PICK t \in TaskIds : t = next_id /\ t \in Nat /\ next_id' = t + 1
    BY <1>5, BootAssumption DEF SpawnerRun, IInv, TypeOK, TaskIds
  <2>2. /\ spawn_queue' = ArrayPush(spawn_queue, t) /\ pc = "poll"
        /\ Cardinality(Alive) < MaxLive
        /\ UNCHANGED << tasks, task_queue, YIELDERS, parked, current >>
    BY <1>5, <2>1 DEF SpawnerRun
  <2>3. t \notin Range(spawn_queue) /\ t \notin tasks
    BY <2>1 DEF IInv, FreshInv, Alive
  <2>4. ~IsFull(spawn_queue)
    <3>1. IsFiniteSet(Alive) /\ Range(spawn_queue) \subseteq Alive
      BY AliveFinite DEF IInv, Alive
    <3>2. Len(spawn_queue) \in Nat /\ Len(spawn_queue) <= Cardinality(Alive)
      BY <1>1, <3>1, DistinctLen DEF IInv, FreshInv
    <3>3. Cardinality(Alive) \in Nat
      BY <3>1, FS_CardinalityType
    <3> QED BY <2>2, <3>2, <3>3, BootAssumption, QueueAssumption DEF IsFull
  <2>5. Range(spawn_queue') = Range(spawn_queue) \cup {t}
    BY <1>1, <2>1, <2>2, <2>4, PushRange
  <2>6. current # NoTask /\ current \in tasks /\ t # current
    BY <2>2, <2>3 DEF IInv, CurrentInv, OneTokenPerTask, Tokens
  <2>7. /\ t \notin Queued /\ t \notin parked /\ Queued' = Queued \cup {t}
    BY <2>2, <2>3, <2>5 DEF Queued, IInv, OneTokenPerTask, Tokens
  <2>8. ~(t < next_id)
    BY <2>1
  <2>9. StateOf(t)' = "ready" /\ StateOf(t) = "new"
    BY <2>2, <2>3, <2>6, <2>7, <2>8 DEF StateOf, Queued
  <2>10. ASSUME NEW id \in TaskIds, id # t
         PROVE  StateOf(id)' = StateOf(id)
    <3>1. id < next_id <=> id < next_id'
      BY <2>1, <2>10, BootAssumption DEF TaskIds
    <3> QED BY <2>2, <2>7, <2>10, <3>1, StateKept
  <2>11. TaskState' = [TaskState EXCEPT ![t] = "ready"] /\ TaskState[t] = "new"
    BY <2>9, <2>10, OneStateChanges DEF TaskState
  <2>12. Sched!Create(t)
    BY <2>6, <2>11, BusyIsCurrent DEF Sched!Create, Sched!Becomes
  <2> QED BY <2>12 DEF Sched!Next
<1>6. ASSUME NEW t \in TaskIds, WakeParked(t)
      PROVE  Sched!Next
  <2>1. /\ t \in parked /\ parked' = parked \ {t} /\ pc \in {"poll", "pollwake"}
        /\ task_queue' = ArrayPush(task_queue, t) /\ ~IsFull(task_queue)
        /\ UNCHANGED << next_id, tasks, spawn_queue, YIELDERS, current >>
    BY <1>1, <1>6 DEF WakeParked, WakeTask
  <2>2. Range(task_queue') = Range(task_queue) \cup {t}
    BY <1>1, <2>1, PushRange
  <2>3. t \notin Queued /\ t # current /\ current # NoTask /\ t \in tasks
    BY <2>1 DEF Queued, IInv, OneTokenPerTask, Tokens, FreshInv, CurrentInv
  <2>4. Queued' = Queued \cup {t}
    BY <2>1, <2>2 DEF Queued
  <2>5. StateOf(t)' = "ready" /\ StateOf(t) = "waiting"
    BY <2>1, <2>3, <2>4 DEF StateOf, Queued
  <2>6. ASSUME NEW id \in TaskIds, id # t
        PROVE  StateOf(id)' = StateOf(id)
    BY <2>1, <2>4, <2>6, StateKept
  <2>7. TaskState' = [TaskState EXCEPT ![t] = "ready"] /\ TaskState[t] = "waiting"
    BY <2>5, <2>6, OneStateChanges DEF TaskState
  <2>8. Sched!Wake(t)
    BY <2>3, <2>7, BusyIsCurrent DEF Sched!Wake, Sched!Becomes
  <2> QED BY <2>8 DEF Sched!Next
<1>7. CASE PollReady \/ PollYield \/ PollPark
  <2>1. PICK t \in TaskIds : t = current /\ t # NoTask /\ t \in tasks
    BY <1>1, <1>7 DEF PollReady, PollYield, PollPark, IInv, TypeOK, CurrentInv,
                      OneTokenPerTask, Tokens
  <2>2. t \notin Queued /\ t \notin parked /\ t < next_id
    BY <2>1 DEF Queued, IInv, OneTokenPerTask, FreshInv, Alive
  <2>3. StateOf(t) = "running" /\ TaskState[t] = "running" /\ current' = NoTask
        /\ next_id' = next_id
    BY <1>7, <2>1 DEF StateOf, TaskState, PollReady, PollYield, PollPark
  <2>4. CASE PollReady
    <3>1. /\ tasks' = tasks \ {t} /\ parked' = parked /\ Queued' = Queued
      BY <2>1, <2>4 DEF PollReady, Queued
    <3>2. StateOf(t)' = "done"
      BY <1>1, <2>1, <2>2, <2>3, <3>1 DEF StateOf, Queued
    <3>3. ASSUME NEW id \in TaskIds, id # t
          PROVE  StateOf(id)' = StateOf(id)
      BY <1>1, <2>1, <2>3, <3>1, <3>3, StateKept
    <3>4. Sched!Finish(t)
      BY <2>3, <3>2, <3>3, OneStateChanges DEF Sched!Finish, Sched!Becomes
    <3> QED BY <3>4 DEF Sched!Next
  <2>5. CASE PollYield
    <3>1. /\ YIELDERS' = ArrayPush(YIELDERS, t)
          /\ UNCHANGED << tasks, spawn_queue, task_queue, parked >>
      BY <2>1, <2>5 DEF PollYield
    <3>2. ~IsFull(YIELDERS)
      <4> SUFFICES ASSUME IsFull(YIELDERS)
                   PROVE  FALSE
        OBVIOUS
      <4>1. YIELDERS' = YIELDERS
        BY <3>1 DEF ArrayPush
      <4>2. t \in Tokens'
        BY <2>1, <3>1 DEF FitInv, NoLostTask
      <4> QED BY <2>1, <2>2, <2>3, <3>1, <4>1, <4>2 DEF Tokens, Queued
    <3>3. Range(YIELDERS') = Range(YIELDERS) \cup {t}
      BY <1>1, <3>1, <3>2, PushRange
    <3>4. Queued' = Queued \cup {t}
      BY <3>1, <3>3 DEF Queued
    <3>5. StateOf(t)' = "ready"
      BY <1>1, <2>3, <3>4 DEF StateOf, Queued
    <3>6. ASSUME NEW id \in TaskIds, id # t
          PROVE  StateOf(id)' = StateOf(id)
      BY <1>1, <2>1, <2>3, <3>1, <3>4, <3>6, StateKept
    <3>7. Sched!Yield(t)
      BY <2>3, <3>5, <3>6, OneStateChanges DEF Sched!Yield, Sched!Becomes
    <3> QED BY <3>7 DEF Sched!Next
  <2>6. CASE PollPark
    <3>1. /\ tasks' = tasks /\ parked' = parked \cup {t} /\ Queued' = Queued
      BY <2>1, <2>6 DEF PollPark, Queued
    <3>2. StateOf(t)' = "waiting"
      BY <1>1, <2>1, <2>2, <2>3, <3>1 DEF StateOf, Queued
    <3>3. ASSUME NEW id \in TaskIds, id # t
          PROVE  StateOf(id)' = StateOf(id)
      BY <1>1, <2>1, <2>3, <3>1, <3>3, StateKept
    <3>4. Sched!Wait(t)
      BY <2>3, <3>2, <3>3, OneStateChanges DEF Sched!Wait, Sched!Becomes
    <3> QED BY <3>4 DEF Sched!Next
  <2> QED BY <1>7, <2>4, <2>5, <2>6
<1>8. CASE WakeYielder
  <2>1. /\ Head(YIELDERS) \in TaskIds
        /\ Range(YIELDERS) = Range(Tail(YIELDERS)) \cup {Head(YIELDERS)}
    BY <1>1, <1>8, PopFacts DEF WakeYielder
  <2>2. /\ ~IsFull(task_queue) /\ task_queue' = ArrayPush(task_queue, Head(YIELDERS))
        /\ YIELDERS' = Tail(YIELDERS)
        /\ UNCHANGED << next_id, tasks, spawn_queue, parked, current >>
    BY <1>1, <1>8 DEF WakeYielder, WakeTask
  <2>3. Range(task_queue') = Range(task_queue) \cup {Head(YIELDERS)}
    BY <1>1, <2>1, <2>2, PushRange
  <2>4. Queued' = Queued
    BY <2>1, <2>2, <2>3 DEF Queued
  <2> QED BY <2>2, <2>4, StatesKept
<1> QED
  BY <1>2, <1>3, <1>4, <1>5, <1>6, <1>7, <1>8 DEF Next

(* When run() starts, the boot tasks are ready and nothing runs. *)
LEMMA SchedulerInit == Init => Sched!Init
<1> SUFFICES ASSUME Init PROVE Sched!Init
  OBVIOUS
<1>1. \A id \in TaskIds : StateOf(id) \in {"new", "ready"}
  <2> SUFFICES ASSUME NEW id \in TaskIds
               PROVE  StateOf(id) \in {"new", "ready"}
    OBVIOUS
  <2>1. id # current /\ id \notin parked /\ id \notin tasks
    BY NoTaskFacts DEF Init
  <2>2. id < next_id => id \in Range(spawn_queue)
    <3> SUFFICES ASSUME id < next_id
                 PROVE  id \in Range(spawn_queue)
      OBVIOUS
    <3>1. id + 1 \in 1 .. BootTasks /\ (id + 1) - 1 = id
      BY BootAssumption DEF Init, TaskIds
    <3>2. id + 1 \in DOMAIN spawn_queue /\ spawn_queue[id + 1] = id
      BY <3>1 DEF Init
    <3> QED BY <3>2 DEF Range
  <2> QED BY <2>1, <2>2 DEF StateOf
<1> QED BY <1>1 DEF Sched!Init, TaskState

(* As long as the live tasks fit in the queues, the executor is a          *)
(* scheduler: at most one task runs, a task is polled only if it was       *)
(* created, yielded or woken since its last poll, waiting tasks run only   *)
(* when they were woken, and no task vanishes but by returning Ready.      *)
THEOREM ExecutorRefinesScheduler ==
    ASSUME MaxLive <= QueueCap
    PROVE  Spec => ImplementsScheduler
<1>1. Init => IInv /\ FitInv
  BY InitIInv, InitFitInv
<1>2. IInv /\ FitInv /\ [Next]_vars => (IInv /\ FitInv)'
  BY NextIInv, NextFitInv
<1>3. IInv /\ FitInv /\ FitInv' /\ [Next]_vars => [Sched!Next]_TaskState
  BY SchedulerStep
<1> QED
  BY <1>1, <1>2, <1>3, SchedulerInit, PTL DEF Spec, ImplementsScheduler, Sched!Spec

-----------------------------------------------------------------------------
(* A queue in which a stands before b. *)
Before(s, a, b) ==
    \E m, n \in 1 .. Len(s) : m < n /\ s[m] = a /\ s[n] = b

(* What a push does to that order. *)
LEMMA BeforeAppend ==
    ASSUME NEW S, NEW s \in Seq(S), NEW e \in S, NEW a, NEW b
    PROVE  /\ Before(s, a, b) => Before(Append(s, e), a, b)
           /\ a \in Range(s) => Before(Append(s, e), a, e)
<1>1. /\ Len(s) \in Nat /\ DOMAIN s = 1 .. Len(s)
      /\ Len(Append(s, e)) = Len(s) + 1
      /\ \A k \in 1 .. Len(s) : Append(s, e)[k] = s[k]
      /\ Append(s, e)[Len(s) + 1] = e
  BY AppendProperties, LenProperties
<1>2. ASSUME Before(s, a, b) PROVE Before(Append(s, e), a, b)
  <2>1. PICK m \in 1 .. Len(s), n \in 1 .. Len(s) : m < n /\ s[m] = a /\ s[n] = b
    BY <1>2 DEF Before
  <2>2. m \in 1 .. Len(s) + 1 /\ n \in 1 .. Len(s) + 1
    BY <1>1
  <2> QED BY <1>1, <2>1, <2>2 DEF Before
<1>3. ASSUME a \in Range(s) PROVE Before(Append(s, e), a, e)
  <2>1. PICK m \in 1 .. Len(s) : s[m] = a
    BY <1>1, <1>3 DEF Range
  <2>2. m \in 1 .. Len(s) + 1 /\ Len(s) + 1 \in 1 .. Len(s) + 1 /\ m < Len(s) + 1
    BY <1>1
  <2> QED BY <1>1, <2>1, <2>2 DEF Before
<1> QED BY <1>2, <1>3

(* What a pop does to it: first in, first out. *)
LEMMA BeforeTail ==
    ASSUME NEW S, NEW s \in Seq(S), s # <<>>, IsInjective(s),
           NEW a, NEW b, Before(s, a, b)
    PROVE  /\ Head(s) # b
           /\ Head(s) = a => b \in Range(Tail(s))
           /\ Head(s) # a => Before(Tail(s), a, b)
<1>1. /\ Len(s) \in Nat /\ Len(s) > 0 /\ DOMAIN s = 1 .. Len(s)
      /\ Len(Tail(s)) = Len(s) - 1 /\ DOMAIN Tail(s) = 1 .. Len(s) - 1
      /\ \A k \in 1 .. Len(s) - 1 : Tail(s)[k] = s[k + 1]
      /\ Head(s) = s[1]
  BY HeadTailProperties, LenProperties, EmptySeq
<1>2. PICK m \in 1 .. Len(s), n \in 1 .. Len(s) : m < n /\ s[m] = a /\ s[n] = b
  BY DEF Before
<1>3. \A j, k \in 1 .. Len(s) : s[j] = s[k] => j = k
  BY <1>1 DEF IsInjective
<1>4. n - 1 \in 1 .. Len(s) - 1 /\ Tail(s)[n - 1] = b
  BY <1>1, <1>2
<1>5. Head(s) # b
  <2>1. 1 \in 1 .. Len(s) /\ n # 1
    BY <1>1, <1>2
  <2> QED BY <1>1, <1>2, <1>3, <2>1
<1>6. b \in Range(Tail(s))
  BY <1>1, <1>4 DEF Range
<1>7. ASSUME Head(s) # a PROVE Before(Tail(s), a, b)
  <2>1. m # 1
    BY <1>1, <1>2, <1>7
  <2>2. m - 1 \in 1 .. Len(s) - 1 /\ Tail(s)[m - 1] = a /\ m - 1 < n - 1
    BY <1>1, <1>2, <2>1
  <2> QED BY <1>1, <1>4, <2>2 DEF Before
<1> QED BY <1>5, <1>6, <1>7

(* Both are in the queue. *)
LEMMA BeforeRange ==
    ASSUME NEW S, NEW s \in Seq(S), NEW a, NEW b, Before(s, a, b)
    PROVE  a \in Range(s) /\ b \in Range(s)
BY LenProperties DEF Before, Range

-----------------------------------------------------------------------------
(* The tasks that a drive() spawned have ids of their own. *)
HelperInv ==
    \A g \in Gpus :
        /\ poller[g] # NoTask => poller[g] >= BootTasks /\ poller[g] < next_id
        /\ transfer[g] # NoTask => transfer[g] >= BootTasks /\ transfer[g] < next_id

(* run() adopts the spawned tasks when it has woken all yielders. *)
TurnInv == BootTasks <= next_id /\ (pc = "spawn" => YIELDERS = <<>>)

(* drive() holds no mutex until its poller is in the spawn queue. *)
SpawnedInv ==
    \A g \in Gpus : stage[g] = "spawned" =>
        pc = "poll" /\ current = g /\ poller[g] \in Range(spawn_queue)

(* The task a is polled before the task b: b is still to be adopted and a  *)
(* has a token, or a is polled now, or a stands before b.                  *)
PolledFirst(a, b) ==
    \/ /\ a \in Range(YIELDERS) \cup Range(task_queue) \cup {current}
       /\ b \in Range(spawn_queue)
    \/ a = current /\ b \in Range(task_queue)
    \/ Before(task_queue, a, b)

(* A drive() that holds the mutex is polled before its poller. *)
LockInv == \A g \in Gpus : stage[g] = "locked" => PolledFirst(g, poller[g])

(* A GPU task is a boot task and not a helper. *)
LEMMA GpuIds ==
    ASSUME NEW g \in Gpus
    PROVE  g \in TaskIds /\ g \in Nat /\ g < BootTasks /\ g # NoTask
BY GpuTasksAssumption, BootAssumption DEF TaskIds, NoTask

(* The steps of the system with the GPU drivers are steps of the executor. *)
LEMMA GpuNextIsNext ==
    ASSUME IInv, GpuTypeOK, [GpuNext]_allvars
    PROVE  [Next]_vars
<1>1. CASE Loop
  BY <1>1 DEF Loop, Next
<1>2. CASE Other
  <2>1. parked \subseteq TaskIds
    BY DEF IInv, TypeOK
  <2> QED BY <1>2, <2>1 DEF Other, Next
<1>3. ASSUME NEW g \in Gpus,
             Drive(g) \/ TransferRequest(g) \/ PollerWake(g) \/ PollerYield(g)
      PROVE  [Next]_vars
  <2>1. CASE Drive(g)
    BY <2>1 DEF Drive, DriveSpawnPoller, DriveFill, DriveUnlock, DriveRequest,
                DriveYield, DriveSpawnTransfer, Next
  <2>2. CASE TransferRequest(g)
    BY <2>2 DEF TransferRequest, Next
  <2>3. CASE PollerWake(g)
    <3>1. {g, transfer[g]} \ {NoTask} \subseteq TaskIds
      BY GpuIds DEF GpuTypeOK
    <3> QED BY <2>3, <3>1 DEF PollerWake, Next
  <2>4. CASE PollerYield(g)
    BY <2>4 DEF PollerYield, Next
  <2> QED BY <1>3, <2>1, <2>2, <2>3, <2>4
<1>4. CASE UNCHANGED allvars
  BY <1>4 DEF allvars
<1> QED BY <1>1, <1>2, <1>3, <1>4 DEF GpuNext

(* Only drive() itself acts while it is polled. *)
LEMMA DriveActs ==
    ASSUME IInv, GpuTypeOK, HelperInv, NEW g \in Gpus, current = g, GpuNext
    PROVE  Drive(g)
<1>1. g \in Nat /\ g < BootTasks /\ g # NoTask
  BY GpuIds
<1>2. \A h \in Gpus : g # poller[h] /\ g # transfer[h]
  <2> SUFFICES ASSUME NEW h \in Gpus PROVE g # poller[h] /\ g # transfer[h]
    OBVIOUS
  <2>1. poller[h] # NoTask => g # poller[h]
    BY <1>1, BootAssumption DEF HelperInv
  <2>2. transfer[h] # NoTask => g # transfer[h]
    BY <1>1, BootAssumption DEF HelperInv
  <2> QED BY <1>1, <2>1, <2>2
<1>3. pc \in {"poll", "pollwake", "panicked"}
  BY <1>1 DEF IInv, CurrentInv
<1>4. ~Loop
  BY <1>3 DEF Loop, Spawn, SpawnDone, PopTask, ReadyDone, IdleCheck, Interrupt,
              WakeYielder, YieldersDone
<1>5. ~Other
  BY DEF Other, GpuTasks
<1>6. ASSUME NEW h \in Gpus,
             Drive(h) \/ TransferRequest(h) \/ PollerWake(h) \/ PollerYield(h)
      PROVE  Drive(g)
  <2>1. ~TransferRequest(h) /\ ~PollerWake(h) /\ ~PollerYield(h)
    BY <1>2 DEF TransferRequest, PollerWake, PollerYield, Polls
  <2>2. Drive(h) => h = g
    BY DEF Drive, DriveSpawnPoller, DriveFill, DriveUnlock, DriveRequest,
           DriveYield, DriveSpawnTransfer, Polls
  <2> QED BY <1>6, <2>1, <2>2
<1> QED BY <1>4, <1>5, <1>6 DEF GpuNext

(* The variables of the GPU drivers keep their types. *)
LEMMA GpuTypeStep ==
    ASSUME IInv, GpuTypeOK, [GpuNext]_allvars
    PROVE  GpuTypeOK'
<1>1. TypeOK'
  BY GpuNextIsNext, NextIInv DEF IInv
<1>2. SpawnerRun => next_id \in TaskIds
  BY BootAssumption DEF SpawnerRun, IInv, TypeOK, TaskIds
<1>3. CASE UNCHANGED gpuvars
  BY <1>1, <1>3 DEF gpuvars, GpuTypeOK
<1>4. ASSUME NEW g \in Gpus, Drive(g) PROVE GpuTypeOK'
  <2>1. CASE DriveSpawnPoller(g)
    BY <1>1, <1>2, <2>1 DEF DriveSpawnPoller, GpuTypeOK
  <2>2. CASE DriveFill(g)
    BY <1>1, <2>2 DEF DriveFill, GpuTypeOK
  <2>3. CASE DriveUnlock(g)
    BY <1>1, <2>3 DEF DriveUnlock, GpuTypeOK
  <2>4. CASE DriveRequest(g) \/ DriveYield(g)
    BY <1>3, <2>4 DEF DriveRequest, DriveYield
  <2>5. CASE DriveSpawnTransfer(g)
    BY <1>1, <1>2, <2>5 DEF DriveSpawnTransfer, GpuTypeOK
  <2> QED BY <1>4, <2>1, <2>2, <2>3, <2>4, <2>5 DEF Drive
<1>5. ASSUME NEW g \in Gpus, PollerYield(g) PROVE GpuTypeOK'
  BY <1>1, <1>5 DEF PollerYield, GpuTypeOK
<1> QED
  BY <1>3, <1>4, <1>5 DEF GpuNext, Loop, Other, TransferRequest, PollerWake,
                          allvars

(* At boot no drive() has run. *)
LEMMA GpuInitType == GpuInit => IInv /\ GpuTypeOK
<1> SUFFICES ASSUME GpuInit PROVE IInv /\ GpuTypeOK
  OBVIOUS
<1>1. IInv
  BY InitIInv DEF GpuInit
<1> QED BY <1>1 DEF GpuInit, GpuTypeOK, IInv

(* With any number of GPU drivers on it the executor still never holds two *)
(* tokens of a task, the drivers' stages and helpers are what they should  *)
(* be, and a mutex is held across an await exactly by a drive() in its     *)
(* start-up block.                                                         *)
THEOREM GpuTypes == GpuSpec => [](GpuTypeOK /\ OneTokenPerTask)
<1>1. IInv /\ GpuTypeOK /\ [GpuNext]_allvars => (IInv /\ GpuTypeOK)'
  BY GpuNextIsNext, NextIInv, GpuTypeStep
<1>2. IInv /\ GpuTypeOK => GpuTypeOK /\ OneTokenPerTask
  BY DEF IInv
<1> QED BY <1>1, <1>2, GpuInitType, PTL DEF GpuSpec

(* The same with any number of GPU drivers among the tasks, none of which  *)
(* can break what the executor promises the others.                        *)
THEOREM GpusRunOnScheduler ==
    ASSUME MaxLive <= QueueCap
    PROVE  GpuSpec => ImplementsScheduler
<1>1. GpuInit => IInv /\ GpuTypeOK /\ FitInv /\ Sched!Init
  BY GpuInitType, InitFitInv, SchedulerInit DEF GpuInit
<1>2. IInv /\ GpuTypeOK /\ FitInv /\ [GpuNext]_allvars
         => (IInv /\ GpuTypeOK /\ FitInv)'
  BY GpuNextIsNext, NextIInv, NextFitInv, GpuTypeStep
<1>3. IInv /\ GpuTypeOK /\ FitInv /\ FitInv' /\ [GpuNext]_allvars
         => [Sched!Next]_TaskState
  BY GpuNextIsNext, SchedulerStep
<1> QED
  BY <1>1, <1>2, <1>3, PTL DEF GpuSpec, ImplementsScheduler, Sched!Spec

-----------------------------------------------------------------------------
(* The ids of the helpers are fresh. *)
LEMMA HelperStep ==
    ASSUME IInv, GpuTypeOK, TurnInv, HelperInv, [GpuNext]_allvars
    PROVE  HelperInv'
<1>1. [Next]_vars
  BY GpuNextIsNext
<1>2. next_id \in Nat /\ next_id' \in Nat /\ next_id <= next_id' /\ BootTasks \in Nat
  <2>1. next_id \in Nat
    BY BootAssumption DEF IInv, TypeOK
  <2>2. next_id' = next_id \/ next_id' = next_id + 1
    BY <1>1 DEF Next, vars, Spawn, SpawnDone, PopTask, ReadyDone, SpawnerRun,
                WakeParked, PollReady, PollYield, PollPark, IdleCheck,
                Interrupt, WakeYielder, YieldersDone
  <2> QED BY <2>1, <2>2, BootAssumption
<1>3. SpawnerRun => next_id' = next_id + 1
  BY DEF SpawnerRun
<1>4. NoTask = MaxTasks /\ MaxTasks \in Nat
  BY BootAssumption DEF NoTask
<1>5. /\ poller \in [Gpus -> Nat] /\ transfer \in [Gpus -> Nat]
  BY <1>4 DEF GpuTypeOK, TaskIds
<1>6. CASE UNCHANGED << poller, transfer >>
  <2> SUFFICES ASSUME NEW g \in Gpus
               PROVE  /\ poller[g] # NoTask => poller[g] >= BootTasks /\ poller[g] < next_id'
                      /\ transfer[g] # NoTask => transfer[g] >= BootTasks /\ transfer[g] < next_id'
    BY <1>6 DEF HelperInv, NoTask
  <2>1. poller[g] \in Nat /\ transfer[g] \in Nat
    BY <1>5
  <2> QED BY <1>2, <2>1 DEF HelperInv
<1>7. ASSUME NEW g \in Gpus, DriveSpawnPoller(g) PROVE HelperInv'
  <2> SUFFICES ASSUME NEW h \in Gpus
               PROVE  /\ poller'[h] # NoTask => poller'[h] >= BootTasks /\ poller'[h] < next_id'
                      /\ transfer[h] # NoTask => transfer[h] >= BootTasks /\ transfer[h] < next_id'
    BY <1>7 DEF HelperInv, NoTask, DriveSpawnPoller
  <2>1. poller[h] \in Nat /\ transfer[h] \in Nat
    BY <1>5
  <2>2. poller'[h] = IF h = g THEN next_id ELSE poller[h]
    BY <1>7, <1>5 DEF DriveSpawnPoller
  <2>3. next_id' = next_id + 1
    BY <1>3, <1>7 DEF DriveSpawnPoller
  <2>4. poller'[h] # NoTask => poller'[h] >= BootTasks /\ poller'[h] < next_id'
    BY <1>2, <2>1, <2>2, <2>3 DEF HelperInv, TurnInv
  <2> QED BY <1>2, <2>1, <2>4 DEF HelperInv
<1>8. ASSUME NEW g \in Gpus, DriveSpawnTransfer(g) PROVE HelperInv'
  <2> SUFFICES ASSUME NEW h \in Gpus
               PROVE  /\ poller[h] # NoTask => poller[h] >= BootTasks /\ poller[h] < next_id'
                      /\ transfer'[h] # NoTask => transfer'[h] >= BootTasks /\ transfer'[h] < next_id'
    BY <1>8 DEF HelperInv, NoTask, DriveSpawnTransfer
  <2>1. poller[h] \in Nat /\ transfer[h] \in Nat
    BY <1>5
  <2>2. transfer'[h] = IF h = g THEN next_id ELSE transfer[h]
    BY <1>8, <1>5 DEF DriveSpawnTransfer
  <2>3. next_id' = next_id + 1
    BY <1>3, <1>8 DEF DriveSpawnTransfer
  <2>4. transfer'[h] # NoTask => transfer'[h] >= BootTasks /\ transfer'[h] < next_id'
    BY <1>2, <2>1, <2>2, <2>3 DEF HelperInv, TurnInv
  <2> QED BY <1>2, <2>1, <2>4 DEF HelperInv
<1> QED
  BY <1>6, <1>7, <1>8 DEF GpuNext, Loop, Other, TransferRequest, PollerWake,
     PollerYield, Drive, DriveFill, DriveUnlock, DriveRequest, DriveYield,
     allvars, gpuvars

(* run() comes back to the spawn queue with no yielder left. *)
LEMMA TurnStep ==
    ASSUME IInv, TurnInv, [Next]_vars
    PROVE  TurnInv'
<1>1. next_id \in Nat /\ BootTasks \in Nat
  BY BootAssumption DEF IInv, TypeOK
<1>2. next_id' = next_id \/ next_id' = next_id + 1
  BY DEF Next, vars, Spawn, SpawnDone, PopTask, ReadyDone, SpawnerRun,
         WakeParked, PollReady, PollYield, PollPark, IdleCheck, Interrupt,
         WakeYielder, YieldersDone
<1>3. BootTasks <= next_id'
  BY <1>1, <1>2 DEF TurnInv
<1>4. pc' = "spawn" => YIELDERS' = <<>>
  BY DEF TurnInv, Next, vars, Spawn, SpawnDone, PopTask, ReadyDone, SpawnerRun,
         WakeParked, PollReady, PollYield, PollPark, IdleCheck, Interrupt,
         WakeYielder, YieldersDone, WakeTask
<1> QED BY <1>3, <1>4 DEF TurnInv

(* The order is kept by every step of the executor, unless a's poll ends:  *)
(* both queues are first in, first out, a spawned task enters the task     *)
(* queue at its end, and only when all yielders are in it.                 *)
LEMMA PolledFirstStep ==
    ASSUME IInv, FitInv, TurnInv, MaxLive <= QueueCap, [Next]_vars,
           NEW a \in TaskIds, NEW b \in TaskIds, PolledFirst(a, b),
           current = a => current' = a
    PROVE  PolledFirst(a, b)'
<1> USE NoTaskFacts
<1>1. /\ spawn_queue \in Seq(TaskIds) /\ task_queue \in Seq(TaskIds)
      /\ YIELDERS \in Seq(TaskIds)
      /\ Len(spawn_queue) <= QueueCap /\ Len(task_queue) <= QueueCap
      /\ Len(YIELDERS) <= QueueCap
      /\ IsInjective(task_queue) /\ a # NoTask
  BY DEF IInv, TypeOK, OneTokenPerTask
<1>2. FitInv' /\ IInv'
  BY NextIInv, NextFitInv
<1>3. CASE UNCHANGED << spawn_queue, task_queue, YIELDERS, current >>
  BY <1>3 DEF PolledFirst, Before
<1>4. CASE Spawn
  <2>1. /\ pc = "spawn" /\ YIELDERS = <<>> /\ current = NoTask
    BY <1>4 DEF Spawn, TurnInv, IInv, CurrentInv
  <2>2. /\ Head(spawn_queue) \in TaskIds
        /\ Range(spawn_queue) = Range(Tail(spawn_queue)) \cup {Head(spawn_queue)}
    BY <1>1, <1>4, PopFacts DEF Spawn
  <2>3. Head(spawn_queue) \notin tasks
    BY <2>2 DEF IInv, FreshInv
  <2>4. pc' # "panicked"
    BY <1>2 DEF FitInv, NoLostTask
  <2>5. /\ task_queue' = Append(task_queue, Head(spawn_queue))
        /\ spawn_queue' = Tail(spawn_queue)
        /\ UNCHANGED << YIELDERS, current >>
    BY <1>4, <2>3, <2>4 DEF Spawn, WakeTask, ArrayPush
  <2>6. Range(YIELDERS) = {}
    BY <2>1 DEF Range
  <2>7. CASE Before(task_queue, a, b)
    BY SMTT(20), <1>1, <2>2, <2>5, <2>7, BeforeAppend DEF PolledFirst, Before
  <2>8. CASE a \in Range(task_queue) /\ b \in Range(spawn_queue)
    <3>1. CASE b = Head(spawn_queue)
      <4>1. Before(Append(task_queue, Head(spawn_queue)), a, b)
        BY <1>1, <2>2, <2>8, <3>1, BeforeAppend
      <4> QED BY <2>5, <4>1 DEF PolledFirst, Before
    <3>2. CASE b # Head(spawn_queue)
      <4>1. b \in Range(spawn_queue')
        BY <2>2, <2>5, <2>8, <3>2
      <4>2. a \in Range(task_queue')
        <5>1. ArrayPush(task_queue, Head(spawn_queue)) = task_queue' /\ ~IsFull(task_queue)
          BY <1>4, <2>3, <2>4 DEF Spawn, WakeTask
        <5>2. Range(ArrayPush(task_queue, Head(spawn_queue)))
                = Range(task_queue) \cup {Head(spawn_queue)}
          BY <1>1, <2>2, <5>1, PushFacts
        <5> QED BY <2>8, <5>1, <5>2
      <4> QED BY <4>1, <4>2 DEF PolledFirst
    <3> QED BY <3>1, <3>2
  <2> QED BY <1>1, <2>1, <2>6, <2>7, <2>8 DEF PolledFirst
<1>5. CASE PopTask
  <2>1. current = NoTask
    BY <1>5 DEF PopTask, IInv, CurrentInv
  <2>2. /\ Head(task_queue) \in TaskIds /\ task_queue # <<>>
        /\ Range(task_queue) = Range(Tail(task_queue)) \cup {Head(task_queue)}
    BY <1>1, <1>5, PopFacts DEF PopTask
  <2>3. Head(task_queue) \in tasks
    BY <2>2 DEF IInv, OneTokenPerTask, Tokens
  <2>4. /\ task_queue' = Tail(task_queue) /\ current' = Head(task_queue)
        /\ UNCHANGED << spawn_queue, YIELDERS >>
    BY <1>5, <2>3 DEF PopTask
  <2>5. CASE Before(task_queue, a, b)
    <3>1. /\ Head(task_queue) = a => b \in Range(Tail(task_queue))
          /\ Head(task_queue) # a => Before(Tail(task_queue), a, b)
      BY <1>1, <2>2, <2>5, BeforeTail
    <3> QED BY <2>4, <3>1 DEF PolledFirst, Before
  <2>6. CASE a \in Range(YIELDERS) \cup Range(task_queue) /\ b \in Range(spawn_queue)
    BY <2>2, <2>4, <2>6 DEF PolledFirst
  <2> QED BY <1>1, <2>1, <2>5, <2>6 DEF PolledFirst
<1>6. CASE SpawnerRun
  <2>1. /\ next_id \in TaskIds
        /\ spawn_queue' = ArrayPush(spawn_queue, next_id)
        /\ UNCHANGED << task_queue, YIELDERS, current >>
    BY <1>6, BootAssumption DEF SpawnerRun, IInv, TypeOK, TaskIds
  <2>2. Range(spawn_queue) \subseteq Range(spawn_queue')
    <3>1. CASE IsFull(spawn_queue)
      BY <2>1, <3>1 DEF ArrayPush
    <3>2. CASE ~IsFull(spawn_queue)
      BY <1>1, <2>1, <3>2, PushFacts
    <3> QED BY <3>1, <3>2
  <2> QED BY <2>1, <2>2 DEF PolledFirst, Before
<1>7. ASSUME NEW id \in TaskIds, WakeParked(id) PROVE PolledFirst(a, b)'
  <2>1. pc' # "panicked"
    BY <1>2 DEF FitInv, NoLostTask
  <2>2. /\ task_queue' = Append(task_queue, id) /\ ~IsFull(task_queue)
        /\ task_queue' = ArrayPush(task_queue, id)
        /\ UNCHANGED << spawn_queue, YIELDERS, current >>
    BY <1>7, <2>1 DEF WakeParked, WakeTask, ArrayPush
  <2>3. Range(task_queue') = Range(task_queue) \cup {id}
    BY <1>1, <2>2, PushFacts
  <2>4. Before(task_queue, a, b) => Before(task_queue', a, b)
    BY <1>1, <2>2, BeforeAppend
  <2> QED BY <2>2, <2>3, <2>4 DEF PolledFirst, Before
<1>8. CASE PollReady \/ PollPark
  <2>1. /\ current' = NoTask /\ UNCHANGED << spawn_queue, task_queue, YIELDERS >>
    BY <1>8 DEF PollReady, PollPark
  <2>2. current # a
    BY <1>1, <2>1
  <2> QED BY <2>1, <2>2 DEF PolledFirst, Before
<1>9. CASE PollYield
  <2>1. /\ current \in TaskIds /\ YIELDERS' = ArrayPush(YIELDERS, current)
        /\ current' = NoTask /\ UNCHANGED << spawn_queue, task_queue >>
    BY <1>9 DEF PollYield, IInv, TypeOK, CurrentInv
  <2>2. current # a
    BY <1>1, <2>1
  <2>3. Range(YIELDERS) \subseteq Range(YIELDERS')
    <3>1. CASE IsFull(YIELDERS)
      BY <2>1, <3>1 DEF ArrayPush
    <3>2. CASE ~IsFull(YIELDERS)
      BY <1>1, <2>1, <3>2, PushFacts
    <3> QED BY <3>1, <3>2
  <2> QED BY <2>1, <2>2, <2>3 DEF PolledFirst, Before
<1>10. CASE WakeYielder
  <2>1. /\ Head(YIELDERS) \in TaskIds
        /\ Range(YIELDERS) = Range(Tail(YIELDERS)) \cup {Head(YIELDERS)}
    BY <1>1, <1>10, PopFacts DEF WakeYielder
  <2>2. pc' # "panicked"
    BY <1>2 DEF FitInv, NoLostTask
  <2>3. /\ task_queue' = Append(task_queue, Head(YIELDERS)) /\ ~IsFull(task_queue)
        /\ task_queue' = ArrayPush(task_queue, Head(YIELDERS))
        /\ YIELDERS' = Tail(YIELDERS)
        /\ UNCHANGED << spawn_queue, current >>
    BY <1>10, <2>2 DEF WakeYielder, WakeTask, ArrayPush
  <2>4. Range(task_queue') = Range(task_queue) \cup {Head(YIELDERS)}
    <3>1. Range(ArrayPush(task_queue, Head(YIELDERS)))
            = Range(task_queue) \cup {Head(YIELDERS)}
      BY <1>1, <2>1, <2>3, PushFacts
    <3> QED BY <2>3, <3>1
  <2>5. Before(task_queue, a, b) => Before(task_queue', a, b)
    BY <1>1, <2>1, <2>3, BeforeAppend
  <2> QED BY <2>1, <2>3, <2>4, <2>5 DEF PolledFirst, Before
<1> QED
  BY <1>3, <1>4, <1>5, <1>6, <1>7, <1>8, <1>9, <1>10
     DEF Next, vars, SpawnDone, ReadyDone, IdleCheck, Interrupt, YieldersDone

-----------------------------------------------------------------------------
(* A poller that drive() spawned is in the spawn queue when drive() comes  *)
(* to the mutex.                                                           *)
LEMMA SpawnedStep ==
    ASSUME IInv, FitInv, GpuTypeOK, HelperInv, SpawnedInv, MaxLive <= QueueCap,
           [GpuNext]_allvars
    PROVE  SpawnedInv'
<1> SUFFICES ASSUME NEW g \in Gpus, stage'[g] = "spawned"
             PROVE  pc' = "poll" /\ current' = g /\ poller'[g] \in Range(spawn_queue')
  BY DEF SpawnedInv
<1>1. CASE UNCHANGED allvars
  BY <1>1 DEF allvars, vars, gpuvars, SpawnedInv
<1>2. CASE GpuNext /\ stage[g] = "spawned"
  <2>1. Drive(g)
    BY <1>2, DriveActs DEF SpawnedInv
  <2>2. DriveFill(g)
    BY <1>2, <2>1 DEF Drive, DriveSpawnPoller, DriveFill, DriveUnlock,
                      DriveRequest, DriveYield, DriveSpawnTransfer
  <2>3. stage'[g] = "locked"
    BY <2>2 DEF DriveFill, GpuTypeOK
  <2> QED BY <2>3
<1>3. CASE GpuNext /\ stage[g] # "spawned"
  <2>1. DriveSpawnPoller(g)
    <3>1. UNCHANGED gpuvars => FALSE
      BY <1>3 DEF gpuvars
    <3>2. ASSUME NEW h \in Gpus, Drive(h) PROVE DriveSpawnPoller(g)
      <4>1. CASE h # g
        <5>1. stage'[g] = stage[g]
          BY <3>2, <4>1 DEF Drive, DriveSpawnPoller, DriveFill, DriveUnlock,
             DriveRequest, DriveYield, DriveSpawnTransfer, gpuvars, GpuTypeOK
        <5> QED BY <1>3, <5>1
      <4>2. CASE h = g
        <5>1. DriveFill(g) => stage'[g] = "locked"
          BY DEF DriveFill, GpuTypeOK
        <5>2. DriveUnlock(g) => stage'[g] = "requests"
          BY DEF DriveUnlock, GpuTypeOK
        <5>3. DriveSpawnTransfer(g) => stage'[g] = "flushing"
          BY DEF DriveSpawnTransfer, GpuTypeOK
        <5> QED BY <3>1, <3>2, <4>2, <5>1, <5>2, <5>3
                DEF Drive, DriveRequest, DriveYield
      <4> QED BY <4>1, <4>2
    <3>3. \A h \in Gpus : ~PollerYield(h)
      BY <1>3 DEF PollerYield
    <3> QED BY <1>3, <3>1, <3>2, <3>3 DEF GpuNext, Loop, Other, TransferRequest,
                                          PollerWake
  <2>2. /\ pc' = "poll" /\ current' = g /\ poller'[g] = next_id
        /\ spawn_queue' = ArrayPush(spawn_queue, next_id) /\ next_id \in TaskIds
        /\ Cardinality(Alive) < MaxLive
    BY <2>1, BootAssumption
       DEF DriveSpawnPoller, SpawnerRun, Polls, GpuTypeOK, TypeOK, TaskIds
  <2>3. spawn_queue \in Seq(TaskIds) /\ Len(spawn_queue) <= QueueCap
        /\ IsInjective(spawn_queue) /\ Range(spawn_queue) \subseteq Alive
    BY DEF IInv, TypeOK, FreshInv, Alive
  <2>4. ~IsFull(spawn_queue)
    <3>1. IsFiniteSet(Alive) /\ Cardinality(Alive) \in Nat
      BY AliveFinite, FS_CardinalityType DEF IInv
    <3>2. Len(spawn_queue) \in Nat /\ Len(spawn_queue) <= Cardinality(Alive)
      BY <2>3, <3>1, DistinctLen
    <3> QED BY <2>2, <3>1, <3>2, BootAssumption, QueueAssumption DEF IsFull
  <2> QED BY <2>2, <2>3, <2>4, PushFacts
<1> QED BY <1>1, <1>2, <1>3

(* The drive() that holds the mutex remains ahead of its poller. *)
LEMMA LockStep ==
    ASSUME IInv, FitInv, GpuTypeOK, HelperInv, TurnInv, SpawnedInv, LockInv,
           MaxLive <= QueueCap, [GpuNext]_allvars
    PROVE  LockInv'
<1> SUFFICES ASSUME NEW g \in Gpus, stage'[g] = "locked"
             PROVE  PolledFirst(g, poller[g])'
  BY DEF LockInv
<1>1. [Next]_vars /\ IInv' /\ FitInv'
  BY GpuNextIsNext, NextIInv, NextFitInv
<1>2. g \in TaskIds /\ g # NoTask
  BY GpuIds
<1>3. CASE UNCHANGED allvars
  BY <1>3 DEF allvars, vars, gpuvars, LockInv, PolledFirst, Before
<1>4. CASE GpuNext /\ stage[g] = "locked"
  <2>1. current = g => FALSE
    <3> SUFFICES ASSUME current = g PROVE FALSE
      OBVIOUS
    <3>1. Drive(g)
      BY <1>4, DriveActs
    <3>2. DriveUnlock(g)
      BY <1>4, <3>1 DEF Drive, DriveSpawnPoller, DriveFill, DriveUnlock,
                        DriveRequest, DriveYield, DriveSpawnTransfer
    <3>3. stage'[g] = "requests"
      BY <3>2 DEF DriveUnlock, GpuTypeOK
    <3> QED BY <3>3
  <2>2. poller'[g] = poller[g]
    <3>1. \A h \in Gpus : DriveSpawnPoller(h) => h # g
      BY <2>1 DEF DriveSpawnPoller, Polls
    <3> QED BY <1>4, <3>1 DEF GpuNext, Loop, Other, Drive, DriveSpawnPoller,
          DriveFill, DriveUnlock, DriveRequest, DriveYield, DriveSpawnTransfer,
          TransferRequest, PollerWake, PollerYield, gpuvars, GpuTypeOK
  <2>3. PolledFirst(g, poller[g])
    BY <1>4 DEF LockInv
  <2>4. poller[g] \in TaskIds
    <3>1. Range(spawn_queue) \subseteq TaskIds /\ Range(task_queue) \subseteq TaskIds
      BY RangeOfSeq DEF IInv, TypeOK
    <3>2. Before(task_queue, g, poller[g]) => poller[g] \in Range(task_queue)
      BY BeforeRange DEF IInv, TypeOK
    <3> QED BY <2>3, <3>1, <3>2 DEF PolledFirst
  <2>5. \A b \in TaskIds : PolledFirst(g, b) => PolledFirst(g, b)'
    BY <1>1, <1>2, <2>1, PolledFirstStep
  <2> QED BY <2>2, <2>3, <2>4, <2>5 DEF PolledFirst, Before
<1>5. CASE GpuNext /\ stage[g] # "locked"
  <2>1. DriveFill(g)
    <3>1. UNCHANGED gpuvars => FALSE
      BY <1>5 DEF gpuvars
    <3>2. ASSUME NEW h \in Gpus, Drive(h) PROVE DriveFill(g)
      <4>1. CASE h # g
        <5>1. stage'[g] = stage[g]
          BY <3>2, <4>1 DEF Drive, DriveSpawnPoller, DriveFill, DriveUnlock,
             DriveRequest, DriveYield, DriveSpawnTransfer, gpuvars, GpuTypeOK
        <5> QED BY <1>5, <5>1
      <4>2. CASE h = g
        <5>1. DriveSpawnPoller(g) => stage'[g] = "spawned"
          BY DEF DriveSpawnPoller, GpuTypeOK
        <5>2. DriveUnlock(g) => stage'[g] = "requests"
          BY DEF DriveUnlock, GpuTypeOK
        <5>3. DriveSpawnTransfer(g) => stage'[g] = "flushing"
          BY DEF DriveSpawnTransfer, GpuTypeOK
        <5> QED BY <3>1, <3>2, <4>2, <5>1, <5>2, <5>3
                DEF Drive, DriveRequest, DriveYield
      <4> QED BY <4>1, <4>2
    <3>3. \A h \in Gpus : ~PollerYield(h)
      BY <1>5 DEF PollerYield
    <3> QED BY <1>5, <3>1, <3>2, <3>3 DEF GpuNext, Loop, Other, TransferRequest,
                                          PollerWake
  <2>2. /\ current = g /\ YIELDERS' = ArrayPush(YIELDERS, g)
        /\ UNCHANGED << spawn_queue, poller >>
        /\ poller[g] \in Range(spawn_queue)
    BY <2>1 DEF DriveFill, Polls, PollYield, SpawnedInv
  <2>3. /\ YIELDERS \in Seq(TaskIds) /\ Len(YIELDERS) <= QueueCap
        /\ IsInjective(YIELDERS) /\ g \notin Range(YIELDERS)
        /\ Range(YIELDERS) \subseteq Alive /\ g \in Alive
    BY <1>2, <2>2 DEF IInv, TypeOK, OneTokenPerTask, Tokens, Alive
  <2>4. ~IsFull(YIELDERS)
    BY <2>3, RoomForToken DEF IInv, FitInv, TypeOK
  <2>5. g \in Range(YIELDERS')
    BY <1>2, <2>2, <2>3, <2>4, PushFacts
  <2> QED BY <2>2, <2>5 DEF PolledFirst
<1> QED BY <1>3, <1>4, <1>5

(* So the poller, when it is polled, finds the mutex free. *)
LEMMA SpinStep ==
    ASSUME IInv, GpuTypeOK, LockInv, ~spinning, [GpuNext]_allvars
    PROVE  ~spinning'
<1>1. ASSUME NEW g \in Gpus, PollerYield(g) PROVE ~spinning'
  <2>1. current = poller[g] /\ spinning' = (stage[g] = "locked") /\ current # NoTask
    BY <1>1 DEF PollerYield, Polls, GpuTypeOK, IInv, CurrentInv
  <2>2. current \in tasks /\ current \notin Range(task_queue)
        /\ current \notin Range(spawn_queue)
    BY <2>1 DEF IInv, OneTokenPerTask, Tokens, FreshInv
  <2>3. Before(task_queue, g, poller[g]) => poller[g] \in Range(task_queue)
    BY BeforeRange DEF IInv, TypeOK
  <2>4. ~PolledFirst(g, poller[g])
    BY <2>1, <2>2, <2>3 DEF PolledFirst
  <2> QED BY <2>1, <2>4 DEF LockInv
<1> QED
  BY <1>1 DEF GpuNext, Loop, Other, TransferRequest, PollerWake, Drive,
     DriveSpawnPoller, DriveFill, DriveUnlock, DriveRequest, DriveYield,
     DriveSpawnTransfer, allvars, gpuvars

(* The inductive invariant of the start-up of the GPU drivers. *)
StartInv ==
    IInv /\ FitInv /\ GpuTypeOK /\ HelperInv /\ TurnInv /\ SpawnedInv
        /\ LockInv /\ ~spinning

(* When the live tasks fit in the executor's queues, no poller ever spins  *)
(* on the mutex that its suspended drive() holds across yield_once, with   *)
(* any number of GPUs and of other tasks: drive() is always polled first.  *)
(* Nor is any task lost or any queue found full.                           *)
THEOREM PollersNeverSpin ==
    ASSUME MaxLive <= QueueCap
    PROVE  GpuSpec => [](PollerNeverSpins /\ NoLostTask)
<1>1. GpuInit => StartInv
  <2> SUFFICES ASSUME GpuInit PROVE StartInv
    OBVIOUS
  <2>1. IInv /\ GpuTypeOK /\ FitInv
    BY GpuInitType, InitFitInv DEF GpuInit
  <2>2. HelperInv /\ SpawnedInv /\ LockInv /\ ~spinning
    BY DEF GpuInit, HelperInv, SpawnedInv, LockInv
  <2>3. TurnInv
    BY BootAssumption DEF GpuInit, Init, TurnInv
  <2> QED BY <2>1, <2>2, <2>3 DEF StartInv
<1>2. StartInv /\ [GpuNext]_allvars => StartInv'
  <2> SUFFICES ASSUME StartInv, [GpuNext]_allvars PROVE StartInv'
    OBVIOUS
  <2> USE DEF StartInv
  <2>1. [Next]_vars
    BY GpuNextIsNext
  <2>2. IInv' /\ FitInv' /\ GpuTypeOK'
    BY <2>1, NextIInv, NextFitInv, GpuTypeStep
  <2>3. HelperInv' /\ TurnInv'
    BY <2>1, HelperStep, TurnStep
  <2>4. SpawnedInv' /\ LockInv' /\ ~spinning'
    BY SpawnedStep, LockStep, SpinStep
  <2> QED BY <2>2, <2>3, <2>4
<1>3. StartInv => PollerNeverSpins /\ NoLostTask
  BY DEF StartInv, PollerNeverSpins, FitInv
<1> QED BY <1>1, <1>2, <1>3, PTL DEF GpuSpec
=============================================================================
