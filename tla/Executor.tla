------------------------------ MODULE Executor ------------------------------
(***************************************************************************)
(* The cooperative async executor of the kernel                            *)
(* (bootloader/kernel/src/task/executor.rs, task/mod.rs).                  *)
(*                                                                         *)
(* One CPU runs one loop: it adopts the spawned tasks, polls every task    *)
(* whose id is in task_queue, goes to sleep with hlt when nothing is       *)
(* ready, and then wakes the tasks that called yield_once().  A future is  *)
(* its environment: while it is polled it may spawn a task or wake a       *)
(* parked one (the GPU poller does), and the poll ends with Ready, with a  *)
(* yield_once, or with its waker handed to a driver ("parked").            *)
(***************************************************************************)
EXTENDS Naturals, Sequences, FiniteSets, Functions

CONSTANTS
    QueueCap,   \* capacity of the three ArrayQueues: 100 in the code
    MaxTasks,   \* bound on TaskIds handed out in one behaviour
    MaxLive,    \* bound on the tasks alive or queued for adoption at once
    BootTasks   \* tasks kernel_main spawns before it calls run()

ASSUME QueueAssumption == QueueCap \in Nat \ {0}
ASSUME BootAssumption ==
    /\ MaxTasks \in Nat /\ MaxLive \in Nat /\ BootTasks \in Nat
    /\ BootTasks <= MaxTasks /\ BootTasks <= MaxLive /\ BootTasks <= QueueCap

VARIABLES
    next_id,      \* the static NEXT_ID of TaskId::new
    tasks,        \* ids in Executor.tasks
    waker_cache,  \* ids with a cached Waker
    spawn_queue,  \* ids of the Tasks in Executor.spawn_queue
    task_queue,   \* Executor.task_queue: ids to poll
    YIELDERS,     \* ids whose waker is in the static YIELDERS
    parked,       \* ids whose waker is held by a driver (IdWaker::Waker)
    current,      \* id being polled, or NoTask
    pc            \* where run() is

vars == << next_id, tasks, waker_cache, spawn_queue, task_queue, YIELDERS,
           parked, current, pc >>

TaskIds == 0 .. MaxTasks - 1
NoTask  == MaxTasks
PCs     == {"spawn", "ready", "poll", "pollwake", "check", "halt",
            "yielders", "panicked"}

(***************************************************************************)
(* Every id that a queue, a driver or the running poll will still deliver  *)
(* a poll for.                                                             *)
(***************************************************************************)
Tokens == Range(task_queue) \cup Range(YIELDERS) \cup parked
              \cup ({current} \ {NoTask})
Alive  == tasks \cup Range(spawn_queue)

IsFull(q) == Len(q) >= QueueCap

TypeOK ==
    /\ next_id \in 0 .. MaxTasks
    /\ tasks \in SUBSET TaskIds
    /\ waker_cache \in SUBSET TaskIds
    /\ spawn_queue \in Seq(TaskIds) /\ Len(spawn_queue) <= QueueCap
    /\ task_queue \in Seq(TaskIds) /\ Len(task_queue) <= QueueCap
    /\ YIELDERS \in Seq(TaskIds) /\ Len(YIELDERS) <= QueueCap
    /\ parked \in SUBSET TaskIds
    /\ current \in TaskIds \cup {NoTask}
    /\ pc \in PCs

-----------------------------------------------------------------------------
(* kernel_main pushed its tasks on the spawn queue and called run(). *)
Init ==
    /\ next_id = BootTasks
    /\ tasks = {} /\ waker_cache = {} /\ parked = {}
    /\ spawn_queue = [i \in 1 .. BootTasks |-> i - 1]
    /\ task_queue = <<>> /\ YIELDERS = <<>>
    /\ current = NoTask
    /\ pc = "spawn"

(* ArrayQueue::push with its result ignored: a full queue drops the value. *)
ArrayPush(q, e) == IF IsFull(q) THEN q ELSE Append(q, e)

(* TaskWaker::wake_task: pushes the id, panics when the queue is full. *)
WakeTask(id, next) ==
    /\ task_queue' = ArrayPush(task_queue, id)
    /\ pc' = IF IsFull(task_queue) THEN "panicked" ELSE next

-----------------------------------------------------------------------------
(* run(): one turn of the loop that adopts spawned tasks, Executor::spawn. *)
SpawnQueuesTwice ==   \* mutant: the id is queued twice
    /\ pc = "spawn" /\ spawn_queue # <<>>
    /\ spawn_queue' = Tail(spawn_queue)
    /\ tasks' = tasks \cup {Head(spawn_queue)}
    /\ task_queue' = ArrayPush(ArrayPush(task_queue, Head(spawn_queue)),
                               Head(spawn_queue))
    /\ pc' = pc
    /\ UNCHANGED << next_id, waker_cache, YIELDERS, parked, current >>

Spawn ==
    /\ pc = "spawn"
    /\ spawn_queue # <<>>
    /\ LET id == Head(spawn_queue) IN
         /\ spawn_queue' = Tail(spawn_queue)
         /\ tasks' = tasks \cup {id}
         /\ IF id \in tasks          \* "task with same ID already in tasks"
            THEN pc' = "panicked" /\ UNCHANGED task_queue
            ELSE WakeTask(id, "spawn")
    /\ UNCHANGED << next_id, waker_cache, YIELDERS, parked, current >>

SpawnDone ==
    /\ pc = "spawn"
    /\ spawn_queue = <<>>
    /\ pc' = "ready"
    /\ UNCHANGED << next_id, tasks, waker_cache, spawn_queue, task_queue,
                    YIELDERS, parked, current >>

-----------------------------------------------------------------------------
(* run_ready_tasks: pop an id; poll its task if it still exists. *)
PopTask ==
    /\ pc = "ready"
    /\ task_queue # <<>>
    /\ LET id == Head(task_queue) IN
         /\ task_queue' = Tail(task_queue)
         /\ IF id \in tasks
            THEN /\ waker_cache' = waker_cache \cup {id}
                 /\ current' = id
                 /\ pc' = "poll"
            ELSE UNCHANGED << waker_cache, current, pc >>
    /\ UNCHANGED << next_id, tasks, spawn_queue, YIELDERS, parked >>

ReadyDone ==
    /\ pc = "ready"
    /\ task_queue = <<>>
    /\ pc' = "check"
    /\ UNCHANGED << next_id, tasks, waker_cache, spawn_queue, task_queue,
                    YIELDERS, parked, current >>

(* Spawner::run, called by the polled future. *)
SpawnerRun ==
    /\ pc = "poll"
    /\ next_id < MaxTasks
    /\ Cardinality(Alive) < MaxLive
    /\ next_id' = next_id + 1
    /\ spawn_queue' = ArrayPush(spawn_queue, next_id)
    /\ UNCHANGED << tasks, waker_cache, task_queue, YIELDERS, parked,
                    current, pc >>

(* The polled future wakes a parked task.  Only the GPU poller does so, *)
(* and its poll goes on to end in yield_once.                           *)
WakeParked(id) ==
    /\ pc \in {"poll", "pollwake"}
    /\ id \in parked
    /\ parked' = parked \ {id}
    /\ WakeTask(id, "pollwake")
    /\ UNCHANGED << next_id, tasks, waker_cache, spawn_queue, YIELDERS,
                    current >>

(* Poll::Ready: the task and its cached waker are removed. *)
PollReadyKeepsTask ==   \* mutant: only the waker is removed
    /\ pc = "poll"
    /\ waker_cache' = waker_cache \ {current}
    /\ current' = NoTask
    /\ pc' = "ready"
    /\ UNCHANGED << next_id, tasks, spawn_queue, task_queue, YIELDERS, parked >>

PollReady ==
    /\ pc = "poll"
    /\ tasks' = tasks \ {current}
    /\ waker_cache' = waker_cache \ {current}
    /\ current' = NoTask
    /\ pc' = "ready"
    /\ UNCHANGED << next_id, spawn_queue, task_queue, YIELDERS, parked >>

(* YieldOnce::poll: the waker goes to YIELDERS, Poll::Pending. *)
PollYieldWakesItself ==   \* mutant: the usual yield, ready again at once
    /\ pc \in {"poll", "pollwake"}
    /\ WakeTask(current, "ready")
    /\ current' = NoTask
    /\ UNCHANGED << next_id, tasks, waker_cache, spawn_queue, YIELDERS,
                    parked >>

PollYield ==
    /\ pc \in {"poll", "pollwake"}
    /\ YIELDERS' = ArrayPush(YIELDERS, current)
    /\ current' = NoTask
    /\ pc' = "ready"
    /\ UNCHANGED << next_id, tasks, waker_cache, spawn_queue, task_queue,
                    parked >>

(* Poll::Pending with the waker left with a driver (IdWait::poll). *)
PollParkNoRegister ==   \* mutant: the driver's slot keeps no waker
    /\ pc = "poll"
    /\ current' = NoTask
    /\ pc' = "ready"
    /\ UNCHANGED << next_id, tasks, waker_cache, spawn_queue, task_queue,
                    YIELDERS, parked >>

PollPark ==
    /\ pc = "poll"
    /\ parked' = parked \cup {current}
    /\ current' = NoTask
    /\ pc' = "ready"
    /\ UNCHANGED << next_id, tasks, waker_cache, spawn_queue, task_queue,
                    YIELDERS >>

-----------------------------------------------------------------------------
(* run(): interrupts are disabled, the two queues are examined, and the *)
(* CPU either halts (sti; hlt are one step) or goes on.                 *)
IdleCheckThenSpawn ==   \* mutant: yielders are only woken after a halt
    /\ pc = "check"
    /\ pc' = IF task_queue = <<>> /\ spawn_queue = <<>>
             THEN "halt" ELSE "spawn"
    /\ UNCHANGED << next_id, tasks, waker_cache, spawn_queue, task_queue,
                    YIELDERS, parked, current >>

IdleCheck ==
    /\ pc = "check"
    /\ pc' = IF task_queue = <<>> /\ spawn_queue = <<>>
             THEN "halt" ELSE "yielders"
    /\ UNCHANGED << next_id, tasks, waker_cache, spawn_queue, task_queue,
                    YIELDERS, parked, current >>

(* Any interrupt ends hlt; the LAPIC timer sends one every millisecond. *)
Interrupt ==
    /\ pc = "halt"
    /\ pc' = "yielders"
    /\ UNCHANGED << next_id, tasks, waker_cache, spawn_queue, task_queue,
                    YIELDERS, parked, current >>

(* run(): one turn of the loop that wakes the yielders. *)
WakeYielder ==
    /\ pc = "yielders"
    /\ YIELDERS # <<>>
    /\ YIELDERS' = Tail(YIELDERS)
    /\ WakeTask(Head(YIELDERS), "yielders")
    /\ UNCHANGED << next_id, tasks, waker_cache, spawn_queue, parked,
                    current >>

YieldersDone ==
    /\ pc = "yielders"
    /\ YIELDERS = <<>>
    /\ pc' = "spawn"
    /\ UNCHANGED << next_id, tasks, waker_cache, spawn_queue, task_queue,
                    YIELDERS, parked, current >>

Next ==
    \/ Spawn \/ SpawnDone
    \/ PopTask \/ ReadyDone
    \/ SpawnerRun \/ (\E id \in TaskIds : WakeParked(id))
    \/ PollReady \/ PollYield \/ PollPark
    \/ IdleCheck \/ Interrupt
    \/ WakeYielder \/ YieldersDone

(* GpuStartup adds the fairness, and the futures that run on the executor. *)
Spec == Init /\ [][Next]_vars

-----------------------------------------------------------------------------
(* A task is never scheduled twice: its id occurs at most once in the task *)
(* queue, the yielders, the drivers' wakers and the running poll together, *)
(* and only ids of live tasks occur there.  A second token would poll a    *)
(* future whose waker is still registered elsewhere, and tokens would grow *)
(* until wake_task's expect("task_queue full") fires.                      *)
OneTokenPerTask ==
    /\ IsInjective(task_queue) /\ IsInjective(YIELDERS)
    /\ Range(task_queue) \cap Range(YIELDERS) = {}
    /\ parked \cap (Range(task_queue) \cup Range(YIELDERS)) = {}
    /\ current \notin parked \cup Range(task_queue) \cup Range(YIELDERS)
    /\ Tokens \subseteq tasks

(* As long as no more tasks live than the queues hold, no adopted task is *)
(* forgotten: yield_once ignores the result of YIELDERS.push, and a task  *)
(* whose waker is dropped there stays in the map and is never polled.     *)
(* Nor does any of the expect()s and panics of spawn and wake_task fire.  *)
NoLostTask == tasks \subseteq Tokens /\ pc # "panicked"

(* The state of a task in the scheduler that the executor implements: a    *)
(* task in the map that nothing will poll is lost, which is not one of the *)
(* scheduler's states.                                                     *)
StateOf(id) ==
    IF id = current THEN "running"
    ELSE IF id \in Range(spawn_queue) \cup Range(task_queue) \cup Range(YIELDERS)
    THEN "ready"
    ELSE IF id \in parked THEN "waiting"
    ELSE IF id \in tasks THEN "lost"
    ELSE IF id < next_id THEN "done" ELSE "new"

TaskState == [id \in TaskIds |-> StateOf(id)]

Sched == INSTANCE Scheduler WITH Tasks <- TaskIds, state <- TaskState

(* The three queues, the map and the drivers' wakers together implement    *)
(* the scheduler: moving an id from queue to queue changes no task's       *)
(* state, and a finished, lost or waiting task is never polled.            *)
ImplementsScheduler == Sched!Spec

(* Every task that was spawned, woken or has yielded is polled again:     *)
(* yielders do not starve the spawn queue, nor the other way round.       *)
StarvationFree ==
    \A id \in TaskIds :
        id \in Range(spawn_queue) \cup Range(task_queue) \cup Range(YIELDERS)
            ~> current = id
=============================================================================
