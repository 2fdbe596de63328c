----------------------------- MODULE GpuStartup -----------------------------
(***************************************************************************)
(* How drivers/virtio_gpu.rs drive() starts on the executor.  On its first *)
(* poll it spawns the poller, locks the device's spin mutex, publishes a   *)
(* few descriptors and calls yield_once().await while the guard is alive;  *)
(* the mutex is released on its second poll.  The poller locks the same    *)
(* mutex on each of its polls.  On one CPU a poller polled in between      *)
(* spins for ever.  The other tasks (input drivers, application loop) may  *)
(* do what any future may.                                                 *)
(***************************************************************************)
EXTENDS Executor

CONSTANT Gpus    \* ids of the boot tasks that are virtio_gpu::drive

ASSUME GpuTasksAssumption == Gpus \subseteq 0 .. BootTasks - 1

VARIABLES
    stage,       \* how far each drive() is
    poller,      \* id of the poller each drive() spawned, or NoTask
    transfer,    \* id of the transfer loop each drive() spawned, or NoTask
    mutex,       \* holder of each device's Mutex<Virtio> across an await
    spinning     \* a task spins on a mutex that nobody can release

gpuvars == << stage, poller, transfer, mutex, spinning >>
allvars == << vars, gpuvars >>

Helpers(g) == {poller[g], transfer[g]} \ {NoTask}

GpuTypeOK ==
    /\ TypeOK
    /\ stage \in [Gpus -> {"new", "spawned", "locked", "requests", "flushing"}]
    /\ poller \in [Gpus -> TaskIds \cup {NoTask}]
    /\ transfer \in [Gpus -> TaskIds \cup {NoTask}]
    /\ mutex = [g \in Gpus |-> stage[g] = "locked"]   \* across an await
    /\ spinning \in BOOLEAN

GpuInit ==
    /\ Init
    /\ stage = [g \in Gpus |-> "new"]
    /\ poller = [g \in Gpus |-> NoTask] /\ transfer = [g \in Gpus |-> NoTask]
    /\ mutex = [g \in Gpus |-> FALSE]
    /\ spinning = FALSE

Polls(id) == pc \in {"poll", "pollwake"} /\ current = id /\ ~spinning

-----------------------------------------------------------------------------
(* drive(), first poll: spawner.run(poller)... *)
DriveSpawnPoller(g) ==
    /\ Polls(g) /\ stage[g] = "new"
    /\ poller' = [poller EXCEPT ![g] = next_id]
    /\ SpawnerRun
    /\ stage' = [stage EXCEPT ![g] = "spawned"]
    /\ UNCHANGED << transfer, mutex, spinning >>

(* ...then virtio.lock(), the descriptors, and yield_once().await. *)
DriveFill(g) ==
    /\ Polls(g) /\ stage[g] = "spawned"
    /\ mutex' = [mutex EXCEPT ![g] = TRUE]
    /\ PollYield
    /\ stage' = [stage EXCEPT ![g] = "locked"]
    /\ UNCHANGED << poller, transfer, spinning >>

(* Second poll: the block ends, the guard is dropped, and the poll goes on *)
(* to the first request.                                                   *)
DriveUnlockNever(g) ==   \* mutant: the guard outlives the block
    /\ Polls(g) /\ stage[g] = "locked"
    /\ stage' = [stage EXCEPT ![g] = "requests"]
    /\ UNCHANGED << vars, poller, transfer, mutex, spinning >>

DriveUnlock(g) ==
    /\ Polls(g) /\ stage[g] = "locked"
    /\ mutex' = [mutex EXCEPT ![g] = FALSE]
    /\ stage' = [stage EXCEPT ![g] = "requests"]
    /\ UNCHANGED << vars, poller, transfer, spinning >>

(* A request(): the mutex is taken and released within the poll, which ends *)
(* in IdWait.                                                               *)
DriveRequest(g) ==
    /\ Polls(g) /\ stage[g] \in {"requests", "flushing"}
    /\ PollPark
    /\ UNCHANGED gpuvars

(* The yield_once() after the capset queries. *)
DriveYield(g) ==
    /\ Polls(g) /\ stage[g] = "requests"
    /\ PollYield
    /\ UNCHANGED gpuvars

(* After the start-up requests: spawner.run(transfer loop). *)
DriveSpawnTransfer(g) ==
    /\ Polls(g) /\ stage[g] = "requests"
    /\ transfer' = [transfer EXCEPT ![g] = next_id]
    /\ SpawnerRun
    /\ stage' = [stage EXCEPT ![g] = "flushing"]
    /\ UNCHANGED << poller, mutex, spinning >>

(* The transfer loop makes one request after the other. *)
TransferRequest(g) ==
    /\ Polls(transfer[g])
    /\ PollPark
    /\ UNCHANGED gpuvars

(* The poller locks the mutex first of all: it spins if drive() holds it,  *)
(* else it wakes requesters and yields.                                    *)
PollerWake(g) ==
    /\ Polls(poller[g]) /\ ~mutex[g]
    /\ \E id \in {g, transfer[g]} \ {NoTask} : WakeParked(id)
    /\ UNCHANGED gpuvars

PollerYield(g) ==
    /\ Polls(poller[g])
    /\ IF mutex[g] THEN UNCHANGED vars ELSE PollYield
    /\ spinning' = mutex[g]
    /\ UNCHANGED << stage, poller, transfer, mutex >>

(* Input drivers, the application loop and what they may spawn or wake.  *)
(* SpawnsLeft keeps, of MaxTasks, the ids that the drive()s still need.   *)
GpuTasks   == Gpus \cup UNION {Helpers(g) : g \in Gpus}
SpawnsLeft == Cardinality({g \in Gpus : poller[g] = NoTask})
                  + Cardinality({g \in Gpus : transfer[g] = NoTask})

Other ==
    /\ current \notin GpuTasks
    /\ \/ PollYield \/ PollReady \/ PollPark
       \/ SpawnerRun /\ next_id + SpawnsLeft < MaxTasks
       \/ \E id \in parked \ GpuTasks : WakeParked(id)
    /\ UNCHANGED gpuvars

(* run() itself. *)
Loop ==
    /\ Spawn \/ SpawnDone \/ PopTask \/ ReadyDone \/ IdleCheck \/ Interrupt
          \/ WakeYielder \/ YieldersDone
    /\ UNCHANGED gpuvars

Drive(g) == DriveSpawnPoller(g) \/ DriveFill(g) \/ DriveUnlock(g)
                \/ DriveRequest(g) \/ DriveYield(g) \/ DriveSpawnTransfer(g)

GpuNext ==
    \/ Loop
    \/ Other
    \/ \E g \in Gpus : Drive(g) \/ TransferRequest(g)
                          \/ PollerWake(g) \/ PollerYield(g)

(* Polls end, the loop of run() goes on and the timer ticks. *)
GpuSpec == GpuInit /\ [][GpuNext]_allvars /\ WF_allvars(GpuNext)

-----------------------------------------------------------------------------
(* The poller is never polled while the suspended drive() holds the mutex: *)
(* run() wakes the yielders before it adopts the tasks spawned meanwhile,  *)
(* and both queues are first in, first out.                                *)
PollerNeverSpins == ~spinning

(* Every GPU driver gets past its start-up block, and whenever it waits   *)
(* for an answer its poller is polled again: nobody holds the mutex or    *)
(* starves the poller for ever.                                           *)
DriverStarts ==
    \A g \in Gpus : /\ <>(stage[g] \in {"requests", "flushing"})
                    /\ [](g \in parked => <>(current = poller[g]))
=============================================================================
