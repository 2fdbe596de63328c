----------------------------- MODULE GpuRequests -----------------------------
(***************************************************************************)
(* drivers/virtio_gpu.rs: request() and what it needs.  A request takes    *)
(* two descriptors (command and response), publishes them, notifies the    *)
(* device and awaits IdWait, which is woken through the static WAKERS by   *)
(* the poller task that drains the used ring.  drive() first publishes a   *)
(* few descriptors that nobody waits for, makes its start-up requests one  *)
(* after the other, spawns the transfer loop, and then flushes for ever.   *)
(* One task runs at a time (Executor); the device runs beside it.          *)
(***************************************************************************)
EXTENDS Virtqueue

CONSTANTS
    Drive, Transfer, Poller,   \* the three tasks
    Prefill,                   \* descriptors published at start: 10
    StartupReqs                \* requests before the transfer loop starts

ASSUME GpuAssumption ==
    /\ Prefill \in Nat /\ StartupReqs \in Nat
    /\ Drive # Transfer /\ Drive # Poller /\ Transfer # Poller
    /\ {Drive, Transfer, Poller} \cap {"None", "Done", "nobody"} = {}

VARIABLES
    pc,         \* where each requester is
    desc_id,    \* request(): the command descriptor
    desc_next,  \* request(): the response descriptor
    tag,        \* which of its requests a task is making (parity)
    made,       \* start-up requests made by drive(), up to StartupReqs
    filled,     \* descriptors published by the start-up loop
    WAKERS,     \* the static IdWaker array: "None", "Done" or a task
    chain,      \* Desc.next of descriptors with VIRTQ_DESC_F_NEXT
    page,       \* contents of the page of each descriptor
    ready,      \* tasks with a token in the executor
    running,    \* the task being polled, or "nobody"
    notified,   \* external: the device has been kicked and is working
    panicked    \* request() panicked: "No more desc available"

Reqs == {Drive, Transfer}
reqvars == << pc, desc_id, desc_next, tag, made, filled >>
vars == << vqvars, reqvars, WAKERS, chain, page, ready, running, notified,
                    panicked >>

Junk == <<"junk", 0>>
Payloads == (Reqs \X {0, 1}) \cup {Junk}

TypeOK ==
    /\ VqTypeOK
    /\ pc \in [Reqs -> {"fill", "fillidx", "start", "add", "idx", "kick",
                        "wait", "finish"}]
    /\ desc_id \in [Reqs -> Descs \cup {NoDesc}]
    /\ desc_next \in [Reqs -> Descs \cup {NoDesc}]
    /\ tag \in [Reqs -> {0, 1}]
    /\ made \in 0 .. StartupReqs
    /\ filled \in SUBSET Descs
    /\ WAKERS \in [Descs -> {"None", "Done"} \cup Reqs]
    /\ chain \in [Descs -> Descs \cup {NoDesc}]
    /\ page \in [Descs -> Payloads]
    /\ ready \in SUBSET Reqs
    /\ running \in Reqs \cup {Poller, "nobody"}
    /\ notified \in BOOLEAN /\ panicked \in BOOLEAN

Init ==
    /\ VqInit
    /\ pc = [r \in Reqs |-> IF r = Drive THEN "fill" ELSE "start"]
    /\ desc_id = [r \in Reqs |-> NoDesc] /\ desc_next = [r \in Reqs |-> NoDesc]
    /\ tag = [r \in Reqs |-> 0] /\ made = 0 /\ filled = {}
    /\ WAKERS = [d \in Descs |-> "None"]
    /\ chain = [d \in Descs |-> NoDesc]
    /\ page = [d \in Descs |-> Junk]
    /\ ready = {} /\ running = Drive
    /\ notified = FALSE /\ panicked = FALSE

-----------------------------------------------------------------------------
(* drive(): "Make a few free desc", then yield_once() still in that block. *)
FillGet ==
    /\ running = Drive /\ pc[Drive] = "fill"
    /\ Cardinality(filled) < Prefill /\ free # <<>>
    /\ \E d \in Descs :
         /\ get_free(d)
         /\ write_slot(d)
         /\ filled' = filled \cup {d}
    /\ pc' = [pc EXCEPT ![Drive] = "fillidx"]
    /\ UNCHANGED << avail_idx, usedvars, devvars, desc_id, desc_next, tag,
                    made, WAKERS, chain, page, ready, running, notified,
                    panicked >>

FillIdx ==
    /\ running = Drive /\ pc[Drive] = "fillidx"
    /\ write_idx
    /\ pc' = [pc EXCEPT ![Drive] = "fill"]
    /\ UNCHANGED << free, avail_ring, usedvars, devvars, desc_id,
                    desc_next, tag, made, filled, WAKERS, chain, page, ready,
                    running, notified, panicked >>

FillDone ==
    /\ running = Drive /\ pc[Drive] = "fill"
    /\ Cardinality(filled) = Prefill \/ free = <<>>
    /\ pc' = [pc EXCEPT ![Drive] = "start"]
    /\ ready' = ready \cup {Drive}
    /\ running' = "nobody"
    /\ UNCHANGED << vqvars, desc_id, desc_next, tag, made, filled, WAKERS,
                    chain, page, notified, panicked >>

-----------------------------------------------------------------------------
(* request(): get_free_twice_desc_id, or the panic. *)
RequestStart(r) ==
    /\ running = r /\ pc[r] = "start" /\ ~panicked
    /\ IF Len(free) < 2
       THEN panicked' = TRUE /\ UNCHANGED << free, pc, desc_id, desc_next >>
       ELSE /\ \E d, n \in Descs :
                 /\ get_free_twice(d, n)
                 /\ desc_id' = [desc_id EXCEPT ![r] = d]
                 /\ desc_next' = [desc_next EXCEPT ![r] = n]
            /\ pc' = [pc EXCEPT ![r] = "add"]
            /\ UNCHANGED panicked
    /\ UNCHANGED << availvars, usedvars, devvars, tag, made,
                    filled, WAKERS, chain, page, ready, running, notified >>

(* add_request: command page, chain, response flags, available slot... *)
AddRequest(r) ==
    /\ running = r /\ pc[r] = "add"
    /\ page' = [page EXCEPT ![desc_id[r]] = << r, tag[r] >>]
    /\ chain' = [chain EXCEPT ![desc_id[r]] = desc_next[r],
                              ![desc_next[r]] = NoDesc]
    /\ write_slot(desc_id[r])
    /\ pc' = [pc EXCEPT ![r] = "idx"]
    /\ UNCHANGED << free, avail_idx, usedvars, devvars, desc_id, desc_next,
                    tag, made, filled, WAKERS, ready, running, notified,
                    panicked >>

(* ...and available index. *)
AddRequestIdxNoKick(r) ==   \* mutant: no notification after the index
    /\ running = r /\ pc[r] = "idx"
    /\ write_idx
    /\ pc' = [pc EXCEPT ![r] = "wait"]
    /\ UNCHANGED << free, avail_ring, usedvars, devvars, desc_id,
                    desc_next, tag, made, filled, WAKERS, chain, page, ready,
                    running, notified, panicked >>

AddRequestIdx(r) ==
    /\ running = r /\ pc[r] = "idx"
    /\ write_idx
    /\ pc' = [pc EXCEPT ![r] = "kick"]
    /\ UNCHANGED << free, avail_ring, usedvars, devvars, desc_id,
                    desc_next, tag, made, filled, WAKERS, chain, page, ready,
                    running, notified, panicked >>

kick(r) ==
    /\ running = r /\ pc[r] = "kick"
    /\ notified' = TRUE
    /\ pc' = [pc EXCEPT ![r] = "wait"]
    /\ UNCHANGED << vqvars, desc_id, desc_next, tag, made, filled, WAKERS,
                    chain, page, ready, running, panicked >>

(* IdWait::poll: pending with the task's waker left in the slot... *)
IdWaitPending(r) ==
    /\ running = r /\ pc[r] = "wait"
    /\ WAKERS[desc_id[r]] # "Done"
    /\ WAKERS' = [WAKERS EXCEPT ![desc_id[r]] = r]
    /\ running' = "nobody"
    /\ UNCHANGED << vqvars, reqvars, chain, page, ready, notified,
                    panicked >>

(* ...or ready, and the slot is reset. *)
IdWaitKeepsDone(r) ==   \* mutant: the slot is left at Done
    /\ running = r /\ pc[r] = "wait"
    /\ WAKERS[desc_id[r]] = "Done"
    /\ pc' = [pc EXCEPT ![r] = "finish"]
    /\ UNCHANGED << vqvars, desc_id, desc_next, tag, made, filled, WAKERS,
                    chain, page, ready, running, notified, panicked >>

IdWaitReady(r) ==
    /\ running = r /\ pc[r] = "wait"
    /\ WAKERS[desc_id[r]] = "Done"
    /\ WAKERS' = [WAKERS EXCEPT ![desc_id[r]] = "None"]
    /\ pc' = [pc EXCEPT ![r] = "finish"]
    /\ UNCHANGED << vqvars, desc_id, desc_next, tag, made, filled, chain, page,
                    ready, running, notified, panicked >>

(* request() frees both descriptors, the caller reads the response and, in *)
(* the same poll, goes on: drive() spawns the transfer loop after its last *)
(* start-up request.                                                       *)
RequestFinishLeaks(r) ==   \* mutant: only the command descriptor is freed
    /\ running = r /\ pc[r] = "finish"
    /\ free' = Append(free, desc_id[r])
    /\ desc_id' = [desc_id EXCEPT ![r] = NoDesc]
    /\ desc_next' = [desc_next EXCEPT ![r] = NoDesc]
    /\ tag' = [tag EXCEPT ![r] = 1 - @]
    /\ pc' = [pc EXCEPT ![r] = "start"]
    /\ UNCHANGED << availvars, usedvars, devvars, made, filled,
                    ready, WAKERS, chain, page, running, notified,
                    panicked >>

RequestFinish(r) ==
    /\ running = r /\ pc[r] = "finish"
    /\ free' = free \o << desc_id[r], desc_next[r] >>
    /\ desc_id' = [desc_id EXCEPT ![r] = NoDesc]
    /\ desc_next' = [desc_next EXCEPT ![r] = NoDesc]
    /\ tag' = [tag EXCEPT ![r] = 1 - @]
    /\ pc' = [pc EXCEPT ![r] = "start"]
    /\ made' = IF r = Drive /\ made < StartupReqs THEN made + 1 ELSE made
    /\ ready' = IF r = Drive /\ made + 1 = StartupReqs
                THEN ready \cup {Transfer} ELSE ready
    /\ UNCHANGED << availvars, usedvars, devvars, filled,
                    WAKERS, chain, page, running, notified, panicked >>

-----------------------------------------------------------------------------
(* The poller: next_used and IdWaker::wake until the used ring is empty. *)
PollerWakeForgets ==   \* mutant: the slot is set before its waker is read
    /\ running = Poller
    /\ \E d \in Descs :
         /\ next_used(d)
         /\ WAKERS' = [WAKERS EXCEPT ![d] = "Done"]
    /\ UNCHANGED << free, availvars, used_idx, devvars, reqvars, chain, page,
                    ready, running, notified, panicked >>

PollerWake ==
    /\ running = Poller
    /\ \E d \in Descs :
         /\ next_used(d)
         /\ WAKERS' = [WAKERS EXCEPT ![d] = "Done"]
         /\ ready' = ready \cup ({WAKERS[d]} \cap Reqs)
    /\ UNCHANGED << free, availvars, used_idx, devvars, reqvars, chain, page,
                    running, notified, panicked >>

PollerYield ==
    /\ running = Poller
    /\ ~has_used
    /\ running' = "nobody"
    /\ UNCHANGED << vqvars, reqvars, WAKERS, chain, page, ready, notified,
                    panicked >>

(* The executor polls a task that has a token; the poller yields, so it has *)
(* one all the time, but its first poll comes after drive() released the    *)
(* virtio mutex (GpuStartup).                                               *)
Run(t) ==
    /\ running = "nobody"
    /\ t \in ready \/ (t = Poller /\ pc[Drive] = "wait")
    /\ running' = t
    /\ ready' = ready \ {t}
    /\ UNCHANGED << vqvars, reqvars, WAKERS, chain, page, notified,
                    panicked >>

-----------------------------------------------------------------------------
(* External: once notified, the device takes commands until none is left... *)
DeviceTake ==
    /\ notified
    /\ \E d \in Descs : DevTake(d)
    /\ UNCHANGED << reqvars, WAKERS, chain, page, ready, running,
                    notified, panicked >>

DeviceIdle ==
    /\ notified
    /\ dev_idx = avail_idx
    /\ notified' = FALSE
    /\ UNCHANGED << vqvars, reqvars, WAKERS, chain, page, ready, running,
                    panicked >>

(* ...and answers each in any order, in the response page of its chain. *)
DeviceAnswer(d) ==
    /\ DevReturn(d)
    /\ page' = IF chain[d] = NoDesc THEN page
               ELSE [page EXCEPT ![chain[d]] = page[d]]
    /\ UNCHANGED << reqvars, WAKERS, chain, ready, running, notified,
                    panicked >>

-----------------------------------------------------------------------------
Request(r) ==
    \/ RequestStart(r) \/ AddRequest(r) \/ AddRequestIdx(r)
    \/ kick(r) \/ IdWaitPending(r) \/ IdWaitReady(r) \/ RequestFinish(r)

Task == FillGet \/ FillIdx \/ FillDone \/ PollerWake \/ PollerYield
            \/ \E r \in Reqs : Request(r)

Next ==
    \/ Task
    \/ \E t \in Reqs \cup {Poller} : Run(t)
    \/ DeviceTake \/ DeviceIdle \/ \E d \in Descs : DeviceAnswer(d)

(***************************************************************************)
(* A poll runs to its end; a task with a token is polled                   *)
(* (Executor!StarvationFree); a notified device works through the          *)
(* available ring and answers every command.                               *)
(***************************************************************************)
Fairness ==
    /\ WF_vars(Task)
    /\ \A t \in Reqs \cup {Poller} : SF_vars(Run(t))
    /\ WF_vars(DeviceTake) /\ WF_vars(DeviceIdle)
    /\ \A d \in Descs : WF_vars(DeviceAnswer(d))

Spec     == Init /\ [][Next]_vars
FairSpec == Spec /\ Fairness

-----------------------------------------------------------------------------
Owned(r) == {desc_id[r], desc_next[r]} \ {NoDesc}

(* Each descriptor is free, owned by one request, or one of those published *)
(* at start, which never come back; and the rings and the device hold only  *)
(* heads of requests in progress or of the start-up loop, each once.  With  *)
(* Prefill + 4 descriptors, request() therefore never runs out of them.     *)
DescriptorsConserved ==
    /\ IsInjective(free)
    /\ Owned(Drive) \cap Owned(Transfer) = {}
    /\ Range(free) \cap (Owned(Drive) \cup Owned(Transfer) \cup filled) = {}
    /\ filled \cap (Owned(Drive) \cup Owned(Transfer)) = {}
    /\ Range(free) \cup Owned(Drive) \cup Owned(Transfer) \cup filled = Descs
    /\ IsInjective(AvailPending \o UsedPending)
    /\ dev_held \cap Range(AvailPending \o UsedPending) = {}
    /\ dev_held \cup Range(AvailPending \o UsedPending)
          \subseteq filled \cup {desc_id[r] : r \in Reqs}
    /\ ~panicked

(* A request that completes finds in its response page the answer to this  *)
(* very command: no stale Done slot, reused descriptor or late answer ever *)
(* completes another request.                                              *)
ResponseIsOwn ==
    \A r \in Reqs : pc[r] = "finish" => page[desc_next[r]] = << r, tag[r] >>

(* A task that waits for an answer and has no token in the executor left   *)
(* its waker in the slot of its command, and the command is on its way:    *)
(* on the used ring, with the device, or on the available ring of a device *)
(* that was notified.  An answer between the last look at the slot and     *)
(* the registration of the waker, a notification before the index is       *)
(* written, or a slot that another request uses would leave it asleep.     *)
NoLostWakeup ==
    \A r \in Reqs : pc[r] = "wait" /\ running # r =>
        \/ r \in ready
        \/ /\ WAKERS[desc_id[r]] = r
           /\ \/ desc_id[r] \in Range(UsedPending) \cup dev_held
              \/ desc_id[r] \in Range(AvailPending) /\ notified

(* Every request is answered and its task goes on: no notification, used *)
(* entry or wake is lost between device, poller and requester.           *)
RequestsComplete == \A r \in Reqs : pc[r] = "wait" ~> pc[r] = "finish"
=============================================================================
