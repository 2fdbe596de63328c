----------------------------- MODULE InputDriver -----------------------------
(***************************************************************************)
(* drivers/virtio_input.rs: drive() gives every descriptor to the device   *)
(* as an event buffer, and then on each poll applies all returned events   *)
(* to globals::INPUT and recycles their buffers.  The device runs beside   *)
(* the driver and may act between any two of its memory accesses.          *)
(***************************************************************************)
EXTENDS Virtqueue

CONSTANTS
    Events,      \* values of a VirtioInputEvent
    NoEvent,     \* what a page holds before the device wrote it
    MaxEvents    \* bound on the events the device reports

ASSUME EventAssumption == NoEvent \notin Events /\ MaxEvents \in Nat

VARIABLES
    pc,      \* where drive() is
    cur,     \* the descriptor in hand: desc_id or used.id
    buf,     \* contents of the page each descriptor points to
    input    \* events applied to INPUT so far

vars == << vqvars, pc, cur, buf, input >>

TypeOK ==
    /\ VqTypeOK
    /\ pc \in {"fill", "fillslot", "fillidx", "scan", "apply", "slot", "idx",
               "yield"}
    /\ cur \in Descs \cup {NoDesc}
    /\ buf \in [Descs -> Events \cup {NoEvent}]
    /\ input \in Seq(Events)

Init ==
    /\ VqInit
    /\ pc = "fill" /\ cur = NoDesc
    /\ buf = [d \in Descs |-> NoEvent]
    /\ input = <<>>

-----------------------------------------------------------------------------
(* while let Some(desc_id) = get_free_desc_id() { set_writable_available } *)
Fill ==
    /\ pc = "fill"
    /\ IF free = <<>>
       THEN pc' = "scan" /\ UNCHANGED << free, cur >>
       ELSE pc' = "fillslot" /\ \E d \in Descs : get_free(d) /\ cur' = d
    /\ UNCHANGED << availvars, usedvars, devvars, buf, input >>

(* set_available(cur): the slot... *)
WriteSlot ==
    /\ pc \in {"fillslot", "slot"}
    /\ write_slot(cur)
    /\ pc' = IF pc = "slot" THEN "idx" ELSE "fillidx"
    /\ UNCHANGED << free, avail_idx, usedvars, devvars, cur, buf, input >>

(* ...and then the index. *)
WriteIdx ==
    /\ pc \in {"fillidx", "idx"}
    /\ write_idx
    /\ pc' = IF pc = "idx" THEN "scan" ELSE "fill"
    /\ cur' = NoDesc
    /\ UNCHANGED << free, avail_ring, usedvars, devvars, buf, input >>

(* while let Some(used) = next_used() *)
ScanSkipsOnWrap ==   \* mutant: < in place of the wrapping comparison
    /\ pc = "scan"
    /\ IF last_used_idx + 1 < used_idx
       THEN pc' = "apply" /\ \E d \in Descs : next_used(d) /\ cur' = d
       ELSE pc' = "yield" /\ UNCHANGED << used_ring, last_used_idx, cur >>
    /\ UNCHANGED << free, availvars, used_idx, devvars, buf, input >>

Scan ==
    /\ pc = "scan"
    /\ IF has_used
       THEN pc' = "apply" /\ \E d \in Descs : next_used(d) /\ cur' = d
       ELSE pc' = "yield" /\ UNCHANGED << used_ring, last_used_idx, cur >>
    /\ UNCHANGED << free, availvars, used_idx, devvars, buf, input >>

(* The event is read from the buffer and applied to INPUT. *)
ApplyAlsoFrees ==   \* mutant: set_free as request() does, then recycled too
    /\ pc = "apply"
    /\ input' = Append(input, buf[cur])
    /\ free' = Append(free, cur)
    /\ pc' = "slot"
    /\ UNCHANGED << availvars, usedvars, devvars, cur, buf >>

Apply ==
    /\ pc = "apply"
    /\ input' = Append(input, buf[cur])
    /\ pc' = "slot"
    /\ UNCHANGED << vqvars, cur, buf >>

(* yield_once().await: the executor polls the task again. *)
Resume ==
    /\ pc = "yield"
    /\ pc' = "scan"
    /\ UNCHANGED << vqvars, cur, buf, input >>

Driver == Fill \/ WriteSlot \/ WriteIdx \/ Scan \/ Apply \/ Resume

-----------------------------------------------------------------------------
(* External: the device takes a buffer, and fills one it holds. *)
DeviceTake ==
    /\ \E d \in Descs : DevTake(d)
    /\ UNCHANGED << pc, cur, buf, input >>

DeviceReport(d, e) ==
    /\ Len(input) + Len(UsedPending) + (IF pc = "apply" THEN 1 ELSE 0) < MaxEvents
    /\ DevReturn(d)
    /\ buf' = [buf EXCEPT ![d] = e]
    /\ UNCHANGED << pc, cur, input >>

Next == Driver \/ DeviceTake \/ \E d \in Descs, e \in Events : DeviceReport(d, e)

(* The driver task is polled again and again (Executor!StarvationFree). *)
Spec == Init /\ [][Next]_vars /\ WF_vars(Driver)

-----------------------------------------------------------------------------
(* Every buffer is in exactly one place: free, in the driver's hand, on the *)
(* available ring, with the device, or on the used ring; so the rings are   *)
(* never overrun and the device never writes a buffer the driver reads.     *)
InHand == IF cur \in Descs THEN <<cur>> ELSE <<>>
BuffersConserved ==
    LET places == free \o InHand \o AvailPending \o UsedPending IN
        /\ IsInjective(places)
        /\ Range(places) \cap dev_held = {}
        /\ Range(places) \cup dev_held = Descs

(* The events reported and not yet applied, oldest first. *)
Reported == (IF pc = "apply" THEN << buf[cur] >> ELSE <<>>)
              \o [k \in 1 .. Len(UsedPending) |-> buf[UsedPending[k]]]

(* The driver implements the FIFO channel: no event is lost, repeated,     *)
(* reordered or read after its buffer was reused, across index wrap-around *)
(* and whatever the device does between two steps, and each is applied.    *)
Channel == INSTANCE EventChannel WITH Capacity <- QSize, queue <- Reported
ImplementsChannel == Channel!Spec
=============================================================================
