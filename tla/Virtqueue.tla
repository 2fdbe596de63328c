------------------------------ MODULE Virtqueue ------------------------------
(***************************************************************************)
(* A split virtqueue as bootloader/kernel/src/virtio.rs drives it: the     *)
(* stack of free descriptors, the available ring the driver writes, the    *)
(* used ring the device writes, and the wrapping 16-bit indexes of both.   *)
(* The device is external; only what the driver relies on is modelled.     *)
(* InputDriver and GpuRequests extend this module.                         *)
(***************************************************************************)
EXTENDS Integers, Sequences, FiniteSets, Functions, SequencesExt

CONSTANTS
    QSize,    \* queue_size read from the common configuration
    IdxMod    \* number of values of a ring index: 2^16 in the code

(* Queue sizes of split virtqueues are powers of two, so they divide 2^16. *)
ASSUME RingAssumption ==
    /\ QSize \in Nat \ {0} /\ IdxMod \in Nat
    /\ IdxMod > QSize /\ IdxMod % QSize = 0

VARIABLES
    free,           \* QueueFreeDescs.free, a stack
    avail_ring,     \* queue_driver: ring of descriptor heads
    avail_idx,      \* queue_driver: idx, the next slot the driver fills
    used_ring,      \* queue_device: ring of returned heads
    used_idx,       \* queue_device: idx, the next slot the device fills
    last_used_idx,  \* Virtio.last_used_idx: the last slot the driver took
    dev_idx,        \* external: the next available slot the device reads
    dev_held        \* external: heads the device has taken and not returned

vqvars == << free, avail_ring, avail_idx, used_ring, used_idx, last_used_idx,
             dev_idx, dev_held >>
availvars == << avail_ring, avail_idx >>
usedvars  == << used_ring, used_idx, last_used_idx >>
devvars   == << dev_idx, dev_held >>

Descs   == 0 .. QSize - 1
NoDesc  == QSize
Indexes == 0 .. IdxMod - 1

VqTypeOK ==
    /\ free \in Seq(Descs)
    /\ avail_ring \in [Descs -> Descs \cup {NoDesc}]
    /\ used_ring \in [Descs -> Descs \cup {NoDesc}]
    /\ avail_idx \in Indexes /\ used_idx \in Indexes
    /\ last_used_idx \in Indexes /\ dev_idx \in Indexes
    /\ dev_held \in SUBSET Descs

(* Virtio::init: zeroed rings, every descriptor free, last_used_idx at MAX *)
(* so that its wrapping successor is the device's initial index 0.         *)
VqInit ==
    /\ free = [i \in 1 .. QSize |-> i - 1]
    /\ avail_ring = [s \in Descs |-> NoDesc] /\ avail_idx = 0
    /\ used_ring = [s \in Descs |-> NoDesc] /\ used_idx = 0
    /\ last_used_idx = IdxMod - 1
    /\ dev_idx = 0 /\ dev_held = {}

plain_add(i)    == i + 1   \* mutant: does not wrap
wrapping_add(i) == (i + 1) % IdxMod
Slot(i)         == i % QSize

-----------------------------------------------------------------------------
(* QueueFreeDescs: get_free pops one descriptor, set_free pushes one. *)
get_free(d) ==
    /\ free # <<>>
    /\ d = Last(free)
    /\ free' = Front(free)

get_free_twice(d, n) ==
    /\ Len(free) >= 2
    /\ d = Last(free)
    /\ n = free[Len(free) - 1]
    /\ free' = SubSeq(free, 1, Len(free) - 2)

(* set_available: the slot is written first, then the index. *)
write_slot(d) == avail_ring' = [avail_ring EXCEPT ![Slot(avail_idx)] = d]
write_idx     == avail_idx' = wrapping_add(avail_idx)

(* next_used: compares the successor of the last index with the device's.  *)
(* What a consumed slot of either ring still holds is never meant to be    *)
(* read again; the model empties it, so that reading it again would block. *)
has_used == wrapping_add(last_used_idx) # used_idx
next_used(d) ==
    LET next == wrapping_add(last_used_idx) IN
    /\ has_used
    /\ last_used_idx' = next
    /\ d = used_ring[Slot(next)]
    /\ used_ring' = [used_ring EXCEPT ![Slot(next)] = NoDesc]

-----------------------------------------------------------------------------
(* External: the device takes the next available head, and returns a head *)
(* it holds by writing the used ring and then its index.                  *)
DevTake(d) ==
    /\ dev_idx # avail_idx
    /\ d = avail_ring[Slot(dev_idx)]
    /\ avail_ring' = [avail_ring EXCEPT ![Slot(dev_idx)] = NoDesc]
    /\ dev_idx' = wrapping_add(dev_idx)
    /\ dev_held' = dev_held \cup {d}
    /\ UNCHANGED << free, avail_idx, usedvars >>

DevReturn(d) ==
    /\ d \in dev_held
    /\ dev_held' = dev_held \ {d}
    /\ used_ring' = [used_ring EXCEPT ![Slot(used_idx)] = d]
    /\ used_idx' = wrapping_add(used_idx)
    /\ UNCHANGED << free, availvars, last_used_idx, dev_idx >>

-----------------------------------------------------------------------------
(* The entries of a ring from one index up to another, oldest first: the  *)
(* heads published and not yet taken by the device, and the heads the      *)
(* device returned and the driver has not taken.                           *)
Pending(ring, from, to) ==
    [k \in 1 .. (to - from) % IdxMod |-> ring[Slot(from + k - 1)]]

AvailPending == Pending(avail_ring, dev_idx, avail_idx)
UsedPending  == Pending(used_ring, wrapping_add(last_used_idx), used_idx)
=============================================================================
