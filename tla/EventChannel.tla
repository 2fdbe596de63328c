---------------------------- MODULE EventChannel ----------------------------
(***************************************************************************)
(* What an input driver promises: a bounded FIFO channel from the device   *)
(* to globals::INPUT.  Every event the device reports is applied exactly   *)
(* once, in the order in which the device reported them.                   *)
(***************************************************************************)
EXTENDS Naturals, Sequences

CONSTANTS
    Events,     \* the values a VirtioInputEvent may have
    Capacity    \* event buffers the driver gives to the device

VARIABLES
    queue,      \* events reported and not yet applied
    input       \* events applied to INPUT, in order

Init == queue = <<>> /\ input = <<>>

Report(e) ==
    /\ Len(queue) < Capacity
    /\ queue' = Append(queue, e)
    /\ UNCHANGED input

Apply ==
    /\ queue # <<>>
    /\ input' = Append(input, Head(queue))
    /\ queue' = Tail(queue)

Next == (\E e \in Events : Report(e)) \/ Apply

Spec == Init /\ [][Next]_<< queue, input >> /\ WF_<< queue, input >>(Apply)
=============================================================================
