---------------------------- MODULE MCInputFrames ----------------------------
(* Left shift pressed and released, Enter pressed and repeated, and the    *)
(* mouse moving to the left.                                               *)
EXTENDS InputFrames

KeyCodes == {28, 42}
SomeEvents == { [type |-> 1, code |-> 42, value |-> 1],
                [type |-> 1, code |-> 42, value |-> 0],
                [type |-> 1, code |-> 28, value |-> 2],
                [type |-> 2, code |-> 0, value |-> -1] }
=============================================================================
