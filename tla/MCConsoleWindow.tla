--------------------------- MODULE MCConsoleWindow ---------------------------
(* Values of ConsoleWindow's constants for TLC: a small screen, and mouse  *)
(* positions at its corner, at its middle, past the first rectangle, near  *)
(* the edge and beyond LIMIT.                                              *)
EXTENDS ConsoleWindow

MouseXs == {0, 3, 6, 14}
MouseYs == {0, 4, 10}
First   == [x |-> 1, y |-> 1, x2 |-> 9, y2 |-> 9]
=============================================================================
