---------------------------- MODULE ConsoleWindow ----------------------------
(***************************************************************************)
(* app_console/src/main.rs: the console's window.  On every call _start    *)
(* reads the mouse from the frame's Input, starts or ends a move or a      *)
(* resize, updates the rectangle with usize arithmetic, clamps it to the   *)
(* frame buffer, and draws every pixel of it: the border and the header in *)
(* a colour, the rest from the blurred copy, which has one cell per        *)
(* DIV x DIV pixels.  Both arrays are indexed with a panic when out of     *)
(* bounds.                                                                 *)
(***************************************************************************)
EXTENDS Integers

CONSTANTS
    W, H,        \* ctx.fb.w and ctx.fb.h
    MouseX,      \* values of ctx.input.mx: no upper limit in virtio_input.rs
    MouseY,      \* values of ctx.input.my
    FirstRect,   \* x, y, x2, y2 of a new Store
    GRAB,        \* 10 in the code: how near an edge the mouse grabs it
    LIMIT,       \* 10000 in the code
    USIZE        \* number of values of a usize: 2^64

DIV == 4

ASSUME ScreenAssumption ==
    /\ W \in Nat \ {0} /\ H \in Nat \ {0} /\ GRAB \in Nat
    /\ LIMIT \in Nat /\ USIZE \in Nat /\ USIZE > LIMIT
    /\ MouseX \subseteq Nat /\ MouseY \subseteq Nat
    /\ FirstRect \in [x : Nat, y : Nat, x2 : Nat, y2 : Nat]

(* The blurred copy covers the screen if the remainders are small: the     *)
(* last row and column of a window are border.                             *)
ASSUME CellAssumption == W % DIV <= 1 /\ H % DIV <= 1

VARIABLES
    rect,       \* Store.x, y, x2, y2
    resizing,   \* Store.resizing: the edges that follow the mouse
    moving,     \* Store.moving: the last mouse position, or NotMoving
    active,     \* Store.active
    drawn       \* the window has been drawn

vars == << rect, resizing, moving, active, drawn >>

Edges     == {"top", "right", "bottom", "left"}
NotMoving == [on |-> FALSE, x |-> 0, y |-> 0]
NatRects  == [x : Nat, y : Nat, x2 : Nat, y2 : Nat]
Rects     == [x : 0 .. LIMIT, y : 0 .. LIMIT, x2 : 0 .. W - 1, y2 : 0 .. H - 1]

TypeOK ==
    /\ rect \in NatRects /\ (drawn => rect \in Rects)
    /\ resizing \in SUBSET Edges
    /\ moving \in [on : BOOLEAN, x : Nat, y : Nat]
    /\ active \in BOOLEAN /\ drawn \in BOOLEAN

Init ==
    /\ rect = FirstRect
    /\ resizing = {} /\ moving = NotMoving
    /\ active = FALSE /\ drawn = FALSE

-----------------------------------------------------------------------------
Near(a, b) == a - b < GRAB /\ b - a < GRAB

(* The edges a press at mx, my grabs. *)
Grabbed(r, mx, my) ==
    LET between == r.x <= mx /\ mx <= r.x2 IN
    {e \in Edges :
        \/ e = "left"   /\ Near(r.x, mx)
        \/ e = "right"  /\ Near(r.x2, mx)
        \/ e = "top"    /\ Near(r.y, my) /\ between
        \/ e = "bottom" /\ Near(r.y2, my) /\ between}

Inside(r, mx, my) ==
    r.x <= mx /\ mx <= r.x2 /\ r.y <= my /\ my <= r.y2

(* (v as isize + d) as usize *)
AddSignedNoWrap(v, d) == v + d   \* mutant: the difference is kept signed

AddSigned(v, d) == (v + d) % USIZE

Moved(r, dx, dy) ==
    [x  |-> AddSigned(r.x, dx),  y  |-> AddSigned(r.y, dy),
     x2 |-> AddSigned(r.x2, dx), y2 |-> AddSigned(r.y2, dy)]

Resized(r, edges, mx, my) ==
    [x  |-> IF "left" \in edges THEN mx ELSE r.x,
     y  |-> IF "top" \in edges THEN my ELSE r.y,
     x2 |-> IF "right" \in edges THEN mx ELSE r.x2,
     y2 |-> IF "bottom" \in edges THEN my ELSE r.y2]

ClampedByOne(r) ==   \* mutant: > in place of >=
    [x  |-> IF r.x > LIMIT THEN 0 ELSE r.x,
     y  |-> IF r.y > LIMIT THEN 0 ELSE r.y,
     x2 |-> IF r.x2 > W THEN W - 1 ELSE r.x2,
     y2 |-> IF r.y2 > H THEN H - 1 ELSE r.y2]

Clamped(r) ==
    [x  |-> IF r.x > LIMIT THEN 0 ELSE r.x,
     y  |-> IF r.y > LIMIT THEN 0 ELSE r.y,
     x2 |-> IF r.x2 >= W THEN W - 1 ELSE r.x2,
     y2 |-> IF r.y2 >= H THEN H - 1 ELSE r.y2]

(* One call of _start, with ctx.input.keys[272] below 128 ("off"), 128     *)
(* ("pressed") or above ("held").  In one frame a button may go up and     *)
(* down any number of times (KeyState), so any of the three may follow any *)
(* other: a press may find the window moving or being resized.             *)
Frame(b, mx, my) ==
    LET edges0 == IF b = "off" THEN {} ELSE resizing
        move0  == IF b = "off" THEN NotMoving ELSE moving
        edges  == IF b = "pressed" THEN edges0 \cup Grabbed(rect, mx, my) ELSE edges0
        click  == b = "pressed" /\ edges = {}
        starts == click /\ Inside(rect, mx, my)
        move   == IF starts THEN [on |-> TRUE, x |-> mx, y |-> my] ELSE move0
        moved  == IF move.on THEN Moved(rect, mx - move.x, my - move.y) ELSE rect
    IN  /\ resizing' = edges
        /\ moving' = IF move.on THEN [on |-> TRUE, x |-> mx, y |-> my] ELSE move
        /\ active' = IF click THEN starts ELSE active
        /\ rect' = Clamped(Resized(moved, edges, mx, my))
        /\ drawn' = TRUE

Next == \E b \in {"off", "pressed", "held"}, mx \in MouseX, my \in MouseY :
            Frame(b, mx, my)

Spec == Init /\ [][Next]_vars

-----------------------------------------------------------------------------
(* The loops over y in store.y ..= store.y2 and x in store.x ..= store.x2, *)
(* and the index of the blurred copy for a pixel that is not border.       *)
Pixel(px, py) == px + py * W
Cell(px, py)  == px \div DIV + (py \div DIV) * (W \div DIV)
Cells         == (W \div DIV) * (H \div DIV)

(* However the mouse moves the window, off the screen, inside out, or far  *)
(* enough for a coordinate to wrap around, no pixel of it is drawn outside *)
(* the frame buffer and none is read outside the blurred copy: _start      *)
(* never panics on either index.                                           *)
DrawsInside ==
    drawn =>
      \A px \in rect.x .. rect.x2, py \in rect.y .. rect.y2 :
        /\ Pixel(px, py) < W * H
        /\ px < rect.x2 /\ py < rect.y2 => Cell(px, py) < Cells
=============================================================================
