------------------------ MODULE ConsoleWindowProofs ------------------------
(***************************************************************************)
(* For every screen, mouse motion and press the console's window is drawn  *)
(* within the frame buffer and within its blurred copy.                    *)
(***************************************************************************)
EXTENDS ConsoleWindow, TLAPS

-----------------------------------------------------------------------------
(* What the steps of one call do to a rectangle. *)

(* Adding a signed difference to a usize gives a usize. *)
LEMMA AddSignedNat ==
    ASSUME NEW v \in Nat, NEW d \in Int
    PROVE  AddSigned(v, d) \in Nat
  <1>1. v + d \in Int /\ USIZE \in Nat \ {0}
    BY ScreenAssumption
  <1> QED
    BY <1>1 DEF AddSigned

(* A move wraps around in a usize: coordinates stay natural numbers. *)
LEMMA MovedNat ==
    ASSUME NEW r \in NatRects, NEW dx \in Int, NEW dy \in Int
    PROVE  Moved(r, dx, dy) \in NatRects
  <1>1. r.x \in Nat /\ r.y \in Nat /\ r.x2 \in Nat /\ r.y2 \in Nat
    BY DEF NatRects
  <1>2. /\ AddSigned(r.x, dx) \in Nat  /\ AddSigned(r.y, dy) \in Nat
        /\ AddSigned(r.x2, dx) \in Nat /\ AddSigned(r.y2, dy) \in Nat
    BY <1>1, AddSignedNat
  <1> QED
    BY <1>2 DEF Moved, NatRects

(* So do those of a resized window. *)
LEMMA ResizedNat ==
    ASSUME NEW r \in NatRects, NEW edges, NEW mx \in Nat, NEW my \in Nat
    PROVE  Resized(r, edges, mx, my) \in NatRects
  BY DEF Resized, NatRects

(* Clamping brings any rectangle within the bounds the drawing relies on. *)
LEMMA ClampedInside ==
    ASSUME NEW r \in NatRects
    PROVE  Clamped(r) \in Rects
  BY ScreenAssumption DEF Clamped, NatRects, Rects

(* A drawn rectangle is one of natural numbers. *)
LEMMA RectsAreNat ==
    ASSUME NEW r \in Rects
    PROVE  r \in NatRects
  BY ScreenAssumption DEF Rects, NatRects

-----------------------------------------------------------------------------
(* Arithmetic of the two indexes. *)

(* A cell of row j, column i of a w by h table has an index below w * h. *)
LEMMA IndexBound ==
    ASSUME NEW w \in Nat, NEW h \in Nat, NEW i \in Nat, NEW j \in Nat,
           i < w, j < h
    PROVE  i + j * w < w * h
  <1>1. h - 1 - j \in Nat
    OBVIOUS
  <1>2. (h - 1 - j) * w \in Nat
    BY <1>1
  <1>3. (h - 1 - j) * w = w * h - w - j * w
    OBVIOUS
  <1>4. w * h \in Int /\ j * w \in Int
    OBVIOUS
  <1> QED
    BY <1>2, <1>3, <1>4

(* A pixel that is not in the last column (or row) of a screen lies in a   *)
(* whole cell if the remainder of the screen's size is at most one.        *)
LEMMA CellOfPixel ==
    ASSUME NEW n \in Nat, n % DIV <= 1, NEW p \in Nat, p < n - 1
    PROVE  p \div DIV \in Nat /\ n \div DIV \in Nat /\ p \div DIV < n \div DIV
  BY DEF DIV

(* A rectangle within the bounds draws within both arrays. *)
LEMMA RectDrawsInside ==
    ASSUME rect \in Rects
    PROVE  DrawsInside
  <1> SUFFICES ASSUME NEW px \in rect.x .. rect.x2, NEW py \in rect.y .. rect.y2
               PROVE  /\ Pixel(px, py) < W * H
                      /\ px < rect.x2 /\ py < rect.y2 => Cell(px, py) < Cells
    BY DEF DrawsInside
  <1>1. /\ rect.x \in Nat /\ rect.y \in Nat
        /\ rect.x2 \in 0 .. W - 1 /\ rect.y2 \in 0 .. H - 1
    BY DEF Rects
  <1>2. px \in Nat /\ py \in Nat /\ px <= rect.x2 /\ py <= rect.y2
    BY <1>1
  <1>3. W \in Nat /\ H \in Nat
    BY ScreenAssumption
  <1>4. Pixel(px, py) < W * H
    <2>1. px < W /\ py < H
      BY <1>1, <1>2, <1>3
    <2> QED
      BY <2>1, <1>2, <1>3, IndexBound DEF Pixel
  <1>5. ASSUME px < rect.x2, py < rect.y2
        PROVE  Cell(px, py) < Cells
    <2>1. px < W - 1 /\ py < H - 1
      BY <1>1, <1>2, <1>3, <1>5
    <2>2. /\ px \div DIV \in Nat /\ W \div DIV \in Nat
          /\ px \div DIV < W \div DIV
      BY <2>1, <1>2, <1>3, CellAssumption, CellOfPixel
    <2>3. /\ py \div DIV \in Nat /\ H \div DIV \in Nat
          /\ py \div DIV < H \div DIV
      BY <2>1, <1>2, <1>3, CellAssumption, CellOfPixel
    <2> QED
      BY <2>2, <2>3, IndexBound DEF Cell, Cells
  <1> QED
    BY <1>4, <1>5

-----------------------------------------------------------------------------
(* The type invariant is inductive: it says that a rectangle that was      *)
(* drawn had been clamped.                                                 *)

(* The first rectangle. *)
LEMMA InitTypes == Init => TypeOK
  <1> SUFFICES ASSUME Init
               PROVE  TypeOK
    OBVIOUS
  <1>1. rect \in NatRects
    BY ScreenAssumption DEF Init, NatRects
  <1>2. moving \in [on : BOOLEAN, x : Nat, y : Nat]
    BY DEF Init, NotMoving
  <1>3. resizing = {} /\ active = FALSE /\ drawn = FALSE
    BY DEF Init
  <1> QED
    BY <1>1, <1>2, <1>3 DEF TypeOK

(* One call of _start with any button and mouse position keeps it. *)
LEMMA FrameTypes ==
    ASSUME TypeOK, NEW b \in {"off", "pressed", "held"},
           NEW mx \in Nat, NEW my \in Nat, Frame(b, mx, my)
    PROVE  TypeOK'
  <1> DEFINE edges0 == IF b = "off" THEN {} ELSE resizing
             move0  == IF b = "off" THEN NotMoving ELSE moving
             edges  == IF b = "pressed" THEN edges0 \cup Grabbed(rect, mx, my)
                       ELSE edges0
             click  == b = "pressed" /\ edges = {}
             starts == click /\ Inside(rect, mx, my)
             move   == IF starts THEN [on |-> TRUE, x |-> mx, y |-> my] ELSE move0
             moved  == IF move.on THEN Moved(rect, mx - move.x, my - move.y)
                       ELSE rect
  <1>1. /\ resizing' = edges
        /\ moving' = IF move.on THEN [on |-> TRUE, x |-> mx, y |-> my] ELSE move
        /\ active' = IF click THEN starts ELSE active
        /\ rect' = Clamped(Resized(moved, edges, mx, my))
        /\ drawn' = TRUE
    BY DEF Frame
  <1>2. move0 \in [on : BOOLEAN, x : Nat, y : Nat]
    BY DEF TypeOK, NotMoving
  <1>3. move \in [on : BOOLEAN, x : Nat, y : Nat]
    BY <1>2
  <1>4. rect' \in Rects
    <2>1. rect \in NatRects
      BY DEF TypeOK
    <2>2. mx - move.x \in Int /\ my - move.y \in Int
      BY <1>3
    <2>3. moved \in NatRects
      BY <2>1, <2>2, MovedNat
    <2> HIDE DEF moved, edges
    <2>4. Resized(moved, edges, mx, my) \in NatRects
      BY <2>3, ResizedNat
    <2> QED
      BY <1>1, <2>4, ClampedInside
  <1>5. edges \in SUBSET Edges
    BY DEF TypeOK, Grabbed
  <1>6. rect' \in NatRects
    BY <1>4, RectsAreNat
  <1>7. moving' \in [on : BOOLEAN, x : Nat, y : Nat]
    <2> HIDE DEF move
    <2> QED
      BY <1>1, <1>3
  <1>8. active' \in BOOLEAN
    BY <1>1 DEF TypeOK
  <1> QED
    BY <1>1, <1>4, <1>5, <1>6, <1>7, <1>8 DEF TypeOK

(* So does every step. *)
LEMMA NextTypes == TypeOK /\ [Next]_vars => TypeOK'
  <1> SUFFICES ASSUME TypeOK, [Next]_vars
               PROVE  TypeOK'
    OBVIOUS
  <1>1. CASE Next
    <2>1. PICK b \in {"off", "pressed", "held"}, mx \in MouseX, my \in MouseY :
            Frame(b, mx, my)
      BY <1>1 DEF Next
    <2>2. mx \in Nat /\ my \in Nat
      BY ScreenAssumption
    <2> QED
      BY <2>1, <2>2, FrameTypes
  <1>2. CASE UNCHANGED vars
    BY <1>2 DEF TypeOK, vars
  <1> QED
    BY <1>1, <1>2

-----------------------------------------------------------------------------
(* The rectangle, the drag and the edges being resized stay within their   *)
(* types, on any screen.                                                   *)
THEOREM WindowTypes == Spec => []TypeOK
  BY InitTypes, NextTypes, PTL DEF Spec

(* _start never indexes the frame buffer or the blurred copy out of bounds *)
(* when it draws the window, on any screen whose sizes leave a remainder   *)
(* of at most one by DIV, wherever the mouse goes.                         *)
THEOREM AlwaysDrawsInside == Spec => []DrawsInside
  <1>1. TypeOK => DrawsInside
    <2> SUFFICES ASSUME TypeOK
                 PROVE  DrawsInside
      OBVIOUS
    <2>1. CASE drawn
      BY <2>1, RectDrawsInside DEF TypeOK
    <2>2. CASE ~drawn
      BY <2>2 DEF DrawsInside
    <2> QED
      BY <2>1, <2>2
  <1> QED
    BY <1>1, WindowTypes, PTL
=============================================================================
