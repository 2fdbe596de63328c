------------------------------ MODULE LoopProofs ------------------------------
(***************************************************************************)
(* Proofs about the application loop, for every screen, every number of    *)
(* GPUs and every number of resets, and about the interrupts, for every    *)
(* set of wired pins.                                                      *)
(***************************************************************************)
EXTENDS AppLoop, Interrupts, FiniteSetTheorems, TLAPS

-----------------------------------------------------------------------------
(* Sizes of small sets. *)

(* A set of two values has at most two elements. *)
LEMMA AtMostTwo ==
    ASSUME NEW x, NEW y
    PROVE  IsFiniteSet({x, y}) /\ Cardinality({x, y}) \in Nat /\ Cardinality({x, y}) <= 2
<1>1. IsFiniteSet({x}) /\ Cardinality({x}) = 1
  BY FS_Singleton
<1>2. /\ IsFiniteSet({x} \cup {y})
      /\ Cardinality({x} \cup {y}) = IF y \in {x} THEN Cardinality({x})
                                     ELSE Cardinality({x}) + 1
  BY <1>1, FS_AddElement
<1>3. {x, y} = {x} \cup {y}
  OBVIOUS
<1> QED BY <1>1, <1>2, <1>3

(* A union is no larger than its parts together. *)
LEMMA UnionSize ==
    ASSUME NEW S, NEW T, IsFiniteSet(S), IsFiniteSet(T),
           NEW m \in Nat, NEW n \in Nat, Cardinality(S) <= m, Cardinality(T) <= n
    PROVE  IsFiniteSet(S \cup T) /\ Cardinality(S \cup T) \in Nat
              /\ Cardinality(S \cup T) <= m + n
<1>1. /\ IsFiniteSet(S \cup T) /\ IsFiniteSet(S \cap T)
      /\ Cardinality(S \cup T) = Cardinality(S) + Cardinality(T) - Cardinality(S \cap T)
  BY FS_Union, FS_Intersection
<1>2. /\ Cardinality(S) \in Nat /\ Cardinality(T) \in Nat
      /\ Cardinality(S \cap T) \in Nat /\ Cardinality(S \cup T) \in Nat
  BY <1>1, FS_CardinalityType
<1> QED BY <1>1, <1>2

-----------------------------------------------------------------------------
(* The application loop. *)

(* An application is being called. *)
InCall == pc \in {"run", "exit", "panicked", "stopped"}

(* What an application left in its Context is in its own store, or in the  *)
(* static slot while it is called.                                         *)
SlotInv ==
    /\ stores = [a \in Apps |-> IF InCall /\ a = apps[app] THEN NoBox ELSE left[a]]
    /\ none = IF InCall THEN left[apps[app]] ELSE NoBox

(* Every Box was dropped or belongs to one application. *)
BoxInv ==
    /\ \A a, b \in Apps : left[a] = left[b] /\ left[a] # NoBox => a = b
    /\ \A b \in 1 .. boxes : b \notin dropped <=> \E a \in Apps : left[a] = b
    /\ Cardinality(dropped) <= MaxResets

(* The types of what is known of the console's scripts. *)
ScriptTypes ==
    /\ captured \subseteq 0 .. GpuCount /\ drawn \subseteq 0 .. GpuCount
    /\ born \in 0 .. GpuCount

(* The running call shares the frame buffer that is current. *)
ShareInv == InCall => shared = fb

(* The inductive invariant of the application loop. *)
LoopInv == TypeOK /\ SlotInv /\ BoxInv /\ ShareInv

(* The application being called. *)
LEMMA AppCalled == TypeOK => apps[app] \in Apps
BY DEF TypeOK, apps, Apps

(* The cells of a screen. *)
LEMMA CellsNat == \A sh \in FbShare : Cells(sh.size) \in Nat
<1> SUFFICES ASSUME NEW sh \in FbShare PROVE Cells(sh.size) \in Nat
  OBVIOUS
<1>1. sh.size \in Nat \X Nat
  BY SizesAssumption DEF FbShare
<1>2. sh.size[1] \in Nat /\ sh.size[2] \in Nat
  BY <1>1
<1>3. sh.size[1] \div DIV \in Nat /\ sh.size[2] \div DIV \in Nat
  BY <1>2 DEF DIV
<1> QED BY <1>3 DEF Cells

(* A new loop holds no Box. *)
LEMMA InitLoopInv == Init => LoopInv
<1> SUFFICES ASSUME Init PROVE LoopInv
  OBVIOUS
<1> USE DEF Init
<1>1. PICK size \in BootSizes : fb = [alloc |-> 0, size |-> size]
  OBVIOUS
<1>2. fb \in FbShare /\ fb.alloc = 0
  BY <1>1, SizesAssumption DEF FbShare
<1>3. freed = 0 .. fb.alloc - 1
  BY <1>2
<1>4. TypeOK
  BY <1>2, <1>3, SizesAssumption DEF TypeOK, NoBox
<1>5. SlotInv
  BY DEF SlotInv, InCall
<1>6. BoxInv
  <2>1. Cardinality({}) = 0
    BY FS_EmptySet
  <2> QED BY <2>1, SizesAssumption DEF BoxInv
<1> QED BY <1>4, <1>5, <1>6 DEF LoopInv, ShareInv

(* There are never more Boxes than three and the dropped ones: an          *)
(* application that makes one had none.                                    *)
LEMMA RoomForBox ==
    ASSUME TypeOK, BoxInv, left[apps[app]] = NoBox
    PROVE  boxes + 1 \in 0 .. MaxResets + 3
<1>1. boxes \in Nat /\ MaxResets \in Nat /\ apps[app] \in Apps
  BY AppCalled, SizesAssumption DEF TypeOK
<1>2. PICK x \in Apps, y \in Apps : Apps = {apps[app], x, y}
  BY <1>1 DEF Apps
<1>3. 1 .. boxes \subseteq dropped \cup {left[x], left[y]}
  <2> SUFFICES ASSUME NEW b \in 1 .. boxes, b \notin dropped
               PROVE  b \in {left[x], left[y]}
    OBVIOUS
  <2>1. PICK a \in Apps : left[a] = b
    BY DEF BoxInv
  <2>2. a # apps[app]
    BY <1>1, <2>1 DEF NoBox
  <2> QED BY <1>2, <2>1, <2>2
<1>4. IsFiniteSet(1 .. boxes) /\ Cardinality(1 .. boxes) = boxes
  BY <1>1, FS_Interval
<1>5. IsFiniteSet(dropped)
  BY <1>4, FS_Subset DEF TypeOK
<1>6. /\ IsFiniteSet(dropped \cup {left[x], left[y]})
      /\ Cardinality(dropped \cup {left[x], left[y]}) \in Nat
      /\ Cardinality(dropped \cup {left[x], left[y]}) <= MaxResets + 2
  <2>1. IsFiniteSet({left[x], left[y]}) /\ Cardinality({left[x], left[y]}) <= 2
    BY AtMostTwo
  <2> QED BY <1>1, <1>5, <2>1, UnionSize DEF BoxInv
<1>7. boxes <= MaxResets + 2
  <2>1. Cardinality(1 .. boxes) <= Cardinality(dropped \cup {left[x], left[y]})
    BY <1>3, <1>6, FS_Subset
  <2> QED BY <1>1, <1>4, <1>6, <2>1
<1> QED BY <1>1, <1>7

(* A call begins: the Box moves to the slot. *)
LEMMA EnterStep == ASSUME LoopInv, CallEnter PROVE LoopInv'
<1> USE DEF LoopInv, CallEnter
<1>1. apps[app] \in Apps /\ app' = app /\ apps[app'] = apps[app]
  BY AppCalled
<1>2. ~InCall /\ InCall'
  BY DEF InCall
<1>3. stores = left /\ left \in [Apps -> 0 .. boxes]
  BY <1>2 DEF SlotInv, TypeOK
<1>4. TypeOK'
  <2>1. NoBox \in 0 .. boxes /\ stores[apps[app]] \in 0 .. boxes
    BY <1>1 DEF TypeOK, NoBox
  <2> QED BY <2>1 DEF TypeOK, boxvars, scriptvars
<1>5. SlotInv'
  <2>1. none' = left[apps[app]]
    BY <1>3
  <2>2. stores' = [a \in Apps |-> IF a = apps[app] THEN NoBox ELSE left[a]]
    BY <1>3
  <2> QED BY <1>1, <1>2, <2>1, <2>2 DEF SlotInv, boxvars
<1>6. BoxInv' /\ ShareInv'
  BY DEF BoxInv, ShareInv, boxvars
<1> QED BY <1>4, <1>5, <1>6

(* An application that returns with the Box b, its own, a new one or none, *)
(* keeps the invariant.                                                    *)
LEMMA RunStep ==
    ASSUME LoopInv, pc = "run", pc' \in {"exit", "stopped"}, ScriptTypes', NEW b \in 0 .. boxes', Leaves(b),
           UNCHANGED << app, stores, fb, freed, shared >>, blur' \in Nat,
           boxes' \in boxes .. MaxResets + 3, dropped' \subseteq 1 .. boxes',
           BoxInv'
    PROVE  LoopInv'
<1> USE DEF LoopInv
<1>1. apps[app] \in Apps /\ app' = app /\ apps[app'] = apps[app] /\ boxes \in Nat
      /\ MaxResets \in Nat
  BY AppCalled, SizesAssumption DEF TypeOK
<1>2. InCall /\ InCall'
  BY DEF InCall
<1>3. left \in [Apps -> 0 .. boxes] /\ left' = [left EXCEPT ![apps[app]] = b]
      /\ none' = b
  BY DEF TypeOK, Leaves
<1>4. left' \in [Apps -> 0 .. boxes'] /\ stores' \in [Apps -> 0 .. boxes']
  <2>1. 0 .. boxes \subseteq 0 .. boxes'
    BY <1>1
  <2>2. stores \in [Apps -> 0 .. boxes]
    BY DEF TypeOK
  <2> QED BY <1>3, <2>1, <2>2
<1>5. TypeOK'
  <2>1. boxes' \in 0 .. MaxResets + 3
    BY <1>1
  <2> QED BY <1>3, <1>4, <2>1 DEF TypeOK, FbShare, ScriptTypes
<1>6. SlotInv'
  <2>1. stores = [a \in Apps |-> IF a = apps[app] THEN NoBox ELSE left[a]]
    BY <1>2 DEF SlotInv
  <2>2. stores = [a \in Apps |-> IF a = apps[app] THEN NoBox ELSE left'[a]]
    BY <1>3, <2>1
  <2>3. none' = left'[apps[app]]
    BY <1>1, <1>3
  <2> QED BY <1>1, <1>2, <2>2, <2>3 DEF SlotInv
<1>7. ShareInv'
  BY <1>2 DEF ShareInv
<1> QED BY <1>5, <1>6, <1>7

(* Boxes stay separate when an application keeps its own... *)
LEMMA KeepOwn ==
    ASSUME LoopInv, pc = "run", Leaves(none), UNCHANGED << boxes, dropped >>
    PROVE  BoxInv'
<1>1. apps[app] \in Apps /\ left \in [Apps -> 0 .. boxes]
  BY AppCalled DEF LoopInv, TypeOK
<1>2. none = left[apps[app]]
  BY DEF LoopInv, SlotInv, InCall
<1>3. left' = left
  BY <1>1, <1>2 DEF Leaves
<1> QED BY <1>3 DEF LoopInv, BoxInv

(* ...when it makes a new one, having none... *)
LEMMA KeepNew ==
    ASSUME LoopInv, pc = "run", none = NoBox, boxes' = boxes + 1,
           Leaves(boxes'), dropped' = dropped
    PROVE  BoxInv' /\ left[apps[app]] = NoBox
<1> USE DEF LoopInv
<1>1. /\ apps[app] \in Apps /\ left \in [Apps -> 0 .. boxes] /\ boxes \in Nat
      /\ dropped \subseteq 1 .. boxes
  BY AppCalled DEF TypeOK
<1>2. left[apps[app]] = NoBox
  BY DEF SlotInv, InCall
<1>3. /\ left' = [left EXCEPT ![apps[app]] = boxes + 1]
      /\ left' \in [Apps -> 0 .. boxes + 1]
  <2>1. boxes + 1 \in 0 .. boxes + 1 /\ 0 .. boxes \subseteq 0 .. boxes + 1
    BY <1>1
  <2> QED BY <1>1, <2>1 DEF Leaves
<1>4. \A a \in Apps : left[a] # boxes + 1
  <2> SUFFICES ASSUME NEW a \in Apps PROVE left[a] # boxes + 1
    OBVIOUS
  <2>1. left[a] \in 0 .. boxes
    BY <1>1
  <2> QED BY <1>1, <2>1
<1>5. ASSUME NEW a \in Apps, NEW b \in Apps, left'[a] = left'[b], left'[a] # NoBox
      PROVE  a = b
  <2>1. CASE a # apps[app] /\ b # apps[app]
    BY <1>3, <1>5, <2>1 DEF BoxInv
  <2>2. CASE a = apps[app] /\ b # apps[app]
    BY <1>1, <1>3, <1>4, <1>5, <2>2
  <2>3. CASE a # apps[app] /\ b = apps[app]
    BY <1>1, <1>3, <1>4, <1>5, <2>3
  <2> QED BY <2>1, <2>2, <2>3
<1>6. ASSUME NEW b \in 1 .. boxes + 1
      PROVE  b \notin dropped <=> \E a \in Apps : left'[a] = b
  <2>1. CASE b = boxes + 1
    <3>1. b \notin dropped
      BY <1>1, <2>1
    <3>2. left'[apps[app]] = b
      BY <1>1, <1>3, <2>1
    <3> QED BY <1>1, <3>1, <3>2
  <2>2. CASE b \in 1 .. boxes
    <3>1. b # boxes + 1 /\ b # NoBox
      BY <1>1, <2>2 DEF NoBox
    <3>2. \A a \in Apps : left'[a] = b <=> left[a] = b
      BY <1>1, <1>2, <1>3, <3>1
    <3> QED BY <2>2, <3>2 DEF BoxInv
  <2> QED BY <1>1, <2>1, <2>2
<1>7. Cardinality(dropped) <= MaxResets
  BY DEF BoxInv
<1>8. BoxInv'
  BY <1>5, <1>6, <1>7 DEF BoxInv
<1> QED BY <1>2, <1>8

(* ...and when it drops its own. *)
LEMMA DropOwn ==
    ASSUME LoopInv, pc = "run", none # NoBox, Cardinality(dropped) < MaxResets,
           dropped' = dropped \cup {none}, Leaves(NoBox), boxes' = boxes
    PROVE  BoxInv' /\ dropped' \subseteq 1 .. boxes
<1> USE DEF LoopInv
<1>1. /\ apps[app] \in Apps /\ left \in [Apps -> 0 .. boxes] /\ boxes \in Nat
      /\ dropped \subseteq 1 .. boxes /\ MaxResets \in Nat
  BY AppCalled, SizesAssumption DEF TypeOK
<1>2. left[apps[app]] = none /\ none \in 1 .. boxes
  <2>1. left[apps[app]] = none
    BY DEF SlotInv, InCall
  <2>2. none \in 0 .. boxes /\ none # 0
    BY <1>1, <2>1 DEF NoBox
  <2> QED BY <1>1, <2>1, <2>2
<1>3. left' = [left EXCEPT ![apps[app]] = NoBox]
  BY DEF Leaves
<1>4. \A a, b \in Apps : left'[a] = left'[b] /\ left'[a] # NoBox => a = b
  BY <1>1, <1>3 DEF BoxInv
<1>5. ASSUME NEW b \in 1 .. boxes
      PROVE  b \notin dropped' <=> \E a \in Apps : left'[a] = b
  <2>1. CASE b = none
    <3>1. \A a \in Apps : left'[a] # b
      <4> SUFFICES ASSUME NEW a \in Apps, left'[a] = b PROVE FALSE
        OBVIOUS
      <4>1. a # apps[app]
        BY <1>1, <1>3, <2>1
      <4>2. left[a] = left[apps[app]]
        BY <1>1, <1>2, <1>3, <2>1, <4>1
      <4> QED BY <1>1, <1>2, <4>1, <4>2 DEF BoxInv
    <3> QED BY <2>1, <3>1
  <2>2. CASE b # none
    <3>1. b # NoBox
      BY <1>1 DEF NoBox
    <3>2. \A a \in Apps : left'[a] = b <=> left[a] = b
      BY <1>1, <1>2, <1>3, <2>2, <3>1
    <3> QED BY <2>2, <3>2 DEF BoxInv
  <2> QED BY <2>1, <2>2
<1>6. Cardinality(dropped') <= MaxResets
  <2>1. IsFiniteSet(dropped)
    <3>1. IsFiniteSet(1 .. boxes)
      BY <1>1, FS_Interval
    <3> QED BY <1>1, <3>1, FS_Subset
  <2>2. Cardinality(dropped \cup {none}) =
          IF none \in dropped THEN Cardinality(dropped) ELSE Cardinality(dropped) + 1
    BY <2>1, FS_AddElement
  <2>3. Cardinality(dropped) \in Nat
    BY <2>1, FS_CardinalityType
  <2> QED BY <1>1, <2>2, <2>3
<1>7. BoxInv'
  BY <1>4, <1>5, <1>6 DEF BoxInv
<1> QED BY <1>1, <1>2, <1>7

(* A call ends: the Box goes back to the application's store. *)
LEMMA ExitStep == ASSUME LoopInv, CallExit PROVE LoopInv'
<1> USE DEF LoopInv, CallExit
<1>1. apps[app] \in Apps /\ left \in [Apps -> 0 .. boxes]
  BY AppCalled DEF TypeOK
<1>2. InCall /\ ~InCall'
  BY DEF InCall
<1>3. stores' = left
  <2>1. stores = [a \in Apps |-> IF a = apps[app] THEN NoBox ELSE left[a]]
        /\ none = left[apps[app]]
    BY <1>2 DEF SlotInv
  <2> QED BY <1>1, <2>1
<1>4. TypeOK'
  <2>1. NoBox \in 0 .. boxes
    BY DEF TypeOK, NoBox
  <2>2. app' \in 1 .. 3 /\ pc' \in {"enter", "yield"}
    BY DEF TypeOK
  <2> QED BY <1>1, <1>3, <2>1, <2>2 DEF TypeOK, boxvars, scriptvars
<1>5. SlotInv'
  BY <1>1, <1>2, <1>3 DEF SlotInv, boxvars
<1>6. BoxInv' /\ ShareInv'
  BY <1>2 DEF BoxInv, ShareInv, boxvars
<1> QED BY <1>4, <1>5, <1>6

(* Every step of the loop and of the GPU tasks keeps the invariant. *)
LEMMA NextLoopInv == LoopInv /\ [Next]_vars => LoopInv'
<1> SUFFICES ASSUME LoopInv, [Next]_vars PROVE LoopInv'
  OBVIOUS
<1>1. /\ boxes \in Nat /\ MaxResets \in Nat /\ boxes <= MaxResets + 3 /\ blur \in Nat
      /\ none \in 0 .. boxes /\ dropped \subseteq 1 .. boxes
      /\ Cells(shared.size) \in Nat /\ shared.alloc \in 0 .. GpuCount
      /\ ScriptTypes
  BY SizesAssumption, CellsNat DEF LoopInv, TypeOK, FbShare, ScriptTypes
<1>2. ASSUME pc = "run", Keep, pc' \in {"exit", "stopped"}, blur' \in Nat,
             ScriptTypes',
             UNCHANGED << app, stores, dropped, fb, freed, shared >>
      PROVE  LoopInv'
  <2>1. CASE none = NoBox
    <3>1. boxes' = boxes + 1 /\ Leaves(boxes')
      BY <1>2, <2>1 DEF Keep
    <3>2. BoxInv' /\ left[apps[app]] = NoBox
      BY <1>2, <2>1, <3>1, KeepNew
    <3>3. boxes + 1 \in 0 .. MaxResets + 3
      BY <3>2, RoomForBox DEF LoopInv
    <3>4. /\ boxes' \in boxes .. MaxResets + 3 /\ boxes' \in 0 .. boxes'
          /\ dropped' \subseteq 1 .. boxes'
      BY <1>1, <1>2, <3>1, <3>3
    <3> QED BY <1>2, <3>1, <3>2, <3>4, RunStep
  <2>2. CASE none # NoBox
    <3>1. boxes' = boxes /\ Leaves(none)
      BY <1>2, <2>2 DEF Keep
    <3>2. BoxInv'
      BY <1>2, <3>1, KeepOwn
    <3>3. boxes' \in boxes .. MaxResets + 3 /\ none \in 0 .. boxes'
          /\ dropped' \subseteq 1 .. boxes'
      BY <1>1, <1>2, <3>1
    <3> QED BY <1>2, <3>1, <3>2, <3>3, RunStep
  <2> QED BY <2>1, <2>2
<1>3. CASE RunApp
  <2>1. ScriptTypes'
    BY <1>1, <1>3 DEF RunApp, ScriptTypes, scriptvars
  <2> QED BY <1>1, <1>2, <1>3, <2>1 DEF RunApp
<1>4. CASE RunAppFails
  <2>1. BoxInv'
    BY <1>4, KeepOwn DEF RunAppFails
  <2>2. boxes' \in boxes .. MaxResets + 3 /\ NoBox \in 0 .. boxes'
        /\ dropped' \subseteq 1 .. boxes' /\ blur' \in Nat
    BY <1>1, <1>4 DEF RunAppFails, NoBox
  <2>3. ScriptTypes'
    BY <1>1, <1>4 DEF RunAppFails, ScriptTypes, scriptvars
  <2> QED BY <1>4, <2>1, <2>2, <2>3, RunStep DEF RunAppFails
<1>5. CASE RunConsoleFirst \/ RunConsole
  <2>1. ScriptTypes'
    BY <1>1, <1>5 DEF RunConsoleFirst, RunConsole, ScriptTypes, scriptvars
  <2> QED BY <1>1, <1>2, <1>5, <2>1 DEF RunConsoleFirst, RunConsole, ConsoleCalled
<1>6. CASE RunConsoleReset
  <2>1. BoxInv' /\ dropped' \subseteq 1 .. boxes
    BY <1>6, DropOwn DEF RunConsoleReset, ConsoleCalled
  <2>2. boxes' \in boxes .. MaxResets + 3 /\ NoBox \in 0 .. boxes'
        /\ dropped' \subseteq 1 .. boxes' /\ blur' \in Nat
    BY <1>1, <1>6, <2>1 DEF RunConsoleReset, NoBox
  <2>3. ScriptTypes'
    BY <1>1, <1>6 DEF RunConsoleReset, ScriptTypes
  <2> QED BY <1>6, <2>1, <2>2, <2>3, RunStep DEF RunConsoleReset, ConsoleCalled
<1>7. CASE RunConsolePanics \/ RunConsoleStops
  <2>1. InCall /\ InCall'
    BY <1>7 DEF RunConsolePanics, RunConsoleStops, ConsoleCalled, InCall
  <2>2. drawn' \subseteq 0 .. GpuCount
    BY <1>1, <1>7 DEF RunConsolePanics, RunConsoleStops, ScriptTypes
  <2>3. /\ UNCHANGED << app, stores, none, left, boxes, dropped, fb, freed, shared >>
        /\ UNCHANGED << blur, captured, born >> /\ pc' \in {"panicked", "stopped"}
    BY <1>7 DEF RunConsolePanics, RunConsoleStops, boxvars, scriptvars
  <2>4. TypeOK'
    BY <2>2, <2>3 DEF LoopInv, TypeOK
  <2> QED BY <2>1, <2>3, <2>4 DEF LoopInv, SlotInv, BoxInv, ShareInv
<1>8. CASE Resume
  <2>1. ~InCall /\ ~InCall'
    BY <1>8 DEF Resume, InCall
  <2> QED BY <1>8, <2>1 DEF Resume, LoopInv, TypeOK, SlotInv, BoxInv, ShareInv,
                            boxvars, scriptvars
<1>9. CASE GpuUpdate
  <2>1. ~InCall /\ ~InCall'
    BY <1>9 DEF GpuUpdate, InCall
  <2>2. fb.alloc \in 0 .. GpuCount /\ GpuCount \in Nat /\ fb.alloc < GpuCount
    BY <1>9, SizesAssumption DEF GpuUpdate, LoopInv, TypeOK, FbShare
  <2>3. fb' = [alloc |-> fb.alloc + 1, size |-> GpuSize] /\ fb' \in FbShare
        /\ fb'.alloc = fb.alloc + 1
    BY <1>9, <2>2 DEF GpuUpdate, FbShare
  <2>4. freed' = 0 .. fb'.alloc - 1
    <3>1. freed' = (0 .. fb.alloc - 1) \cup {fb.alloc}
      BY <1>9 DEF GpuUpdate, LoopInv, TypeOK
    <3>2. (0 .. fb.alloc - 1) \cup {fb.alloc} = 0 .. (fb.alloc + 1) - 1
      BY <2>2
    <3> QED BY <2>3, <3>1, <3>2
  <2>5. TypeOK'
    BY <1>9, <2>3, <2>4 DEF GpuUpdate, LoopInv, TypeOK, boxvars, scriptvars
  <2> QED BY <1>9, <2>1, <2>5 DEF GpuUpdate, LoopInv, SlotInv, BoxInv, ShareInv,
                                  boxvars
<1>10. CASE UNCHANGED vars
  BY <1>10 DEF vars, boxvars, scriptvars, LoopInv, TypeOK, SlotInv, BoxInv, ShareInv, InCall
<1>11. ASSUME NEW draws \in SUBSET (0 .. GpuCount), Script(draws) PROVE LoopInv'
  <2>1. ScriptTypes'
    BY <1>1, <1>11 DEF Script, ScriptTypes
  <2> QED BY <1>1, <1>2, <1>11, <2>1 DEF Script, ConsoleCalled
<1>12. CASE RunConsoleEval \/ RunConsoleRepl
  BY <1>1, <1>11, <1>12 DEF RunConsoleEval, RunConsoleRepl, ScriptTypes
<1> QED
  BY <1>3, <1>4, <1>5, <1>6, <1>7, <1>8, <1>9, <1>10, <1>12, EnterStep, ExitStep
     DEF Next

(* The loop's variables keep their types; no more Boxes are ever allocated *)
(* than one for each application and one for each reset.                   *)
THEOREM LoopTypes == FairSpec => []TypeOK
<1>1. LoopInv => TypeOK
  BY DEF LoopInv
<1> QED BY <1>1, InitLoopInv, NextLoopInv, PTL DEF FairSpec, Spec

(* App::call passes every store through one static slot, yet an            *)
(* application always finds the Box that it left, and every Box that was   *)
(* not dropped is in exactly one place, whatever the applications do.      *)
THEOREM StoresGivenBack == FairSpec => []StoreGivenBack
<1>1. LoopInv => StoreGivenBack
  <2> SUFFICES ASSUME LoopInv PROVE StoreGivenBack
    OBVIOUS
  <2> USE DEF LoopInv
  <2>1. pc = "run" => none = left[apps[app]]
    BY DEF SlotInv, InCall
  <2>2. ASSUME NEW b \in (1 .. boxes) \ dropped
        PROVE  Cardinality({a \in Apps : stores[a] = b}) + (IF none = b THEN 1 ELSE 0) = 1
    <3>1. apps[app] \in Apps /\ b # NoBox
      BY AppCalled DEF TypeOK, NoBox
    <3>2. PICK a \in Apps : left[a] = b
      BY <2>2 DEF BoxInv
    <3>3. \A c \in Apps : left[c] = b => c = a
      BY <3>1, <3>2 DEF BoxInv
    <3>4. CASE InCall /\ a = apps[app]
      <4>1. none = b /\ {c \in Apps : stores[c] = b} = {}
        BY <3>1, <3>2, <3>3, <3>4 DEF SlotInv
      <4> QED BY <4>1, FS_EmptySet
    <3>5. CASE ~(InCall /\ a = apps[app])
      <4>1. none # b
        BY <3>1, <3>2, <3>3, <3>5 DEF SlotInv
      <4>2. {c \in Apps : stores[c] = b} = {a}
        BY <3>1, <3>2, <3>3, <3>5 DEF SlotInv
      <4>3. Cardinality({a}) = 1
        BY FS_Singleton
      <4> QED BY <4>1, <4>2, <4>3
    <3> QED BY <3>4, <3>5
  <2> QED BY <2>1, <2>2 DEF StoreGivenBack
<1> QED BY <1>1, InitLoopInv, NextLoopInv, PTL DEF FairSpec, Spec

(* The `draw` functions of the console's scripts point to pixels that were *)
(* current since its store was made, and an application draws on the       *)
(* pixels of its call, or in the console through those functions.          *)
ScriptInv ==
    /\ born <= fb.alloc /\ captured \subseteq born .. fb.alloc
    /\ drawn \subseteq {shared.alloc} \cup (IF apps[app] = "console" THEN captured ELSE {})
    /\ drawn # {} => InCall

(* A call in which the console or another application draws. *)
LEMMA DrawStep ==
    ASSUME LoopInv, ScriptInv, pc = "run", UNCHANGED << app, fb, shared >>,
           drawn' \subseteq {shared.alloc} \cup
                       (IF apps[app] = "console" THEN captured' ELSE {}),
           born' <= fb.alloc, captured' \subseteq born' .. fb.alloc,
           pc' \in {"exit", "panicked", "stopped"}
    PROVE  ScriptInv'
BY DEF ScriptInv, InCall

(* Every step keeps it. *)
LEMMA NextScriptInv == LoopInv /\ ScriptInv /\ [Next]_vars => ScriptInv'
<1> SUFFICES ASSUME LoopInv, ScriptInv, [Next]_vars PROVE ScriptInv'
  OBVIOUS
<1>1. /\ fb.alloc \in Nat /\ born \in Nat /\ born <= fb.alloc
      /\ captured \subseteq born .. fb.alloc
      /\ pc = "run" => shared = fb /\ drawn \subseteq {shared.alloc} \cup
                          (IF apps[app] = "console" THEN captured ELSE {})
  BY SizesAssumption DEF LoopInv, TypeOK, FbShare, ShareInv, InCall, ScriptInv
<1>2. CASE CallEnter
  <2>1. drawn = {}
    BY <1>2 DEF CallEnter, ScriptInv, InCall
  <2> QED BY <1>1, <1>2, <2>1 DEF CallEnter, ScriptInv, scriptvars
<1>3. CASE CallExit
  BY <1>3 DEF CallExit, ScriptInv, scriptvars
<1>4. CASE RunApp \/ RunAppFails \/ RunConsolePanics
  BY <1>1, <1>4, DrawStep DEF RunApp, RunAppFails, RunConsolePanics, scriptvars
<1>5. CASE RunConsoleFirst
  BY <1>1, <1>5, DrawStep DEF RunConsoleFirst
<1>6. CASE RunConsole \/ RunConsoleStops
  BY <1>1, <1>6, DrawStep DEF RunConsole, RunConsoleStops, ConsoleCalled, scriptvars
<1>7. CASE RunConsoleReset
  BY <1>1, <1>7, DrawStep DEF RunConsoleReset, ConsoleCalled
<1>8. ASSUME NEW draws \in SUBSET (born .. fb.alloc), Script(draws) PROVE ScriptInv'
  BY <1>1, <1>8, DrawStep DEF Script, ConsoleCalled
<1>9. CASE RunConsoleEval
  <2>1. pc = "run"
    BY <1>9 DEF RunConsoleEval, Script, ConsoleCalled
  <2>2. shared.alloc = fb.alloc
    BY <1>1, <2>1
  <2>3. fb.alloc \in born .. fb.alloc
    BY <1>1
  <2>4. captured \cup {shared.alloc} \in SUBSET (born .. fb.alloc)
    BY <1>1, <2>2, <2>3, Zenon
  <2> QED BY <1>8, <1>9, <2>4 DEF RunConsoleEval
<1>10. CASE RunConsoleRepl
  BY <1>1, <1>8, <1>10 DEF RunConsoleRepl
<1>11. CASE Resume
  BY <1>11 DEF Resume, ScriptInv, InCall, scriptvars
<1>12. CASE GpuUpdate
  <2>1. drawn = {} /\ fb'.alloc = fb.alloc + 1
    BY <1>12 DEF GpuUpdate, ScriptInv, InCall
  <2> QED BY <1>1, <1>12, <2>1 DEF GpuUpdate, ScriptInv, scriptvars
<1>13. CASE UNCHANGED vars
  BY <1>13 DEF vars, ScriptInv, InCall
<1> QED
  BY <1>2, <1>3, <1>4, <1>5, <1>6, <1>7, <1>9, <1>10, <1>11, <1>12, <1>13 DEF Next

(* An application draws only on pixels that FB::update has not freed,      *)
(* since the drivers' tasks run only between frames; but for a `draw` that *)
(* a script of the console kept, and that reaches no pixels freed before   *)
(* the console's store was made.                                           *)
THEOREM PixelsStayLive == FairSpec => []PixelsLive
<1>1. Init => ScriptInv
  BY DEF Init, ScriptInv
<1>2. LoopInv /\ ScriptInv => PixelsLive
  <2> SUFFICES ASSUME LoopInv, ScriptInv, NEW a \in drawn \cap freed
               PROVE  apps[app] = "console" /\ a # shared.alloc /\ a >= born
    BY DEF PixelsLive
  <2>1. shared = fb /\ freed = 0 .. fb.alloc - 1 /\ fb.alloc \in 0 .. GpuCount
        /\ born \in 0 .. GpuCount
    <3>1. InCall
      BY DEF ScriptInv
    <3> QED BY <3>1 DEF LoopInv, ShareInv, TypeOK, FbShare
  <2>2. fb.alloc \in Nat /\ born \in Nat
    BY <2>1, SizesAssumption
  <2>3. a # shared.alloc
    BY <2>1, <2>2
  <2>4. apps[app] = "console" /\ a \in captured
    BY <2>3 DEF ScriptInv
  <2>5. a >= born
    BY <2>2, <2>4 DEF ScriptInv
  <2> QED BY <2>3, <2>4, <2>5
<1> QED BY <1>1, <1>2, InitLoopInv, NextLoopInv, NextScriptInv, PTL DEF FairSpec, Spec

-----------------------------------------------------------------------------
(* The console's b1 and b2 suffice for the frame buffer there is now. *)
BlurInv == left["console"] # NoBox => blur >= Cells(fb.size)

(* When every boot mode has at least the cells of the GPU's mode, the      *)
(* console never indexes b1 or b2 out of bounds: the blur panics only for  *)
(* a smaller boot mode.  (What is typed may still stop the console.)       *)
THEOREM NoBlurPanicIfLarge ==
    ASSUME \A size \in BootSizes : Cells(size) >= Cells(GpuSize)
    PROVE  FairSpec => [](pc # "panicked")
<1> DEFINE Safe == LoopInv /\ BlurInv /\ pc # "panicked"
<1>1. Init => Safe
  BY InitLoopInv DEF Init, BlurInv, Apps
<1>2. Safe /\ [Next]_vars => Safe'
  <2> SUFFICES ASSUME Safe, [Next]_vars PROVE BlurInv' /\ pc' # "panicked"
    BY NextLoopInv
  <2>1. /\ left \in [Apps -> 0 .. boxes] /\ blur \in Nat /\ "console" \in Apps
        /\ apps[app] \in Apps /\ fb \in FbShare
        /\ Cells(fb.size) \in Nat /\ Cells(shared.size) \in Nat
    BY AppCalled, CellsNat DEF LoopInv, TypeOK, Apps
  <2>2. pc = "run" => shared = fb /\ none = left[apps[app]]
    BY DEF LoopInv, ShareInv, SlotInv, InCall
  <2>3. CASE RunApp \/ RunAppFails
    <3>1. left'["console"] = left["console"] /\ UNCHANGED << blur, fb >>
      BY <2>1, <2>3 DEF RunApp, RunAppFails, Keep, Leaves
    <3> QED BY <2>3, <3>1 DEF BlurInv, RunApp, RunAppFails
  <2>4. CASE RunConsoleFirst
    <3>1. blur' >= Cells(fb.size) /\ fb' = fb
      BY <2>1, <2>2, <2>4 DEF RunConsoleFirst
    <3> QED BY <2>4, <3>1 DEF BlurInv, RunConsoleFirst
  <2>5. CASE RunConsolePanics
    <3>1. left["console"] # NoBox /\ blur < Cells(fb.size)
      BY <2>2, <2>5 DEF RunConsolePanics
    <3> QED BY <2>1, <3>1 DEF BlurInv
  <2>6. CASE RunConsoleReset
    <3>1. left'["console"] = NoBox
      BY <2>1, <2>6 DEF RunConsoleReset, ConsoleCalled, Leaves
    <3> QED BY <2>6, <3>1 DEF BlurInv, RunConsoleReset
  <2>7. CASE GpuUpdate
    <3>1. fb'.size = GpuSize /\ UNCHANGED << left, blur, pc >>
      BY <2>7 DEF GpuUpdate, boxvars
    <3>2. Cells(fb.size) >= Cells(GpuSize)
      <4>1. fb.size \in BootSizes \cup {GpuSize}
        BY <2>1 DEF FbShare
      <4>2. CASE fb.size = GpuSize
        BY <2>1, <4>2
      <4> QED BY <4>1, <4>2
    <3>3. Cells(GpuSize) \in Nat
      <4>1. [alloc |-> fb.alloc, size |-> GpuSize] \in FbShare
        BY <2>1 DEF FbShare
      <4> QED BY <4>1, CellsNat
    <3> QED BY <2>1, <2>7, <3>1, <3>2, <3>3 DEF BlurInv, GpuUpdate
  <2>8. CASE CallEnter \/ CallExit \/ Resume \/ UNCHANGED vars
    <3>1. UNCHANGED << left, blur, fb >> /\ pc' # "panicked"
      BY <2>8 DEF CallEnter, CallExit, Resume, vars, boxvars
    <3> QED BY <3>1 DEF BlurInv
  <2>9. CASE RunConsole \/ RunConsoleEval \/ RunConsoleRepl \/ RunConsoleStops
    <3>1. /\ pc = "run" /\ blur >= Cells(shared.size) /\ UNCHANGED << blur, fb >>
          /\ pc' \in {"exit", "stopped"}
      BY <2>9 DEF RunConsole, RunConsoleEval, RunConsoleRepl, RunConsoleStops,
                  Script, ConsoleCalled
    <3> QED BY <2>2, <3>1 DEF BlurInv
  <2> QED BY <2>3, <2>4, <2>5, <2>6, <2>7, <2>8, <2>9 DEF Next
<1> QED BY <1>1, <1>2, PTL DEF FairSpec, Spec

-----------------------------------------------------------------------------
(* The interrupts. *)

(* An entry that is not masked has a pin's vector; so have they all when   *)
(* kernel_main has set them up, and no handler runs before that.           *)
EntryInv ==
    /\ \A pin \in Wired : ~redtbl[pin].masked \/ kernel # "setup" =>
                              redtbl[pin].vector \in Vectors
    /\ kernel = "setup" => ~enabled /\ handler = NoVector

(* Who holds the LOGGER locks: the kernel only with interrupts off and no  *)
(* handler on its stack, a handler only while it logs.                     *)
HolderInv ==
    /\ logger = "kernel" <=> kernel = "log"
    /\ logger = "handler" <=> at = "logging"
    /\ kernel = "log" => ~enabled /\ handler = NoVector
    /\ handler = NoVector => at = "start"

(* The inductive invariant of the interrupts. *)
IrqInv == IrqTypeOK /\ EntryInv /\ HolderInv

(* No vector has the number that stands for none, and pins have their own. *)
LEMMA VectorFacts ==
    /\ NoVector \notin Vectors /\ TIMER \in Vectors
    /\ \A pin \in Wired : Vector(pin) \in Vectors
BY PinsAssumption DEF NoVector, Vectors, TIMER, Vector, PINS

(* A masked table and idle processor. *)
LEMMA InitIrqInv == IrqInit => IrqInv
<1> SUFFICES ASSUME IrqInit PROVE IrqInv
  OBVIOUS
<1> USE DEF IrqInit
<1>1. [vector |-> NoVector, masked |-> TRUE]
        \in [vector : Vectors \cup {NoVector}, masked : BOOLEAN]
  OBVIOUS
<1>2. redtbl \in [Wired -> [vector : Vectors \cup {NoVector}, masked : BOOLEAN]]
  BY <1>1
<1>3. EntryInv /\ HolderInv
  BY DEF EntryInv, HolderInv
<1> QED BY <1>2, <1>3 DEF IrqInv, IrqTypeOK

(* Devices, the local APIC, handlers and the kernel keep it. *)
LEMMA NextIrqInv == IrqInv /\ [IrqNext]_irqvars => IrqInv'
<1> SUFFICES ASSUME IrqInv, [IrqNext]_irqvars PROVE IrqInv'
  OBVIOUS
<1> USE DEF IrqInv
<1>1. ASSUME NEW pin \in Wired, Raise(pin) PROVE IrqInv'
  <2>1. irr' \subseteq Vectors
    BY <1>1 DEF Raise, EntryInv, IrqTypeOK
  <2> QED BY <1>1, <2>1 DEF Raise, IrqTypeOK, EntryInv, HolderInv
<1>2. CASE TimerFires
  <2>1. irr' \subseteq Vectors
    BY <1>2, VectorFacts DEF TimerFires, IrqTypeOK
  <2> QED BY <1>2, <2>1 DEF TimerFires, IrqTypeOK, EntryInv, HolderInv
<1>3. ASSUME NEW v \in Vectors, Deliver(v) PROVE IrqInv'
  <2>1. IrqTypeOK' /\ EntryInv'
    BY <1>3 DEF Deliver, IrqTypeOK, EntryInv
  <2>2. kernel # "log" /\ kernel' # "log" /\ at = "start" /\ at' = "start"
        /\ logger' = logger /\ handler' = v
    BY <1>3 DEF Deliver, HolderInv
  <2> QED BY <2>1, <2>2 DEF HolderInv
<1>4. CASE Handlers
  <2>1. handler # NoVector /\ kernel # "log"
    BY <1>4 DEF Handlers, HandlerStart, HandlerLog, HandlerLogged, HandlerEoi,
                Return, HolderInv
  <2>2. CASE HandlerStart
    <3>1. /\ redtbl' \in [Wired -> [vector : Vectors \cup {NoVector}, masked : BOOLEAN]]
          /\ EntryInv'
      <4>1. HandlerStart => StoreOwnEntry
        BY DEF HandlerStart
      <4>2. \A e \in [vector : Vectors \cup {NoVector}, masked : BOOLEAN] :
              /\ Stored(e) \in [vector : Vectors \cup {NoVector}, masked : BOOLEAN]
              /\ Stored(e).vector = e.vector
        BY DEF Stored
      <4>3. kernel # "setup" /\ kernel' = kernel
        BY <2>1, <2>2 DEF EntryInv, HandlerStart
      <4>4. \A pin \in Wired : redtbl[pin].vector \in Vectors
        BY <4>3 DEF EntryInv
      <4> QED BY <2>2, <4>1, <4>2, <4>3, <4>4 DEF StoreOwnEntry, EntryInv, IrqTypeOK
    <3> QED BY <2>1, <2>2, <3>1 DEF HandlerStart, Eoi, IrqTypeOK, HolderInv
  <2>3. CASE HandlerLog
    BY <2>1, <2>3 DEF HandlerLog, IrqTypeOK, EntryInv, HolderInv
  <2>4. CASE HandlerLogged
    BY <2>1, <2>4 DEF HandlerLogged, IrqTypeOK, EntryInv, HolderInv
  <2>5. CASE HandlerEoi
    BY <2>1, <2>5 DEF HandlerEoi, Eoi, IrqTypeOK, EntryInv, HolderInv
  <2>6. CASE Return
    BY <2>1, <2>6 DEF Return, IrqTypeOK, EntryInv, HolderInv
  <2> QED BY <1>4, <2>2, <2>3, <2>4, <2>5, <2>6 DEF Handlers
<1>5. CASE Log
  BY <1>5 DEF Log, Running, IrqTypeOK, EntryInv, HolderInv
<1>6. CASE Setup
  <2> DEFINE R == [vector : Vectors \cup {NoVector}, masked : BOOLEAN]
  <2>1. \A e \in R, v \in Vectors :
          [e EXCEPT !.vector = v] \in R /\ [e EXCEPT !.vector = v].vector = v
    OBVIOUS
  <2>2. \A e \in R : Stored(e) \in R /\ Stored(e).vector = e.vector
    BY DEF Stored
  <2> DEFINE new(pin) == Stored([redtbl[pin] EXCEPT !.vector = Vector(pin)])
  <2>3. \A pin \in Wired : new(pin) \in R /\ new(pin).vector \in Vectors
    <3> SUFFICES ASSUME NEW pin \in Wired
                 PROVE  new(pin) \in R /\ new(pin).vector \in Vectors
      OBVIOUS
    <3>1. redtbl[pin] \in R /\ Vector(pin) \in Vectors
      BY VectorFacts DEF IrqTypeOK
    <3>2. /\ [redtbl[pin] EXCEPT !.vector = Vector(pin)] \in R
          /\ [redtbl[pin] EXCEPT !.vector = Vector(pin)].vector = Vector(pin)
      BY <2>1, <3>1, Zenon
    <3> QED BY <2>2, <3>1, <3>2, Zenon
  <2>4. redtbl' = [pin \in Wired |-> new(pin)]
    BY <1>6 DEF Setup
  <2> HIDE DEF new
  <2>5. EntryInv' /\ redtbl' \in [Wired -> R]
    <3>1. kernel' = "poll"
      BY <1>6 DEF Setup
    <3> QED BY <2>3, <2>4, <3>1 DEF EntryInv
  <2> QED BY <1>6, <2>5 DEF Setup, Running, IrqTypeOK, HolderInv
<1>7. CASE LogDone \/ ReadyDone \/ Halt \/ GoOn \/ WakeYielders
  BY <1>7 DEF LogDone, ReadyDone, Halt, GoOn, WakeYielders, Running, IrqTypeOK,
              EntryInv, HolderInv
<1>8. CASE UNCHANGED irqvars
  BY <1>8 DEF irqvars, IrqTypeOK, EntryInv, HolderInv
<1> QED
  BY <1>1, <1>2, <1>3, <1>4, <1>5, <1>6, <1>7, <1>8 DEF IrqNext, Kernel

(* With any pins wired, only vectors that kernel_main assigned are ever    *)
(* requested, delivered or in service.                                     *)
THEOREM IrqTypes == IrqFairSpec => []IrqTypeOK
<1>1. IrqInv => IrqTypeOK
  BY DEF IrqInv
<1> QED BY <1>1, InitIrqInv, NextIrqInv, PTL DEF IrqFairSpec, IrqSpec

(* With any pins wired, a handler that comes to log finds the LOGGER locks *)
(* free: the kernel takes them only with interrupts off (logger.rs), and   *)
(* handlers do not nest.                                                   *)
THEOREM HandlersNeverSpin == IrqFairSpec => []HandlerNeverSpins
<1>1. IrqInv => HandlerNeverSpins
  BY DEF IrqInv, IrqTypeOK, HolderInv, HandlerNeverSpins
<1> QED BY <1>1, InitIrqInv, NextIrqInv, PTL DEF IrqFairSpec, IrqSpec

(* Only the vector of the running handler is in service, and not once it   *)
(* has written EOI.                                                        *)
ServiceInv ==
    /\ isr \subseteq IF handler = NoVector \/ at = "iret" THEN {} ELSE {handler}
    /\ at \in {"log", "logging", "eoi"} => handler # TIMER

(* When every wired pin has a handler that acknowledges (1, 2, 10 and 11), *)
(* no vector stays in service after its handler's return: nothing ever     *)
(* keeps the local APIC from delivering the timer's next interrupt, which  *)
(* is what Executor::run waits for in hlt.                                 *)
THEOREM NothingLeftInService ==
    ASSUME \A pin \in Wired : Vector(pin) \in Acknowledged
    PROVE  IrqFairSpec => []AllAcknowledged
<1>1. IrqInit => IrqInv /\ ServiceInv
  BY InitIrqInv DEF IrqInit, ServiceInv
<1>2. IrqInv /\ ServiceInv /\ [IrqNext]_irqvars => (IrqInv /\ ServiceInv)'
  <2> SUFFICES ASSUME IrqInv, ServiceInv, [IrqNext]_irqvars PROVE ServiceInv'
    BY NextIrqInv
  <2>1. Vectors \subseteq Acknowledged
    BY DEF Vectors, Acknowledged
  <2>2. (\E pin \in Wired : Raise(pin)) \/ TimerFires \/ Log \/ Kernel
           \/ UNCHANGED irqvars => ServiceInv'
    BY DEF Raise, TimerFires, Log, Kernel, Setup, LogDone, ReadyDone, Halt,
           GoOn, WakeYielders, irqvars, ServiceInv
  <2>3. ASSUME NEW v \in Vectors, Deliver(v) PROVE ServiceInv'
    BY <2>3, VectorFacts DEF Deliver, ServiceInv
  <2>4. Eoi /\ isr \subseteq {handler} => isr' = {}
    <3> SUFFICES ASSUME Eoi, isr \subseteq {handler}, NEW v \in isr PROVE v \notin isr'
      BY DEF Eoi
    <3>1. v \in Nat
      BY PinsAssumption DEF IrqInv, IrqTypeOK, Vectors, TIMER, Vector, PINS
    <3>2. \A w \in isr : w <= v
      BY <3>1
    <3> QED BY <3>2 DEF Eoi
  <2>5. isr \subseteq {handler}
    BY DEF ServiceInv
  <2>6. CASE HandlerStart
    <3>1. CASE handler = TIMER
      BY <2>4, <2>5, <2>6, <3>1 DEF HandlerStart, ServiceInv
    <3>2. CASE handler # TIMER
      BY <2>5, <2>6, <3>2 DEF HandlerStart, ServiceInv
    <3> QED BY <3>1, <3>2
  <2>7. CASE HandlerLog
    BY <2>7 DEF HandlerLog, ServiceInv
  <2>8. CASE HandlerLogged
    <3>1. handler # NoVector
      BY <2>8 DEF HandlerLogged, IrqInv, HolderInv
    <3>2. handler \in Acknowledged
      BY <2>1, <3>1 DEF IrqInv, IrqTypeOK
    <3> QED BY <2>8, <3>1, <3>2 DEF HandlerLogged, ServiceInv
  <2>9. CASE HandlerEoi
    BY <2>4, <2>5, <2>9 DEF HandlerEoi, ServiceInv
  <2>10. CASE Return
    BY <2>10 DEF Return, ServiceInv
  <2> QED BY <2>2, <2>3, <2>6, <2>7, <2>8, <2>9, <2>10 DEF IrqNext, Handlers
<1>3. IrqInv /\ ServiceInv => AllAcknowledged
  BY DEF ServiceInv, AllAcknowledged
<1> QED BY <1>1, <1>2, <1>3, PTL DEF IrqFairSpec, IrqSpec
=============================================================================
