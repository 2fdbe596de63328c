------------------------------- MODULE AppLoop -------------------------------
(***************************************************************************)
(* The application loop of main.rs with App::call (app.rs), the frame      *)
(* buffer FB (framebuffer.rs) it shares, and virtio_gpu::drive, which      *)
(* replaces that buffer's pixels through a raw pointer once its device     *)
(* runs.  Each frame calls every application in turn with a fresh Context; *)
(* all Contexts use the same static slot `none` for the store.  The loop   *)
(* awaits only between frames, so the GPU task can run only there.         *)
(*                                                                         *)
(* Applications keep Boxes in Context.store: the background and the cursor *)
(* take theirs and put it back, the console keeps its own in place, and    *)
(* drops it on ">reset".  The background keeps none if its image fails to  *)
(* decode.  The console's store holds a script context, and in it the      *)
(* `draw` functions that ">eval" made, each with a raw pointer to the      *)
(* pixels there were then; scripts of later calls may use them.            *)
(***************************************************************************)
EXTENDS Naturals, FiniteSets

CONSTANTS
    BootSizes,     \* sizes <<w, h>> the bootloader's frame buffer may have
    GpuSize,       \* the mode drive() sets: 1600 x 900
    GpuCount,      \* virtio GPUs, each with a drive() task
    MaxResets      \* bound on the ">reset"s of one behaviour

DIV == 4           \* main.rs of the console

ASSUME SizesAssumption ==
    /\ BootSizes \subseteq Nat \X Nat /\ GpuSize \in Nat \X Nat
    /\ GpuCount \in Nat /\ MaxResets \in Nat

VARIABLES
    pc,        \* "yield", "enter", "run", "exit", or an end: "panicked" on the
               \* blur's index, "stopped" by what was typed in the console
    app,       \* index in apps of the application being called
    stores,    \* App.store of each
    none,      \* the static slot every Context points to
    left,      \* the Box each application left in its Context on return
    boxes,     \* the Boxes allocated so far, by number
    dropped,   \* the Boxes their application dropped
    fb,        \* FB: which allocation .pixels is, and its size
    freed,     \* pixel allocations that FB::update dropped
    shared,    \* the FBShare of the running call
    blur,      \* length of the console's b1 and b2: 0 when there are none
    captured,  \* the pixel allocations `draw` functions of its scripts point to
    drawn,     \* those the call that is returning drew on
    born       \* the one that was current when the console made its store

vars == << pc, app, stores, none, left, boxes, dropped, fb, freed, shared,
           blur, captured, drawn, born >>
boxvars    == << left, boxes, dropped >>
scriptvars == << captured, born >>

Apps    == {"background", "console", "cursor"}
apps    == << "background", "console", "cursor" >>
NoBox   == 0
FbShare == [alloc : 0 .. GpuCount, size : BootSizes \cup {GpuSize}]

TypeOK ==
    /\ pc \in {"yield", "enter", "run", "exit", "panicked", "stopped"}
    /\ app \in 1 .. 3
    /\ boxes \in 0 .. MaxResets + 3 /\ dropped \subseteq 1 .. boxes
    /\ stores \in [Apps -> 0 .. boxes] /\ left \in [Apps -> 0 .. boxes]
    /\ none \in 0 .. boxes
    /\ fb \in FbShare /\ shared \in FbShare
    /\ freed = 0 .. fb.alloc - 1     \* FB::update drops the Vec it replaces
    /\ blur \in Nat
    /\ captured \subseteq 0 .. GpuCount /\ drawn \subseteq 0 .. GpuCount
    /\ born \in 0 .. GpuCount

Init ==
    /\ pc = "enter" /\ app = 1
    /\ stores = [a \in Apps |-> NoBox] /\ none = NoBox
    /\ left = [a \in Apps |-> NoBox] /\ boxes = 0 /\ dropped = {}
    /\ \E size \in BootSizes : fb = [alloc |-> 0, size |-> size]
    /\ freed = {} /\ shared = fb /\ blur = 0
    /\ captured = {} /\ drawn = {} /\ born = 0

-----------------------------------------------------------------------------
(* Context::new with fb.share(), then App::call up to (self.func)(arg). *)
CallEnter ==
    /\ pc = "enter"
    /\ shared' = fb
    /\ none' = stores[apps[app]]
    /\ stores' = [stores EXCEPT ![apps[app]] = NoBox]
    /\ pc' = "run"
    /\ UNCHANGED << app, boxvars, fb, freed, blur, scriptvars, drawn >>

Cells(size) == (size[1] \div DIV) * (size[2] \div DIV)

(* The Box an application has in Context.store when it returns. *)
Leaves(b) ==
    /\ none' = b
    /\ left' = [left EXCEPT ![apps[app]] = b]

(* A Box found in the store is put back, else a new one is made. *)
Keep ==
    IF none = NoBox
    THEN boxes' = boxes + 1 /\ Leaves(boxes')
    ELSE UNCHANGED boxes /\ Leaves(none)

(* The background and the cursor. *)
RunApp ==
    /\ pc = "run" /\ apps[app] # "console"
    /\ Keep
    /\ drawn' = {shared.alloc}
    /\ pc' = "exit"
    /\ UNCHANGED << app, stores, dropped, fb, freed, shared, blur, scriptvars >>

(* The background's early return -1: "No pix". *)
RunAppFails ==
    /\ pc = "run" /\ apps[app] = "background" /\ none = NoBox
    /\ Leaves(NoBox)
    /\ pc' = "exit"
    /\ UNCHANGED << app, stores, boxes, dropped, fb, freed, shared, blur,
                    scriptvars, drawn >>

(* The console makes its store and samples the frame buffer into b1 and    *)
(* b2, which get the size of now.  It reads no input yet.                  *)
RunConsoleFirst ==
    /\ pc = "run" /\ apps[app] = "console" /\ none = NoBox
    /\ Keep
    /\ blur' = Cells(shared.size)
    /\ captured' = {} /\ born' = shared.alloc
    /\ drawn' = {shared.alloc}
    /\ pc' = "exit"
    /\ UNCHANGED << app, stores, dropped, fb, freed, shared >>

(* Later it indexes them with the size the frame buffer has now. *)
RunConsolePanics ==
    /\ pc = "run" /\ apps[app] = "console"
    /\ none # NoBox /\ blur < Cells(shared.size)
    /\ pc' = "panicked"
    /\ UNCHANGED << app, stores, none, boxvars, fb, freed, shared, blur,
                    scriptvars, drawn >>

(* It draws its window, and comes to the line that may have been entered:  *)
(* one at most in a call.                                                  *)
ConsoleCalled ==
    /\ pc = "run" /\ apps[app] = "console"
    /\ none # NoBox /\ blur >= Cells(shared.size)

(* No line, or a command that is no script. *)
RunConsole ==
    /\ ConsoleCalled
    /\ Keep
    /\ drawn' = {shared.alloc}
    /\ pc' = "exit"
    /\ UNCHANGED << app, stores, dropped, fb, freed, shared, blur, scriptvars >>

(* A script draws through any of the `draw` functions it can have.  Its    *)
(* evaluation may panic, as draw does on an index out of bounds, or not    *)
(* end: then the call does not return.                                     *)
Script(draws) ==
    /\ ConsoleCalled
    /\ Keep
    /\ captured' = draws
    /\ \E used \in SUBSET draws : drawn' = {shared.alloc} \cup used
    /\ pc' \in {"exit", "stopped"}
    /\ UNCHANGED << app, stores, dropped, fb, freed, shared, blur, born >>

(* ">eval ..." gives the script a `draw` on the pixels of this call; a     *)
(* script may have kept earlier ones in other variables.                   *)
RunConsoleEval == Script(captured \cup {shared.alloc})

(* In the REPL: a script with the functions that are there. *)
RunConsoleRepl == Script(captured)

(* The shell's own panics: the slice of a line that was erased into the    *)
(* prompt (Console), and a character that has no raster.                   *)
RunConsoleStops ==
    /\ ConsoleCalled
    /\ drawn' = {shared.alloc}
    /\ pc' = "stopped"
    /\ UNCHANGED << app, stores, none, boxvars, fb, freed, shared, blur,
                    scriptvars >>

(* ">reset" in the console: its script context goes with the store. *)
RunConsoleReset ==
    /\ ConsoleCalled
    /\ Cardinality(dropped) < MaxResets
    /\ dropped' = dropped \cup {none}
    /\ Leaves(NoBox)
    /\ blur' = 0
    /\ captured' = {}
    /\ drawn' = {shared.alloc}
    /\ pc' = "exit"
    /\ UNCHANGED << app, stores, boxes, fb, freed, shared, born >>

(* App::call after the application: self.store = arg.store.take(); the     *)
(* loop goes on to the next application, or steps INPUT and yields.        *)
CallExitForgets ==   \* mutant: the store is not taken back
    /\ pc = "exit"
    /\ UNCHANGED << stores, none >>
    /\ IF app < 3 THEN app' = app + 1 /\ pc' = "enter"
                  ELSE app' = 1 /\ pc' = "yield"
    /\ drawn' = {}
    /\ UNCHANGED << boxvars, fb, freed, shared, blur, scriptvars >>

CallExitSkipsLast ==   \* mutant: off by one in the loop over apps
    /\ pc = "exit"
    /\ stores' = [stores EXCEPT ![apps[app]] = none]
    /\ none' = NoBox
    /\ IF app < 2 THEN app' = app + 1 /\ pc' = "enter"
                  ELSE app' = 1 /\ pc' = "yield"
    /\ drawn' = {}
    /\ UNCHANGED << boxvars, fb, freed, shared, blur, scriptvars >>

CallExit ==
    /\ pc = "exit"
    /\ stores' = [stores EXCEPT ![apps[app]] = none]
    /\ none' = NoBox
    /\ IF app < 3 THEN app' = app + 1 /\ pc' = "enter"
                  ELSE app' = 1 /\ pc' = "yield"
    /\ drawn' = {}
    /\ UNCHANGED << boxvars, fb, freed, shared, blur, scriptvars >>

(* The executor polls the loop again after yield_once(). *)
Resume ==
    /\ pc = "yield"
    /\ pc' = "enter"
    /\ UNCHANGED << app, stores, none, boxvars, fb, freed, shared, blur,
                    scriptvars, drawn >>

(* A drive() task: fb.update(addr, 1600, 900), whose assignment drops the  *)
(* Vec that was there; once per GPU, when another task runs.               *)
GpuUpdateAnyTime ==   \* mutant: as if applications were preempted
    /\ fb.alloc < GpuCount
    /\ fb' = [alloc |-> fb.alloc + 1, size |-> GpuSize]
    /\ freed' = freed \cup {fb.alloc}
    /\ UNCHANGED << pc, app, stores, none, boxvars, shared, blur, scriptvars,
                    drawn >>

GpuUpdateForgets ==   \* mutant: the replaced Vec is leaked
    /\ pc = "yield"
    /\ fb.alloc < GpuCount
    /\ fb' = [alloc |-> fb.alloc + 1, size |-> GpuSize]
    /\ UNCHANGED << pc, app, stores, none, boxvars, freed, shared, blur,
                    scriptvars, drawn >>

GpuUpdate ==
    /\ pc = "yield"
    /\ fb.alloc < GpuCount
    /\ fb' = [alloc |-> fb.alloc + 1, size |-> GpuSize]
    /\ freed' = freed \cup {fb.alloc}
    /\ UNCHANGED << pc, app, stores, none, boxvars, shared, blur, scriptvars,
                    drawn >>

Next ==
    \/ CallEnter \/ RunApp \/ RunAppFails \/ RunConsoleFirst \/ RunConsolePanics
    \/ RunConsole \/ RunConsoleEval \/ RunConsoleRepl \/ RunConsoleStops
    \/ RunConsoleReset \/ CallExit \/ Resume \/ GpuUpdate

Spec     == Init /\ [][Next]_vars
(* Applications return unless they panic or run a script without end,      *)
(* which is an action here, and the loop is polled again                   *)
(* (Executor!StarvationFree).                                              *)
FairSpec == Spec /\ WF_vars(Next)

-----------------------------------------------------------------------------
(* README.md:131, "get it back every `start` call ... You don't lose       *)
(* anything": although all calls go through one static slot, an            *)
(* application finds in it exactly the Box it left at its last return, and *)
(* none of another application's; and every Box that was not dropped by    *)
(* its application is kept in exactly one place.                           *)
StoreGivenBack ==
    /\ pc = "run" => none = left[apps[app]]
    /\ \A b \in (1 .. boxes) \ dropped :
         Cardinality({a \in Apps : stores[a] = b}) + (IF none = b THEN 1 ELSE 0) = 1

(* Applications do not draw on pixels that a GPU driver freed when it      *)
(* replaced the frame buffer, whatever the interleaving, but for one way:  *)
(* through a `draw` function that a script of the console kept from before *)
(* the replacement.  The pixels are then ones that were current since the  *)
(* console made its store: ">reset" leaves no way to older ones.           *)
PixelsLive ==
    \A a \in drawn \cap freed :
        apps[app] = "console" /\ a # shared.alloc /\ a >= born

(* README.md:127: applications "can just return ... and assume that they   *)
(* are gonna be called through their only function `start` again soon";    *)
(* here, unless what was typed in the console stopped it for good.         *)
CalledAgain == \A i \in 1 .. 3 : []<>(pc = "run" /\ app = i) \/ <>(pc = "stopped")

(* That holds if the frame buffer at boot has at least the cells of the    *)
(* GPU's mode, so that the console's b1 and b2 suffice for either: nothing *)
(* but a script or a line typed in the console keeps an application from   *)
(* being called again and again.                                           *)
LargeBoot == fb.alloc = 0 /\ Cells(fb.size) >= Cells(GpuSize)
OnlyTypingStops ==
    \A i \in 1 .. 3 :
        [](LargeBoot => []<>(pc = "run" /\ app = i) \/ <>(pc = "stopped"))
=============================================================================
