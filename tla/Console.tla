------------------------------- MODULE Console -------------------------------
(***************************************************************************)
(* app_console/src/main.rs: the shell.  The application loop of the kernel *)
(* calls _start once per frame; _start restores or creates its Store,      *)
(* draws the history, goes over the frame's key events, and returns.  A    *)
(* panic in an application ends in loop {} (st.rs), and with it the whole  *)
(* single-CPU system.                                                      *)
(*                                                                         *)
(* Text is abstracted to what the code tells apart: how many bytes of the  *)
(* prompt are left, and what was typed after it as units: the word of a    *)
(* command (a run of keys), any other character of one byte, or U+00B2,    *)
(* which the French layout has and the bitmap font lacks.  The script      *)
(* interpreter is external: once quit is defined any code may call it.     *)
(***************************************************************************)
EXTENDS Naturals, Sequences, SequencesExt

CONSTANTS
    MaxTyped,    \* bound on the units typed after a prompt
    MaxEvents    \* bound on the key events of one frame

ASSUME ConsoleAssumption == MaxTyped \in Nat /\ MaxEvents \in Nat

VARIABLES
    pc,        \* "call", "events" or "panicked"
    left,      \* key events still to come in this frame
    store,     \* the application's Store exists (Context.store)
    active,    \* Store.active
    shift,     \* Store.shift
    altg,      \* Store.altg
    mode,      \* Store.mode
    local,     \* Store.local
    quit_set,  \* Store.script_ctx has the native function quit
    user,      \* Atom.is_user of the last atom
    kind,      \* the prompt the last atom was created with
    prompt,    \* bytes of that prompt left in the last atom's text
    typed,     \* what follows them in the last atom's text
    old_sup2   \* an earlier atom contains U+00B2

keyvars  == << shift, altg, local, quit_set >>
atomvars == << mode, user, kind, prompt, typed, old_sup2 >>
vars     == << pc, left, store, active, keyvars, atomvars >>

Words == {"repl", "lang en", "lang fr", "reset"}
Sup2  == "U+00B2"
Units == Words \cup {"c", Sup2}

ByteLen(u) == CASE u = "repl" -> 4 [] u = "reset" -> 5 [] u \in {"lang en", "lang fr"} -> 7
                [] u = Sup2 -> 2 [] OTHER -> 1
PromptOf(m)  == IF m = "Shell" THEN ">" ELSE "fos>"
PromptLen(k) == IF k = ">" THEN 1 ELSE 4
TextLen      == FoldLeft(LAMBDA n, u : n + ByteLen(u), prompt, typed)

TypeOK ==
    /\ pc \in {"call", "events", "panicked"} /\ left \in 0 .. MaxEvents
    /\ {store, active, shift, altg, quit_set, old_sup2, user} \subseteq BOOLEAN
    /\ mode \in {"Shell", "FomoscriptREPL"} /\ local \in {"En", "Fr"}
    /\ kind \in {">", "fos>"} /\ prompt \in 1 .. PromptLen(kind)
    /\ typed \in Seq(Units)

Init ==
    /\ pc = "call" /\ left = 0 /\ store = FALSE /\ active = FALSE
    /\ shift = FALSE /\ altg = FALSE /\ local = "En" /\ quit_set = FALSE
    /\ mode = "Shell" /\ user = TRUE /\ kind = ">" /\ prompt = 1
    /\ typed = <<>> /\ old_sup2 = FALSE

-----------------------------------------------------------------------------
(* _start up to its loop over the events: the Store is created when there  *)
(* is none, a click decides whether the window is active, and every        *)
(* character of every atom is drawn: get_raster(..).expect(..).            *)
CanDraw == ~old_sup2 /\ Sup2 \notin Range(typed)

Start(click) ==
    /\ pc = "call"
    /\ store' = TRUE
    /\ IF store THEN UNCHANGED << keyvars, atomvars >>
       ELSE /\ shift' = FALSE /\ altg' = FALSE /\ local' = "En"
            /\ quit_set' = FALSE /\ mode' = "Shell" /\ user' = TRUE
            /\ kind' = ">" /\ prompt' = 1 /\ typed' = <<>> /\ old_sup2' = FALSE
    /\ active' = CASE click = "inside" -> TRUE [] click = "outside" -> FALSE
                   [] OTHER -> store /\ active
    /\ pc' = IF store /\ ~CanDraw THEN "panicked" ELSE "events"
    /\ left' \in 0 .. MaxEvents

(* The loop over the frame's events ends, or is not entered at all. *)
Return ==
    /\ pc = "events"
    /\ left = 0 \/ ~active
    /\ pc' = "call" /\ left' = 0
    /\ UNCHANGED << store, active, keyvars, atomvars >>

OnEvent == pc = "events" /\ active /\ left > 0

(* Key::KeyLeftShift and Key::KeyRightAlt, pressed or released. *)
Modifier(key, trigger) ==
    /\ OnEvent
    /\ left' = left - 1
    /\ shift' = IF key = "KeyLeftShift" THEN trigger ELSE shift
    /\ altg' = IF key = "KeyRightAlt" THEN trigger ELSE altg
    /\ UNCHANGED << pc, store, active, local, quit_set, atomvars >>

(* A key with a character; Key::char gives U+00B2 for KeyGrave in Fr only. *)
Type(u) ==
    /\ OnEvent /\ user
    /\ Len(typed) < MaxTyped
    /\ u # "c" => ~shift /\ ~altg
    /\ u = Sup2 => local = "Fr"
    /\ left' = left - 1
    /\ typed' = Append(typed, u)
    /\ UNCHANGED << pc, store, active, keyvars, mode, user, kind, prompt,
                    old_sup2 >>

(* Key::KeyBackspace pops a character while text.len() > 1, one of the     *)
(* prompt too.  A word that loses its last character is no command word.   *)
Pop(t) == IF Last(t) \in Words
          THEN Front(t) \o [i \in 1 .. ByteLen(Last(t)) - 1 |-> "c"]
          ELSE Front(t)

PopChar ==
    IF typed # <<>> THEN typed' = Pop(typed) /\ UNCHANGED prompt
                    ELSE prompt' = prompt - 1 /\ UNCHANGED typed

BackspaceToNothing ==   \* mutant: text.len() > 0
    /\ OnEvent /\ user
    /\ left' = left - 1
    /\ IF TextLen > 0 THEN PopChar ELSE UNCHANGED << typed, prompt >>
    /\ UNCHANGED << pc, store, active, keyvars, mode, user, kind, old_sup2 >>

Backspace ==
    /\ OnEvent /\ user
    /\ left' = left - 1
    /\ IF TextLen > 1 THEN PopChar ELSE UNCHANGED << typed, prompt >>
    /\ UNCHANGED << pc, store, active, keyvars, mode, user, kind, old_sup2 >>

(* Key::KeyEnter if store.shift: a newline. *)
NewLine ==
    /\ OnEvent /\ user /\ shift
    /\ Len(typed) < MaxTyped
    /\ left' = left - 1
    /\ typed' = Append(typed, "c")
    /\ UNCHANGED << pc, store, active, keyvars, mode, user, kind, prompt,
                    old_sup2 >>

-----------------------------------------------------------------------------
PushPromptOldMode(m) ==   \* mutant: the prompt of the mode before the command
    /\ mode' = m
    /\ user' = TRUE /\ kind' = PromptOf(mode) /\ prompt' = PromptLen(kind')
    /\ typed' = <<>> /\ old_sup2' = ~CanDraw
    /\ pc' = "call" /\ left' = 0

(* What Enter does last: a prompt of the mode it leaves the console in is  *)
(* pushed, and break 'new_inputs skips the rest of the frame's events.     *)
PushPrompt(m) ==
    /\ mode' = m
    /\ user' = TRUE /\ kind' = PromptOf(m) /\ prompt' = PromptLen(kind')
    /\ typed' = <<>> /\ old_sup2' = ~CanDraw
    /\ pc' = "call" /\ left' = 0

(* &text[4..] exists: byte 4 is within the text and starts a character. *)
SliceOk ==
    /\ TextLen >= 4
    /\ \A i \in 1 .. Len(typed) : typed[i] = Sup2 =>
         FoldLeft(LAMBDA n, u : n + ByteLen(u), prompt,
                  SubSeq(typed, 1, i - 1)) # 3

OnEnter == OnEvent /\ user /\ ~shift

EnterRepl ==
    /\ OnEnter /\ mode = "FomoscriptREPL"
    /\ SliceOk
    /\ \E m \in (IF quit_set /\ TextLen > 4 THEN {mode, "Shell"} ELSE {mode}) :
         PushPrompt(m)
    /\ UNCHANGED << store, active, keyvars >>

EnterReplPanic ==
    /\ OnEnter /\ mode = "FomoscriptREPL"
    /\ ~SliceOk
    /\ pc' = "panicked"
    /\ UNCHANGED << left, store, active, keyvars, atomvars >>

(* The text is compared with the commands as a whole.  pid, time, help,    *)
(* eval and unknown commands only print.                                   *)
IsCommand(c) == prompt = 1 /\ typed = << c >>

EnterShell ==
    /\ OnEnter /\ mode = "Shell"
    /\ ~IsCommand("reset")
    /\ PushPrompt(IF IsCommand("repl") THEN "FomoscriptREPL" ELSE "Shell")
    /\ quit_set' = (quit_set \/ IsCommand("repl"))
    /\ local' = CASE IsCommand("lang en") -> "En" [] IsCommand("lang fr") -> "Fr"
                  [] OTHER -> local
    /\ UNCHANGED << store, active, shift, altg >>

(* ">reset" drops the Store and returns at once. *)
EnterReset ==
    /\ OnEnter /\ mode = "Shell"
    /\ IsCommand("reset")
    /\ store' = FALSE
    /\ pc' = "call" /\ left' = 0
    /\ UNCHANGED << active, keyvars, atomvars >>

Next ==
    \/ \E click \in {"inside", "outside", "none"} : Start(click)
    \/ Return
    \/ \E key \in {"KeyLeftShift", "KeyRightAlt"}, trigger \in BOOLEAN :
         Modifier(key, trigger)
    \/ \E u \in Units : Type(u)
    \/ Backspace \/ NewLine
    \/ EnterRepl \/ EnterReplPanic \/ EnterShell \/ EnterReset

Spec     == Init /\ [][Next]_vars
(* The kernel's application loop calls _start again and again, and _start  *)
(* does not stop in the middle of its loop over the events.                *)
FairSpec == Spec /\ WF_vars(Next)

-----------------------------------------------------------------------------
(* Whatever was typed, evaluated, erased or reset before, the console      *)
(* waits for a line with the prompt of the mode that will read it (main.rs *)
(* 774-783); the shell's ">", which every command starts with, cannot be   *)
(* erased, and REPL mode never lacks the quit that leaves it.              *)
PromptMatchesMode ==
    pc = "events" =>
        /\ user
        /\ kind = PromptOf(mode)
        /\ mode = "Shell" => prompt = 1
        /\ mode = "FomoscriptREPL" => quit_set

(* README.md:127: applications "can just return ... and assume that they   *)
(* are gonna be called through their only function `start` again soon".    *)
CalledAgain == []<>(pc = "call")
=============================================================================
