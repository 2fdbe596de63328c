--------------------------- MODULE ConsoleProofs ---------------------------
(***************************************************************************)
(* The console's prompt, whatever is typed in whatever frame.              *)
(***************************************************************************)
EXTENDS Console, TLAPS

(* What the last atom is, with or without a Store: what a new Store starts *)
(* with is what a prompt of the shell is.                                  *)
PromptInv ==
    /\ user
    /\ kind = PromptOf(mode)
    /\ mode = "Shell" => prompt = 1
    /\ mode = "FomoscriptREPL" => quit_set

IInv == TypeOK /\ PromptInv

(* Nothing typed: the text is what is left of the prompt. *)
LEMMA NothingTyped == typed = <<>> => TextLen = prompt
  <1> SUFFICES ASSUME typed = <<>>
               PROVE  TextLen = prompt
    OBVIOUS
  <1>1. DOMAIN typed = {}
    OBVIOUS
  <1> QED
    BY <1>1 DEF TextLen, FoldLeft, MapThenFoldSet

(* text.pop() leaves a text of units. *)
LEMMA PopUnits ==
    ASSUME NEW t \in Seq(Units), t # <<>>
    PROVE  Pop(t) \in Seq(Units)
  <1>1. Len(t) \in Nat /\ Len(t) > 0
    OBVIOUS
  <1>2. Front(t) \in Seq(Units)
    BY <1>1 DEF Front
  <1>3. CASE Last(t) \in Words
    <2> DEFINE n == ByteLen(Last(t)) - 1
               r == [j \in 1 .. n |-> "c"]
    <2>1. n \in Nat
      <3>1. Last(t) \in {"repl", "reset"} \/ Last(t) \in {"lang en", "lang fr"}
        BY <1>3 DEF Words
      <3>2. CASE Last(t) = "repl"
        BY <3>2 DEF ByteLen, Words, Sup2
      <3>3. CASE Last(t) = "reset"
        BY <3>3 DEF ByteLen, Words, Sup2
      <3>4. CASE Last(t) \in {"lang en", "lang fr"}
        <4>1. Last(t) # "repl" /\ Last(t) # "reset" /\ Last(t) # "U+00B2"
          BY <3>4
        <4> HIDE DEF n
        <4>2. ByteLen(Last(t)) = 7
          BY <3>4, <4>1 DEF ByteLen, Sup2
        <4> QED
          BY <4>2 DEF n
      <3> QED
        BY <3>1, <3>2, <3>3, <3>4
    <2>2. r \in Seq(Units)
      <3> HIDE DEF n
      <3> QED
        BY <2>1 DEF Units
    <2>3. Pop(t) = Front(t) \o r
      BY <1>3 DEF Pop
    <2> HIDE DEF r
    <2> QED
      BY <1>2, <2>2, <2>3
  <1>4. CASE Last(t) \notin Words
    BY <1>2, <1>4 DEF Pop
  <1> QED
    BY <1>3, <1>4

(* A character is typed. *)
LEMMA AppendUnit ==
    ASSUME typed \in Seq(Units), NEW u \in Units
    PROVE  Append(typed, u) \in Seq(Units)
  OBVIOUS

(* Prompts, and their lengths. *)
LEMMA PromptFacts ==
    ASSUME NEW m \in {"Shell", "FomoscriptREPL"}
    PROVE  /\ PromptOf(m) \in {">", "fos>"}
           /\ PromptLen(PromptOf(m)) \in 1 .. PromptLen(PromptOf(m))
           /\ m = "Shell" => PromptLen(PromptOf(m)) = 1
  BY DEF PromptOf, PromptLen

(* A prompt is pushed when Enter is done, and the console knows quit if it *)
(* is that of the REPL.                                                    *)
LEMMA PushKeeps ==
    ASSUME IInv, NEW m \in {"Shell", "FomoscriptREPL"}, PushPrompt(m),
           UNCHANGED << store, active, shift, altg >>, quit_set' \in BOOLEAN,
           local' \in {"En", "Fr"}, m = "FomoscriptREPL" => quit_set'
    PROVE  IInv'
  <1>1. /\ mode' = m /\ user' = TRUE /\ kind' = PromptOf(m) /\ typed' = <<>>
        /\ prompt' = PromptLen(PromptOf(m)) /\ pc' = "call" /\ left' = 0
        /\ old_sup2' \in BOOLEAN
    BY DEF PushPrompt
  <1>2. PromptInv'
    BY <1>1, PromptFacts DEF PromptInv
  <1>3. TypeOK'
    <2>1. typed' \in Seq(Units) /\ left' \in 0 .. MaxEvents
      BY <1>1, ConsoleAssumption
    <2>2. kind' \in {">", "fos>"} /\ prompt' \in 1 .. PromptLen(kind')
      BY <1>1, PromptFacts
    <2> QED
      BY <1>1, <2>1, <2>2 DEF IInv, TypeOK
  <1> QED
    BY <1>2, <1>3 DEF IInv

-----------------------------------------------------------------------------
(* The first prompt is the shell's. *)
LEMMA InitIInv == Init => IInv
  <1> SUFFICES ASSUME Init
               PROVE  IInv
    OBVIOUS
  <1>1. typed \in Seq(Units) /\ left \in 0 .. MaxEvents
    BY ConsoleAssumption DEF Init
  <1>2. prompt \in 1 .. PromptLen(kind) /\ kind = PromptOf(mode)
    BY DEF Init, PromptOf, PromptLen
  <1>3. TypeOK
    BY <1>1, <1>2 DEF Init, TypeOK
  <1>4. PromptInv
    BY <1>2 DEF Init, PromptInv
  <1> QED
    BY <1>3, <1>4 DEF IInv

(* Every branch of a frame keeps the invariant. *)
LEMMA NextIInv == IInv /\ [Next]_vars => IInv'
  <1> SUFFICES ASSUME IInv, [Next]_vars
               PROVE  IInv'
    OBVIOUS
  <1> USE DEF IInv
  <1>1. ASSUME NEW click \in {"inside", "outside", "none"}, Start(click)
        PROVE  IInv'
    <2>1. /\ store' = TRUE /\ active' \in BOOLEAN /\ left' \in 0 .. MaxEvents
          /\ pc' \in {"events", "panicked"}
      BY <1>1 DEF Start, TypeOK
    <2>2. CASE store
      <3>1. UNCHANGED << keyvars, atomvars >>
        BY <1>1, <2>2 DEF Start
      <3> QED
        BY <2>1, <3>1 DEF keyvars, atomvars, TypeOK, PromptInv
    <2>3. CASE ~store
      <3>1. /\ shift' = FALSE /\ altg' = FALSE /\ local' = "En"
            /\ quit_set' = FALSE /\ mode' = "Shell" /\ user' = TRUE
            /\ kind' = ">" /\ prompt' = 1 /\ typed' = <<>> /\ old_sup2' = FALSE
        BY <1>1, <2>3 DEF Start
      <3>2. typed' \in Seq(Units)
        BY <3>1
      <3>3. prompt' \in 1 .. PromptLen(kind') /\ kind' = PromptOf(mode')
        BY <3>1 DEF PromptOf, PromptLen
      <3>4. TypeOK'
        BY <2>1, <3>1, <3>2, <3>3 DEF TypeOK
      <3>5. PromptInv'
        BY <3>1, <3>3 DEF PromptInv
      <3> QED
        BY <3>4, <3>5
    <2> QED
      BY <2>2, <2>3
  <1>2. CASE Return
    <2>1. 0 \in 0 .. MaxEvents
      BY ConsoleAssumption
    <2> QED
      BY <1>2, <2>1 DEF Return, keyvars, atomvars, TypeOK, PromptInv
  <1>3. ASSUME OnEvent, left' = left - 1
        PROVE  left' \in 0 .. MaxEvents
    BY <1>3, ConsoleAssumption DEF OnEvent, TypeOK
  <1>4. ASSUME NEW key, NEW trigger \in BOOLEAN, Modifier(key, trigger)
        PROVE  IInv'
    <2>1. left' \in 0 .. MaxEvents
      BY <1>3, <1>4 DEF Modifier
    <2> QED
      BY <1>4, <2>1 DEF Modifier, atomvars, TypeOK, PromptInv
  <1>5. ASSUME OnEvent, left' = left - 1, typed' \in Seq(Units),
               UNCHANGED << pc, store, active, keyvars, mode, user, kind, prompt,
                            old_sup2 >>
        PROVE  IInv'
    <2>1. left' \in 0 .. MaxEvents
      BY <1>3, <1>5
    <2> QED
      BY <1>5, <2>1 DEF keyvars, TypeOK, PromptInv
  <1>6. ASSUME NEW u \in Units, Type(u)
        PROVE  IInv'
    <2>1. typed' \in Seq(Units)
      BY <1>6, AppendUnit DEF Type, TypeOK
    <2> QED
      BY <1>5, <1>6, <2>1 DEF Type
  <1>7. CASE NewLine
    <2>1. typed' \in Seq(Units)
      BY <1>7, AppendUnit DEF NewLine, TypeOK, Units
    <2> QED
      BY <1>5, <1>7, <2>1 DEF NewLine
  <1>8. CASE Backspace
    <2>1. /\ OnEvent /\ left' = left - 1
          /\ UNCHANGED << pc, store, active, keyvars, mode, user, kind, old_sup2 >>
          /\ IF TextLen > 1 THEN PopChar ELSE UNCHANGED << typed, prompt >>
      BY <1>8 DEF Backspace
    <2>2. typed \in Seq(Units)
      BY DEF TypeOK
    <2>3. CASE prompt' = prompt /\ typed' \in Seq(Units)
      BY <1>5, <2>1, <2>3
    <2>4. CASE typed = <<>> /\ TextLen > 1
      <3>1. typed' = typed /\ prompt' = prompt - 1 /\ prompt > 1
        BY <2>1, <2>4, NothingTyped DEF PopChar
      <3>2. mode # "Shell" /\ prompt' \in 1 .. PromptLen(kind)
        BY <3>1 DEF PromptInv, TypeOK, PromptLen
      <3>3. left' \in 0 .. MaxEvents
        BY <1>3, <2>1
      <3> QED
        BY <2>1, <3>1, <3>2, <3>3 DEF keyvars, TypeOK, PromptInv
    <2>5. CASE typed # <<>> /\ TextLen > 1
      BY <2>1, <2>2, <2>3, <2>5, PopUnits DEF PopChar
    <2> QED
      BY <2>1, <2>2, <2>3, <2>4, <2>5
  <1>9. CASE EnterRepl
    <2>1. PICK m \in {mode, "Shell"} : PushPrompt(m)
      BY <1>9 DEF EnterRepl
    <2>2. /\ m \in {"Shell", "FomoscriptREPL"} /\ quit_set' = quit_set
          /\ local' = local /\ UNCHANGED << store, active, shift, altg >>
      BY <1>9, <2>1 DEF EnterRepl, keyvars, TypeOK
    <2>3. quit_set' \in BOOLEAN /\ local' \in {"En", "Fr"}
          /\ (m = "FomoscriptREPL" => quit_set')
      BY <2>1, <2>2 DEF TypeOK, PromptInv
    <2> QED
      BY <2>1, <2>2, <2>3, PushKeeps
  <1>10. CASE EnterReplPanic
    BY <1>10 DEF EnterReplPanic, keyvars, atomvars, TypeOK, PromptInv
  <1>11. CASE EnterShell
    <2>1. PICK m \in {"Shell", "FomoscriptREPL"} :
            /\ PushPrompt(m) /\ (m = "FomoscriptREPL" => IsCommand("repl"))
      BY <1>11 DEF EnterShell
    <2>2. /\ UNCHANGED << store, active, shift, altg >>
          /\ quit_set' \in BOOLEAN /\ (IsCommand("repl") => quit_set')
          /\ local' \in {"En", "Fr"}
      BY <1>11 DEF EnterShell, TypeOK, IsCommand
    <2> QED
      BY <2>1, <2>2, PushKeeps
  <1>12. CASE EnterReset
    <2>1. 0 \in 0 .. MaxEvents
      BY ConsoleAssumption
    <2> QED
      BY <1>12, <2>1 DEF EnterReset, keyvars, atomvars, TypeOK, PromptInv
  <1>13. CASE UNCHANGED vars
    BY <1>13 DEF vars, keyvars, atomvars, TypeOK, PromptInv
  <1> QED
    BY <1>1, <1>2, <1>4, <1>6, <1>7, <1>8, <1>9, <1>10, <1>11, <1>12, <1>13 DEF Next

(* The invariant always holds. *)
LEMMA IInvAlways == Spec => []IInv
  BY InitIInv, NextIInv, PTL DEF Spec

(* The state of the shell stays within its types, with any bound on the    *)
(* text and on the key events of a frame.                                  *)
THEOREM ShellTypes == Spec => []TypeOK
  <1>1. IInv => TypeOK
    BY DEF IInv
  <1> QED
    BY <1>1, IInvAlways, PTL

(* The prompt that the user sees is that of the mode in which the next     *)
(* line is read, the shell's or the REPL's, whatever was deleted and       *)
(* entered before.                                                         *)
THEOREM PromptAlwaysMatches == Spec => []PromptMatchesMode
  <1>1. IInv => PromptMatchesMode
    BY DEF IInv, PromptInv, PromptMatchesMode
  <1> QED
    BY <1>1, IInvAlways, PTL
=============================================================================
