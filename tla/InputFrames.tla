----------------------------- MODULE InputFrames -----------------------------
(***************************************************************************)
(* globals.rs: the INPUT global between the input driver, which applies    *)
(* device events to it, and the application loop of main.rs, which reads   *)
(* it once per frame, shows the copy to every application and then steps   *)
(* every key.  Tasks switch only where they await, so a frame falls        *)
(* between two polls of the driver, and any number of events may have been *)
(* applied since the frame before.  Of the applications, the one that      *)
(* reads the history of the keys is followed: the console.                 *)
(***************************************************************************)
EXTENDS InputDriver

CONSTANTS
    Keys,           \* key codes
    KeyEnter, KeyLeftShift,
    HISTORY_SIZE    \* 64 in the code

(* type 0 ends a report, 1 is a key (value 0 up, 1 down, 2 repeat), and 2  *)
(* a move of the mouse along x (code 0) or y (code 1).                     *)
ASSUME InputAssumption ==
    /\ HISTORY_SIZE \in Nat \ {0}
    /\ KeyEnter \in Keys /\ KeyLeftShift \in Keys /\ KeyEnter # KeyLeftShift
    /\ \A e \in Events : \/ e.type = 0
                         \/ e.type = 1 /\ e.code \in Keys /\ e.value \in Nat
                         \/ e.type = 2 /\ e.code \in {0, 1} /\ e.value \in Int

VARIABLES
    keys,                \* Input.keys: KeyState of each key
    mouse,               \* Input.mouse_x and mouse_y, by the event's code
    history_last_index,  \* Input.history_last_index
    history_ring,        \* Input.history_ring
    last_seen,           \* the console's store.input_history_last_index, or NoStore
    shift,               \* store.shift: the console's own view of left shift
    reader,              \* whether the console was active in the last frame
    read_events,         \* and what it read from the ring
    frames               \* Len(input) at the last frame and at the one before

inputvars == << keys, mouse, history_last_index, history_ring, last_seen,
                shift, reader, read_events, frames >>
allvars   == << vars, inputvars >>

OffStates == {"Off", "OffFromOn", "OffTransientOn"}
OnStates  == {"OnFromOff", "OnTransientOff", "On"}
InputEvents == [trigger : BOOLEAN, key : Keys]
NoInput == [trigger |-> FALSE, key |-> 0]
NoStore == -1       \* before the console's first frame and after ">reset"

InputTypeOK ==
    /\ TypeOK
    /\ keys \in [Keys -> OffStates \cup OnStates]
    /\ mouse \in [{0, 1} -> Nat]
    /\ history_last_index \in 0 .. Len(input)
    /\ history_ring \in [0 .. HISTORY_SIZE - 1 -> InputEvents \cup {NoInput}]
    /\ last_seen \in {NoStore} \cup 0 .. history_last_index
    /\ shift \in BOOLEAN /\ reader \in {"idle", "active"}
    /\ read_events \in Seq(InputEvents \cup {NoInput})
    /\ frames.before \in 0 .. frames.last /\ frames.last \in 0 .. Len(input)

InputInit ==
    /\ Init
    /\ keys = [k \in Keys |-> "Off"]
    /\ mouse = [c \in {0, 1} |-> 0]
    /\ history_last_index = 0
    /\ history_ring = [i \in 0 .. HISTORY_SIZE - 1 |-> NoInput]
    /\ last_seen = NoStore /\ shift = FALSE
    /\ reader = "idle" /\ read_events = <<>>
    /\ frames = [before |-> 0, last |-> 0]

-----------------------------------------------------------------------------
(* KeyState::handle_incoming_state *)
KeyStateIncomingNoTransient(s, b) ==   \* mutant: a short press is forgotten
    CASE s = "Off" /\ b        -> "OnFromOff"
      [] s = "On" /\ ~b        -> "OffFromOn"
      [] s = "OffFromOn" /\ b  -> "OnTransientOff"
      [] OTHER                 -> IF b THEN "On" ELSE "Off"

KeyStateIncoming(s, b) ==
    CASE s = "Off" /\ b        -> "OnFromOff"
      [] s = "On" /\ ~b        -> "OffFromOn"
      [] s = "OffFromOn" /\ b  -> "OnTransientOff"
      [] s = "OnFromOff" /\ ~b -> "OffTransientOn"
      [] OTHER                 -> IF b THEN "On" ELSE "Off"

(* KeyState::step *)
KeyStateStep(s) == IF s \in OffStates THEN "Off" ELSE "On"

(* Input::handle_incoming_state *)
IncomingWritesFirst(k, b) ==   \* mutant: the slot is written before the increment
    /\ history_last_index' = history_last_index + 1
    /\ history_ring' = [history_ring EXCEPT
            ![history_last_index % HISTORY_SIZE] = [trigger |-> b, key |-> k]]
    /\ keys' = [keys EXCEPT ![k] = KeyStateIncoming(@, b)]

Incoming(k, b) ==
    /\ history_last_index' = history_last_index + 1
    /\ history_ring' = [history_ring EXCEPT
            ![history_last_index' % HISTORY_SIZE] = [trigger |-> b, key |-> k]]
    /\ keys' = [keys EXCEPT ![k] = KeyStateIncoming(@, b)]

(* mouse_x and mouse_y: (.. as i32 + d).max(0) as usize *)
Moved(at, d) == IF at + d < 0 THEN 0 ELSE at + d

(* The driver's INPUT.update: a match on the type of the event in hand;    *)
(* the end of a report changes nothing.                                    *)
Update ==
    LET e == buf[cur] IN
    /\ Apply
    /\ IF e.type = 1
       THEN Incoming(e.code, e.value # 0)
       ELSE UNCHANGED << keys, history_last_index, history_ring >>
    /\ mouse' = IF e.type = 2
                THEN [mouse EXCEPT ![e.code] = Moved(@, e.value)]
                ELSE mouse
    /\ UNCHANGED << last_seen, shift, reader, read_events, frames >>

Drive == \/ Update
         \/ (Fill \/ WriteSlot \/ WriteIdx \/ Scan \/ Resume) /\ UNCHANGED inputvars

(* The console goes over the slots after the last index it saw: the i-th   *)
(* of them; whether left shift is down after it as far as the console saw; *)
(* and whether it is the Enter that ends the line, at which the loop over  *)
(* the new events breaks.                                                  *)
NewInput(i) == history_ring[(last_seen + i) % HISTORY_SIZE]

ShiftAfter(i) ==
    \/ /\ shift
       /\ \A j \in 1 .. i : NewInput(j).key # KeyLeftShift
    \/ \E j \in 1 .. i : /\ NewInput(j) = [trigger |-> TRUE, key |-> KeyLeftShift]
                         /\ \A k \in j + 1 .. i : NewInput(k).key # KeyLeftShift

EndsLine(i) == NewInput(i) = [trigger |-> TRUE, key |-> KeyEnter] /\ ~ShiftAfter(i)

(* A new store starts at the current index, so there is nothing new to it. *)
NewStore ==
    /\ last_seen = NoStore
    /\ reader' = "idle" /\ read_events' = <<>>
    /\ last_seen' = history_last_index /\ shift' = FALSE

(* Not active: the index moves on past what was typed. *)
SkipInputs ==
    /\ last_seen # NoStore
    /\ reader' = "idle" /\ read_events' = <<>>
    /\ last_seen' = history_last_index /\ UNCHANGED shift

(* Active: all the new events, or those up to the end of a line; the index *)
(* moves on past the rest too.  The line may have been ">reset".           *)
ReadInputs ==
    /\ last_seen # NoStore
    /\ \E n \in 0 .. history_last_index - last_seen :
         /\ \A i \in 1 .. n - 1 : ~EndsLine(i)
         /\ n < history_last_index - last_seen => n > 0 /\ EndsLine(n)
         /\ reader' = "active" /\ read_events' = [i \in 1 .. n |-> NewInput(i)]
         /\ \/ last_seen' = history_last_index /\ shift' = ShiftAfter(n)
            \/ n > 0 /\ EndsLine(n) /\ last_seen' = NoStore /\ shift' = FALSE

(* One turn of the application loop: INPUT.read(), the console, and        *)
(* INPUT.update(step).  Whether the console is active is the window's      *)
(* matter (ConsoleWindow): here it may be so in any frame.                 *)
Frame ==
    /\ pc = "yield"
    /\ NewStore \/ SkipInputs \/ ReadInputs
    /\ keys' = [k \in Keys |-> KeyStateStep(keys[k])]
    /\ frames' = [before |-> frames.last, last |-> Len(input)]
    /\ UNCHANGED << vars, mouse, history_last_index, history_ring >>

(* External: the device, as in InputDriver. *)
Device ==
    /\ DeviceTake \/ \E d \in Descs, e \in Events : DeviceReport(d, e)
    /\ UNCHANGED inputvars

InputNext == Drive \/ Frame \/ Device

(* The driver task is polled again and again (Executor!StarvationFree). *)
InputSpec == InputInit /\ [][InputNext]_allvars /\ WF_allvars(Drive)

-----------------------------------------------------------------------------
(* The positions of the key events among those applied at from + 1 .. to,  *)
(* and what such an event says.                                            *)
KeyEvents(from, to) == {i \in from + 1 .. to : input[i].type = 1}
KeyEvent(i)         == [trigger |-> input[i].value # 0, key |-> input[i].code]
Count(from, to)     == Cardinality(KeyEvents(from, to))

(* Those of one key, and whether it is down after the last of them. *)
OfKey(k, from, to) == {i \in KeyEvents(from, to) : input[i].code = k}
Pressed(k, to)     == \E i \in OfKey(k, 0, to) :
                          KeyEvent(i).trigger /\ OfKey(k, i, to) = {}

Now           == Len(input)
Recent(k)     == OfKey(k, frames.last, Now)
WasPressed(k) == Pressed(k, frames.last)

(* The key went up and down in turn: no auto-repeat and nothing lost. *)
Alternates(k) == \A i \in Recent(k) : KeyEvent(i).trigger # Pressed(k, i - 1)

(* What the names and comments of KeyState say of a frame with at most two *)
(* changes.                                                                *)
Documented(k) ==
    CASE Cardinality(Recent(k)) = 0 -> IF WasPressed(k) THEN "On" ELSE "Off"
      [] Cardinality(Recent(k)) = 1 -> IF WasPressed(k) THEN "OffFromOn" ELSE "OnFromOff"
      [] OTHER -> IF WasPressed(k) THEN "OnTransientOff" ELSE "OffTransientOn"

(* A key's state tells applications whether it is down now, whatever the *)
(* number of events and repeats in the frame; and if it changed at most  *)
(* twice, which of the six documented histories it had.                  *)
KeyStateExact ==
    \A k \in Keys :
        /\ keys[k] \in OnStates <=> Pressed(k, Now)
        /\ Cardinality(Recent(k)) <= 2 /\ Alternates(k) => keys[k] = Documented(k)

(* A console that is active reads the key events of the frame from the     *)
(* ring in order, each once and none that is older, as long as no more     *)
(* than HISTORY_SIZE arrived: the event at i is read where its number      *)
(* among them says.  And it reads them all, unless the last one that it    *)
(* read is an Enter.                                                       *)
HistoryExact ==
    LET sent == KeyEvents(frames.before, frames.last)
        n    == Len(read_events)
    IN  reader = "active" /\ Cardinality(sent) <= HISTORY_SIZE =>
          /\ n <= Cardinality(sent)
          /\ \A i \in sent : Count(frames.before, i) <= n =>
                               read_events[Count(frames.before, i)] = KeyEvent(i)
          /\ n < Cardinality(sent) =>
                 n > 0 /\ read_events[n] = [trigger |-> TRUE, key |-> KeyEnter]
=============================================================================
