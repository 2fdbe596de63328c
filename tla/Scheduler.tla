----------------------------- MODULE Scheduler -----------------------------
(***************************************************************************)
(* What the executor promises to the futures it runs: one task is polled   *)
(* at a time; a task runs when it was created, has yielded or was woken,   *)
(* and never after it returned Ready; one that waits runs again only if    *)
(* the task that is running wakes it; and none disappears but by           *)
(* returning.                                                              *)
(***************************************************************************)

CONSTANT Tasks

VARIABLE state   \* "new", "ready", "running", "waiting" or "done", per task

Busy == \E t \in Tasks : state[t] = "running"

Becomes(t, from, to) == state[t] = from /\ state' = [state EXCEPT ![t] = to]

(* Tasks exist when the executor starts, others are still to be created. *)
Init == state \in [Tasks -> {"new", "ready"}]

(* The running task creates another one, or wakes one that waits. *)
Create(t)   == Busy /\ Becomes(t, "new", "ready")
Wake(t)     == Busy /\ Becomes(t, "waiting", "ready")

Dispatch(t) == ~Busy /\ Becomes(t, "ready", "running")

(* A poll ends. *)
Yield(t)    == Becomes(t, "running", "ready")
Wait(t)     == Becomes(t, "running", "waiting")
Finish(t)   == Becomes(t, "running", "done")

Next == \E t \in Tasks : Create(t) \/ Wake(t) \/ Dispatch(t) \/ Yield(t)
                             \/ Wait(t) \/ Finish(t)

Spec == Init /\ [][Next]_state
=============================================================================
