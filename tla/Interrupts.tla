------------------------------ MODULE Interrupts ------------------------------
(***************************************************************************)
(* Interrupts: the redirection table that kernel_main programs (main.rs,   *)
(* ioapic.rs), the handlers of interrupts.rs, the lock of logger.rs, and   *)
(* the loop of Executor::run, which halts until an interrupt comes.  The   *)
(* local APIC is external: a vector that was delivered stays in service    *)
(* until its handler writes the EOI register, and meanwhile no vector of   *)
(* its priority class (vector \div 16) or of a lower one is delivered.     *)
(* Handlers sit behind interrupt gates and so run with interrupts off.     *)
(***************************************************************************)
EXTENDS Naturals, FiniteSets

CONSTANT Wired   \* I/O APIC pins with a device that raises them

PINS  == 24
TIMER == 48
ASSUME PinsAssumption == Wired \subseteq 0 .. PINS - 1

Vector(pin) == 50 + pin
Vectors     == {TIMER} \cup {Vector(pin) : pin \in Wired}
Class(v)    == v \div 16
NoVector    == 0

(* Handlers that call LOCAL_APIC.eoi(), and those that log first. *)
Acknowledged == {TIMER} \cup {Vector(pin) : pin \in {1, 2, 10, 11}}
Logged       == Vectors \ {TIMER, Vector(2)}

VARIABLES
    redtbl,    \* I/O APIC: the redirection entry of each pin
    irr, isr,  \* local APIC: vectors requested, and in service
    enabled,   \* the interrupt flag
    kernel,    \* where kernel_main and Executor::run are
    handler,   \* the vector being handled, or NoVector
    at,        \* where its handler is
    logger     \* who holds the LOGGER locks: "none", "kernel", "handler"

irqvars == << redtbl, irr, isr, enabled, kernel, handler, at, logger >>

IrqTypeOK ==
    /\ redtbl \in [Wired -> [vector : Vectors \cup {NoVector}, masked : BOOLEAN]]
    /\ irr \subseteq Vectors /\ isr \subseteq Vectors
    /\ enabled \in BOOLEAN
    /\ kernel \in {"setup", "poll", "log", "check", "halt", "yielders"}
    /\ handler \in Vectors \cup {NoVector}
    /\ at \in {"start", "log", "logging", "eoi", "iret"}
    /\ logger \in {"none", "kernel", "handler"}

IrqInit ==
    /\ redtbl = [pin \in Wired |-> [vector |-> NoVector, masked |-> TRUE]]
    /\ irr = {} /\ isr = {}
    /\ enabled = FALSE /\ kernel = "setup"
    /\ handler = NoVector /\ at = "start" /\ logger = "none"

-----------------------------------------------------------------------------
(* The devices and the local APIC. *)
Raise(pin) ==
    /\ ~redtbl[pin].masked
    /\ irr' = irr \cup {redtbl[pin].vector}
    /\ UNCHANGED << redtbl, isr, enabled, kernel, handler, at, logger >>

TimerFires ==
    /\ irr' = irr \cup {TIMER}
    /\ UNCHANGED << redtbl, isr, enabled, kernel, handler, at, logger >>

Deliver(v) ==
    /\ enabled /\ handler = NoVector
    /\ v \in irr /\ \A w \in irr : w <= v
    /\ \A w \in isr : Class(w) < Class(v)
    /\ irr' = irr \ {v} /\ isr' = isr \cup {v}
    /\ handler' = v /\ at' = "start" /\ enabled' = FALSE
    /\ kernel' = IF kernel = "halt" THEN "yielders" ELSE kernel
    /\ UNCHANGED << redtbl, logger >>

(* LocalApic::eoi: the highest vector in service is retired. *)
Eoi == isr' = isr \ {v \in isr : \A w \in isr : w <= v}

-----------------------------------------------------------------------------
(* RedTbl::new reads bits 0 to 15 of an entry, and the destination; store  *)
(* puts them back where they were; write_redtlb writes no others.  What    *)
(* RedTbl calls mask is bit 15: bit 16, the mask, is cleared.              *)
Stored(entry) == [entry EXCEPT !.masked = FALSE]

(* ioapic_handler_2 reads its pin's entry and stores it back. *)
StoreOwnEntry ==
    redtbl' = [pin \in Wired |-> IF pin = 2 /\ handler = Vector(2)
                                THEN Stored(redtbl[pin]) ELSE redtbl[pin]]

(* The handlers.  lapic_timer first writes EOI; what it then does to       *)
(* WAKERS and WAKER, which nobody registers with, is left out.  The others *)
(* log, except that of pin 2, and some then write EOI.                     *)
HandlerStartNoEoi ==   \* mutant: lapic_timer, like lapic_timer2, writes none
    /\ handler # NoVector /\ at = "start"
    /\ IF handler = TIMER
       THEN at' = "iret" /\ UNCHANGED isr
       ELSE /\ at' = IF handler \in Logged THEN "log" ELSE "eoi"
            /\ UNCHANGED isr
    /\ StoreOwnEntry
    /\ UNCHANGED << irr, enabled, kernel, handler, logger >>

HandlerStart ==
    /\ handler # NoVector /\ at = "start"
    /\ IF handler = TIMER
       THEN at' = "iret" /\ Eoi
       ELSE /\ at' = IF handler \in Logged THEN "log" ELSE "eoi"
            /\ UNCHANGED isr
    /\ StoreOwnEntry
    /\ UNCHANGED << irr, enabled, kernel, handler, logger >>

HandlerLog ==
    /\ handler # NoVector /\ at = "log" /\ logger = "none"
    /\ logger' = "handler" /\ at' = "logging"
    /\ UNCHANGED << redtbl, irr, isr, enabled, kernel, handler >>

HandlerLogged ==
    /\ at = "logging"
    /\ logger' = "none"
    /\ at' = IF handler \in Acknowledged THEN "eoi" ELSE "iret"
    /\ UNCHANGED << redtbl, irr, isr, enabled, kernel, handler >>

HandlerEoi ==
    /\ handler # NoVector /\ at = "eoi"
    /\ Eoi
    /\ at' = "iret"
    /\ UNCHANGED << redtbl, irr, enabled, kernel, handler, logger >>

Return ==
    /\ handler # NoVector /\ at = "iret"
    /\ handler' = NoVector /\ at' = "start" /\ enabled' = TRUE
    /\ UNCHANGED << redtbl, irr, isr, kernel, logger >>

-----------------------------------------------------------------------------
Running(where) == handler = NoVector /\ kernel = where

(* kernel_main gives every pin its vector, and enables interrupts. *)
Setup ==
    /\ Running("setup")
    /\ redtbl' = [pin \in Wired |->
                    Stored([redtbl[pin] EXCEPT !.vector = Vector(pin)])]
    /\ enabled' = TRUE /\ kernel' = "poll"
    /\ UNCHANGED << irr, isr, handler, at, logger >>

(* Tasks log inside without_interrupts, with the locks held. *)
LogInterruptible ==   \* mutant: log without without_interrupts
    /\ Running("poll") /\ logger = "none"
    /\ logger' = "kernel" /\ kernel' = "log"
    /\ UNCHANGED << redtbl, irr, isr, enabled, handler, at >>

Log ==
    /\ Running("poll") /\ logger = "none"
    /\ enabled' = FALSE /\ logger' = "kernel" /\ kernel' = "log"
    /\ UNCHANGED << redtbl, irr, isr, handler, at >>

LogDone ==
    /\ Running("log")
    /\ enabled' = TRUE /\ logger' = "none" /\ kernel' = "poll"
    /\ UNCHANGED << redtbl, irr, isr, handler, at >>

(* run_ready_tasks is done; interrupts::disable(). *)
ReadyDone ==
    /\ Running("poll")
    /\ enabled' = FALSE /\ kernel' = "check"
    /\ UNCHANGED << redtbl, irr, isr, handler, at, logger >>

(* Nothing is ready: enable_and_hlt, with no interrupt in between... *)
Halt ==
    /\ Running("check")
    /\ enabled' = TRUE /\ kernel' = "halt"
    /\ UNCHANGED << redtbl, irr, isr, handler, at, logger >>

(* ...or some task is ready. *)
GoOn ==
    /\ Running("check")
    /\ enabled' = TRUE /\ kernel' = "yielders"
    /\ UNCHANGED << redtbl, irr, isr, handler, at, logger >>

(* The yielders, the application loop among them, are woken and polled. *)
WakeYielders ==
    /\ Running("yielders")
    /\ kernel' = "poll"
    /\ UNCHANGED << redtbl, irr, isr, enabled, handler, at, logger >>

Handlers == HandlerStart \/ HandlerLog \/ HandlerLogged \/ HandlerEoi \/ Return
Kernel   == Setup \/ LogDone \/ ReadyDone \/ Halt \/ GoOn \/ WakeYielders

IrqNext ==
    \/ \E pin \in Wired : Raise(pin)
    \/ TimerFires \/ \E v \in Vectors : Deliver(v)
    \/ Handlers \/ Log \/ Kernel

IrqSpec == IrqInit /\ [][IrqNext]_irqvars

(* The processor runs; the timer is periodic, and the APIC delivers what   *)
(* it may deliver.  A device need not raise its pin, and does not do so    *)
(* fast enough to keep the kernel from running.                            *)
IrqFairSpec ==
    /\ IrqSpec
    /\ WF_irqvars(Handlers) /\ SF_irqvars(ReadyDone) /\ SF_irqvars(Kernel)
    /\ WF_irqvars(TimerFires) /\ \A v \in Vectors : WF_irqvars(Deliver(v))

-----------------------------------------------------------------------------
(* Handlers log too, on the stack of the code they interrupted: that code  *)
(* never holds the LOGGER locks then, or the handler would spin forever on *)
(* a lock that only its own return could free.                             *)
HandlerNeverSpins ==
    handler # NoVector /\ at = "log" => logger = "none"

(* The local APIC delivers nothing of the class of a vector in service, or *)
(* of a lower one, so every handler retires its vector before it returns,  *)
(* and never the vector of another: outside handlers none is in service.   *)
AllAcknowledged == handler = NoVector => isr = {}

(* README.md:127, applications are "called through their only function     *)
(* `start` again soon": Executor::run, which halts in every turn that      *)
(* leaves only yielders, always gets to wake them, because the timer's     *)
(* interrupt is always delivered again.                                    *)
LoopRuns == []<>(kernel = "yielders")
=============================================================================
