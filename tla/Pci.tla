--------------------------------- MODULE Pci ---------------------------------
(***************************************************************************)
(* PCI enumeration (pci.rs): Pcis::new goes over every bus, slot and       *)
(* function and keeps the ones that answer; Pci::get_bar decodes a base    *)
(* address register.  The bus and the functions behind it are external:    *)
(* `machine` says which functions exist, where their BARs are and which    *)
(* capabilities they list.  A device with one function may answer for      *)
(* every function number.                                                  *)
(***************************************************************************)
EXTENDS Naturals, Sequences

CONSTANTS
    NumSlots,    \* buses times slots: 256 * 32
    NumFuncs,    \* functions of a slot: 8
    DWORD        \* 2^32, the values of a configuration register

ASSUME PciAssumption ==
    /\ NumSlots \in Nat \ {0} /\ NumFuncs \in Nat \ {0}
    /\ DWORD \in Nat /\ DWORD > 16 /\ DWORD % 16 = 0

VARIABLES
    machine,     \* the functions present, by address
    slot,        \* bus and slot of the outer loops, as one number
    func,        \* the variable of the inner loop
    devs         \* Pcis.devs

pcivars == << machine, slot, func, devs >>

Addresses == (0 .. NumSlots - 1) \X (0 .. NumFuncs - 1)

(* A slot has either one function, 0, or several of which function 0 says  *)
(* so in its header type.                                                  *)
SoundMachine(m) ==
    /\ DOMAIN m \subseteq Addresses
    /\ \A a \in DOMAIN m :
         a[2] # 0 => << a[1], 0 >> \in DOMAIN m /\ m[<< a[1], 0 >>].multi

-----------------------------------------------------------------------------
(* The function that answers a configuration read at an address, if any. *)
Answers(a) ==
    IF a \in DOMAIN machine THEN {a}
    ELSE {z \in DOMAIN machine : /\ z = << a[1], 0 >>
                                 /\ ~machine[z].multi /\ machine[z].alias}

(* One round of the inner loop: a vendor id other than 0xFFFF is a         *)
(* function; one that is not multi-function ends the loop over func.       *)
ScanningPastEnd ==   \* mutant: 0..=256
    slot <= NumSlots

Scanning == slot < NumSlots

ScanNoBreak ==   \* mutant: the other functions of the slot are read anyway
    /\ Scanning
    /\ devs' = IF Answers(<< slot, func >>) # {}
               THEN Append(devs, << slot, func >>) ELSE devs
    /\ IF func = NumFuncs - 1
       THEN slot' = slot + 1 /\ func' = 0
       ELSE slot' = slot /\ func' = func + 1
    /\ UNCHANGED machine

ScanFunction ==
    LET answers == Answers(<< slot, func >>)
        single  == func = 0 /\ \E z \in answers : ~machine[z].multi
    IN /\ Scanning
       /\ devs' = IF answers # {} THEN Append(devs, << slot, func >>) ELSE devs
       /\ IF single \/ func = NumFuncs - 1
          THEN slot' = slot + 1 /\ func' = 0
          ELSE slot' = slot /\ func' = func + 1
       /\ UNCHANGED machine

-----------------------------------------------------------------------------
(* The registers of a function whose BARs are laid out as in l: flags in   *)
(* the low bits, and the upper half of a 64-bit base in the next register. *)
Registers(l) ==
    [k \in 0 .. 5 |->
        IF k \in DOMAIN l
        THEN (l[k].base % DWORD) + (IF l[k].io THEN 1 ELSE
              (IF l[k].wide THEN 4 ELSE 0) + (IF l[k].prefetch THEN 8 ELSE 0))
        ELSE IF k - 1 \in DOMAIN l /\ l[k - 1].wide
        THEN l[k - 1].base \div DWORD
        ELSE 0]

(* Addresses are aligned; those of 64 bits leave the next register free. *)
SoundLayout(l) ==
    /\ DOMAIN l \subseteq 0 .. 5
    /\ \A k \in DOMAIN l :
         /\ l[k].base \in Nat \ {0}
         /\ l[k].io \in BOOLEAN /\ l[k].wide \in BOOLEAN /\ l[k].prefetch \in BOOLEAN
         /\ IF l[k].io THEN ~l[k].wide /\ l[k].base % 4 = 0
                        ELSE l[k].base % 16 = 0
         /\ IF l[k].wide THEN k < 5 /\ k + 1 \notin DOMAIN l
                          ELSE l[k].base < DWORD

NoBar == [kind |-> "None", addr |-> 0]

(* Pci::get_bar. *)
get_bar_low(regs, idx) ==   \* mutant: the upper half is not joined
    LET bar == regs[idx]
        masked == (bar \div 16) * 16
    IN CASE bar = 0     -> NoBar
         [] bar % 2 = 1 -> [kind |-> "Io", addr |-> (bar \div 4) * 4]
         [] bar # 0 /\ bar % 2 = 0 ->
              IF masked = 0 THEN NoBar ELSE [kind |-> "Mm", addr |-> masked]

get_bar(regs, idx) ==
    LET bar    == regs[idx]
        bit64  == (bar \div 4) % 2 = 1 /\ idx < 5
        full   == IF bit64 THEN bar + DWORD * regs[idx + 1] ELSE bar
        masked == (full \div 16) * 16
    IN CASE bar = 0     -> NoBar
         [] bar % 2 = 1 -> [kind |-> "Io", addr |-> (bar \div 4) * 4]
         [] bar # 0 /\ bar % 2 = 0 ->
              IF masked = 0 THEN NoBar ELSE [kind |-> "Mm", addr |-> masked]

-----------------------------------------------------------------------------
(* When the scan is over, every function of the machine is in devs exactly *)
(* once, whatever the functions that answer for their whole slot (pci.rs:  *)
(* 187-229); a function listed twice would be initialised twice.           *)
FunctionsFoundOnce ==
    ~Scanning =>
        /\ {devs[k] : k \in 1 .. Len(devs)} = DOMAIN machine
        /\ \A j, k \in 1 .. Len(devs) : j # k => devs[j] # devs[k]
=============================================================================
