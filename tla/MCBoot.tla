------------------------------- MODULE MCBoot -------------------------------
(* Boot on machines with two virtio devices, and a memory map with a hole. *)
EXTENDS Boot

MemoryMap == << [usable |-> FALSE, start |-> 0, end |-> 1],
                [usable |-> TRUE, start |-> 1, end |-> 17],
                [usable |-> FALSE, start |-> 17, end |-> 19],
                [usable |-> TRUE, start |-> 19, end |-> 27] >>

(* usable_frames(): the frames of the usable regions, region by region. *)
usable_frames(map) ==
    FlattenSeq([k \in 1 .. Len(map) |->
        IF map[k].usable
        THEN [n \in 1 .. map[k].end - map[k].start |-> map[k].start + n - 1]
        ELSE <<>>])

MapFrames == usable_frames(MemoryMap)

-----------------------------------------------------------------------------
Mm(base, wide, prefetch) ==
    [io |-> FALSE, base |-> base, wide |-> wide, prefetch |-> prefetch]
Io(base) == [io |-> TRUE, base |-> base, wide |-> FALSE, prefetch |-> FALSE]
Cap(type, bar, offset) ==
    [id |-> "virtio", type |-> type, bar |-> bar, offset |-> offset]
Msix == [id |-> "msix", type |-> "msix", bar |-> 1, offset |-> 0]

(* QEMU's layout: I/O in BAR 0, MSI-X in BAR 1, the structures in BAR 4,   *)
(* which is 64 bits wide; below 2^32, above it, and a multiple of it.      *)
Layout(base) == (0 :> Io(68)) @@ (1 :> Mm(64, FALSE, FALSE))
                @@ (4 :> Mm(base, TRUE, TRUE))

CapsUsual == << Msix, Cap("pci_conf", 0, 0), Cap("notify", 4, 3),
                Cap("device", 4, 2), Cap("isr", 4, 1), Cap("common", 4, 0) >>
CapsTwice == << Cap("common", 1, 0), Cap("common", 0, 0), Cap("device", 4, 2),
                Cap("notify", 4, 3), Cap("pci_conf", 4, 0) >>
CapsNone  == << Cap("common", 0, 0), Cap("device", 4, 2),
                Cap("notify", 4, 3), Cap("pci_conf", 4, 0) >>

Gpu(sizes, offers, base) ==
    [vendor |-> "virtio", type |-> "gpu", multi |-> FALSE, alias |-> TRUE,
     layout |-> Layout(base), caps |-> CapsUsual, sizes |-> sizes,
     offers |-> offers]
Input(multi, caps) ==
    [vendor |-> "virtio", type |-> "input", multi |-> multi, alias |-> FALSE,
     layout |-> Layout(16), caps |-> caps, sizes |-> << 2 >>, offers |-> {}]
Bridge == [Input(FALSE, CapsUsual) EXCEPT !.vendor = "other", !.type = "other",
                                          !.alias = TRUE]
Net    == [Input(TRUE, CapsUsual) EXCEPT !.type = "other"]

(* A bridge, a GPU that answers for its slot, and a slot with functions 0  *)
(* and 2, of which the second or both are input devices.                   *)
AnyMachines ==
    {(<< 0, 0 >> :> Bridge) @@ (<< 1, 0 >> :> Gpu(<< 2, 1 >>, {0, 1}, base))
        @@ (<< 2, 0 >> :> Net) @@ (<< 2, 2 >> :> Input(TRUE, caps)) :
        << base, caps >> \in {<< 32, CapsTwice >>, << 2 * DWORD + 48, CapsNone >>,
                              << DWORD, CapsUsual >>}}
    \cup
    {(<< 0, 0 >> :> Gpu(<< 1 >>, offers, 16)) @@ (<< 2, 0 >> :> Input(TRUE, CapsUsual))
        @@ (<< 2, 2 >> :> Input(TRUE, CapsTwice)) :
        offers \in {{0, 1}, {1}}}

-----------------------------------------------------------------------------
Header(load, vaddr, offset, filesz, memsz) ==
    [load |-> load, vaddr |-> vaddr, offset |-> offset, filesz |-> filesz,
     memsz |-> memsz]

(* Two segments, the second with or without zeroes at its end and next to  *)
(* the first or not, and a header that is not loaded; two relocations,     *)
(* anywhere.                                                               *)
Candidates ==
    {[headers |-> << Header(TRUE, 0, 10, 4, 4), Header(FALSE, 4 + gap, 14, 2, 2),
                     Header(TRUE, 4 + gap, 14, filesz, 4) >>,
      rela |-> rela, entry |-> 1] :
        gap \in {0, 3}, filesz \in {2, 4},
        rela \in {<< [off |-> o, add |-> 1], [off |-> 2, add |-> 0] >> :
                     o \in {5, 7}}}
AnyImages == {f \in Candidates : WellFormed(f)}
=============================================================================
