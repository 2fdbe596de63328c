--------------------------- MODULE FrameAllocator ---------------------------
(***************************************************************************)
(* Physical memory: BootInfoFrameAllocator (memory.rs), which hands out    *)
(* the frames of the boot memory map ADVANCE at a time from a buffer, and  *)
(* its users: init_heap (allocator.rs), which maps the heap page by page,  *)
(* and create_identity_virt_from_phys and .._n (main.rs), which map device *)
(* queues and frame buffers at their physical address and need the frames  *)
(* of a block to be contiguous.  map_to (external) takes frames for page   *)
(* tables from the same allocator while a block is being mapped.           *)
(* MAPPER and FRAME_ALLOCATOR stay locked for a whole operation.           *)
(***************************************************************************)
EXTENDS Naturals, Sequences

CONSTANTS
    Usable,      \* what usable_frames() yields: frame numbers, in order
    ADVANCE,     \* BUFFER_SIZE_ADVANCE: 32 in the code
    BlockSizes,  \* numbers of pages that are asked for
    MaxTables,   \* frames map_to may take for one page: 3
    MaxOps       \* bound on the operations of one behaviour

ASSUME FramesAssumption ==
    /\ Usable \in Seq(Nat) /\ ADVANCE \in Nat \ {0}
    /\ BlockSizes \subseteq Nat \ {0} /\ MaxTables \in Nat /\ MaxOps \in Nat

(* The regions of the memory map do not overlap. *)
ASSUME DisjointAssumption ==
    \A i, j \in 1 .. Len(Usable) : i # j => Usable[i] # Usable[j]

VARIABLES
    next, buf,   \* BootInfoFrameAllocator
    given,       \* the frames handed out so far
    owner,       \* what each handed-out frame is used for
    pc,          \* "idle", "collect", "map", or how a panic came about
    op,          \* number of operations begun
    block,       \* the operation: identity or heap, pages, first frame
    i,           \* the loop variable of its loops
    tables,      \* frames map_to took for the current page
    mapped,      \* pages mapped at their physical address
    blocks       \* the operations completed

allocvars == << next, buf, given >>
vars == << allocvars, owner, pc, op, block, i, tables, mapped, blocks >>

Frames   == {Usable[k] : k \in 1 .. Len(Usable)}
Given    == {given[k] : k \in 1 .. Len(given)}
Uses     == [op : 0 .. MaxOps, use : {"none", "data", "table"}]
Unused   == [op |-> 0, use |-> "none"]
Blocks   == [op : 0 .. MaxOps, identity : BOOLEAN, pages : BlockSizes \cup {0},
             first : Nat]

TypeOK ==
    /\ next \in Nat /\ buf \in Seq(Frames) /\ given \in Seq(Frames)
    /\ owner \in [Frames -> Uses]
    /\ pc \in {"idle", "collect", "map", "exhausted", "non_contiguous",
               "already_mapped"}
    /\ op \in 0 .. MaxOps
    /\ block \in Blocks /\ i \in Nat /\ tables \in 0 .. MaxTables
    /\ mapped \in SUBSET Nat
    /\ blocks \in SUBSET Blocks

Init ==
    /\ next = 1 /\ buf = <<>> /\ given = <<>>
    /\ owner = [f \in Frames |-> Unused]
    /\ pc = "idle" /\ op = 0 /\ i = 0 /\ tables = 0
    /\ block = [op |-> 0, identity |-> FALSE, pages |-> 0, first |-> 0]
    /\ mapped = {} /\ blocks = {}

-----------------------------------------------------------------------------
(* usable_frames().skip(next - 1).take(ADVANCE), and reversed. *)
Left      == IF Len(Usable) >= next THEN Len(Usable) + 1 - next ELSE 0
ChunkLen  == IF Left < ADVANCE THEN Left ELSE ADVANCE
Chunk     == [k \in 1 .. ChunkLen |-> Usable[next - 1 + k]]
Refilled  == [k \in 1 .. ChunkLen |-> Chunk[ChunkLen + 1 - k]]
Buffer    == IF buf = <<>> THEN Refilled ELSE buf
Popped(s) == [k \in 1 .. Len(s) - 1 |-> s[k]]

(* allocate_frame, when it returns Some(f)... *)
not_reversed(f) ==   \* mutant: the chunk is not reversed
    LET b == IF buf = <<>> THEN Chunk ELSE buf IN
    /\ b # <<>>
    /\ f = b[Len(b)]
    /\ buf' = Popped(b)
    /\ next' = IF buf = <<>> THEN next + ADVANCE ELSE next
    /\ given' = Append(given, f)

allocate_frame(f) ==
    /\ Buffer # <<>>
    /\ f = Buffer[Len(Buffer)]
    /\ buf' = Popped(Buffer)
    /\ next' = IF buf = <<>> THEN next + ADVANCE ELSE next
    /\ given' = Append(given, f)

(* ...and when it returns None, which every caller turns into a panic. *)
allocate_none ==
    /\ Buffer = <<>>
    /\ next' = next + ADVANCE
    /\ UNCHANGED << buf, given >>

Panic(how) ==
    /\ pc' = how
    /\ UNCHANGED << op, block, i, tables, mapped, blocks >>

-----------------------------------------------------------------------------
(* A page of init_heap, or a call of create_identity_virt_from_phys(_n). *)
Begin(identity, pages) ==
    /\ pc = "idle" /\ op < MaxOps
    /\ identity \/ pages = 1
    /\ op' = op + 1
    /\ block' = [op |-> op + 1, identity |-> identity, pages |-> pages, first |-> 0]
    /\ i' = 0 /\ tables' = 0
    /\ pc' = "collect"
    /\ UNCHANGED << allocvars, owner, mapped, blocks >>

(* The first loop: the frames of the block, each compared with the first. *)
CollectAnywhere(f) ==   \* mutant: the frames need not be contiguous
    /\ pc = "collect"
    /\ allocate_frame(f)
    /\ owner' = [owner EXCEPT ![f] = [op |-> op, use |-> "data"]]
    /\ block' = IF i = 0 THEN [block EXCEPT !.first = f] ELSE block
    /\ i' = IF i + 1 = block.pages THEN 0 ELSE i + 1
    /\ pc' = IF i + 1 = block.pages THEN "map" ELSE "collect"
    /\ UNCHANGED << op, tables, mapped, blocks >>

Collect(f) ==
    /\ pc = "collect"
    /\ allocate_frame(f)
    /\ owner' = [owner EXCEPT ![f] = [op |-> op, use |-> "data"]]
    /\ IF i > 0 /\ block.first + i # f
       THEN Panic("non_contiguous")
       ELSE /\ block' = IF i = 0 THEN [block EXCEPT !.first = f] ELSE block
            /\ i' = IF i + 1 = block.pages THEN 0 ELSE i + 1
            /\ pc' = IF i + 1 = block.pages THEN "map" ELSE "collect"
            /\ UNCHANGED << op, tables, mapped, blocks >>

(* The second loop: map_to takes frames for the page tables it lacks... *)
MapTable(f) ==
    /\ pc = "map"
    /\ tables < MaxTables
    /\ allocate_frame(f)
    /\ owner' = [owner EXCEPT ![f] = [op |-> op, use |-> "table"]]
    /\ tables' = tables + 1
    /\ UNCHANGED << pc, op, block, i, mapped, blocks >>

(* ...and maps the page, or returns PageAlreadyMapped. *)
MapPage ==
    /\ pc = "map"
    /\ LET page == block.first + i IN
       IF block.identity /\ page \in mapped
       THEN Panic("already_mapped")
       ELSE /\ mapped' = IF block.identity THEN mapped \cup {page} ELSE mapped
            /\ tables' = 0
            /\ i' = IF i + 1 = block.pages THEN 0 ELSE i + 1
            /\ pc' = IF i + 1 = block.pages THEN "idle" ELSE "map"
            /\ blocks' = IF i + 1 = block.pages THEN blocks \cup {block}
                         ELSE blocks
            /\ UNCHANGED << op, block >>
    /\ UNCHANGED << allocvars, owner >>

Exhausted ==
    /\ pc = "collect" \/ (pc = "map" /\ tables < MaxTables)
    /\ allocate_none
    /\ Panic("exhausted")
    /\ UNCHANGED owner

(* Before any of these, kernel_main maps all of physical memory in pages   *)
(* of 2 MiB: map_to takes page tables, and its errors are only counted.    *)
MapPhysical(f) ==
    /\ pc = "idle" /\ op = 0
    /\ allocate_frame(f)
    /\ owner' = [owner EXCEPT ![f] = [op |-> op, use |-> "table"]]
    /\ UNCHANGED << pc, op, block, i, tables, mapped, blocks >>

MapPhysicalFails ==
    /\ pc = "idle" /\ op = 0
    /\ allocate_none
    /\ UNCHANGED << owner, pc, op, block, i, tables, mapped, blocks >>

Next ==
    \/ \E identity \in BOOLEAN, pages \in BlockSizes : Begin(identity, pages)
    \/ \E f \in Frames : Collect(f) \/ MapTable(f) \/ MapPhysical(f)
    \/ MapPage \/ Exhausted \/ MapPhysicalFails

Spec == Init /\ [][Next]_vars

-----------------------------------------------------------------------------
(* The buffer of 32 frames, its reversal and the skip at every refill add  *)
(* up to nothing: the n-th call returns the n-th usable frame, so that no  *)
(* frame is lost and (the memory map being sound) none is given twice.     *)
GivenInOrder ==
    /\ Len(given) <= Len(Usable)
    /\ given = [k \in 1 .. Len(given) |-> Usable[k]]

(* Every page of a mapped block lies on a frame that was allocated for     *)
(* this very block: neither another operation nor the page tables that     *)
(* map_to allocates in between own memory a device writes to.              *)
BlocksOwnTheirFrames ==
    \A b \in blocks : \A k \in 0 .. b.pages - 1 :
        /\ b.first + k \in DOMAIN owner
        /\ owner[b.first + k] = [op |-> b.op, use |-> "data"]

(* No page is mapped at its physical address twice, so none of the callers *)
(* panics on PageAlreadyMapped.                                            *)
NeverAlreadyMapped == pc # "already_mapped"
=============================================================================
