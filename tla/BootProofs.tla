----------------------------- MODULE BootProofs -----------------------------
(***************************************************************************)
(* Proofs about the boot of every sound machine with every memory map.     *)
(* The scan of the PCI bus finds every function exactly once; the frame    *)
(* allocator's invariants hold with the callers the kernel has; a device   *)
(* that is ready is left alone, with the queues and buffers it was given;  *)
(* and the executor starts with exactly the devices that have a driver and *)
(* the structures it needs, each with the addresses at which the device    *)
(* has them.                                                               *)
(***************************************************************************)
EXTENDS Boot, SequenceTheorems, FiniteSetTheorems, FunctionTheorems, TLAPS

-----------------------------------------------------------------------------
(* The allocator: what was given and what is buffered are together the     *)
(* first next - 1 usable frames, the buffer in reverse order.              *)
AllocInv ==
    /\ next \in Nat \ {0}
    /\ buf \in Seq(Frames) /\ given \in Seq(Frames)
    /\ Len(given) + Len(buf) = IF next - 1 <= Len(Usable) THEN next - 1
                               ELSE Len(Usable)
    /\ \A k \in 1 .. Len(given) : given[k] = Usable[k]
    /\ \A k \in 1 .. Len(buf) : buf[k] = Usable[Len(given) + Len(buf) + 1 - k]

(* What the assumptions say of usable_frames(). *)
LEMMA UsableFacts ==
    /\ Len(Usable) \in Nat
    /\ \A k \in 1 .. Len(Usable) : Usable[k] \in Frames /\ Usable[k] \in Nat
    /\ Frames \subseteq Nat
    /\ ADVANCE \in Nat /\ ADVANCE > 0
  BY FramesAssumption DEF Frames

(* Popping the last element of a sequence. *)
LEMMA PopLast ==
    ASSUME NEW S, NEW s \in Seq(S), s # <<>>
    PROVE  /\ Popped(s) \in Seq(S)
           /\ Len(Popped(s)) = Len(s) - 1
           /\ \A k \in 1 .. Len(s) - 1 : Popped(s)[k] = s[k]
  <1>1. Len(s) - 1 \in Nat
    BY EmptySeq
  <1>2. Popped(s) \in [1 .. Len(s) - 1 -> S]
    BY <1>1 DEF Popped
  <1> QED
    BY <1>1, <1>2 DEF Popped

(* Where allocate_frame leaves next. *)
Advanced == IF buf = <<>> THEN next + ADVANCE ELSE next

(* A refill of the empty buffer keeps the same relation. *)
LEMMA BufferFacts ==
    ASSUME AllocInv
    PROVE  /\ Buffer \in Seq(Frames)
           /\ \A k \in 1 .. Len(Buffer) :
                Buffer[k] = Usable[Len(given) + Len(Buffer) + 1 - k]
           /\ Len(given) + Len(Buffer) <= Len(Usable)
           /\ Len(given) + Len(Buffer) = IF Advanced - 1 <= Len(Usable)
                                         THEN Advanced - 1 ELSE Len(Usable)
  <1>1. CASE buf # <<>>
    <2>1. Buffer = buf
      BY <1>1 DEF Buffer
    <2> QED
      BY <1>1, <2>1, UsableFacts DEF AllocInv, Advanced
  <1>2. CASE buf = <<>>
    <2>1. Len(buf) = 0 /\ Len(given) \in Nat
      BY <1>2 DEF AllocInv
    <2>2. Len(given) = IF next - 1 <= Len(Usable) THEN next - 1 ELSE Len(Usable)
      BY <2>1 DEF AllocInv
    <2>3. next \in Nat /\ next >= 1
      BY DEF AllocInv
    <2>4. ChunkLen \in Nat /\ Left \in Nat
      BY <2>3, UsableFacts DEF ChunkLen, Left
    <2>5. /\ ChunkLen > 0 => Len(given) = next - 1
          /\ Len(given) + ChunkLen <= Len(Usable)
          /\ Len(given) + ChunkLen = IF next + ADVANCE - 1 <= Len(Usable)
                                     THEN next + ADVANCE - 1 ELSE Len(Usable)
      <3>1. CASE next <= Len(Usable)
        <4>1. Left = Len(Usable) + 1 - next /\ Len(given) = next - 1
          BY <2>2, <2>3, <3>1, UsableFacts DEF Left
        <4>2. CASE Left < ADVANCE
          <5>1. ChunkLen = Len(Usable) + 1 - next
            BY <4>1, <4>2 DEF ChunkLen
          <5>2. next + ADVANCE - 1 > Len(Usable) - 1 + 1
            BY <4>1, <4>2, <2>3, UsableFacts
          <5> QED
            BY <5>1, <5>2, <4>1, <2>3, UsableFacts
        <4>3. CASE ~(Left < ADVANCE)
          <5>1. ChunkLen = ADVANCE
            BY <4>3 DEF ChunkLen
          <5>2. next + ADVANCE - 1 <= Len(Usable)
            BY <4>1, <4>3, <2>3, UsableFacts
          <5> QED
            BY <5>1, <5>2, <4>1, <2>3, UsableFacts
        <4> QED
          BY <4>2, <4>3
      <3>2. CASE ~(next <= Len(Usable))
        <4>1. Left = 0
          BY <2>3, <3>2, UsableFacts DEF Left
        <4>2. ChunkLen = 0
          BY <4>1, UsableFacts DEF ChunkLen
        <4>3. Len(given) = Len(Usable)
          BY <2>2, <2>3, <3>2, UsableFacts
        <4> QED
          BY <2>3, <3>2, <4>2, <4>3, UsableFacts
      <3> QED
        BY <3>1, <3>2
    <2>6. Len(given) + ChunkLen <= Len(Usable)
      BY <2>5
    <2>7. \A k \in 1 .. ChunkLen :
             /\ ChunkLen + 1 - k \in 1 .. ChunkLen
             /\ Refilled[k] = Usable[next - 1 + (ChunkLen + 1 - k)]
      BY <2>4 DEF Refilled, Chunk
    <2>8. \A k \in 1 .. ChunkLen :
             /\ Len(given) + ChunkLen + 1 - k \in 1 .. Len(Usable)
             /\ Refilled[k] = Usable[Len(given) + ChunkLen + 1 - k]
      <3> SUFFICES ASSUME NEW k \in 1 .. ChunkLen
                   PROVE  /\ Len(given) + ChunkLen + 1 - k \in 1 .. Len(Usable)
                          /\ Refilled[k] = Usable[Len(given) + ChunkLen + 1 - k]
        OBVIOUS
      <3>1. Len(given) = next - 1 /\ ChunkLen > 0
        BY <2>4, <2>5
      <3>2. next - 1 + (ChunkLen + 1 - k) = Len(given) + ChunkLen + 1 - k
        BY <2>3, <2>4, <3>1
      <3>3. Refilled[k] = Usable[next - 1 + (ChunkLen + 1 - k)]
        BY <2>7
      <3>4. Len(given) + ChunkLen + 1 - k \in 1 .. Len(Usable)
        BY <2>1, <2>4, <2>6, UsableFacts
      <3> QED
        BY <3>2, <3>3, <3>4
    <2>9. Refilled \in Seq(Frames) /\ Len(Refilled) = ChunkLen
      <3>1. \A k \in 1 .. ChunkLen : Refilled[k] \in Frames
        BY <2>8, UsableFacts
      <3>2. Refilled = [k \in 1 .. ChunkLen |-> Refilled[k]]
        BY DEF Refilled
      <3>3. Refilled \in [1 .. ChunkLen -> Frames]
        BY <3>1, <3>2
      <3> QED
        BY <2>4, <3>3
    <2>10. Buffer = Refilled
      BY <1>2 DEF Buffer
    <2>11. \A k \in 1 .. Len(Buffer) :
              Buffer[k] = Usable[Len(given) + Len(Buffer) + 1 - k]
      BY <2>8, <2>9, <2>10
    <2>12. Len(Buffer) = ChunkLen /\ Buffer \in Seq(Frames)
      BY <2>9, <2>10
    <2>13. Advanced = next + ADVANCE
      BY <1>2 DEF Advanced
    <2> HIDE DEF Buffer, ChunkLen
    <2>14. /\ Len(given) + Len(Buffer) <= Len(Usable)
           /\ Len(given) + Len(Buffer) = IF Advanced - 1 <= Len(Usable)
                                         THEN Advanced - 1 ELSE Len(Usable)
      BY <2>1, <2>3, <2>4, <2>5, <2>12, <2>13, UsableFacts
    <2> QED
      BY <2>11, <2>12, <2>14, Zenon
  <1> QED
    BY <1>1, <1>2

(* allocate_frame returns the next usable frame, one not given before. *)
LEMMA AllocStep ==
    ASSUME AllocInv, NEW f, allocate_frame(f)
    PROVE  /\ AllocInv'
           /\ f \in Frames /\ f \notin Given
           /\ Given' = Given \cup {f}
           /\ Len(given') <= Len(Usable)
  <1> DEFINE g == Len(given)
             n == Len(Buffer)
  <1>1. /\ Buffer \in Seq(Frames)
        /\ \A k \in 1 .. n : Buffer[k] = Usable[g + n + 1 - k]
        /\ g + n <= Len(Usable)
    BY BufferFacts
  <1>2. /\ Buffer # <<>> /\ f = Buffer[n]
        /\ buf' = Popped(Buffer)
        /\ next' = IF buf = <<>> THEN next + ADVANCE ELSE next
        /\ given' = Append(given, f)
    BY DEF allocate_frame
  <1>3. g \in Nat /\ n \in Nat /\ n >= 1 /\ given \in Seq(Frames)
    BY <1>1, <1>2 DEF AllocInv
  <1>4. f = Usable[g + 1] /\ g + 1 \in 1 .. Len(Usable)
    <2>1. g + n + 1 - n = g + 1 /\ n \in 1 .. n
      BY <1>3
    <2>2. f = Usable[g + n + 1 - n]
      BY <1>1, <1>2, <2>1
    <2> QED
      BY <1>1, <1>3, <2>1, <2>2, UsableFacts
  <1>5. f \in Frames
    BY <1>4, UsableFacts
  <1>6. /\ given' \in Seq(Frames) /\ Len(given') = g + 1
        /\ \A k \in 1 .. g : given'[k] = given[k]
        /\ given'[g + 1] = f
    BY <1>2, <1>3, <1>5
  <1>7. f \notin Given
    <2> SUFFICES ASSUME NEW k \in 1 .. g, given[k] = f
                 PROVE  FALSE
      BY DEF Given
    <2>1. given[k] = Usable[k] /\ k # g + 1 /\ k \in 1 .. Len(Usable)
      BY <1>3, <1>4, UsableFacts DEF AllocInv
    <2> QED
      BY <1>4, <2>1, DisjointAssumption
  <1>8. Given' = Given \cup {f}
    <2>1. Given' = {given'[k] : k \in 1 .. g + 1}
      BY <1>6 DEF Given
    <2>2. 1 .. g + 1 = (1 .. g) \cup {g + 1}
      BY <1>3
    <2> QED
      BY <1>6, <2>1, <2>2 DEF Given
  <1>9. /\ buf' \in Seq(Frames) /\ Len(buf') = n - 1
        /\ \A k \in 1 .. n - 1 : buf'[k] = Buffer[k]
    BY <1>1, <1>2, PopLast
  <1>10. AllocInv'
    <2>1. next' \in Nat \ {0}
      BY <1>2, UsableFacts DEF AllocInv
    <2>2. \A k \in 1 .. Len(given') : given'[k] = Usable[k]
      <3>1. \A k \in 1 .. g : given'[k] = Usable[k]
        BY <1>6 DEF AllocInv
      <3> QED
        BY <1>3, <1>4, <1>6, <3>1
    <2>3. \A k \in 1 .. Len(buf') :
             buf'[k] = Usable[Len(given') + Len(buf') + 1 - k]
      <3>1. Len(given') + Len(buf') = g + n
        BY <1>3, <1>6, <1>9
      <3>2. \A k \in 1 .. n - 1 : k \in 1 .. n /\ buf'[k] = Buffer[k]
        BY <1>3, <1>9
      <3>3. \A k \in 1 .. n - 1 : buf'[k] = Usable[g + n + 1 - k]
        BY <1>1, <3>2
      <3> QED
        BY <1>9, <3>1, <3>3
    <2>4. Len(given') + Len(buf') = IF next' - 1 <= Len(Usable) THEN next' - 1
                                    ELSE Len(Usable)
      <3>1. Len(given') + Len(buf') = g + n
        BY <1>3, <1>6, <1>9
      <3>2. g + n = IF next' - 1 <= Len(Usable) THEN next' - 1 ELSE Len(Usable)
        BY <1>2, BufferFacts DEF Advanced
      <3> QED
        BY <3>1, <3>2
    <2> QED
      BY <2>1, <2>2, <2>3, <2>4, <1>6, <1>9 DEF AllocInv
  <1>11. Len(given') <= Len(Usable)
    BY <1>4, <1>6, UsableFacts
  <1> QED
    BY <1>5, <1>7, <1>8, <1>10, <1>11

-----------------------------------------------------------------------------
(* The operations.  A frame that was not handed out has no owner, so a new *)
(* one never takes memory from a block; the running operation owns what it *)
(* collected; and a page mapped by it lies below the one it is mapping.    *)
OpTypes ==
    /\ owner \in [Frames -> Uses]
    /\ pc \in {"idle", "collect", "map", "exhausted", "non_contiguous",
               "already_mapped"}
    /\ op \in 0 .. MaxOps
    /\ block \in Blocks /\ i \in Nat /\ tables \in 0 .. MaxTables
    /\ mapped \in SUBSET Nat
    /\ blocks \in SUBSET Blocks

UnusedInv == \A f \in Frames : f \notin Given => owner[f] = Unused

Owns(o, first, pages) ==
    \A k \in 0 .. pages - 1 :
        /\ first + k \in Frames
        /\ owner[first + k] = [op |-> o, use |-> "data"]

RunningInv ==
    /\ pc \in {"collect", "map"} => block.op = op /\ i < block.pages
    /\ pc = "collect" => Owns(op, block.first, i)
    /\ pc = "map" => Owns(op, block.first, block.pages)

DoneInv == \A b \in blocks : Owns(b.op, b.first, b.pages)

MappedInv ==
    \A p \in mapped :
        /\ p \in Frames
        /\ owner[p].use = "data" /\ owner[p].op <= op
        /\ pc \in {"collect", "map"} /\ owner[p].op = op =>
             pc = "map" /\ p < block.first + i

IInv ==
    /\ AllocInv /\ OpTypes /\ UnusedInv
    /\ RunningInv /\ DoneInv /\ MappedInv /\ NeverAlreadyMapped

(* Types of the parts of the operations' records. *)
LEMMA OpFacts ==
    ASSUME OpTypes
    PROVE  /\ op \in Nat /\ i \in Nat /\ MaxOps \in Nat
           /\ block.first \in Nat /\ block.pages \in Nat
           /\ \A b \in blocks : b.first \in Nat /\ b.pages \in Nat
           /\ \A f \in Frames : owner[f] \in Uses /\ owner[f].op \in Nat
  <1>1. BlockSizes \cup {0} \subseteq Nat /\ MaxOps \in Nat
    BY FramesAssumption
  <1>2. \A b \in Blocks : b.first \in Nat /\ b.pages \in Nat
    BY <1>1 DEF Blocks
  <1>3. \A f \in Frames : owner[f] \in Uses /\ owner[f].op \in Nat
    BY <1>1 DEF OpTypes, Uses
  <1> QED
    BY <1>1, <1>2, <1>3 DEF OpTypes

(* A new allocator, and no operation. *)
LEMMA InitIInv == Init => IInv
  <1> SUFFICES ASSUME Init
               PROVE  IInv
    OBVIOUS
  <1>1. AllocInv
    BY UsableFacts DEF Init, AllocInv
  <1>2. OpTypes
    <2>1. owner \in [Frames -> Uses]
      BY FramesAssumption DEF Init, Uses, Unused
    <2>2. block \in Blocks
      BY FramesAssumption DEF Init, Blocks
    <2> QED
      BY <2>1, <2>2, FramesAssumption DEF Init, OpTypes
  <1> QED
    BY <1>1, <1>2 DEF Init, IInv, UnusedInv, RunningInv, DoneInv, MappedInv,
                      NeverAlreadyMapped

(* Giving a new frame an owner changes the owner of no other frame in use. *)
LEMMA OwnerStep ==
    ASSUME AllocInv, OpTypes, UnusedInv,
           NEW f, allocate_frame(f), NEW u \in Uses,
           owner' = [owner EXCEPT ![f] = u]
    PROVE  /\ AllocInv' /\ UnusedInv'
           /\ f \in Frames /\ f \notin Given
           /\ owner' \in [Frames -> Uses] /\ owner'[f] = u
           /\ \A g \in Frames : owner[g].use = "data" => owner'[g] = owner[g]
  <1>1. /\ AllocInv' /\ f \in Frames /\ f \notin Given
        /\ Given' = Given \cup {f}
    BY AllocStep
  <1>2. owner \in [Frames -> Uses]
    BY DEF OpTypes
  <1>3. owner' \in [Frames -> Uses] /\ owner'[f] = u
    BY <1>1, <1>2
  <1>4. \A g \in Frames : g # f => owner'[g] = owner[g]
    BY <1>1, <1>2
  <1>5. owner[f].use # "data"
    BY <1>1 DEF UnusedInv, Unused
  <1>6. \A g \in Frames : owner[g].use = "data" => owner'[g] = owner[g]
    BY <1>4, <1>5
  <1>7. UnusedInv'
    <2> SUFFICES ASSUME NEW g \in Frames, g \notin Given'
                 PROVE  owner'[g] = Unused
      BY DEF UnusedInv
    <2>1. g # f /\ g \notin Given
      BY <1>1
    <2> QED
      BY <1>4, <2>1 DEF UnusedInv
  <1> QED
    BY <1>1, <1>3, <1>6, <1>7

(* What was owned before such a step is owned after it. *)
LEMMA OwnsStable ==
    ASSUME \A g \in Frames : owner[g].use = "data" => owner'[g] = owner[g],
           NEW o, NEW first, NEW pages, Owns(o, first, pages)
    PROVE  \A k \in 0 .. pages - 1 :
              /\ first + k \in Frames
              /\ owner'[first + k] = [op |-> o, use |-> "data"]
  <1> SUFFICES ASSUME NEW k \in 0 .. pages - 1
               PROVE  /\ first + k \in Frames
                      /\ owner'[first + k] = [op |-> o, use |-> "data"]
    OBVIOUS
  <1>1. first + k \in Frames /\ owner[first + k] = [op |-> o, use |-> "data"]
    BY DEF Owns
  <1>2. owner[first + k].use = "data"
    BY <1>1
  <1> QED
    BY <1>1, <1>2
-----------------------------------------------------------------------------
(* A new operation has collected nothing, and no page was mapped by it. *)
LEMMA BeginIInv ==
    ASSUME IInv, NEW identity \in BOOLEAN, NEW pages \in BlockSizes,
           Begin(identity, pages)
    PROVE  IInv'
  <1>1. /\ pc = "idle" /\ op < MaxOps /\ op' = op + 1
        /\ block' = [op |-> op + 1, identity |-> identity, pages |-> pages,
                     first |-> 0]
        /\ i' = 0 /\ tables' = 0 /\ pc' = "collect"
        /\ UNCHANGED << next, buf, given, owner, mapped, blocks >>
    BY DEF Begin, allocvars
  <1>2. /\ op \in Nat /\ MaxOps \in Nat /\ pages \in Nat /\ pages > 0
        /\ \A f \in Frames : owner[f].op \in Nat
    BY OpFacts, FramesAssumption DEF IInv
  <1>3. AllocInv' /\ UnusedInv' /\ DoneInv' /\ NeverAlreadyMapped'
    BY <1>1 DEF IInv, AllocInv, UnusedInv, Given, DoneInv, Owns,
                NeverAlreadyMapped
  <1>4. OpTypes'
    <2>1. block' \in Blocks /\ op' \in 0 .. MaxOps
      BY <1>1, <1>2 DEF Blocks
    <2> QED
      BY <1>1, <2>1, FramesAssumption DEF IInv, OpTypes
  <1>5. RunningInv'
    BY <1>1, <1>2 DEF RunningInv, Owns
  <1>6. MappedInv'
    <2> SUFFICES ASSUME NEW p \in mapped
                 PROVE  /\ p \in Frames /\ owner[p].use = "data"
                        /\ owner[p].op <= op' /\ owner[p].op # op'
      BY <1>1 DEF MappedInv
    <2>1. p \in Frames /\ owner[p].use = "data" /\ owner[p].op <= op
      BY DEF IInv, MappedInv
    <2> QED
      BY <1>1, <1>2, <2>1
  <1> QED
    BY <1>3, <1>4, <1>5, <1>6 DEF IInv

(* An allocation for the running operation keeps all that is not about the *)
(* operation itself.                                                       *)
LEMMA TakenFrame ==
    ASSUME IInv, NEW f, allocate_frame(f), NEW use \in {"data", "table"},
           owner' = [owner EXCEPT ![f] = [op |-> op, use |-> use]],
           UNCHANGED << op, mapped, blocks >>
    PROVE  /\ AllocInv' /\ UnusedInv' /\ DoneInv' /\ f \in Frames
           /\ owner' \in [Frames -> Uses]
           /\ owner'[f] = [op |-> op, use |-> use]
           /\ \A g \in Frames : owner[g].use = "data" => owner'[g] = owner[g]
           /\ \A p \in mapped : owner'[p] = owner[p]
  <1>1. [op |-> op, use |-> use] \in Uses
    BY DEF Uses, IInv, OpTypes
  <1>2. /\ AllocInv' /\ UnusedInv' /\ f \in Frames
        /\ owner' \in [Frames -> Uses]
        /\ owner'[f] = [op |-> op, use |-> use]
        /\ \A g \in Frames : owner[g].use = "data" => owner'[g] = owner[g]
    BY <1>1, OwnerStep DEF IInv
  <1>3. DoneInv'
    <2> SUFFICES ASSUME NEW b \in blocks
                 PROVE  Owns(b.op, b.first, b.pages)'
      BY DEF DoneInv
    <2>1. Owns(b.op, b.first, b.pages)
      BY DEF IInv, DoneInv
    <2> QED
      BY <1>2, <2>1, OwnsStable DEF Owns
  <1>4. \A p \in mapped : owner'[p] = owner[p]
    BY <1>2 DEF IInv, MappedInv
  <1> QED
    BY <1>2, <1>3, <1>4

(* The first loop: what it collects is owned, or it panics. *)
LEMMA CollectIInv ==
    ASSUME IInv, NEW f \in Frames, Collect(f)
    PROVE  IInv'
  <1>1. /\ pc = "collect" /\ allocate_frame(f)
        /\ owner' = [owner EXCEPT ![f] = [op |-> op, use |-> "data"]]
        /\ UNCHANGED << op, mapped, blocks >> /\ tables' = tables
    BY DEF Collect, Panic
  <1>2. /\ AllocInv' /\ UnusedInv' /\ DoneInv'
        /\ owner' \in [Frames -> Uses]
        /\ owner'[f] = [op |-> op, use |-> "data"]
        /\ \A g \in Frames : owner[g].use = "data" => owner'[g] = owner[g]
        /\ \A p \in mapped : owner'[p] = owner[p]
    BY <1>1, TakenFrame
  <1>3. /\ op \in Nat /\ i \in Nat /\ f \in Nat
        /\ block.first \in Nat /\ block.pages \in Nat
        /\ block.op = op /\ i < block.pages
        /\ Owns(op, block.first, i)
    BY <1>1, OpFacts, UsableFacts DEF IInv, RunningInv
  <1>4. \A k \in 0 .. i - 1 :
           /\ block.first + k \in Frames
           /\ owner'[block.first + k] = [op |-> op, use |-> "data"]
    BY <1>2, <1>3, OwnsStable
  <1>5. \A p \in mapped : owner[p].op # op
    BY <1>1 DEF IInv, MappedInv
  <1>6. MappedInv'
    BY <1>1, <1>2, <1>5 DEF IInv, MappedInv
  <1>7. CASE i > 0 /\ block.first + i # f
    <2>1. pc' = "non_contiguous" /\ UNCHANGED << block, i >>
      BY <1>7 DEF Collect, Panic
    <2>2. OpTypes' /\ RunningInv' /\ NeverAlreadyMapped'
      BY <1>1, <1>2, <2>1 DEF IInv, OpTypes, RunningInv, NeverAlreadyMapped
    <2> QED
      BY <1>2, <1>6, <2>2 DEF IInv
  <1>8. CASE ~(i > 0 /\ block.first + i # f)
    <2>1. /\ block' = IF i = 0 THEN [block EXCEPT !.first = f] ELSE block
          /\ i' = IF i + 1 = block.pages THEN 0 ELSE i + 1
          /\ pc' = IF i + 1 = block.pages THEN "map" ELSE "collect"
      BY <1>8 DEF Collect
    <2>2. /\ block' \in Blocks /\ block'.op = op /\ block'.pages = block.pages
          /\ i > 0 => block'.first = block.first
          /\ block'.first + i = f
      <3>1. block \in Blocks
        BY DEF IInv, OpTypes
      <3>2. CASE i = 0
        BY <3>1, <3>2, <2>1, <1>3 DEF Blocks
      <3>3. CASE i # 0
        BY <3>1, <3>3, <2>1, <1>3, <1>8
      <3> QED
        BY <3>2, <3>3
    <2>3. \A k \in 0 .. i :
             /\ block'.first + k \in Frames
             /\ owner'[block'.first + k] = [op |-> op, use |-> "data"]
      <3> SUFFICES ASSUME NEW k \in 0 .. i
                   PROVE  /\ block'.first + k \in Frames
                          /\ owner'[block'.first + k] = [op |-> op, use |-> "data"]
        OBVIOUS
      <3>1. CASE k = i
        BY <3>1, <1>2, <2>2
      <3>2. CASE k # i
        <4>1. i > 0 /\ k \in 0 .. i - 1
          BY <3>2, <1>3
        <4> QED
          BY <4>1, <1>4, <2>2
      <3> QED
        BY <3>1, <3>2
    <2>4. OpTypes'
      BY <1>1, <1>2, <1>3, <2>1, <2>2 DEF IInv, OpTypes
    <2>5. RunningInv'
      <3>1. CASE i + 1 = block.pages
        <4>1. pc' = "map" /\ i' = 0 /\ block.pages - 1 = i
          BY <2>1, <3>1, <1>3
        <4> QED
          BY <4>1, <1>1, <1>3, <2>2, <2>3 DEF RunningInv, Owns
      <3>2. CASE i + 1 # block.pages
        <4>1. pc' = "collect" /\ i' = i + 1 /\ i' - 1 = i
          BY <2>1, <3>2, <1>3
        <4>2. i' < block.pages
          BY <4>1, <3>2, <1>3
        <4> QED
          BY <4>1, <4>2, <1>1, <2>2, <2>3 DEF RunningInv, Owns
      <3> QED
        BY <3>1, <3>2
    <2>6. NeverAlreadyMapped'
      BY <2>1 DEF NeverAlreadyMapped
    <2> QED
      BY <1>2, <1>6, <2>4, <2>5, <2>6 DEF IInv
  <1> QED
    BY <1>7, <1>8

(* A page table takes a new frame, so none of the block. *)
LEMMA MapTableIInv ==
    ASSUME IInv, NEW f \in Frames, MapTable(f)
    PROVE  IInv'
  <1>1. /\ pc = "map" /\ allocate_frame(f) /\ tables < MaxTables
        /\ owner' = [owner EXCEPT ![f] = [op |-> op, use |-> "table"]]
        /\ tables' = tables + 1
        /\ UNCHANGED << pc, op, block, i, mapped, blocks >>
    BY DEF MapTable
  <1>2. /\ AllocInv' /\ UnusedInv' /\ DoneInv'
        /\ owner' \in [Frames -> Uses]
        /\ \A g \in Frames : owner[g].use = "data" => owner'[g] = owner[g]
        /\ \A p \in mapped : owner'[p] = owner[p]
    BY <1>1, TakenFrame
  <1>3. OpTypes' /\ NeverAlreadyMapped'
    BY <1>1, <1>2, FramesAssumption DEF IInv, OpTypes, NeverAlreadyMapped
  <1>4. RunningInv'
    <2>1. Owns(op, block.first, block.pages)
      BY <1>1 DEF IInv, RunningInv
    <2>2. Owns(op, block.first, block.pages)'
      BY <1>1, <1>2, <2>1, OwnsStable DEF Owns
    <2> QED
      BY <1>1, <2>2 DEF IInv, RunningInv
  <1>5. MappedInv'
    BY <1>1, <1>2 DEF IInv, MappedInv
  <1> QED
    BY <1>2, <1>3, <1>4, <1>5 DEF IInv

(* The second loop: the next page is owned, and was not mapped before. *)
LEMMA MapPageIInv ==
    ASSUME IInv, MapPage
    PROVE  IInv'
  <1> DEFINE page == block.first + i
  <1>1. /\ pc = "map"
        /\ UNCHANGED << next, buf, given, owner, op, block >>
    BY DEF MapPage, Panic, allocvars
  <1>2. /\ op \in Nat /\ i \in Nat /\ block.first \in Nat /\ block.pages \in Nat
        /\ block.op = op /\ i < block.pages
        /\ Owns(op, block.first, block.pages)
    BY <1>1, OpFacts DEF IInv, RunningInv
  <1>3. /\ page \in Frames /\ page \in Nat
        /\ owner[page] = [op |-> op, use |-> "data"]
    BY <1>2 DEF Owns
  <1>4. page \notin mapped
    <2> SUFFICES ASSUME page \in mapped
                 PROVE  FALSE
      OBVIOUS
    <2>1. owner[page].op = op
      BY <1>3
    <2>2. page < block.first + i
      BY <1>1, <2>1 DEF IInv, MappedInv
    <2> QED
      BY <1>3, <2>2
  <1>5. /\ mapped' = IF block.identity THEN mapped \cup {page} ELSE mapped
        /\ tables' = 0
        /\ i' = IF i + 1 = block.pages THEN 0 ELSE i + 1
        /\ pc' = IF i + 1 = block.pages THEN "idle" ELSE "map"
        /\ blocks' = IF i + 1 = block.pages THEN blocks \cup {block} ELSE blocks
    BY <1>4 DEF MapPage
  <1>6. AllocInv' /\ UnusedInv' /\ NeverAlreadyMapped'
    BY <1>1, <1>5 DEF IInv, AllocInv, UnusedInv, Given, NeverAlreadyMapped
  <1>7. OpTypes'
    <2>1. mapped' \in SUBSET Nat
      BY <1>3, <1>5 DEF IInv, OpTypes
    <2>2. blocks' \in SUBSET Blocks
      BY <1>5 DEF IInv, OpTypes
    <2>3. i' \in Nat /\ pc' \in {"idle", "map"} /\ tables' \in 0 .. MaxTables
      BY <1>2, <1>5, FramesAssumption
    <2> QED
      BY <1>1, <2>1, <2>2, <2>3 DEF IInv, OpTypes
  <1>8. RunningInv'
    BY <1>1, <1>2, <1>5 DEF RunningInv, Owns
  <1>9. DoneInv'
    <2> SUFFICES ASSUME NEW b \in blocks'
                 PROVE  Owns(b.op, b.first, b.pages)
      BY <1>1 DEF DoneInv, Owns
    <2>1. CASE b \in blocks
      BY <2>1 DEF IInv, DoneInv
    <2>2. CASE b \notin blocks
      BY <2>2, <1>2, <1>5
    <2> QED
      BY <2>1, <2>2
  <1>10. MappedInv'
    <2> SUFFICES ASSUME NEW p \in mapped'
                 PROVE  /\ p \in Frames
                        /\ owner[p].use = "data" /\ owner[p].op <= op
                        /\ pc' \in {"collect", "map"} /\ owner[p].op = op =>
                             pc' = "map" /\ p < block.first + i'
      BY <1>1 DEF MappedInv
    <2>1. p \in mapped \/ p = page
      BY <1>5
    <2>2. pc' = "map" => i' = i + 1
      BY <1>5
    <2>3. CASE p \in mapped
      <3>1. /\ p \in Frames /\ owner[p].use = "data" /\ owner[p].op <= op
            /\ owner[p].op = op => p < block.first + i
        BY <1>1, <2>3 DEF IInv, MappedInv
      <3>2. p \in Nat /\ pc' # "collect"
        BY <3>1, <1>5, UsableFacts
      <3> QED
        BY <3>1, <3>2, <2>2, <1>2
    <2>4. CASE p = page
      <3>1. owner[p].use = "data" /\ owner[p].op = op /\ p \in Frames
        BY <2>4, <1>3
      <3>2. pc' # "collect"
        BY <1>5
      <3> QED
        BY <3>1, <3>2, <2>4, <2>2, <1>2
    <2> QED
      BY <2>1, <2>3, <2>4
  <1> QED
    BY <1>6, <1>7, <1>8, <1>9, <1>10 DEF IInv

(* None is returned only when all usable frames are gone. *)
LEMMA AllocNone ==
    ASSUME AllocInv, allocate_none
    PROVE  AllocInv'
  <1>1. Buffer = <<>> /\ next' = next + ADVANCE /\ UNCHANGED << buf, given >>
    BY DEF allocate_none
  <1>2. next \in Nat \ {0} /\ Len(given) \in Nat
    BY DEF AllocInv
  <1>3. buf = <<>>
    <2>1. buf # <<>> => Buffer = buf
      BY DEF Buffer
    <2> QED
      BY <2>1, <1>1
  <1>4. Len(buf) = 0 /\ Len(Buffer) = 0 /\ Advanced = next + ADVANCE
    BY <1>1, <1>3 DEF Advanced
  <1>5. Len(given) + Len(Buffer) = IF Advanced - 1 <= Len(Usable)
                                   THEN Advanced - 1 ELSE Len(Usable)
    BY BufferFacts
  <1>6. Len(given') + Len(buf') = IF next' - 1 <= Len(Usable) THEN next' - 1
                                  ELSE Len(Usable)
    BY <1>1, <1>4, <1>5
  <1>7. next' \in Nat \ {0}
    BY <1>1, <1>2, UsableFacts
  <1> QED
    BY <1>1, <1>6, <1>7 DEF AllocInv

(* No frame is left: the operation panics. *)
LEMMA ExhaustedIInv ==
    ASSUME IInv, Exhausted
    PROVE  IInv'
  <1>1. /\ allocate_none /\ pc' = "exhausted"
        /\ UNCHANGED << buf, given, owner, op, block, i, tables, mapped, blocks >>
    BY DEF Exhausted, allocate_none, Panic
  <1>2. AllocInv'
    BY <1>1, AllocNone DEF IInv
  <1>3. OpTypes' /\ UnusedInv' /\ RunningInv' /\ DoneInv' /\ MappedInv'
    BY <1>1 DEF IInv, OpTypes, UnusedInv, Given, RunningInv, DoneInv, Owns,
                MappedInv
  <1>4. NeverAlreadyMapped'
    BY <1>1 DEF NeverAlreadyMapped
  <1> QED
    BY <1>2, <1>3, <1>4 DEF IInv

(* The mapping of physical memory takes frames before any operation. *)
LEMMA MapPhysicalIInv ==
    ASSUME IInv, NEW f \in Frames, MapPhysical(f)
    PROVE  IInv'
  <1>1. /\ pc = "idle" /\ allocate_frame(f)
        /\ owner' = [owner EXCEPT ![f] = [op |-> op, use |-> "table"]]
        /\ UNCHANGED << pc, op, block, i, tables, mapped, blocks >>
    BY DEF MapPhysical
  <1>2. /\ AllocInv' /\ UnusedInv' /\ DoneInv'
        /\ owner' \in [Frames -> Uses]
        /\ \A p \in mapped : owner'[p] = owner[p]
    BY <1>1, TakenFrame
  <1>3. OpTypes' /\ NeverAlreadyMapped' /\ RunningInv'
    BY <1>1, <1>2 DEF IInv, OpTypes, NeverAlreadyMapped, RunningInv
  <1>4. MappedInv'
    BY <1>1, <1>2 DEF IInv, MappedInv
  <1> QED
    BY <1>2, <1>3, <1>4 DEF IInv

(* No frame is left for the tables of physical memory. *)
LEMMA MapPhysicalFailsIInv ==
    ASSUME IInv, MapPhysicalFails
    PROVE  IInv'
  <1>1. /\ allocate_none
        /\ UNCHANGED << buf, given, owner, pc, op, block, i, tables, mapped,
                        blocks >>
    BY DEF MapPhysicalFails, allocate_none
  <1>2. AllocInv'
    BY <1>1, AllocNone DEF IInv
  <1> QED
    BY <1>1, <1>2 DEF IInv, OpTypes, UnusedInv, Given, RunningInv, DoneInv, Owns,
                      MappedInv, NeverAlreadyMapped

(* Every step keeps the invariant. *)
LEMMA NextIInv == IInv /\ [Next]_vars => IInv'
  <1> SUFFICES ASSUME IInv, [Next]_vars
               PROVE  IInv'
    OBVIOUS
  <1>1. CASE UNCHANGED vars
    <2>1. UNCHANGED << next, buf, given, owner, pc, op, block, i, tables,
                       mapped, blocks >>
      BY <1>1 DEF vars, allocvars
    <2> QED
      BY <2>1 DEF IInv, AllocInv, OpTypes, UnusedInv, Given, RunningInv, DoneInv,
                  Owns, MappedInv, NeverAlreadyMapped
  <1>2. ASSUME NEW identity \in BOOLEAN, NEW pages \in BlockSizes,
               Begin(identity, pages)
        PROVE  IInv'
    BY <1>2, BeginIInv
  <1>3. ASSUME NEW f \in Frames, Collect(f)
        PROVE  IInv'
    BY <1>3, CollectIInv
  <1>4. ASSUME NEW f \in Frames, MapTable(f)
        PROVE  IInv'
    BY <1>4, MapTableIInv
  <1>5. CASE MapPage
    BY <1>5, MapPageIInv
  <1>6. CASE Exhausted
    BY <1>6, ExhaustedIInv
  <1>7. ASSUME NEW f \in Frames, MapPhysical(f)
        PROVE  IInv'
    BY <1>7, MapPhysicalIInv
  <1>8. CASE MapPhysicalFails
    BY <1>8, MapPhysicalFailsIInv
  <1> QED
    BY <1>1, <1>2, <1>3, <1>4, <1>5, <1>6, <1>7, <1>8 DEF Next

(* The invariant holds in every state. *)
LEMMA IInvAlways == Spec => []IInv
  BY InitIInv, NextIInv, PTL DEF Spec

-----------------------------------------------------------------------------
(* What the invariant says to the users of the allocator. *)
LEMMA FrameInvariants ==
    IInv => GivenInOrder /\ BlocksOwnTheirFrames /\ NeverAlreadyMapped
  <1>1. IInv => GivenInOrder
    <2> SUFFICES ASSUME IInv
                 PROVE  GivenInOrder
      OBVIOUS
    <2>1. /\ given \in Seq(Frames) /\ Len(given) \in Nat /\ Len(buf) \in Nat
          /\ Len(given) + Len(buf) <= Len(Usable)
          /\ \A k \in 1 .. Len(given) : given[k] = Usable[k]
      BY UsableFacts DEF IInv, AllocInv
    <2>2. given = [k \in 1 .. Len(given) |-> given[k]]
      BY <2>1
    <2>3. Len(given) <= Len(Usable)
      BY <2>1, UsableFacts
    <2> QED
      BY <2>1, <2>2, <2>3 DEF GivenInOrder
  <1>2. IInv => BlocksOwnTheirFrames
    BY DEF IInv, DoneInv, Owns, OpTypes, BlocksOwnTheirFrames
  <1> QED
    BY <1>1, <1>2 DEF IInv

(* The variables of the allocator and of its users keep their types. *)
THEOREM FrameTypes == Spec => []TypeOK
  <1>1. IInv => TypeOK
    BY DEF IInv, AllocInv, OpTypes, TypeOK
  <1> QED
    BY <1>1, IInvAlways, PTL

(* The n-th call of allocate_frame returns the n-th usable frame, for      *)
(* every memory map and every size of the buffer.                          *)
THEOREM FramesGivenInOrder == Spec => []GivenInOrder
  BY FrameInvariants, IInvAlways, PTL

(* The memory create_identity_virt_from_phys_n returns to a driver is its  *)
(* own: no other block and no page table lies in it.                       *)
THEOREM BlocksAreOwned == Spec => []BlocksOwnTheirFrames
  BY FrameInvariants, IInvAlways, PTL

(* map_to never answers PageAlreadyMapped to an identity mapping. *)
THEOREM NoPageMappedTwice == Spec => []NeverAlreadyMapped
  BY FrameInvariants, IInvAlways, PTL

-----------------------------------------------------------------------------
(* The scan of the PCI bus. *)

(* The addresses that the loops have passed. *)
Before(a, s, f) == a[1] < s \/ (a[1] = s /\ a[2] < f)

(* What was found is what the machine has among the addresses passed.      *)
(* Beyond function 0 of a slot, no function answers for the whole slot:    *)
(* the loop would have been left.                                          *)
ScanInv ==
    /\ SoundMachine(machine)
    /\ slot \in 0 .. NumSlots /\ func \in 0 .. NumFuncs - 1
    /\ devs \in Seq(DOMAIN machine)
    /\ \A k \in 1 .. Len(devs) : Before(devs[k], slot, func)
    /\ \A a \in DOMAIN machine : Before(a, slot, func) => \E k \in 1 .. Len(devs) : devs[k] = a
    /\ \A j, k \in 1 .. Len(devs) : j # k => devs[j] # devs[k]
    /\ func > 0 /\ << slot, 0 >> \in DOMAIN machine => machine[<< slot, 0 >>].multi

(* The scan starts with nothing found. *)
LEMMA ScanInvInit ==
    ASSUME SoundMachine(machine), slot = 0, func = 0, devs = <<>>
    PROVE  ScanInv
  <1>1. \A a \in DOMAIN machine : ~Before(a, slot, func)
    BY PciAssumption DEF Before, SoundMachine, Addresses
  <1> QED
    BY <1>1, PciAssumption DEF ScanInv

(* Only functions that exist answer where the scan looks. *)
LEMMA AnswersHere ==
    ASSUME ScanInv
    PROVE  LET here == << slot, func >> IN
           /\ here \in DOMAIN machine => Answers(here) = {here}
           /\ here \notin DOMAIN machine => Answers(here) = {}
  <1> DEFINE here == << slot, func >>
  <1>1. ASSUME here \notin DOMAIN machine, NEW z \in DOMAIN machine,
               z = << here[1], 0 >>, ~machine[z].multi
        PROVE  FALSE
    <2>1. z = << slot, 0 >>
      BY <1>1
    <2>2. CASE func = 0
      BY <1>1, <2>1, <2>2
    <2>3. CASE func # 0
      BY <1>1, <2>1, <2>3, PciAssumption DEF ScanInv
    <2> QED
      BY <2>2, <2>3
  <1> QED
    BY <1>1 DEF Answers

(* A round of the inner loop passes its address and, where it leaves the   *)
(* slot, no other function of the machine.                                 *)
LEMMA BeforeStep ==
    ASSUME ScanInv, ScanFunction
    PROVE  \A a \in DOMAIN machine :
             Before(a, slot', func') <=> Before(a, slot, func) \/ a = << slot, func >>
  <1> DEFINE here == << slot, func >>
             single == func = 0 /\ \E z \in Answers(here) : ~machine[z].multi
  <1>1. /\ IF single \/ func = NumFuncs - 1
           THEN slot' = slot + 1 /\ func' = 0
           ELSE slot' = slot /\ func' = func + 1
    BY DEF ScanFunction
  <1> SUFFICES ASSUME NEW a \in DOMAIN machine
               PROVE  Before(a, slot', func') <=> Before(a, slot, func) \/ a = here
    OBVIOUS
  <1>2. /\ a = << a[1], a[2] >>
        /\ a[1] \in Nat /\ a[2] \in Nat /\ a[2] <= NumFuncs - 1
        /\ slot \in Nat /\ func \in Nat
    BY PciAssumption DEF ScanInv, SoundMachine, Addresses
  <1>4. CASE single
    <2>1. here \in DOMAIN machine /\ here = << slot, 0 >> /\ ~machine[here].multi
      BY <1>4, AnswersHere
    <2>2. a[1] = slot => a[2] = 0
      BY <2>1, <1>2 DEF ScanInv, SoundMachine
    <2> QED
      BY <1>1, <1>2, <1>4, <2>2 DEF Before
  <1>5. CASE ~single /\ func = NumFuncs - 1
    BY <1>1, <1>2, <1>5 DEF Before
  <1>6. CASE ~single /\ func # NumFuncs - 1
    BY <1>1, <1>2, <1>6 DEF Before
  <1> QED
    BY <1>4, <1>5, <1>6

(* One round of the loops of Pcis::new keeps the invariant of the scan. *)
LEMMA ScanStep ==
    ASSUME ScanInv, ScanFunction
    PROVE  ScanInv'
  <1> DEFINE here == << slot, func >>
             single == func = 0 /\ \E z \in Answers(here) : ~machine[z].multi
  <1>1. /\ Scanning
        /\ devs' = IF Answers(here) # {} THEN Append(devs, here) ELSE devs
        /\ IF single \/ func = NumFuncs - 1
           THEN slot' = slot + 1 /\ func' = 0
           ELSE slot' = slot /\ func' = func + 1
        /\ machine' = machine
    BY DEF ScanFunction
  <1>2. devs' = IF here \in DOMAIN machine THEN Append(devs, here) ELSE devs
    BY <1>1, AnswersHere
  <1>3. /\ SoundMachine(machine) /\ devs \in Seq(DOMAIN machine)
        /\ slot \in 0 .. NumSlots /\ func \in 0 .. NumFuncs - 1
    BY DEF ScanInv
  <1>4. SoundMachine(machine)'
    BY <1>1, <1>3 DEF SoundMachine
  <1>5. slot' \in 0 .. NumSlots /\ func' \in 0 .. NumFuncs - 1
    BY <1>1, <1>3, PciAssumption DEF Scanning
  <1>6. func' > 0 /\ << slot', 0 >> \in DOMAIN machine => machine[<< slot', 0 >>].multi
    <2>1. CASE single \/ func = NumFuncs - 1
      BY <1>1, <2>1
    <2>2. CASE ~single /\ func = 0 /\ func # NumFuncs - 1
      BY <1>1, <2>2, AnswersHere
    <2>3. CASE ~single /\ func # 0 /\ func # NumFuncs - 1
      <3>1. func > 0 /\ slot' = slot
        BY <1>1, <1>3, <2>3, PciAssumption
      <3>2. << slot, 0 >> \in DOMAIN machine => machine[<< slot, 0 >>].multi
        BY <3>1 DEF ScanInv
      <3> QED
        BY <3>1, <3>2
    <2> QED
      BY <2>1, <2>2, <2>3
  <1>7. ~Before(here, slot, func)
    BY <1>3, PciAssumption DEF Before
  <1>8. CASE here \in DOMAIN machine
    <2>1. /\ devs' = Append(devs, here) /\ devs' \in Seq(DOMAIN machine)
          /\ Len(devs') = Len(devs) + 1 /\ devs'[Len(devs) + 1] = here
          /\ \A k \in 1 .. Len(devs) : devs'[k] = devs[k]
          /\ Len(devs) \in Nat
      BY <1>2, <1>3, <1>8
    <2>2. \A k \in 1 .. Len(devs') : k \in 1 .. Len(devs) \/ k = Len(devs) + 1
      BY <2>1
    <2>3. \A k \in 1 .. Len(devs') : Before(devs'[k], slot', func')
      <3> SUFFICES ASSUME NEW k \in 1 .. Len(devs')
                   PROVE  Before(devs'[k], slot', func')
        OBVIOUS
      <3>1. Before(devs'[k], slot, func) \/ devs'[k] = here
        BY <2>1, <2>2 DEF ScanInv
      <3>2. devs'[k] \in DOMAIN machine
        BY <2>1
      <3> QED
        BY <3>1, <3>2, BeforeStep
    <2>4. \A a \in DOMAIN machine :
             Before(a, slot', func') => \E k \in 1 .. Len(devs') : devs'[k] = a
      <3> SUFFICES ASSUME NEW a \in DOMAIN machine, Before(a, slot', func')
                   PROVE  \E k \in 1 .. Len(devs') : devs'[k] = a
        OBVIOUS
      <3>1. CASE Before(a, slot, func)
        <4>1. PICK k \in 1 .. Len(devs) : devs[k] = a
          BY <3>1 DEF ScanInv
        <4> QED
          BY <4>1, <2>1
      <3>2. CASE a = here
        BY <3>2, <2>1
      <3> QED
        BY <3>1, <3>2, BeforeStep
    <2>5. \A j, k \in 1 .. Len(devs') : j # k => devs'[j] # devs'[k]
      <3>1. \A k \in 1 .. Len(devs) : devs[k] # here
        BY <1>7 DEF ScanInv
      <3>2. \A j, k \in 1 .. Len(devs) : j # k => devs[j] # devs[k]
        BY DEF ScanInv
      <3> QED
        BY <2>1, <2>2, <3>1, <3>2
    <2> QED
      BY <1>1, <1>4, <1>5, <1>6, <2>1, <2>3, <2>4, <2>5 DEF ScanInv
  <1>9. CASE here \notin DOMAIN machine
    <2>1. devs' = devs
      BY <1>2, <1>9
    <2>2. \A a \in DOMAIN machine :
            Before(a, slot', func') <=> Before(a, slot, func)
      BY <1>9, BeforeStep
    <2>3. \A k \in 1 .. Len(devs) : devs[k] \in DOMAIN machine
      BY <1>3
    <2> QED
      BY <1>1, <1>4, <1>5, <1>6, <2>1, <2>2, <2>3 DEF ScanInv
  <1> QED
    BY <1>8, <1>9

(* The scan is over when it is past the last slot. *)
LEMMA ScanComplete == ScanInv => FunctionsFoundOnce
  <1> SUFFICES ASSUME ScanInv, ~Scanning
               PROVE  /\ {devs[k] : k \in 1 .. Len(devs)} = DOMAIN machine
                      /\ \A j, k \in 1 .. Len(devs) : j # k => devs[j] # devs[k]
    BY DEF FunctionsFoundOnce
  <1>1. \A a \in DOMAIN machine : Before(a, slot, func)
    BY PciAssumption DEF ScanInv, SoundMachine, Addresses, Scanning, Before
  <1>2. \A k \in 1 .. Len(devs) : devs[k] \in DOMAIN machine
    BY DEF ScanInv
  <1>3. DOMAIN machine \subseteq {devs[k] : k \in 1 .. Len(devs)}
    <2> SUFFICES ASSUME NEW a \in DOMAIN machine
                 PROVE  \E k \in 1 .. Len(devs) : devs[k] = a
      OBVIOUS
    <2> QED
      BY <1>1 DEF ScanInv
  <1>4. {devs[k] : k \in 1 .. Len(devs)} \subseteq DOMAIN machine
    BY <1>2
  <1>5. \A j, k \in 1 .. Len(devs) : j # k => devs[j] # devs[k]
    BY DEF ScanInv
  <1> QED
    BY <1>3, <1>4, <1>5

-----------------------------------------------------------------------------
(* Arithmetic of the two halves of an address. *)
LEMMA Halves ==
    ASSUME NEW x \in Nat
    PROVE  /\ x % DWORD \in Nat /\ x \div DWORD \in Nat
           /\ x = DWORD * (x \div DWORD) + (x % DWORD)
           /\ x < DWORD => x % DWORD = x
           /\ x % 16 = 0 => (x % DWORD) % 16 = 0
  <1>1. DWORD \in Nat /\ DWORD > 16 /\ DWORD % 16 = 0
    BY PciAssumption
  <1>2. /\ x % DWORD \in Nat /\ x \div DWORD \in Nat
        /\ x = DWORD * (x \div DWORD) + (x % DWORD) /\ x % DWORD < DWORD
    BY <1>1
  <1>3. x < DWORD => x % DWORD = x
    BY <1>1
  <1>4. ASSUME x % 16 = 0
        PROVE  (x % DWORD) % 16 = 0
    <2>1. PICK d \in Nat : DWORD = 16 * d
      BY <1>1
    <2>2. PICK e \in Nat : e = d * (x \div DWORD)
      BY <1>2
    <2>3. DWORD * (x \div DWORD) = 16 * e
      BY <1>2, <2>1, <2>2
    <2>4. x % DWORD = x - 16 * e
      BY <1>2, <2>3
    <2> QED
      BY <1>2, <1>4, <2>4
  <1> QED
    BY <1>2, <1>3, <1>4

(* The flags below an aligned address. *)
LEMMA Flags ==
    ASSUME NEW x \in Nat, x % 16 = 0, NEW p \in {0, 8}
    PROVE  /\ (x + p) % 2 = 0 /\ ((x + p) \div 4) % 2 = 0
           /\ ((x + p) \div 16) * 16 = x
           /\ (x + 4 + p) % 2 = 0 /\ ((x + 4 + p) \div 4) % 2 = 1
           /\ ((x + 4 + p) \div 16) * 16 = x
  <1>1. PICK m \in Nat : x = 16 * m
    OBVIOUS
  <1>2. CASE p = 0
    BY <1>1, <1>2
  <1>3. CASE p = 8
    BY <1>1, <1>3
  <1> QED
    BY <1>2, <1>3

(* get_bar returns the kind and the address of every BAR, 32 or 64 bits    *)
(* wide, above or below 2^32, or a multiple of it.                         *)
THEOREM BarDecoded ==
    ASSUME NEW l, SoundLayout(l), NEW k \in DOMAIN l
    PROVE  get_bar(Registers(l), k) =
             [kind |-> IF l[k].io THEN "Io" ELSE "Mm", addr |-> l[k].base]
  <1> DEFINE base == l[k].base
             pre  == IF l[k].prefetch THEN 8 ELSE 0
             regs == Registers(l)
  <1>1. /\ k \in 0 .. 5 /\ base \in Nat /\ base > 0 /\ pre \in {0, 8}
        /\ DWORD \in Nat
    BY PciAssumption DEF SoundLayout
  <1>2. regs[k] = (base % DWORD) + (IF l[k].io THEN 1 ELSE
                    (IF l[k].wide THEN 4 ELSE 0) + pre)
    BY <1>1 DEF Registers
  <1>3. CASE l[k].io
    <2>1. base < DWORD /\ base % 4 = 0
      BY <1>3 DEF SoundLayout
    <2>2. regs[k] = base + 1
      BY <1>1, <1>2, <1>3, <2>1, Halves
    <2>3. /\ regs[k] # 0 /\ regs[k] % 2 = 1 /\ (regs[k] \div 4) * 4 = base
      BY <1>1, <2>1, <2>2
    <2> QED
      BY <1>3, <2>3 DEF get_bar
  <1>4. CASE ~l[k].io /\ ~l[k].wide
    <2>1. base < DWORD /\ base % 16 = 0
      BY <1>4 DEF SoundLayout
    <2>2. regs[k] = base + pre
      BY <1>1, <1>2, <1>4, <2>1, Halves
    <2>3. /\ regs[k] # 0 /\ regs[k] % 2 = 0 /\ (regs[k] \div 4) % 2 = 0
          /\ (regs[k] \div 16) * 16 = base
      <3>1. /\ (base + pre) % 2 = 0 /\ ((base + pre) \div 4) % 2 = 0
            /\ ((base + pre) \div 16) * 16 = base
        BY <1>1, <2>1, Flags
      <3> QED
        BY <1>1, <2>2, <3>1
    <2>4. get_bar(regs, k) = IF (regs[k] \div 16) * 16 = 0 THEN NoBar
             ELSE [kind |-> "Mm", addr |-> (regs[k] \div 16) * 16]
      BY <1>1, <2>3 DEF get_bar
    <2> QED
      BY <1>1, <1>4, <2>3, <2>4
  <1>5. CASE ~l[k].io /\ l[k].wide
    <2>1. base % 16 = 0 /\ k < 5 /\ k + 1 \notin DOMAIN l
      BY <1>5 DEF SoundLayout
    <2>2. regs[k] = (base % DWORD) + 4 + pre
      BY <1>1, <1>2, <1>5, <2>1, Halves
    <2>3. regs[k + 1] = base \div DWORD
      BY <1>1, <1>5, <2>1 DEF Registers
    <2>4. PICK low \in Nat, high \in Nat : low = base % DWORD /\ high = base \div DWORD
      BY <1>1, Halves
    <2>5. low % 16 = 0 /\ base = DWORD * high + low
      BY <1>1, <2>1, <2>4, Halves
    <2>6. /\ regs[k] # 0 /\ regs[k] % 2 = 0 /\ (regs[k] \div 4) % 2 = 1
      <3>1. (low + 4 + pre) % 2 = 0 /\ ((low + 4 + pre) \div 4) % 2 = 1
        BY <1>1, <2>5, Flags
      <3>2. regs[k] = low + 4 + pre
        BY <2>2, <2>4
      <3>3. low + 4 + pre # 0
        BY <1>1
      <3> QED
        BY <3>1, <3>2, <3>3
    <2>7. regs[k] + DWORD * regs[k + 1] = base + 4 + pre
      BY <1>1, <2>2, <2>3, <2>4, <2>5
    <2>8. ((regs[k] + DWORD * regs[k + 1]) \div 16) * 16 = base
      BY <1>1, <2>1, <2>7, Flags
    <2>9. get_bar(regs, k) =
             IF ((regs[k] + DWORD * regs[k + 1]) \div 16) * 16 = 0 THEN NoBar
             ELSE [kind |-> "Mm",
                   addr |-> ((regs[k] + DWORD * regs[k + 1]) \div 16) * 16]
      BY <1>1, <2>1, <2>6 DEF get_bar
    <2> QED
      BY <1>1, <1>5, <2>8, <2>9
  <1> QED
    BY <1>3, <1>4, <1>5

-----------------------------------------------------------------------------
(* The stages of kernel_main. *)

Scans    == {"map", "heap", "scan"}
Visiting == (InitStages \cup AllocStages) \ {"probe"}

(* The loop over the functions comes after the scan; while a function is   *)
(* being initialised cur is its index; the devices that are ready were     *)
(* found before it.                                                        *)
VisitInv ==
    /\ stage \notin Scans => ~Scanning
    /\ cur \in Nat \ {0}
    /\ stage \in Visiting => cur <= Len(devs)
    /\ DOMAIN dev = DOMAIN machine
    /\ \E S : virtio_devices \in Seq(S)
    /\ stage \in Scans => virtio_devices = <<>>
    /\ \A k \in 1 .. Len(virtio_devices) :
         \E j \in 1 .. Len(devs) : j < cur /\ virtio_devices[k].device = devs[j]

BInv == IInv /\ ScanInv /\ VisitInv

-----------------------------------------------------------------------------
(* The allocator's steps: what kernel_main and the tasks do to frames is a *)
(* step of FrameAllocator or none.                                         *)
LEMMA RangeBuffer ==
    ASSUME IInv
    PROVE  Range(Buffer) \subseteq Frames
  <1>1. Buffer \in Seq(Frames)
    BY BufferFacts DEF IInv
  <1> QED
    BY <1>1 DEF Range

(* Every step of the system is a step of the frame allocator, or leaves    *)
(* its state alone.                                                        *)
LEMMA FramesStep ==
    ASSUME IInv, [BootNext]_allvars
    PROVE  [Next]_vars
  <1>1. CASE UNCHANGED allvars
    BY <1>1 DEF allvars
  <1>2. CASE MapMemory
    BY <1>2, RangeBuffer DEF MapMemory, Next
  <1>3. CASE HeapPage
    BY <1>3, BootAssumption DEF HeapPage, Next
  <1>4. CASE MapMemoryEnds \/ HeapEnds \/ Scan \/ StartExecutor
    BY <1>4 DEF MapMemoryEnds, HeapEnds, Scan, StartExecutor
  <1>5. CASE Device
    BY <1>5, BootAssumption DEF Device, InitDevice, AskPage, Next
  <1>6. CASE Allocate
    BY <1>6, RangeBuffer DEF Allocate, Next
  <1>7. ASSUME NEW pages \in BlockSizes, FrameBuffer(pages)
        PROVE  Next
    BY <1>7 DEF FrameBuffer, Next
  <1>8. ASSUME LoadApp
        PROVE  UNCHANGED vars
    BY <1>8 DEF LoadApp
  <1> QED
    BY <1>1, <1>2, <1>3, <1>4, <1>5, <1>6, <1>7, <1>8 DEF BootNext

-----------------------------------------------------------------------------
(* The function being initialised is the one of the list. *)
LEMMA HereIsCurrent ==
    ASSUME ScanInv, VisitInv, stage \in Visiting
    PROVE  Here = devs[cur] /\ Here \in DOMAIN machine
  <1>1. cur \in 1 .. Len(devs) /\ devs[cur] \in DOMAIN machine
    BY DEF ScanInv, VisitInv
  <1>2. Answers(devs[cur]) = {devs[cur]}
    BY <1>1 DEF Answers
  <1> QED
    BY <1>1, <1>2 DEF Here

(* No ready device is the current one. *)
LEMMA HereIsNotReady ==
    ASSUME ScanInv, VisitInv, stage \in Visiting
    PROVE  Here \notin LiveSet
  <1>1. SUFFICES ASSUME NEW k \in 1 .. Len(virtio_devices),
                        virtio_devices[k].device = Here
                 PROVE  FALSE
    BY DEF LiveSet
  <1>2. PICK j \in 1 .. Len(devs) : j < cur /\ virtio_devices[k].device = devs[j]
    BY DEF VisitInv
  <1>3. cur \in 1 .. Len(devs) /\ j # cur
    BY <1>2 DEF VisitInv
  <1>4. devs[j] # devs[cur]
    BY <1>2, <1>3 DEF ScanInv
  <1> QED
    BY <1>1, <1>2, <1>4, HereIsCurrent

(* What the steps of the initialisation do to stage, cur, the registers    *)
(* and the ready devices, in three kinds.                                  *)
OnlyHere ==
    /\ DOMAIN dev' = DOMAIN dev
    /\ \A a \in DOMAIN dev : a # Here => dev'[a] = dev[a]

Moves ==   \* within the function, or on to the next one
    /\ stage \in InitStages \cup AllocStages
    /\ \/ stage' \in Visiting /\ cur' = cur /\ cur <= Len(devs)
       \/ stage' = "refused" /\ cur' = cur
       \/ stage' = "probe" /\ cur' = cur + 1
    /\ stage = "probe" => dev' = dev
    /\ stage \in Visiting => OnlyHere
    /\ UNCHANGED virtio_devices

Readies ==   \* DRIVER_OK
    /\ stage \in Visiting /\ stage' = "probe" /\ cur' = cur + 1
    /\ OnlyHere
    /\ \E v : v.device = Here /\ virtio_devices' = Append(virtio_devices, v)

(* A register of the current device is written. *)
LEMMA OneDevice ==
    ASSUME NEW r, dev' = [dev EXCEPT ![Here] = r]
    PROVE  OnlyHere
  BY DEF OnlyHere

(* A step of Virtio::init works on the current function, or makes it       *)
(* ready.                                                                  *)
LEMMA DeviceStep ==
    ASSUME ScanInv, VisitInv, Device
    PROVE  Moves \/ Readies
  <1> USE DEF Visiting, InitStages, AllocStages
  <1>1. stage \in Visiting => cur <= Len(devs)
    BY DEF VisitInv
  <1>2. CASE Probe
    BY <1>2 DEF Probe, NextFunction, Moves, OnlyHere, devicevars
  <1>3. CASE WalkCapability
    BY <1>1, <1>3 DEF WalkCapability, NextFunction, Moves, OnlyHere, devicevars
  <1>4. CASE ResetDevice
    BY <1>1, <1>4, OneDevice DEF ResetDevice, Moves
  <1>5. CASE Acknowledge \/ Driver \/ FeaturesOk \/ FeaturesRefused
    <2>1. PICK bits : dev' = [dev EXCEPT ![Here].status = @ \cup bits]
      BY <1>5 DEF Acknowledge, Driver, FeaturesOk, FeaturesRefused, WriteStatus
    <2>2. OnlyHere
      BY <2>1 DEF OnlyHere
    <2> QED
      BY <1>1, <1>5, <2>2
         DEF Acknowledge, Driver, FeaturesOk, FeaturesRefused, WriteStatus, Moves
  <1>6. CASE WriteFeatures
    BY <1>1, <1>6 DEF WriteFeatures, Moves, OnlyHere
  <1>7. CASE CheckFeatures
    BY <1>1, <1>7 DEF CheckFeatures, Moves, OnlyHere, devicevars
  <1>8. CASE SelectQueue
    BY <1>1, <1>8 DEF SelectQueue, Moves, OnlyHere, devicevars
  <1>9. CASE StoreTable
    BY <1>1, <1>9 DEF StoreTable, UsePage, Moves, OnlyHere
  <1>10. CASE FillDesc
    BY <1>1, <1>10 DEF FillDesc, UsePage, Moves, OnlyHere
  <1>11. CASE StoreAvail
    BY <1>1, <1>11 DEF StoreAvail, UsePage, Moves, OnlyHere
  <1>12. CASE StoreUsed
    BY <1>1, <1>12 DEF StoreUsed, UsePage, Moves, OnlyHere
  <1>13. CASE DriverOk
    BY <1>13 DEF DriverOk, NextFunction, Readies, OnlyHere
  <1>14. CASE AskPage
    BY <1>1, <1>14 DEF AskPage, Moves, OnlyHere, devicevars
  <1> QED
    BY <1>2, <1>3, <1>4, <1>5, <1>6, <1>7, <1>8, <1>9, <1>10, <1>11, <1>12,
       <1>13, <1>14 DEF Device, InitDevice

(* The invariant of the loop over the functions is kept... *)
LEMMA VisitKept ==
    ASSUME ScanInv, VisitInv, UNCHANGED pcivars, Moves
    PROVE  VisitInv'
  <1>1. UNCHANGED << machine, slot, func, devs, virtio_devices >>
    BY DEF pcivars, Moves
  <1>2. /\ stage \in InitStages \cup AllocStages /\ stage \notin Scans
        /\ stage' \notin Scans
        /\ cur' \in Nat \ {0} /\ cur' >= cur
        /\ stage' \in Visiting => cur' <= Len(devs)
    BY DEF Moves, Visiting, InitStages, AllocStages, Scans, VisitInv
  <1>3. DOMAIN dev' = DOMAIN machine
    BY <1>2 DEF Moves, OnlyHere, VisitInv, Visiting
  <1>4. (~Scanning)'
    BY <1>1, <1>2 DEF VisitInv, Scanning
  <1>5. \A k \in 1 .. Len(virtio_devices) : \E j \in 1 .. Len(devs) :
          j < cur' /\ virtio_devices[k].device = devs[j]
    <2> SUFFICES ASSUME NEW k \in 1 .. Len(virtio_devices)
                 PROVE  \E j \in 1 .. Len(devs) :
                          j < cur' /\ virtio_devices[k].device = devs[j]
      OBVIOUS
    <2>1. PICK j \in 1 .. Len(devs) : j < cur /\ virtio_devices[k].device = devs[j]
      BY DEF VisitInv
    <2> QED
      BY <1>2, <2>1 DEF VisitInv
  <1> QED
    BY <1>1, <1>2, <1>3, <1>4, <1>5 DEF VisitInv

(* ...also when a device gets ready. *)
LEMMA VisitReadies ==
    ASSUME ScanInv, VisitInv, UNCHANGED pcivars, Readies
    PROVE  VisitInv'
  <1>1. UNCHANGED << machine, slot, func, devs >>
    BY DEF pcivars
  <1>2. /\ stage \in Visiting /\ stage \notin Scans
        /\ stage' = "probe" /\ stage' \notin Scans /\ stage' \notin Visiting
        /\ cur \in 1 .. Len(devs) /\ cur' = cur + 1 /\ cur' \in Nat \ {0}
    BY DEF Readies, Visiting, InitStages, AllocStages, Scans, VisitInv
  <1>3. DOMAIN dev' = DOMAIN machine
    BY DEF Readies, OnlyHere, VisitInv
  <1>4. (~Scanning)'
    BY <1>1, <1>2 DEF VisitInv, Scanning
  <1>5. PICK v : v.device = devs[cur] /\ virtio_devices' = Append(virtio_devices, v)
    BY <1>2, HereIsCurrent DEF Readies
  <1>6. PICK S : virtio_devices \in Seq(S)
    BY DEF VisitInv
  <1> DEFINE T == S \cup {v}
  <1>7. virtio_devices \in Seq(T)
    BY <1>6
  <1>8. /\ virtio_devices' \in Seq(T)
        /\ Len(virtio_devices') = Len(virtio_devices) + 1
        /\ virtio_devices'[Len(virtio_devices) + 1] = v
        /\ \A k \in 1 .. Len(virtio_devices) : virtio_devices'[k] = virtio_devices[k]
    BY <1>5, <1>7
  <1>9. \A k \in 1 .. Len(virtio_devices') : \E j \in 1 .. Len(devs) :
          j < cur' /\ virtio_devices'[k].device = devs[j]
    <2> SUFFICES ASSUME NEW k \in 1 .. Len(virtio_devices')
                 PROVE  \E j \in 1 .. Len(devs) :
                          j < cur' /\ virtio_devices'[k].device = devs[j]
      OBVIOUS
    <2>1. CASE k \in 1 .. Len(virtio_devices)
      <3>1. PICK j \in 1 .. Len(devs) : j < cur /\ virtio_devices[k].device = devs[j]
        BY <2>1 DEF VisitInv
      <3> QED
        BY <1>2, <1>8, <2>1, <3>1
    <2>2. CASE k = Len(virtio_devices) + 1
      BY <1>2, <1>5, <1>8, <2>2
    <2> QED
      BY <1>7, <1>8, <2>1, <2>2
  <1> QED
    BY <1>1, <1>2, <1>3, <1>4, <1>8, <1>9 DEF VisitInv

(* The steps before the loop over the functions and after it. *)
LEMMA VisitElsewhere ==
    ASSUME VisitInv, UNCHANGED << cur, dev, virtio_devices, machine >>,
           stage' \notin Visiting \/ (stage' = stage /\ UNCHANGED devs),
           devs' = devs \/ virtio_devices = <<>>,
           stage' \notin Scans => ~Scanning',
           stage' \in Scans => stage \in Scans
    PROVE  VisitInv'
  <1>1. stage' \in Visiting => cur' <= Len(devs')
    BY DEF VisitInv
  <1> QED
    BY <1>1 DEF VisitInv

(* Every step of the system preserves the invariant. *)
LEMMA BootStep == BInv /\ [BootNext]_allvars => BInv'
  <1> SUFFICES ASSUME IInv, ScanInv, VisitInv, [BootNext]_allvars
               PROVE  BInv'
    BY DEF BInv
  <1>1. IInv'
    BY FramesStep, NextIInv
  <1>2. CASE UNCHANGED pcivars
    <2>1. ScanInv'
      <3>1. machine' = machine /\ slot' = slot /\ func' = func /\ devs' = devs
        BY <1>2 DEF pcivars
      <3> QED
        BY <3>1 DEF ScanInv
    <2>2. CASE Device
      BY <1>1, <1>2, <2>1, <2>2, DeviceStep, VisitKept, VisitReadies DEF BInv
    <2>3. CASE ~Device
      <3>1. /\ UNCHANGED << cur, dev, virtio_devices, machine, devs, slot >>
            /\ \/ stage' = stage
               \/ stage = "map" /\ stage' = "heap"
               \/ stage = "heap" /\ stage' = "scan"
               \/ stage = "probe" /\ stage' = "running"
               \/ stage = "scan" /\ Scan
        BY <1>2, <2>3 DEF BootNext, MapMemory, MapMemoryEnds, HeapPage, HeapEnds,
           StartExecutor, Allocate, FrameBuffer, LoadApp, Scan, Unmoved, pcivars,
           initvars, devicevars, allvars
      <3>2. ~(stage = "scan" /\ Scan)
        <4>1. slot \in Nat /\ func \in Int /\ slot' = slot /\ func' = func
          BY <1>2, PciAssumption DEF ScanInv, pcivars
        <4>2. ScanFunction => slot' = slot + 1 \/ func' = func + 1
          BY DEF ScanFunction
        <4> QED
          BY <4>1, <4>2 DEF Scan
      <3>3. /\ stage' \notin Visiting \/ stage' = stage
            /\ stage' \notin Scans => stage \notin Scans
            /\ stage' \in Scans => stage \in Scans
        BY <3>1, <3>2 DEF Scans, Visiting, InitStages, AllocStages
      <3>4. stage' \notin Scans => ~Scanning'
        BY <3>1, <3>3 DEF VisitInv, Scanning
      <3> QED
        BY <1>1, <2>1, <3>1, <3>3, <3>4, VisitElsewhere DEF BInv
    <2> QED
      BY <2>2, <2>3
  <1>3. CASE Scan
    <2>1. ScanInv'
      BY <1>3, ScanStep DEF Scan
    <2>2. VisitInv'
      BY <1>3, VisitElsewhere DEF Scan, ScanFunction, Unmoved, devicevars, VisitInv,
         Scans, Visiting, InitStages, AllocStages
    <2> QED
      BY <1>1, <2>1, <2>2 DEF BInv
  <1> QED
    BY <1>2, <1>3 DEF BootNext, MapMemory, MapMemoryEnds, HeapPage, HeapEnds,
       StartExecutor, Allocate, FrameBuffer, LoadApp, Device, allvars

(* The invariant holds when kernel_main starts. *)
LEMMA BootBegins == BootInit => BInv
  <1> SUFFICES ASSUME BootInit
               PROVE  BInv
    OBVIOUS
  <1>1. IInv
    BY InitIInv DEF BootInit
  <1>2. ScanInv
    BY MachinesAssumption, ScanInvInit DEF BootInit
  <1>3. virtio_devices \in Seq({}) /\ Len(virtio_devices) = 0
    BY DEF BootInit
  <1>4. stage \in Scans /\ stage \notin Visiting
    BY DEF BootInit, Scans, Visiting, InitStages, AllocStages
  <1>5. DOMAIN dev = DOMAIN machine
    BY DEF BootInit
  <1>6. VisitInv
    BY <1>3, <1>4, <1>5 DEF BootInit, VisitInv
  <1> QED
    BY <1>1, <1>2, <1>6 DEF BInv

(* The invariant always holds. *)
LEMMA BInvAlways == BootSpec => []BInv
  BY BootBegins, BootStep, PTL DEF BootSpec

-----------------------------------------------------------------------------
(* Pcis::new finds every function of every sound machine exactly once,     *)
(* whatever answers for its whole slot.                                    *)
THEOREM EveryFunctionOnce == BootSpec => []FunctionsFoundOnce
  <1>1. BInv => FunctionsFoundOnce
    BY ScanComplete DEF BInv
  <1> QED
    BY <1>1, BInvAlways, PTL

(* With the calls that kernel_main and the tasks make, blocks of frames    *)
(* are their owner's alone and no page is mapped twice, for every memory   *)
(* map, machine and number of applications.                                *)
THEOREM BootUsesFramesOnce ==
    BootSpec => [](GivenInOrder /\ BlocksOwnTheirFrames /\ NeverAlreadyMapped)
  <1>1. BInv => GivenInOrder /\ BlocksOwnTheirFrames /\ NeverAlreadyMapped
    BY FrameInvariants DEF BInv
  <1> QED
    BY <1>1, BInvAlways, PTL

(* Once DRIVER_OK is written for a device, neither the initialisation of   *)
(* another one nor a second visit writes to its registers.                 *)
THEOREM ReadyDevicesLeftAlone == BootSpec => ReadyLeftAlone
  <1>1. ASSUME BInv, [BootNext]_allvars
        PROVE  [\A a \in LiveSet : dev'[a] = dev[a]]_allvars
    <2>1. LiveSet \subseteq DOMAIN dev
      <3>1. \A j \in 1 .. Len(devs) : devs[j] \in DOMAIN dev
        BY <1>1 DEF BInv, ScanInv, VisitInv
      <3> QED
        BY <1>1, <3>1 DEF BInv, VisitInv, LiveSet
    <2>2. CASE Device
      <3>1. dev' = dev \/ (stage \in Visiting /\ OnlyHere)
        BY <1>1, <2>2, DeviceStep DEF BInv, Moves, Readies, Visiting
      <3> QED
        BY <1>1, <2>1, <3>1, HereIsNotReady DEF BInv, OnlyHere
    <2>3. CASE ~Device
      BY <1>1, <2>3 DEF BootNext, MapMemory, MapMemoryEnds, HeapPage, HeapEnds,
         StartExecutor, Allocate, FrameBuffer, LoadApp, Scan, Unmoved, initvars,
         devicevars, allvars
    <2> QED
      BY <2>2, <2>3
  <1> QED
    BY <1>1, BInvAlways, PTL DEF BootSpec, ReadyLeftAlone

-----------------------------------------------------------------------------
(* The devices that are initialised. *)

Decoded(f)  == [k \in 0 .. 5 |-> get_bar(Registers(f.layout), k)]
Entry(f, k) == [bar |-> Decoded(f)[f.caps[k].bar], offset |-> f.caps[k].offset,
                some |-> TRUE]

(* fd holds, of each type, one of the first n capabilities, if there is    *)
(* one that can be used.                                                   *)
Collected(f, fd, n) ==
    /\ DOMAIN fd = CapTypes
    /\ \A t \in CapTypes : fd[t].some =>
         \E k \in 1 .. n : Offers(f, k, t) /\ fd[t] = Entry(f, k)
    /\ \A t \in CapTypes : \A k \in 1 .. n : Offers(f, k, t) => fd[t].some

Recognised(f) == f.vendor = "virtio" /\ f.type \in {"input", "gpu"}

(* What is known of the function being initialised. *)
CapsInv ==
    /\ \A a \in DOMAIN machine : SoundFunction(machine[a])
    /\ stage \in Visiting => Recognised(machine[devs[cur]])
                             /\ bars = Decoded(machine[devs[cur]])
    /\ stage = "caps" => /\ off \in 1 .. Len(machine[devs[cur]].caps)
                         /\ Collected(machine[devs[cur]], found, off - 1)
    /\ stage \in Visiting \ {"caps"} =>
         /\ Collected(machine[devs[cur]], found, Len(machine[devs[cur]].caps))
         /\ \A t \in CapTypes : found[t].some

(* What is known of the devices that are ready, and of those passed. *)
Right(v) ==
    LET f == machine[v.device] IN
    /\ Recognised(f)
    /\ \A t \in CapTypes : \E j \in 1 .. Len(f.caps) :
         Offers(f, j, t) /\ v.caps[t] = Entry(f, j)

ServedInv ==
    /\ stage \in Scans => cur = 1
    /\ stage = "running" => cur = Len(devs) + 1
    /\ \A k \in 1 .. Len(virtio_devices) : Right(virtio_devices[k])
    /\ \A j \in 1 .. Len(devs) : j < cur /\ Drivable(machine[devs[j]]) =>
         \E k \in 1 .. Len(virtio_devices) : virtio_devices[k].device = devs[j]
    /\ \A j, k \in 1 .. Len(virtio_devices) :
         j # k => virtio_devices[j].device # virtio_devices[k].device

-----------------------------------------------------------------------------
(* A BAR that a capability refers to. *)
LEMMA BarOfCapability ==
    ASSUME NEW f, SoundFunction(f), NEW k \in 1 .. Len(f.caps),
           f.caps[k].id = "virtio"
    PROVE  LET l == f.layout[f.caps[k].bar] IN
           Decoded(f)[f.caps[k].bar] =
             [kind |-> IF l.io THEN "Io" ELSE "Mm", addr |-> l.base]
  <1>1. f.caps[k].bar \in DOMAIN f.layout /\ SoundLayout(f.layout)
    BY DEF SoundFunction
  <1>2. f.caps[k].bar \in 0 .. 5
    BY <1>1 DEF SoundLayout
  <1> QED
    BY <1>1, <1>2, BarDecoded DEF Decoded

(* Learns recognises the structures that can be used. *)
LEMMA LearnsOffered ==
    ASSUME NEW f, SoundFunction(f), NEW k \in 1 .. Len(f.caps), bars = Decoded(f)
    PROVE  /\ Learns(f.caps[k]) => f.caps[k].type \in CapTypes
                                   /\ Offers(f, k, f.caps[k].type)
           /\ \A t \in CapTypes : Offers(f, k, t) =>
                Learns(f.caps[k]) /\ f.caps[k].type = t
  <1>1. CASE f.caps[k].id = "virtio"
    <2>1. bars[f.caps[k].bar].kind = "Mm" <=> ~f.layout[f.caps[k].bar].io
      <3>1. bars[f.caps[k].bar] =
              [kind |-> IF f.layout[f.caps[k].bar].io THEN "Io" ELSE "Mm",
               addr |-> f.layout[f.caps[k].bar].base]
        BY <1>1, BarOfCapability
      <3>2. CASE f.layout[f.caps[k].bar].io
        BY <3>1, <3>2
      <3>3. CASE ~f.layout[f.caps[k].bar].io
        BY <3>1, <3>3
      <3> QED
        BY <3>2, <3>3
    <2>2. Learns(f.caps[k]) <=>
            /\ f.caps[k].type \in CapTypes
            /\ f.caps[k].type \in {"common", "device"} =>
                 ~f.layout[f.caps[k].bar].io
      BY <1>1, <2>1 DEF Learns
    <2> QED
      BY <1>1, <2>2 DEF Offers
  <1>2. CASE f.caps[k].id # "virtio"
    BY <1>2 DEF Learns, Offers
  <1> QED
    BY <1>1, <1>2

(* One capability more is collected. *)
LEMMA CollectOne ==
    ASSUME NEW f, SoundFunction(f), NEW k \in 1 .. Len(f.caps), bars = Decoded(f),
           NEW fd, Collected(f, fd, k - 1)
    PROVE  LET c == f.caps[k]
               new == IF Learns(c)
                      THEN [fd EXCEPT ![c.type] =
                             [bar |-> bars[c.bar], offset |-> c.offset, some |-> TRUE]]
                      ELSE fd
           IN Collected(f, new, k)
  <1> DEFINE c == f.caps[k]
             new == IF Learns(c) THEN [fd EXCEPT ![c.type] =
                      [bar |-> bars[c.bar], offset |-> c.offset, some |-> TRUE]]
                    ELSE fd
  <1>1. k \in Nat /\ \A n \in 1 .. k : n \in 1 .. k - 1 \/ n = k
    BY DEF SoundFunction
  <1>2. DOMAIN new = CapTypes /\ DOMAIN fd = CapTypes
    BY DEF Collected
  <1>3. \A t \in CapTypes : Learns(c) /\ t = c.type => new[t] = Entry(f, k)
    BY <1>2 DEF Entry
  <1>4. \A t \in CapTypes : ~(Learns(c) /\ t = c.type) => new[t] = fd[t]
    BY <1>2
  <1>5. ASSUME NEW t \in CapTypes, new[t].some
        PROVE  \E n \in 1 .. k : Offers(f, n, t) /\ new[t] = Entry(f, n)
    <2>1. CASE Learns(c) /\ t = c.type
      BY <1>1, <1>3, <2>1, LearnsOffered
    <2>2. CASE ~(Learns(c) /\ t = c.type)
      <3>1. PICK n \in 1 .. k - 1 : Offers(f, n, t) /\ fd[t] = Entry(f, n)
        BY <1>4, <1>5, <2>2 DEF Collected
      <3> QED
        BY <1>1, <1>4, <2>2, <3>1
    <2> QED
      BY <2>1, <2>2
  <1>6. ASSUME NEW t \in CapTypes, NEW n \in 1 .. k, Offers(f, n, t)
        PROVE  new[t].some
    <2>1. CASE Learns(c) /\ t = c.type
      BY <1>3, <2>1 DEF Entry
    <2>2. CASE ~(Learns(c) /\ t = c.type)
      <3>1. n # k
        BY <1>6, <2>2, LearnsOffered
      <3>2. fd[t].some
        BY <1>1, <1>6, <3>1 DEF Collected
      <3> QED
        BY <1>4, <2>2, <3>2
    <2> QED
      BY <2>1, <2>2
  <1> QED
    BY <1>2, <1>5, <1>6 DEF Collected

-----------------------------------------------------------------------------
(* The other steps of the initialisation concern neither capabilities nor  *)
(* the devices that are ready.                                             *)
Configures ==
    /\ stage \in Visiting \ {"caps"}
    /\ stage' \in (Visiting \ {"caps"}) \cup {"refused"}
    /\ UNCHANGED << cur, bars, found, virtio_devices >>

(* The four kinds of steps of Virtio::init. *)
LEMMA DeviceKinds ==
    ASSUME Device
    PROVE  Probe \/ WalkCapability \/ Configures \/ DriverOk
  <1> USE DEF Visiting, InitStages, AllocStages, Configures
  <1>1. CASE ResetDevice \/ WriteFeatures
    BY <1>1 DEF ResetDevice, WriteFeatures
  <1>2. CASE Acknowledge \/ Driver \/ FeaturesOk \/ FeaturesRefused
    BY <1>2 DEF Acknowledge, Driver, FeaturesOk, FeaturesRefused, WriteStatus
  <1>3. CASE CheckFeatures \/ SelectQueue
    BY <1>3 DEF CheckFeatures, SelectQueue
  <1>4. CASE StoreTable \/ FillDesc
    BY <1>4 DEF StoreTable, FillDesc, UsePage
  <1>5. CASE StoreAvail \/ StoreUsed
    BY <1>5 DEF StoreAvail, StoreUsed, UsePage
  <1>6. CASE AskPage
    BY <1>6 DEF AskPage
  <1> QED
    BY <1>1, <1>2, <1>3, <1>4, <1>5, <1>6 DEF Device, InitDevice

(* The function that Probe and the others call F. *)
LEMMA CurrentFunction ==
    ASSUME ScanInv, cur \in 1 .. Len(devs)
    PROVE  F = machine[devs[cur]] /\ devs[cur] \in DOMAIN machine
  <1>1. devs[cur] \in DOMAIN machine
    BY DEF ScanInv
  <1>2. Answers(devs[cur]) = {devs[cur]}
    BY <1>1 DEF Answers
  <1> QED
    BY <1>1, <1>2 DEF Here, F

(* The next function: the one left behind has no driver or was served. *)
LEMMA OnToNext ==
    ASSUME BInv, CapsInv, ServedInv, stage \in InitStages \cup AllocStages,
           cur \in 1 .. Len(devs), NextFunction, UNCHANGED << machine, devs >>,
           UNCHANGED virtio_devices, ~Drivable(machine[devs[cur]])
    PROVE  CapsInv' /\ ServedInv'
  <1>1. /\ stage' = "probe" /\ stage' \notin Visiting /\ stage' \notin Scans
        /\ cur' = cur + 1
    BY DEF NextFunction, Visiting, Scans
  <1>2. CapsInv'
    BY <1>1 DEF CapsInv
  <1>3. \A j \in 1 .. Len(devs) : j < cur' /\ Drivable(machine[devs[j]]) => j < cur
    BY <1>1
  <1>4. ServedInv'
    BY <1>1, <1>3 DEF ServedInv, Right
  <1> QED
    BY <1>2, <1>4

(* Looking at the next function: its BARs are decoded, or it is passed. *)
LEMMA ProbeStep ==
    ASSUME BInv, CapsInv, ServedInv, Probe, UNCHANGED pcivars
    PROVE  CapsInv' /\ ServedInv'
  <1> DEFINE f == machine[devs[cur]]
  <1>1. /\ cur \in 1 .. Len(devs) /\ stage = "probe"
        /\ UNCHANGED << machine, devs, virtio_devices >>
    BY DEF BInv, VisitInv, ScanInv, Probe, pcivars
  <1>2. F = f /\ SoundFunction(f)
    BY <1>1, CurrentFunction DEF BInv, CapsInv
  <1>3. CASE Known
    <2>1. /\ stage' = "caps" /\ cur' = cur /\ off' = 1 /\ bars' = Decoded(f)
          /\ found' = [t \in CapTypes |-> Missing]
      BY <1>2, <1>3 DEF Probe, Decoded
    <2>2. Recognised(f)
      BY <1>2, <1>3 DEF Known, Recognised
    <2>3. 1 \in 1 .. Len(f.caps)
      BY <1>2 DEF SoundFunction
    <2>4. Collected(f, found', 0)
      BY <2>1 DEF Collected, Missing
    <2>5. CapsInv'
      BY <1>1, <2>1, <2>2, <2>3, <2>4 DEF CapsInv, Visiting
    <2>6. ServedInv'
      BY <1>1, <2>1 DEF ServedInv, Right, Scans
    <2> QED
      BY <2>5, <2>6
  <1>4. CASE ~Known
    <2>1. NextFunction /\ ~Drivable(f)
      BY <1>2, <1>4 DEF Probe, Known, Drivable
    <2> QED
      BY <1>1, <2>1, OnToNext DEF InitStages
  <1> QED
    BY <1>3, <1>4

(* A round of the loop over the capabilities: one more is collected. *)
LEMMA WalkStep ==
    ASSUME BInv, CapsInv, ServedInv, WalkCapability, UNCHANGED pcivars
    PROVE  CapsInv' /\ ServedInv'
  <1> DEFINE f == machine[devs[cur]]
  <1>1. /\ stage = "caps" /\ stage \in Visiting
        /\ UNCHANGED << machine, devs, virtio_devices, bars >>
    BY DEF WalkCapability, pcivars, Visiting, InitStages
  <1>2. cur \in 1 .. Len(devs)
    BY <1>1 DEF BInv, VisitInv
  <1>3. F = f /\ SoundFunction(f) /\ Len(f.caps) \in Nat
    BY <1>2, CurrentFunction DEF BInv, CapsInv, SoundFunction
  <1>4. /\ off \in 1 .. Len(f.caps) /\ Collected(f, found, off - 1)
        /\ Recognised(f) /\ bars = Decoded(f)
    BY <1>1 DEF CapsInv
  <1>5. Collected(f, found', off)
    BY <1>3, <1>4, CollectOne DEF WalkCapability
  <1>6. off' = IF off = Len(f.caps) THEN 0 ELSE off + 1
    BY <1>3 DEF WalkCapability
  <1>7. CASE off # Len(f.caps)
    <2>1. /\ off' = off + 1 /\ off' \in 1 .. Len(f.caps) /\ off' - 1 = off
          /\ off' # 0
      BY <1>3, <1>4, <1>6, <1>7
    <2>2. stage' = stage /\ cur' = cur
      BY <2>1 DEF WalkCapability
    <2>3. CapsInv'
      BY <1>1, <1>4, <1>5, <2>1, <2>2 DEF CapsInv
    <2>4. ServedInv'
      BY <1>1, <2>2 DEF ServedInv, Right
    <2> QED
      BY <2>3, <2>4
  <1>8. CASE off = Len(f.caps) /\ \A t \in CapTypes : found'[t].some
    <2>1. off' = 0
      BY <1>6, <1>8
    <2>2. stage' = "reset" /\ cur' = cur
      BY <1>8, <2>1 DEF WalkCapability
    <2>3. CapsInv'
      BY <1>1, <1>4, <1>5, <1>8, <2>2 DEF CapsInv
    <2>4. ServedInv'
      BY <1>1, <2>2 DEF ServedInv, Right, Scans
    <2> QED
      BY <2>3, <2>4
  <1>9. CASE off = Len(f.caps) /\ ~(\A t \in CapTypes : found'[t].some)
    <2>1. off' = 0
      BY <1>6, <1>9
    <2>2. NextFunction
      BY <1>9, <2>1 DEF WalkCapability
    <2>3. ~Drivable(f)
      BY <1>5, <1>9 DEF Collected, Drivable
    <2> QED
      BY <1>1, <1>2, <2>2, <2>3, OnToNext DEF InitStages
  <1> QED
    BY <1>7, <1>8, <1>9

(* The handshake and the set-up of the queues leave the capabilities       *)
(* alone.                                                                  *)
LEMMA ConfigureStep ==
    ASSUME CapsInv, ServedInv, Configures, UNCHANGED pcivars
    PROVE  CapsInv' /\ ServedInv'
  <1>1. /\ UNCHANGED << machine, devs, cur, bars, found, virtio_devices >>
        /\ stage \in Visiting \ {"caps"} /\ stage' # "caps"
        /\ stage' \notin Scans /\ stage' # "running"
        /\ stage' \in Visiting => stage' \in Visiting \ {"caps"}
    BY DEF Configures, pcivars, Visiting, InitStages, AllocStages, Scans
  <1>2. CapsInv'
    BY <1>1 DEF CapsInv
  <1>3. ServedInv'
    BY <1>1 DEF ServedInv, Right
  <1> QED
    BY <1>2, <1>3

(* The device becomes ready, with the structures that were collected. *)
LEMMA DriverOkStep ==
    ASSUME BInv, CapsInv, ServedInv, DriverOk, UNCHANGED pcivars
    PROVE  CapsInv' /\ ServedInv'
  <1> DEFINE f == machine[devs[cur]]
             v == [device |-> devs[cur], type |-> F.type, free |-> free,
                   caps |-> found]
             n == Len(virtio_devices)
  <1>1. /\ stage \in Visiting \ {"caps"} /\ stage' = "probe" /\ cur' = cur + 1
        /\ stage' \notin Visiting /\ stage' \notin Scans
        /\ UNCHANGED << machine, devs >>
    BY DEF DriverOk, NextFunction, pcivars, Visiting, InitStages, Scans
  <1>2. cur \in 1 .. Len(devs)
    BY <1>1 DEF BInv, VisitInv
  <1>3. Here = devs[cur]
    BY <1>1, HereIsCurrent DEF BInv
  <1>4. virtio_devices' = Append(virtio_devices, v)
    BY <1>3 DEF DriverOk
  <1>5. PICK S : virtio_devices \in Seq(S)
    BY DEF BInv, VisitInv
  <1>6. virtio_devices \in Seq(S \cup {v}) /\ n \in Nat
    BY <1>5
  <1>7. /\ Len(virtio_devices') = n + 1 /\ virtio_devices'[n + 1] = v
        /\ \A k \in 1 .. n : virtio_devices'[k] = virtio_devices[k]
        /\ \A k \in 1 .. n + 1 : k \in 1 .. n \/ k = n + 1
    BY <1>4, <1>6
  <1>8. Right(v)
    <2>1. /\ Recognised(f) /\ Collected(f, found, Len(f.caps))
          /\ \A t \in CapTypes : found[t].some
      BY <1>1 DEF CapsInv
    <2>2. \A t \in CapTypes : \E j \in 1 .. Len(f.caps) :
            Offers(f, j, t) /\ found[t] = Entry(f, j)
      BY <2>1 DEF Collected
    <2> QED
      BY <2>1, <2>2 DEF Right
  <1>9. \A k \in 1 .. n : virtio_devices[k].device # devs[cur]
    BY <1>1, <1>3, HereIsNotReady DEF BInv, LiveSet
  <1>10. \A k \in 1 .. n + 1 : Right(virtio_devices'[k])
    BY <1>7, <1>8 DEF ServedInv
  <1>11. \A j \in 1 .. Len(devs) : j < cur' /\ Drivable(machine[devs[j]]) =>
           \E k \in 1 .. n + 1 : virtio_devices'[k].device = devs[j]
    <2> SUFFICES ASSUME NEW j \in 1 .. Len(devs), j < cur',
                        Drivable(machine[devs[j]])
                 PROVE  \E k \in 1 .. n + 1 : virtio_devices'[k].device = devs[j]
      OBVIOUS
    <2>1. CASE j < cur
      <3>1. PICK k \in 1 .. n : virtio_devices[k].device = devs[j]
        BY <2>1 DEF ServedInv
      <3> QED
        BY <1>6, <1>7, <3>1
    <2>2. CASE j = cur
      BY <1>6, <1>7, <2>2
    <2> QED
      BY <1>1, <1>2, <2>1, <2>2
  <1>12. \A j, k \in 1 .. n + 1 :
           j # k => virtio_devices'[j].device # virtio_devices'[k].device
    <2>1. \A j, k \in 1 .. n :
            j # k => virtio_devices[j].device # virtio_devices[k].device
      BY DEF ServedInv
    <2>2. v.device = devs[cur]
      OBVIOUS
    <2> QED
      BY <1>7, <1>9, <2>1, <2>2
  <1>13. ServedInv'
    BY <1>1, <1>7, <1>10, <1>11, <1>12 DEF ServedInv, Right
  <1>14. CapsInv'
    BY <1>1 DEF CapsInv, Visiting
  <1> QED
    BY <1>13, <1>14

(* The steps before the loop over the functions and after it. *)
LEMMA ElsewhereStep ==
    ASSUME BInv, CapsInv, ServedInv, [BootNext]_allvars, ~Device
    PROVE  CapsInv' /\ ServedInv'
  <1>1. /\ UNCHANGED << machine, cur, bars, off, found, virtio_devices >>
        /\ \/ UNCHANGED << stage, devs >>
           \/ stage = "map" /\ stage' = "heap" /\ UNCHANGED devs
           \/ stage = "heap" /\ stage' = "scan" /\ UNCHANGED devs
           \/ stage = "scan" /\ stage' \in {"scan", "probe"}
           \/ /\ stage = "probe" /\ stage' = "running" /\ cur = Len(devs) + 1
              /\ UNCHANGED devs
    BY DEF BootNext, MapMemory, MapMemoryEnds, HeapPage, HeapEnds, StartExecutor,
       Allocate, FrameBuffer, LoadApp, Scan, ScanFunction, Unmoved, pcivars,
       initvars, devicevars, allvars
  <1> USE DEF Visiting, Scans, InitStages, AllocStages
  <1>2. CASE stage' = stage /\ UNCHANGED devs
    BY <1>1, <1>2 DEF CapsInv, ServedInv, Right
  <1>3. CASE stage' \notin Visiting
    <2>1. CapsInv'
      BY <1>1, <1>3 DEF CapsInv
    <2>2. ServedInv'
      <3>1. CASE UNCHANGED devs
        BY <1>1, <3>1 DEF ServedInv, Right
      <3>2. CASE stage = "scan"
        <4>1. cur = 1 /\ cur' = 1
          BY <1>1, <3>2 DEF ServedInv
        <4>2. \A j \in 1 .. Len(devs') : ~(j < cur')
          BY <4>1
        <4> QED
          BY <1>1, <3>2, <4>1, <4>2 DEF ServedInv, Right
      <3> QED
        BY <1>1, <3>1, <3>2
    <2> QED
      BY <2>1, <2>2
  <1> QED
    BY <1>1, <1>2, <1>3

DInv == BInv /\ CapsInv /\ ServedInv

(* What is known of the devices always holds. *)
LEMMA DInvAlways == BootSpec => []DInv
  <1>1. BootInit => DInv
    <2> SUFFICES ASSUME BootInit
                 PROVE  CapsInv /\ ServedInv
      BY BootBegins DEF DInv
    <2>1. /\ stage = "map" /\ stage \notin Visiting /\ cur = 1
          /\ virtio_devices = <<>> /\ devs = <<>> /\ machine \in Machines
      BY DEF BootInit, Visiting, InitStages, AllocStages
    <2>2. CapsInv
      BY <2>1, MachinesAssumption DEF CapsInv
    <2>3. ServedInv
      BY <2>1 DEF ServedInv
    <2> QED
      BY <2>2, <2>3
  <1>2. ASSUME DInv, [BootNext]_allvars
        PROVE  DInv'
    <2>1. BInv'
      BY <1>2, BootStep DEF DInv
    <2>2. CASE Device
      <3>1. UNCHANGED pcivars
        BY <2>2 DEF Device
      <3> QED
        BY <1>2, <2>1, <2>2, <3>1, DeviceKinds, ProbeStep, WalkStep, ConfigureStep,
           DriverOkStep DEF DInv
    <2>3. CASE ~Device
      BY <1>2, <2>1, <2>3, ElsewhereStep DEF DInv
    <2> QED
      BY <2>2, <2>3
  <1> QED
    BY <1>1, <1>2, PTL DEF BootSpec

-----------------------------------------------------------------------------
(* Every driver uses addresses at which its device has the structures,     *)
(* for all layouts of BARs and lists of capabilities.                      *)
THEOREM RegistersAlwaysFound == BootSpec => []RegistersFound
  <1>1. ASSUME DInv
        PROVE  RegistersFound
    <2> SUFFICES ASSUME NEW k \in 1 .. Len(virtio_devices)
                 PROVE  LET v == virtio_devices[k] IN
                        /\ \A t \in {"common", "device", "notify"} :
                             [kind |-> v.caps[t].bar.kind,
                              addr |-> v.caps[t].bar.addr + v.caps[t].offset]
                                \in Published(machine[v.device], t)
                        /\ \A t \in {"common", "device"} : v.caps[t].bar.kind = "Mm"
      BY DEF RegistersFound
    <2> DEFINE v == virtio_devices[k]
               f == machine[v.device]
    <2>1. Right(v)
      BY <1>1 DEF DInv, ServedInv
    <2>2. v.device \in DOMAIN machine
      BY <1>1 DEF DInv, BInv, VisitInv, ScanInv
    <2>3. SoundFunction(f)
      BY <1>1, <2>2 DEF DInv, CapsInv
    <2>4. ASSUME NEW t \in {"common", "device", "notify"}
          PROVE  /\ [kind |-> v.caps[t].bar.kind,
                     addr |-> v.caps[t].bar.addr + v.caps[t].offset]
                       \in Published(f, t)
                 /\ t # "notify" => v.caps[t].bar.kind = "Mm"
      <3>1. t \in CapTypes
        BY DEF CapTypes
      <3>2. PICK j \in 1 .. Len(f.caps) : Offers(f, j, t) /\ v.caps[t] = Entry(f, j)
        BY <2>1, <3>1 DEF Right
      <3> DEFINE l == f.layout[f.caps[j].bar]
      <3>3. f.caps[j].id = "virtio" /\ f.caps[j].type = t
        BY <3>2 DEF Offers
      <3>4. Decoded(f)[f.caps[j].bar] =
              [kind |-> IF l.io THEN "Io" ELSE "Mm", addr |-> l.base]
        BY <2>3, <3>3, BarOfCapability
      <3>5. /\ v.caps[t].bar.kind = IF l.io THEN "Io" ELSE "Mm"
            /\ v.caps[t].bar.addr = l.base /\ v.caps[t].offset = f.caps[j].offset
        <4>1. /\ v.caps[t].bar = Decoded(f)[f.caps[j].bar]
              /\ v.caps[t].offset = f.caps[j].offset
          BY <3>2 DEF Entry
        <4>2. v.caps[t].bar = [kind |-> IF l.io THEN "Io" ELSE "Mm", addr |-> l.base]
          BY <3>4, <4>1
        <4>3. CASE l.io
          <5>1. v.caps[t].bar = [kind |-> "Io", addr |-> l.base]
            BY <4>2, <4>3
          <5>2. v.caps[t].bar.kind = "Io" /\ v.caps[t].bar.addr = l.base
            BY SMTT(20), <5>1
          <5>3. (IF l.io THEN "Io" ELSE "Mm") = "Io"
            BY <4>3
          <5> QED
            BY <4>1, <5>2, <5>3
        <4>4. CASE ~l.io
          <5>1. v.caps[t].bar = [kind |-> "Mm", addr |-> l.base]
            BY <4>2, <4>4
          <5>2. v.caps[t].bar.kind = "Mm" /\ v.caps[t].bar.addr = l.base
            BY SMTT(20), <5>1
          <5>3. (IF l.io THEN "Io" ELSE "Mm") = "Mm"
            BY <4>4
          <5> QED
            BY <4>1, <5>2, <5>3
        <4> QED
          BY <4>3, <4>4
      <3>6. t # "notify" => v.caps[t].bar.kind = "Mm"
        BY <3>2, <3>5 DEF Offers
      <3>7. f.caps[j] \in {f.caps[m] : m \in {i_ \in 1 .. Len(f.caps) :
                             f.caps[i_].id = "virtio" /\ f.caps[i_].type = t}}
        BY <3>3
      <3>8. [kind |-> IF l.io THEN "Io" ELSE "Mm",
             addr |-> l.base + f.caps[j].offset] \in Published(f, t)
        BY <3>7 DEF Published
      <3> QED
        BY <3>5, <3>6, <3>8
    <2> QED
      BY <2>4
  <1> QED
    BY <1>1, DInvAlways, PTL

(* When the executor starts it has a driver for every device that can be   *)
(* driven and for no other, and one for each.                              *)
THEOREM AllDevicesServed == BootSpec => []DevicesServed
  <1>1. ASSUME DInv, stage = "running"
        PROVE  /\ LiveSet = {a \in DOMAIN machine : Drivable(machine[a])}
               /\ Len(virtio_devices) = Cardinality(LiveSet)
    <2> DEFINE n == Len(virtio_devices)
    <2>1. cur = Len(devs) + 1 /\ ~Scanning /\ n \in Nat
      BY <1>1 DEF DInv, BInv, ServedInv, VisitInv, Scans
    <2>2. ASSUME NEW k \in 1 .. n
          PROVE  /\ virtio_devices[k].device \in DOMAIN machine
                 /\ Drivable(machine[virtio_devices[k].device])
      <3>1. virtio_devices[k].device \in DOMAIN machine
        BY <1>1 DEF DInv, BInv, VisitInv, ScanInv
      <3>2. Right(virtio_devices[k])
        BY <1>1 DEF DInv, ServedInv
      <3> QED
        BY <3>1, <3>2 DEF Right, Recognised, Drivable
    <2>3. ASSUME NEW a \in DOMAIN machine, Drivable(machine[a])
          PROVE  \E k \in 1 .. n : virtio_devices[k].device = a
      <3>1. {devs[j] : j \in 1 .. Len(devs)} = DOMAIN machine
        BY <1>1, <2>1, ScanComplete DEF DInv, BInv, FunctionsFoundOnce
      <3>2. PICK j \in 1 .. Len(devs) : devs[j] = a
        BY <3>1
      <3>3. j < cur
        BY <1>1, <2>1, <3>2 DEF DInv, BInv, ScanInv
      <3> QED
        BY <1>1, <2>3, <3>2, <3>3 DEF DInv, ServedInv
    <2>4. LiveSet = {a \in DOMAIN machine : Drivable(machine[a])}
      BY <2>2, <2>3 DEF LiveSet
    <2> DEFINE g == [k \in 1 .. n |-> virtio_devices[k].device]
    <2>5. g \in Bijection(1 .. n, LiveSet)
      <3>1. g \in [1 .. n -> LiveSet]
        BY DEF LiveSet
      <3>2. \A j, k \in 1 .. n : g[j] = g[k] => j = k
        BY <1>1 DEF DInv, ServedInv
      <3>3. \A a \in LiveSet : \E k \in 1 .. n : g[k] = a
        BY DEF LiveSet
      <3> QED
        BY <3>1, <3>2, <3>3, Fun_IsBij
    <2>6. ExistsBijection(1 .. n, LiveSet)
      BY <2>5, Fun_ExistsBij
    <2>7. IsFiniteSet(1 .. n) /\ Cardinality(1 .. n) = n
      <3>1. 1 \in Int /\ n \in Int
        BY <2>1
      <3>2. /\ IsFiniteSet(1 .. n)
            /\ Cardinality(1 .. n) = IF 1 > n THEN 0 ELSE n - 1 + 1
        BY <3>1, FS_Interval
      <3> QED
        BY <2>1, <3>2
    <2> QED
      BY <2>4, <2>6, <2>7, FS_Bijection
  <1> QED
    BY <1>1, DInvAlways, PTL DEF DevicesServed

-----------------------------------------------------------------------------
(* The queues that are set up. *)

Queueing == {"select"} \cup AllocStages
Handshake == {"acknowledge", "driver", "features", "features_ok", "check"}
Filled   == {"fill", "avail", "used"}
Accepted == {"ACKNOWLEDGE", "DRIVER", "FEATURES_OK"}
Queues   == [desc : Nat, driver : Nat, device : Nat, enable : BOOLEAN]
Devices  == [status : SUBSET {"ACKNOWLEDGE", "DRIVER", "FEATURES_OK", "DRIVER_OK"},
             features : SUBSET {0, 1}, queues : Seq(Queues)]

Latest == Len(virtio_devices) + 1   \* the number the current device will have

(* P is a set of pages with their uses, as in DmaPages: no page has two    *)
(* uses; each is mapped and owned by an operation before the last one, if  *)
(* the page that this one asked for is not used yet.                       *)
PagesInv(P) ==
    /\ \A x, y \in P : x.frame = y.frame => x.use = y.use
    /\ \A x \in P :
         /\ x.frame \in Frames /\ x.frame \in mapped
         /\ owner[x.frame].use = "data" /\ owner[x.frame].op <= op
         /\ asked => owner[x.frame].op < op

PageUse(frame, d, n, kind, k) == [frame |-> frame, use |-> << d, n, kind, k >>]

(* The descriptors ids of a table have their buffers, m being the memory. *)
BuffersIn(m, P, table, ids, d, n) ==
    \A k \in ids :
        /\ << table, k >> \in DOMAIN m
        /\ m[<< table, k >>][1] = "buffer"
        /\ PageUse(m[<< table, k >>][2], d, n, "buffer", k) \in P

(* A complete queue: the n-th one, Q, of device number d. *)
QueueIn(m, P, Q, ids, d, n) ==
    /\ PageUse(Q.desc, d, n, "table", 0) \in P
    /\ PageUse(Q.driver, d, n, "avail", 0) \in P
    /\ PageUse(Q.device, d, n, "used", 0) \in P
    /\ BuffersIn(m, P, Q.desc, ids, d, n)
    /\ Q.enable

(* The devices that are ready. *)
ReadyIn(P) ==
    \A d \in 1 .. Len(virtio_devices) :
        LET v == virtio_devices[d]
            r == dev[v.device]
        IN
        /\ r.status = Accepted \cup {"DRIVER_OK"}
        /\ Len(r.queues) = Len(v.free)
        /\ \A n \in 1 .. Len(v.free) : QueueIn(mem, P, r.queues[n], v.free[n], d, n)

(* The device being set up: queues below q are complete, queue q as far as *)
(* the stage says.                                                         *)
CurrentIn(P) ==
    LET queues == dev[devs[cur]].queues IN
    /\ stage \in Queueing =>
         \A n \in 1 .. q - 1 : QueueIn(mem, P, queues[n], free[n], Latest, n)
    /\ stage \in Filled =>
         /\ PageUse(queues[q].desc, Latest, q, "table", 0) \in P
         /\ BuffersIn(mem, P, queues[q].desc, 0 .. idesc - 1, Latest, q)
    /\ stage = "used" => PageUse(queues[q].driver, Latest, q, "avail", 0) \in P

QueuesInv == \E P : PagesInv(P) /\ ReadyIn(P) /\ CurrentIn(P)

(* The loop variables of the set-up, and the handshake. *)
LoopInv ==
    LET sizes == machine[devs[cur]].sizes
        r     == dev[devs[cur]]
    IN
    /\ q \in Nat \ {0} /\ idesc \in Nat /\ free \in Seq(SUBSET Nat)
    /\ stage \in Handshake => q = 1 /\ free = <<>>
    /\ stage \in Handshake \cup Queueing => Len(r.queues) = Len(sizes)
    /\ stage = "acknowledge" => r.status = {}
    /\ stage = "driver" => r.status = {"ACKNOWLEDGE"}
    /\ stage \in {"features", "features_ok"} => r.status = {"ACKNOWLEDGE", "DRIVER"}
    /\ stage = "check" => {"ACKNOWLEDGE", "DRIVER"} \subseteq r.status
                          /\ r.status \subseteq Accepted
    /\ stage \in Queueing => /\ r.status = Accepted /\ q <= Len(sizes) + 1
                             /\ \A n \in 1 .. Len(free) : free[n] = 0 .. sizes[n] - 1
    /\ stage = "select" => Len(free) = q - 1
    /\ stage \in AllocStages => Len(free) = q /\ q <= Len(sizes)
    /\ stage = "fill" => idesc < sizes[q]
    /\ stage \in {"avail", "used"} => idesc = sizes[q]

(* The page that is asked for. *)
AskInv ==
    /\ asked \in BOOLEAN
    /\ asked => /\ stage \in AllocStages
                /\ block.op = op /\ block.pages = 1 /\ block.identity
                /\ pc = "idle" => block \in blocks /\ block.first \in mapped

(* What init wrote is in tables and available rings. *)
ReadyCell(c) ==
    \E d \in 1 .. Len(virtio_devices) : \E n \in 1 .. Len(virtio_devices[d].free) :
        LET Q == dev[virtio_devices[d].device].queues[n] IN c[1] \in {Q.desc, Q.driver}

OwnCell(c) ==
    /\ stage \in Queueing
    /\ \E n \in 1 .. q :
         LET Q == dev[devs[cur]].queues[n] IN
         \/ c[1] = Q.desc /\ (n < q \/ stage \in Filled)
         \/ c[1] = Q.driver /\ (n < q \/ stage = "used")

CellsInv == \A c \in DOMAIN mem : ReadyCell(c) \/ OwnCell(c)

DevInv == dev \in [DOMAIN machine -> Devices]

(* Writes to the registers of a device. *)
LEMMA StatusWritten ==
    ASSUME DevInv, NEW a \in DOMAIN machine, NEW bits \in SUBSET (Accepted \cup {"DRIVER_OK"}),
           dev' = [dev EXCEPT ![a].status = @ \cup bits], UNCHANGED machine
    PROVE  /\ DevInv'
           /\ dev'[a].status = dev[a].status \cup bits
           /\ dev'[a].queues = dev[a].queues
           /\ \A b \in DOMAIN machine : b # a => dev'[b] = dev[b]
<1>1. dev[a] \in Devices
  BY DEF DevInv
<1>2. dev'[a] = [dev[a] EXCEPT !.status = @ \cup bits]
  BY DEF DevInv
<1>3. /\ dev'[a].status = dev[a].status \cup bits
      /\ dev'[a].queues = dev[a].queues /\ dev'[a] \in Devices
  BY <1>1, <1>2 DEF Devices, Accepted
<1>4. \A b \in DOMAIN machine : b # a => dev'[b] = dev[b]
  BY DEF DevInv
<1>5. DevInv'
  BY <1>3 DEF DevInv
<1> QED BY <1>3, <1>4, <1>5


(* An element of a sequence is overwritten. *)
LEMMA ElementWritten ==
    ASSUME NEW S, NEW s \in Seq(S), NEW n \in 1 .. Len(s), NEW e \in S
    PROVE  LET r == [s EXCEPT ![n] = e] IN
           /\ r \in Seq(S) /\ Len(r) = Len(s) /\ r[n] = e
           /\ \A m \in 1 .. Len(s) : m # n => r[m] = s[m]
BY ExceptSeq

(* A device whose queue registers are written. *)
LEMMA RegistersWritten ==
    ASSUME NEW d \in Devices, NEW R \in Seq(Queues)
    PROVE  LET e == [d EXCEPT !.queues = R] IN
           e \in Devices /\ e.queues = R /\ e.status = d.status
<1> DEFINE A == SUBSET {"ACKNOWLEDGE", "DRIVER", "FEATURES_OK", "DRIVER_OK"}
           B == SUBSET {0, 1}
           C == Seq(Queues)
<1>1. Devices = [status : A, features : B, queues : C]
  BY DEF Devices
<1>2. R \in C
  OBVIOUS
<1> HIDE DEF A, B, C
<1> QED BY <1>1, <1>2

(* A change of one queue that keeps the others. *)
Writes(a, n) ==
    /\ DevInv' /\ dev'[a].status = dev[a].status
    /\ Len(dev'[a].queues) = Len(dev[a].queues)
    /\ \A m \in 1 .. Len(dev[a].queues) :
         m # n => dev'[a].queues[m] = dev[a].queues[m]
    /\ \A b \in DOMAIN machine : b # a => dev'[b] = dev[b]

Puts(a, n, e) ==
    dev' = [dev EXCEPT ![a] =
              [dev[a] EXCEPT !.queues = [dev[a].queues EXCEPT ![n] = e]]]

(* The registers of one queue of a device are written. *)
LEMMA QueueWritten ==
    ASSUME DevInv, NEW a \in DOMAIN machine, NEW n \in 1 .. Len(dev[a].queues),
           NEW e \in Queues, UNCHANGED machine,
           Puts(a, n, e)
    PROVE  Writes(a, n) /\ dev'[a].queues[n] = e
<1> DEFINE Q == dev[a].queues
           R == [Q EXCEPT ![n] = e]
           r == [dev[a] EXCEPT !.queues = R]
<1>1. dev[a] \in Devices /\ Q \in Seq(Queues)
  BY DEF DevInv, Devices
<1>2. /\ R \in Seq(Queues) /\ Len(R) = Len(Q) /\ R[n] = e
      /\ \A m \in 1 .. Len(Q) : m # n => R[m] = Q[m]
  BY <1>1, ElementWritten
<1> HIDE DEF R
<1>3. r \in Devices /\ r.queues = R /\ r.status = dev[a].status
  BY <1>1, <1>2, RegistersWritten
<1>4. dev' = [dev EXCEPT ![a] = r]
  BY DEF R, Puts
<1> HIDE DEF r
<1>5. dev'[a] = r /\ \A b \in DOMAIN machine : b # a => dev'[b] = dev[b]
  BY <1>4 DEF DevInv
<1>6. DevInv'
  BY <1>3, <1>4 DEF DevInv
<1> QED BY <1>2, <1>3, <1>5, <1>6 DEF Writes

SetsDesc(a, n, p) == dev' = [dev EXCEPT ![a].queues[n].desc = p]

(* queue_desc... *)
LEMMA TableWritten ==
    ASSUME DevInv, NEW a \in DOMAIN machine, NEW n \in 1 .. Len(dev[a].queues),
           NEW p \in Nat, UNCHANGED machine,
           SetsDesc(a, n, p)
    PROVE  Writes(a, n) /\ dev'[a].queues[n].desc = p
<1> DEFINE Q == dev[a].queues[n]
           e == [Q EXCEPT !.desc = p]
<1>1. Q \in Queues
  BY ElementOfSeq DEF DevInv, Devices
<1>2. e \in Queues /\ e.desc = p
  BY <1>1 DEF Queues
<1>3. Puts(a, n, e)
  BY DEF Puts, SetsDesc
<1> HIDE DEF e
<1> QED BY <1>2, <1>3, QueueWritten

SetsDriver(a, n, p) == dev' = [dev EXCEPT ![a].queues[n].driver = p]

(* ...queue_driver... *)
LEMMA AvailWritten ==
    ASSUME DevInv, NEW a \in DOMAIN machine, NEW n \in 1 .. Len(dev[a].queues),
           NEW p \in Nat, UNCHANGED machine,
           SetsDriver(a, n, p)
    PROVE  /\ Writes(a, n) /\ dev'[a].queues[n].driver = p
           /\ dev'[a].queues[n].desc = dev[a].queues[n].desc
<1> DEFINE Q == dev[a].queues[n]
           e == [Q EXCEPT !.driver = p]
<1>1. Q \in Queues
  BY ElementOfSeq DEF DevInv, Devices
<1>2. e \in Queues /\ e.driver = p /\ e.desc = Q.desc
  BY <1>1 DEF Queues
<1>3. Puts(a, n, e)
  BY DEF Puts, SetsDriver
<1> HIDE DEF e
<1> QED BY <1>2, <1>3, QueueWritten

SetsDevice(a, n, p) == dev' = [dev EXCEPT ![a].queues[n] = [@ EXCEPT !.device = p, !.enable = TRUE]]

(* ...and queue_device with queue_enable. *)
LEMMA UsedWritten ==
    ASSUME DevInv, NEW a \in DOMAIN machine, NEW n \in 1 .. Len(dev[a].queues),
           NEW p \in Nat, UNCHANGED machine,
           SetsDevice(a, n, p)
    PROVE  /\ Writes(a, n) /\ dev'[a].queues[n].device = p
           /\ dev'[a].queues[n].desc = dev[a].queues[n].desc
           /\ dev'[a].queues[n].driver = dev[a].queues[n].driver
           /\ dev'[a].queues[n].enable
<1> DEFINE Q == dev[a].queues[n]
           e == [Q EXCEPT !.device = p, !.enable = TRUE]
<1>1. Q \in Queues
  BY ElementOfSeq DEF DevInv, Devices
<1>2. e \in Queues /\ e.device = p /\ e.driver = Q.driver /\ e.desc = Q.desc /\ e.enable
  BY <1>1 DEF Queues
<1>3. Puts(a, n, e)
  BY DEF Puts, SetsDevice
<1> HIDE DEF e
<1> QED BY <1>2, <1>3, QueueWritten

-----------------------------------------------------------------------------
SInv == DevInv /\ LoopInv /\ AskInv /\ CellsInv /\ QueuesInv

(* Memory with one more cell. *)
Wrote(m, m2, c, v) ==
    /\ DOMAIN m2 = DOMAIN m \cup {c} /\ m2[c] = v
    /\ \A e \in DOMAIN m : e # c => m2[e] = m[e]

(* A store writes one cell of memory. *)
LEMMA CellWritten ==
    ASSUME NEW c, NEW v, Store(c, v)
    PROVE  Wrote(mem, mem', c, v)
BY DEF Wrote, Store

(* What is written elsewhere, and more pages, keep a queue as it is. *)
LEMMA BuffersKept ==
    ASSUME NEW m, NEW m2, NEW P, NEW P2, P \subseteq P2,
           NEW t, NEW ids, NEW d, NEW n, BuffersIn(m, P, t, ids, d, n),
           NEW c, NEW v, Wrote(m, m2, c, v) \/ m2 = m,
           m2 = m \/ \A k \in ids : << t, k >> # c
    PROVE  BuffersIn(m2, P2, t, ids, d, n)
BY DEF BuffersIn, Wrote

(* So does a queue with its descriptor table. *)
LEMMA QueueKept ==
    ASSUME NEW m, NEW m2, NEW P, NEW P2, P \subseteq P2,
           NEW Q, NEW ids, NEW d, NEW n, QueueIn(m, P, Q, ids, d, n),
           NEW c, NEW v, Wrote(m, m2, c, v) \/ m2 = m,
           m2 = m \/ \A k \in ids : << Q.desc, k >> # c
    PROVE  QueueIn(m2, P2, Q, ids, d, n)
<1>1. BuffersIn(m2, P2, Q.desc, ids, d, n)
  BY BuffersKept DEF QueueIn
<1> QED BY <1>1 DEF QueueIn

(* What an operation of the allocator leaves of the frames in use. *)
LEMMA AllocGrows ==
    ASSUME IInv, [Next]_vars
    PROVE  /\ \A g \in Frames : owner[g].use = "data" => owner'[g] = owner[g]
           /\ mapped \subseteq mapped' /\ op \in Nat
           /\ op' = op \/ (op' = op + 1 /\ pc = "idle")
<1>0. op \in Nat
  BY OpFacts DEF IInv
<1>1. ASSUME NEW f, allocate_frame(f), NEW use \in {"data", "table"},
             owner' = [owner EXCEPT ![f] = [op |-> op, use |-> use]]
      PROVE  \A g \in Frames : owner[g].use = "data" => owner'[g] = owner[g]
  <2>1. [op |-> op, use |-> use] \in Uses
    BY DEF Uses, IInv, OpTypes
  <2> QED BY <1>1, <2>1, OwnerStep DEF IInv
<1>2. ASSUME NEW f \in Frames, Collect(f) \/ MapTable(f) \/ MapPhysical(f)
      PROVE  /\ \A g \in Frames : owner[g].use = "data" => owner'[g] = owner[g]
             /\ UNCHANGED << mapped, op >>
  <2>1. /\ allocate_frame(f) /\ UNCHANGED << mapped, op >>
        /\ \E use \in {"data", "table"} :
             owner' = [owner EXCEPT ![f] = [op |-> op, use |-> use]]
    BY <1>2 DEF Collect, MapTable, MapPhysical, Panic
  <2> QED BY <1>1, <2>1
<1>3. CASE MapPage \/ Exhausted \/ MapPhysicalFails \/ UNCHANGED vars
  BY <1>0, <1>3 DEF MapPage, Exhausted, MapPhysicalFails, Panic, vars
<1>4. ASSUME NEW identity \in BOOLEAN, NEW pages \in BlockSizes, Begin(identity, pages)
      PROVE  UNCHANGED << owner, mapped >> /\ op' = op + 1 /\ pc = "idle"
  BY <1>4 DEF Begin
<1> QED BY <1>0, <1>2, <1>3, <1>4 DEF Next

(* Pages in use stay in use. *)
LEMMA PagesKept ==
    ASSUME IInv, [Next]_vars, NEW P, PagesInv(P),
           asked' => asked \/ op' = op + 1
    PROVE  PagesInv(P)'
<1> SUFFICES ASSUME NEW x \in P
             PROVE  /\ x.frame \in Frames /\ x.frame \in mapped'
                    /\ owner'[x.frame].use = "data" /\ owner'[x.frame].op <= op'
                    /\ asked' => owner'[x.frame].op < op'
  BY DEF PagesInv
<1>1. /\ x.frame \in Frames /\ x.frame \in mapped
      /\ owner[x.frame].use = "data" /\ owner[x.frame].op <= op
      /\ asked => owner[x.frame].op < op
  BY DEF PagesInv
<1>2. owner[x.frame].op \in Nat
  BY <1>1, OpFacts DEF IInv
<1>3. /\ owner'[x.frame] = owner[x.frame] /\ x.frame \in mapped' /\ op \in Nat
      /\ op' = op \/ op' = op + 1
  BY <1>1, AllocGrows
<1> QED BY <1>1, <1>2, <1>3

(* The page that was asked for, when it comes to be used. *)
LEMMA NewPage ==
    ASSUME IInv, AskInv, asked, pc = "idle", NEW P, PagesInv(P)
    PROVE  /\ Page \in Frames /\ Page \in mapped /\ Page \in Nat
           /\ owner[Page].use = "data" /\ owner[Page].op = op
           /\ \A x \in P : x.frame # Page
<1>1. block \in blocks /\ block.first \in mapped /\ block.op = op /\ block.pages = 1
  BY DEF AskInv
<1>2. Owns(block.op, block.first, 1)
  BY <1>1 DEF IInv, DoneInv
<1>3. block.first \in Nat /\ op \in Nat
  BY OpFacts DEF IInv
<1>4. 0 \in 0 .. 1 - 1 /\ block.first + 0 = block.first
  BY <1>3
<1>5. block.first \in Frames /\ owner[block.first] = [op |-> op, use |-> "data"]
  BY <1>1, <1>2, <1>4 DEF Owns
<1>6. owner[block.first].op = op /\ owner[block.first].use = "data"
  BY <1>5
<1>7. \A x \in P : owner[x.frame].op < op
  BY DEF PagesInv
<1> QED BY <1>1, <1>3, <1>5, <1>6, <1>7 DEF Page

(* It becomes one of the pages in use. *)
LEMMA PageAdded ==
    ASSUME IInv, AskInv, asked, pc = "idle", NEW P, PagesInv(P), UNCHANGED vars,
           asked' = FALSE, NEW u, NEW P2, P2 = P \cup {[frame |-> Page, use |-> u]}
    PROVE  PagesInv(P2)'
<1> DEFINE x == [frame |-> Page, use |-> u]
<1>1. x.frame = Page /\ x.use = u
  OBVIOUS
<1> HIDE DEF x
<1>2. P2 = P \cup {x}
  BY DEF x
<1>3. /\ Page \in Frames /\ Page \in mapped
      /\ owner[Page].use = "data" /\ owner[Page].op = op
      /\ \A y \in P : y.frame # Page
  BY NewPage
<1>4. op \in Nat
  BY OpFacts DEF IInv
<1>5. UNCHANGED << owner, mapped, op >>
  BY DEF vars
<1>6. \A y, z \in P2 : y.frame = z.frame => y.use = z.use
  BY <1>1, <1>2, <1>3 DEF PagesInv
<1>7. \A y \in P2 : /\ y.frame \in Frames /\ y.frame \in mapped
                    /\ owner[y.frame].use = "data" /\ owner[y.frame].op <= op
  BY <1>1, <1>2, <1>3, <1>4 DEF PagesInv
<1> QED BY <1>5, <1>6, <1>7 DEF PagesInv

-----------------------------------------------------------------------------
(* The function whose initialisation goes on. *)
LEMMA Visited ==
    ASSUME DInv, stage \in Visiting
    PROVE  /\ Here = devs[cur] /\ devs[cur] \in DOMAIN machine
           /\ F = machine[devs[cur]] /\ SoundFunction(F)
           /\ \A d \in 1 .. Len(virtio_devices) : virtio_devices[d].device # devs[cur]
  <1>1. Here = devs[cur] /\ Here \in DOMAIN machine /\ Here \notin LiveSet
    BY HereIsCurrent, HereIsNotReady DEF DInv, BInv
  <1>2. SoundFunction(F)
    BY <1>1 DEF DInv, CapsInv, F
  <1> QED
    BY <1>1, <1>2 DEF F, LiveSet

(* A cell whose frame has no other use than the table being filled. *)
Apart(c, P) == \A x \in P : x.frame = c[1] => x.use = << Latest, q, "table", 0 >>

(* A queue of another number has its table elsewhere. *)
LEMMA OtherTable ==
    ASSUME NEW P, NEW t, NEW c, Apart(c, P), NEW d \in Nat, NEW n \in Nat,
           PageUse(t, d, n, "table", 0) \in P, d # Latest \/ n # q
    PROVE  \A k : << t, k >> # c
  <1> DEFINE x == PageUse(t, d, n, "table", 0)
  <1>1. x.frame = t /\ x.use = << d, n, "table", 0 >>
    BY DEF PageUse
  <1>2. << d, n, "table", 0 >> # << Latest, q, "table", 0 >>
    OBVIOUS
  <1> QED
    BY <1>1, <1>2 DEF Apart

(* What a step does to memory. *)
Untouched(P) == mem' = mem \/ \E c, v : Wrote(mem, mem', c, v) /\ Apart(c, P)

(* A step that stores only in the pages of the queue being set up keeps    *)
(* every other queue.                                                      *)
LEMMA OtherKept ==
    ASSUME NEW P, NEW P2, P \subseteq P2, Untouched(P),
           NEW Q, NEW ids, NEW d \in Nat, NEW n \in Nat, d # Latest \/ n # q,
           QueueIn(mem, P, Q, ids, d, n)
    PROVE  QueueIn(mem', P2, Q, ids, d, n)
  <1>1. CASE mem' = mem
    BY <1>1, QueueKept
  <1>2. ASSUME NEW c, NEW v, Wrote(mem, mem', c, v), Apart(c, P)
        PROVE  QueueIn(mem', P2, Q, ids, d, n)
    <2>1. \A k : << Q.desc, k >> # c
      BY <1>2, OtherTable DEF QueueIn
    <2> QED
      BY <1>2, <2>1, QueueKept
  <1> QED
    BY <1>1, <1>2 DEF Untouched

(* The devices that are ready stay as they are. *)
LEMMA ReadyKept ==
    ASSUME NEW P, NEW P2, P \subseteq P2, ReadyIn(P), Untouched(P),
           VisitInv, UNCHANGED virtio_devices,
           \A d \in 1 .. Len(virtio_devices) :
             dev'[virtio_devices[d].device] = dev[virtio_devices[d].device]
    PROVE  ReadyIn(P2)'
  <1> SUFFICES ASSUME NEW d \in 1 .. Len(virtio_devices)
               PROVE  LET v == virtio_devices[d]
                          r == dev[v.device]
                      IN
                      /\ r.status = Accepted \cup {"DRIVER_OK"}
                      /\ Len(r.queues) = Len(v.free)
                      /\ \A n \in 1 .. Len(v.free) :
                           QueueIn(mem', P2, r.queues[n], v.free[n], d, n)
    BY DEF ReadyIn
  <1> DEFINE v == virtio_devices[d]
             r == dev[v.device]
  <1>1. Len(virtio_devices) \in Nat
    BY DEF VisitInv
  <1>2. d \in Nat /\ d # Latest
    BY <1>1 DEF Latest
  <1>3. /\ r.status = Accepted \cup {"DRIVER_OK"} /\ Len(r.queues) = Len(v.free)
        /\ \A n \in 1 .. Len(v.free) : QueueIn(mem, P, r.queues[n], v.free[n], d, n)
    BY DEF ReadyIn
  <1>4. ASSUME NEW n \in 1 .. Len(v.free)
        PROVE  QueueIn(mem', P2, r.queues[n], v.free[n], d, n)
    <2>1. n \in Nat
      OBVIOUS
    <2>2. QueueIn(mem, P, r.queues[n], v.free[n], d, n)
      BY <1>3
    <2> HIDE DEF v, r
    <2> QED
      BY <1>2, <2>1, <2>2, OtherKept
  <1> QED
    BY <1>3, <1>4

(* And so do the complete queues of the current one. *)
LEMMA CompleteKept ==
    ASSUME NEW P, NEW P2, P \subseteq P2, Untouched(P), NEW a, q \in Nat, VisitInv,
           \A n \in 1 .. q - 1 : QueueIn(mem, P, dev[a].queues[n], free[n], Latest, n),
           \A n \in 1 .. q - 1 : dev'[a].queues[n] = dev[a].queues[n]
    PROVE  \A n \in 1 .. q - 1 : QueueIn(mem', P2, dev'[a].queues[n], free[n], Latest, n)
  <1>1. Latest \in Nat
    BY DEF Latest, VisitInv
  <1> SUFFICES ASSUME NEW n \in 1 .. q - 1
               PROVE  QueueIn(mem', P2, dev[a].queues[n], free[n], Latest, n)
    OBVIOUS
  <1>2. n \in Nat /\ n # q
    OBVIOUS
  <1>3. QueueIn(mem, P, dev[a].queues[n], free[n], Latest, n)
    OBVIOUS
  <1> QED
    BY <1>1, <1>2, <1>3, OtherKept

-----------------------------------------------------------------------------
(* A queue is being set up. *)
LEMMA Setting ==
    ASSUME DInv, LoopInv, stage \in AllocStages
    PROVE  LET r == dev[devs[cur]] IN
           /\ q \in Nat /\ q \in 1 .. Len(F.sizes) /\ q \in 1 .. Len(r.queues)
           /\ F.sizes[q] \in 1 .. PerPage /\ r.status = Accepted /\ Len(free) = q
           /\ Len(r.queues) = Len(F.sizes) /\ Len(F.sizes) \in Nat
           /\ idesc \in Nat
           /\ stage = "fill" => idesc < F.sizes[q]
           /\ stage \in {"avail", "used"} => idesc = F.sizes[q]
           /\ \A n \in 1 .. q : free[n] = 0 .. F.sizes[n] - 1
  <1> DEFINE r == dev[devs[cur]]
  <1>1. stage \in Visiting /\ stage \in Queueing
    BY DEF Visiting, AllocStages, InitStages, Queueing
  <1>2. F = machine[devs[cur]] /\ SoundFunction(F)
    BY <1>1, Visited
  <1>3. Len(F.sizes) \in Nat /\ \A k \in 1 .. Len(F.sizes) : F.sizes[k] \in 1 .. PerPage
    BY <1>2 DEF SoundFunction
  <1>4. /\ q \in Nat \ {0} /\ idesc \in Nat /\ Len(free) = q /\ q <= Len(F.sizes)
        /\ Len(r.queues) = Len(F.sizes) /\ r.status = Accepted
        /\ \A n \in 1 .. Len(free) : free[n] = 0 .. F.sizes[n] - 1
        /\ stage = "fill" => idesc < F.sizes[q]
        /\ stage \in {"avail", "used"} => idesc = F.sizes[q]
    BY <1>1, <1>2 DEF LoopInv
  <1>5. q \in 1 .. Len(F.sizes)
    BY <1>3, <1>4
  <1> QED
    BY <1>3, <1>4, <1>5

(* The loop variables while a queue is being set up. *)
LEMMA LoopKept ==
    ASSUME LoopInv, stage \in AllocStages, stage' \in AllocStages,
           UNCHANGED << machine, devs, cur, q, free >>, idesc' \in Nat,
           Len(dev'[devs[cur]].queues) = Len(dev[devs[cur]].queues),
           dev'[devs[cur]].status = dev[devs[cur]].status,
           stage' = "fill" => idesc' < machine[devs[cur]].sizes[q],
           stage' \in {"avail", "used"} => idesc' = machine[devs[cur]].sizes[q]
    PROVE  LoopInv'
  <1>1. /\ stage \in Queueing /\ stage' \in Queueing /\ stage' \notin Handshake
        /\ stage' # "acknowledge" /\ stage' # "driver" /\ stage' # "check"
        /\ stage' \notin {"features", "features_ok"} /\ stage' # "select"
    BY DEF Queueing, AllocStages, Handshake
  <1> QED
    BY <1>1 DEF LoopInv

(* What was written stays in its place. *)
LEMMA CellsKept ==
    ASSUME CellsInv, UNCHANGED << machine, devs, cur, virtio_devices >>, q \in Nat,
           \A d \in 1 .. Len(virtio_devices) :
             dev'[virtio_devices[d].device] = dev[virtio_devices[d].device],
           stage' \in Queueing, q' = q \/ q' = q + 1,
           \A n \in 1 .. q - 1 : dev'[devs[cur]].queues[n] = dev[devs[cur]].queues[n],
           stage \in Filled =>
             /\ dev'[devs[cur]].queues[q].desc = dev[devs[cur]].queues[q].desc
             /\ stage' \in Filled \/ q' = q + 1,
           stage = "used" =>
             /\ dev'[devs[cur]].queues[q].driver = dev[devs[cur]].queues[q].driver
             /\ stage' = "used" \/ q' = q + 1,
           \A c \in DOMAIN mem' : c \in DOMAIN mem \/ OwnCell(c)'
    PROVE  CellsInv'
  <1>1. ASSUME NEW c, ReadyCell(c)
        PROVE  ReadyCell(c)'
    BY <1>1 DEF ReadyCell
  <1>2. ASSUME NEW c, OwnCell(c)
        PROVE  OwnCell(c)'
    <2>1. PICK n \in 1 .. q :
            LET Q == dev[devs[cur]].queues[n] IN
            \/ c[1] = Q.desc /\ (n < q \/ stage \in Filled)
            \/ c[1] = Q.driver /\ (n < q \/ stage = "used")
      BY <1>2 DEF OwnCell
    <2>2. n \in 1 .. q'
      OBVIOUS
    <2>3. CASE n < q
      <3>1. n < q' /\ dev'[devs[cur]].queues[n] = dev[devs[cur]].queues[n]
        BY <2>3
      <3> QED
        BY <2>1, <2>2, <3>1 DEF OwnCell
    <2>4. CASE n = q
      <3>1. CASE c[1] = dev[devs[cur]].queues[q].desc /\ stage \in Filled
        BY SMTT(20), <2>2, <2>4, <3>1 DEF OwnCell
      <3>2. CASE c[1] = dev[devs[cur]].queues[q].driver /\ stage = "used"
        BY SMTT(20), <2>2, <2>4, <3>2 DEF OwnCell
      <3> QED
        BY <2>1, <2>4, <3>1, <3>2
    <2> QED
      BY <2>3, <2>4
  <1> QED
    BY <1>1, <1>2 DEF CellsInv

(* A write to the queue being set up leaves the rest alone. *)
LEMMA WriteElsewhere ==
    ASSUME DInv, LoopInv, stage \in AllocStages, Writes(devs[cur], q)
    PROVE  /\ \A n \in 1 .. q - 1 : dev'[devs[cur]].queues[n] = dev[devs[cur]].queues[n]
           /\ \A d \in 1 .. Len(virtio_devices) :
                dev'[virtio_devices[d].device] = dev[virtio_devices[d].device]
  <1>1. stage \in Visiting
    BY DEF AllocStages, Visiting, InitStages
  <1>2. \A d \in 1 .. Len(virtio_devices) : virtio_devices[d].device # devs[cur]
    BY <1>1, Visited
  <1>3. \A d \in 1 .. Len(virtio_devices) : virtio_devices[d].device \in DOMAIN machine
    BY DEF DInv, BInv, VisitInv, ScanInv
  <1>4. \A n \in 1 .. q - 1 : n \in 1 .. Len(dev[devs[cur]].queues) /\ n # q
    BY Setting
  <1> QED
    BY <1>2, <1>3, <1>4 DEF Writes

(* The page of the descriptor table. *)
LEMMA TableStep ==
    ASSUME DInv, SInv, StoreTable, UNCHANGED << vars, pcivars >>
    PROVE  SInv'
  <1> DEFINE a == devs[cur]
  <1>1. /\ stage = "desc" /\ stage' = "fill" /\ asked /\ asked' = FALSE /\ pc = "idle"
        /\ dev' = [dev EXCEPT ![Here].queues[q].desc = Page] /\ idesc' = 0
        /\ UNCHANGED << cur, free, q, mem, virtio_devices, machine, devs >>
    BY DEF StoreTable, UsePage, pcivars
  <1>2. stage \in AllocStages /\ stage' \in AllocStages /\ stage \in Visiting
    BY <1>1 DEF AllocStages, Visiting, InitStages
  <1>3. /\ Here = a /\ a \in DOMAIN machine /\ F = machine[a]
        /\ \A d \in 1 .. Len(virtio_devices) : virtio_devices[d].device # a
    BY <1>2, Visited
  <1>4. /\ q \in Nat /\ q \in 1 .. Len(dev[a].queues) /\ F.sizes[q] \in 1 .. PerPage
        /\ \A n \in 1 .. q - 1 : n \in 1 .. Len(dev[a].queues) /\ n # q
    BY <1>2, Setting DEF SInv
  <1>5. PICK P : PagesInv(P) /\ ReadyIn(P) /\ CurrentIn(P)
    BY DEF SInv, QueuesInv
  <1>6. IInv /\ VisitInv
    BY DEF DInv, BInv
  <1>7. Page \in Nat
    BY <1>1, <1>5, <1>6, NewPage DEF SInv
  <1>8. Writes(a, q) /\ dev'[a].queues[q].desc = Page
    <2>1. SetsDesc(a, q, Page)
      BY <1>1, <1>3 DEF SetsDesc
    <2>2. /\ DevInv /\ a \in DOMAIN machine /\ UNCHANGED machine
          /\ q \in 1 .. Len(dev[a].queues) /\ Page \in Nat
      BY <1>1, <1>3, <1>4, <1>7 DEF SInv
    <2> QED
      BY <2>1, <2>2, TableWritten
  <1>9. /\ \A n \in 1 .. q - 1 : dev'[a].queues[n] = dev[a].queues[n]
        /\ \A d \in 1 .. Len(virtio_devices) :
             dev'[virtio_devices[d].device] = dev[virtio_devices[d].device]
    BY <1>2, <1>8, WriteElsewhere DEF SInv
  <1>10. LoopInv'
    BY <1>1, <1>2, <1>3, <1>4, <1>8, LoopKept DEF SInv, Writes
  <1>11. CellsInv'
    BY <1>1, <1>4, <1>9, CellsKept DEF SInv, Queueing, AllocStages, Filled
  <1> DEFINE x  == PageUse(Page, Latest, q, "table", 0)
  <1> PICK P2 : P2 = P \cup {x}
    OBVIOUS
  <1>12. PagesInv(P2)'
    BY <1>1, <1>5, <1>6, PageAdded DEF SInv, PageUse
  <1>13. Untouched(P) /\ P \subseteq P2 /\ x \in P2
    BY <1>1 DEF Untouched
  <1> HIDE DEF x
  <1>14. ReadyIn(P2)'
    BY <1>1, <1>5, <1>6, <1>9, <1>13, ReadyKept
  <1>15. CurrentIn(P2)'
    <2>1. \A n \in 1 .. q - 1 : QueueIn(mem, P, dev[a].queues[n], free[n], Latest, n)
      BY <1>2, <1>5 DEF CurrentIn, Queueing
    <2>2. \A n \in 1 .. q - 1 : QueueIn(mem', P2, dev'[a].queues[n], free[n], Latest, n)
      BY <1>4, <1>6, <1>9, <1>13, <2>1, CompleteKept
    <2>3. BuffersIn(mem', P2, dev'[a].queues[q].desc, 0 .. 0 - 1, Latest, q)
      BY DEF BuffersIn
    <2>4. PageUse(dev'[a].queues[q].desc, Latest, q, "table", 0) \in P2
      BY <1>8, <1>13 DEF x
    <2>5. Latest' = Latest
      BY <1>1 DEF Latest
    <2> QED
      BY <1>1, <2>2, <2>3, <2>4, <2>5 DEF CurrentIn
  <1>16. QueuesInv'
    BY <1>12, <1>14, <1>15 DEF QueuesInv
  <1>17. AskInv'
    BY <1>1 DEF AskInv
  <1> QED
    BY <1>8, <1>10, <1>11, <1>16, <1>17 DEF SInv, Writes

(* The first descriptors of a table are in its first page. *)
LEMMA FirstPage ==
    ASSUME NEW x \in Nat, NEW y \in Nat, x < y
    PROVE  x \div y = 0 /\ x % y = x
  OBVIOUS

(* The page of a buffer, which its descriptor names. *)
LEMMA BufferStep ==
    ASSUME DInv, SInv, FillDesc, UNCHANGED << vars, pcivars >>
    PROVE  SInv'
  <1> DEFINE a == devs[cur]
  <1>1. /\ stage = "fill" /\ stage' = IF idesc + 1 = F.sizes[q] THEN "avail" ELSE "fill"
        /\ asked /\ asked' = FALSE /\ pc = "idle"
        /\ Store(<< dev[Here].queues[q].desc + (idesc \div PerPage), idesc % PerPage >>,
                 << "buffer", Page >>)
        /\ idesc' = idesc + 1
        /\ UNCHANGED << cur, free, q, dev, virtio_devices, machine, devs >>
    BY DEF FillDesc, UsePage, pcivars
  <1>2. stage \in AllocStages /\ stage \in Filled /\ stage \in Visiting
    BY <1>1 DEF AllocStages, Filled, Visiting, InitStages
  <1>3. Here = a /\ a \in DOMAIN machine /\ F = machine[a]
    BY <1>2, Visited
  <1>4. /\ q \in Nat /\ q \in 1 .. Len(dev[a].queues) /\ F.sizes[q] \in 1 .. PerPage
        /\ q \in 1 .. Len(F.sizes) /\ Len(F.sizes) \in Nat
        /\ Len(dev[a].queues) = Len(F.sizes) /\ Len(free) = q
        /\ idesc \in Nat /\ free[q] = 0 .. F.sizes[q] - 1
        /\ stage = "fill" => idesc < F.sizes[q]
        /\ stage \in {"avail", "used"} => idesc = F.sizes[q]
    BY <1>2, Setting DEF SInv
  <1>5. PICK P : PagesInv(P) /\ ReadyIn(P) /\ CurrentIn(P)
    BY DEF SInv, QueuesInv
  <1>6. IInv /\ VisitInv
    BY DEF DInv, BInv
  <1>7. Page \in Nat /\ \A y \in P : y.frame # Page
    BY <1>1, <1>5, <1>6, NewPage DEF SInv
  <1>8. Writes(a, q)
    BY <1>1, <1>3 DEF Writes, SInv, DevInv
  <1>9. /\ \A n \in 1 .. q - 1 : dev'[a].queues[n] = dev[a].queues[n]
        /\ \A d \in 1 .. Len(virtio_devices) :
             dev'[virtio_devices[d].device] = dev[virtio_devices[d].device]
    BY <1>2, <1>8, WriteElsewhere DEF SInv
  <1> DEFINE table == dev[a].queues[q].desc
  <1>10. /\ PageUse(table, Latest, q, "table", 0) \in P
         /\ BuffersIn(mem, P, table, 0 .. idesc - 1, Latest, q)
         /\ \A n \in 1 .. q - 1 : QueueIn(mem, P, dev[a].queues[n], free[n], Latest, n)
         /\ stage = "used" => PageUse(dev[a].queues[q].driver, Latest, q, "avail", 0) \in P
    BY <1>2, <1>5 DEF CurrentIn, Queueing
  <1> PICK c : c = << table, idesc >>
    OBVIOUS
  <1>11. Wrote(mem, mem', c, << "buffer", Page >>)
    <2>1. idesc \div PerPage = 0 /\ idesc % PerPage = idesc
      <3>1. idesc < PerPage /\ PerPage \in Nat
        BY <1>1, <1>4, PerPageAssumption
      <3> QED
        BY <1>4, <3>1, FirstPage
    <2>2. table \in Nat
      <3>1. dev[a].queues \in Seq(Queues)
        BY <1>3 DEF SInv, DevInv, Devices
      <3>2. dev[a].queues[q] \in Queues
        BY <1>4, <3>1, ElementOfSeq
      <3> QED
        BY <3>2 DEF Queues
    <2>3. table + (idesc \div PerPage) = table
      BY <2>1, <2>2
    <2>4. Store(c, << "buffer", Page >>)
      BY <1>1, <1>3, <2>1, <2>3
    <2> QED
      BY <2>4, CellWritten
  <1>22. Apart(c, P)
    <2>1. \A y \in P : y.frame = table => y.use = << Latest, q, "table", 0 >>
      BY <1>5, <1>10 DEF PagesInv, PageUse
    <2> QED
      BY <2>1 DEF Apart
  <1>12. LoopInv'
    BY <1>1, <1>2, <1>3, <1>4, <1>8, LoopKept DEF SInv, Writes, AllocStages
  <1>13. CellsInv'
    <2>1. OwnCell(c)'
      BY SMTT(20), <1>1, <1>3, <1>4 DEF OwnCell, Queueing, AllocStages, Filled
    <2>2. \A e \in DOMAIN mem' : e \in DOMAIN mem \/ OwnCell(e)'
      BY <1>11, <2>1 DEF Wrote
    <2> QED
      BY <1>1, <1>4, <1>9, <2>2, CellsKept DEF SInv, Queueing, AllocStages, Filled
  <1> DEFINE x  == PageUse(Page, Latest, q, "buffer", idesc)
  <1> PICK P2 : P2 = P \cup {x}
    OBVIOUS
  <1>14. PagesInv(P2)'
    BY <1>1, <1>5, <1>6, PageAdded DEF SInv, PageUse
  <1>15. Untouched(P) /\ P \subseteq P2 /\ x \in P2
    BY <1>11, <1>22 DEF Untouched
  <1>16. ReadyIn(P2)'
    BY <1>1, <1>5, <1>6, <1>9, <1>15, ReadyKept
  <1>17. \A n \in 1 .. q - 1 : QueueIn(mem', P2, dev'[a].queues[n], free[n], Latest, n)
    BY <1>4, <1>6, <1>9, <1>10, <1>15, CompleteKept
  <1>18. Latest' = Latest
    BY <1>1 DEF Latest
  <1>19. CurrentIn(P2)'
    <2>1. BuffersIn(mem', P2, table, 0 .. idesc + 1 - 1, Latest, q)
      <3>1. BuffersIn(mem', P2, table, 0 .. idesc - 1, Latest, q)
        <4>1. \A k \in 0 .. idesc - 1 : << table, k >> # c
          BY <1>4
        <4> HIDE DEF table
        <4> QED
          BY <1>10, <1>11, <1>15, <4>1 DEF BuffersIn, Wrote
      <3>2. /\ c \in DOMAIN mem' /\ mem'[c][1] = "buffer"
            /\ PageUse(mem'[c][2], Latest, q, "buffer", idesc) \in P2
        BY SMTT(20), <1>11, <1>15 DEF Wrote
      <3>3. \A k \in 0 .. idesc + 1 - 1 : k \in 0 .. idesc - 1 \/ k = idesc
        BY <1>4
      <3> HIDE DEF table
      <3> QED
        BY <3>1, <3>2, <3>3 DEF BuffersIn
    <2>2. PageUse(table, Latest, q, "table", 0) \in P2
      BY <1>10, <1>15
    <2>3. stage' # "used"
      BY <1>1
    <2>4. BuffersIn(mem', P2, dev'[a].queues[q].desc, 0 .. idesc' - 1, Latest, q)
      <3>1. dev' = dev /\ idesc' = idesc + 1
        BY <1>1
      <3>2. \A k \in 0 .. idesc' - 1 : k \in 0 .. idesc + 1 - 1
        BY <1>4, <3>1
      <3> QED
        BY <2>1, <3>1, <3>2 DEF BuffersIn
    <2>5. PageUse(dev'[a].queues[q].desc, Latest, q, "table", 0) \in P2
      BY <1>1, <2>2
    <2>6. UNCHANGED << devs, cur, q, free, Latest >>
      BY <1>1, <1>18
    <2> QED
      BY <1>17, <2>3, <2>4, <2>5, <2>6 DEF CurrentIn
  <1>20. QueuesInv'
    BY <1>14, <1>16, <1>19 DEF QueuesInv
  <1>21. AskInv'
    BY <1>1 DEF AskInv
  <1> QED
    BY <1>8, <1>12, <1>13, <1>20, <1>21 DEF SInv, Writes

(* The page of the driver's ring. *)
LEMMA AvailStep ==
    ASSUME DInv, SInv, StoreAvail, UNCHANGED << vars, pcivars >>
    PROVE  SInv'
  <1> DEFINE a == devs[cur]
  <1>1. /\ stage = "avail" /\ stage' = "used"
        /\ asked /\ asked' = FALSE /\ pc = "idle"
        /\ dev' = [dev EXCEPT ![Here].queues[q].driver = Page]
        /\ Store(<< Page, 0 >>, << "no interrupt", 0 >>)
        /\ UNCHANGED << cur, free, q, idesc, virtio_devices, machine, devs >>
    BY DEF StoreAvail, UsePage, pcivars
  <1>2. stage \in AllocStages /\ stage \in Filled /\ stage \in Visiting
    BY <1>1 DEF AllocStages, Filled, Visiting, InitStages
  <1>3. Here = a /\ a \in DOMAIN machine /\ F = machine[a]
    BY <1>2, Visited
  <1>4. /\ q \in Nat /\ q \in 1 .. Len(dev[a].queues) /\ F.sizes[q] \in 1 .. PerPage
        /\ q \in 1 .. Len(F.sizes) /\ Len(F.sizes) \in Nat
        /\ Len(dev[a].queues) = Len(F.sizes) /\ Len(free) = q
        /\ idesc \in Nat /\ free[q] = 0 .. F.sizes[q] - 1
        /\ stage = "fill" => idesc < F.sizes[q]
        /\ stage \in {"avail", "used"} => idesc = F.sizes[q]
    BY <1>2, Setting DEF SInv
  <1>5. PICK P : PagesInv(P) /\ ReadyIn(P) /\ CurrentIn(P)
    BY DEF SInv, QueuesInv
  <1>6. IInv /\ VisitInv
    BY DEF DInv, BInv
  <1>7. Page \in Nat /\ \A y \in P : y.frame # Page
    BY <1>1, <1>5, <1>6, NewPage DEF SInv
  <1>8. /\ Writes(a, q) /\ dev'[a].queues[q].driver = Page
        /\ dev'[a].queues[q].desc = dev[a].queues[q].desc
    <2>1. SetsDriver(a, q, Page)
      BY <1>1, <1>3 DEF SetsDriver
    <2>2. /\ DevInv /\ a \in DOMAIN machine /\ UNCHANGED machine
          /\ q \in 1 .. Len(dev[a].queues) /\ Page \in Nat
      BY <1>1, <1>3, <1>4, <1>7 DEF SInv
    <2> QED
      BY <2>1, <2>2, AvailWritten
  <1>9. /\ \A n \in 1 .. q - 1 : dev'[a].queues[n] = dev[a].queues[n]
        /\ \A d \in 1 .. Len(virtio_devices) :
             dev'[virtio_devices[d].device] = dev[virtio_devices[d].device]
    BY <1>2, <1>8, WriteElsewhere DEF SInv
  <1> DEFINE table == dev[a].queues[q].desc
  <1>10. /\ PageUse(table, Latest, q, "table", 0) \in P
         /\ BuffersIn(mem, P, table, 0 .. idesc - 1, Latest, q)
         /\ \A n \in 1 .. q - 1 : QueueIn(mem, P, dev[a].queues[n], free[n], Latest, n)
         /\ stage = "used" => PageUse(dev[a].queues[q].driver, Latest, q, "avail", 0) \in P
    BY <1>2, <1>5 DEF CurrentIn, Queueing
  <1> PICK c : c = << Page, 0 >>
    OBVIOUS
  <1>11. Wrote(mem, mem', c, << "no interrupt", 0 >>)
    BY <1>1, CellWritten
  <1>22. Apart(c, P)
    BY <1>7 DEF Apart
  <1>12. LoopInv'
    BY <1>1, <1>2, <1>3, <1>4, <1>8, LoopKept DEF SInv, Writes, AllocStages
  <1>13. CellsInv'
    <2>1. OwnCell(c)'
      <3>1. c[1] = dev'[devs'[cur']].queues[q'].driver
        <4>1. devs' = devs /\ cur' = cur /\ q' = q
          BY <1>1
        <4>2. c[1] = Page
          OBVIOUS
        <4> QED
          BY <1>8, <4>1, <4>2
      <3>2. stage' = "used" /\ stage' \in Queueing /\ q' = q
        BY <1>1 DEF Queueing, AllocStages
      <3>3. q' \in 1 .. q'
        BY <1>4, <3>2
      <3> QED
        BY <3>1, <3>2, <3>3 DEF OwnCell
    <2>2. \A e \in DOMAIN mem' : e \in DOMAIN mem \/ OwnCell(e)'
      BY <1>11, <2>1 DEF Wrote
    <2> QED
      BY <1>1, <1>4, <1>8, <1>9, <2>2, CellsKept DEF SInv, Queueing, AllocStages, Filled
  <1> DEFINE x  == PageUse(Page, Latest, q, "avail", 0)
  <1> PICK P2 : P2 = P \cup {x}
    OBVIOUS
  <1>14. PagesInv(P2)'
    BY <1>1, <1>5, <1>6, PageAdded DEF SInv, PageUse
  <1>15. Untouched(P) /\ P \subseteq P2 /\ x \in P2
    BY <1>11, <1>22 DEF Untouched
  <1>16. ReadyIn(P2)'
    BY <1>1, <1>5, <1>6, <1>9, <1>15, ReadyKept
  <1>17. \A n \in 1 .. q - 1 : QueueIn(mem', P2, dev'[a].queues[n], free[n], Latest, n)
    BY <1>4, <1>6, <1>9, <1>10, <1>15, CompleteKept
  <1>18. Latest' = Latest
    BY <1>1 DEF Latest
  <1>19. CurrentIn(P2)'
    <2>1. BuffersIn(mem', P2, table, 0 .. idesc - 1, Latest, q)
      <3>1. table # Page
        BY <1>7, <1>10 DEF PageUse
      <3>2. \A k \in 0 .. idesc - 1 : << table, k >> # c
        BY <3>1
      <3> HIDE DEF table
      <3> QED
        BY <1>10, <1>11, <1>15, <3>2 DEF BuffersIn, Wrote
    <2>2. PageUse(table, Latest, q, "table", 0) \in P2
      BY <1>10, <1>15
    <2> QED
      BY <1>1, <1>8, <1>15, <1>17, <1>18, <2>1, <2>2 DEF CurrentIn
  <1>20. QueuesInv'
    BY <1>14, <1>16, <1>19 DEF QueuesInv
  <1>21. AskInv'
    BY <1>1 DEF AskInv
  <1> QED
    BY <1>8, <1>12, <1>13, <1>20, <1>21 DEF SInv, Writes

(* The page of the device's ring: the queue is complete. *)
LEMMA UsedStep ==
    ASSUME DInv, SInv, StoreUsed, UNCHANGED << vars, pcivars >>
    PROVE  SInv'
  <1> DEFINE a == devs[cur]
  <1>1. /\ stage = "used" /\ stage' = "select"
        /\ asked /\ asked' = FALSE /\ pc = "idle"
        /\ dev' = [dev EXCEPT ![Here].queues[q] =
                      [@ EXCEPT !.device = Page, !.enable = TRUE]]
        /\ q' = q + 1
        /\ UNCHANGED << cur, free, idesc, mem, virtio_devices, machine, devs >>
    BY DEF StoreUsed, UsePage, pcivars
  <1>2. stage \in AllocStages /\ stage \in Filled /\ stage \in Visiting
    BY <1>1 DEF AllocStages, Filled, Visiting, InitStages
  <1>3. Here = a /\ a \in DOMAIN machine /\ F = machine[a]
    BY <1>2, Visited
  <1>4. /\ q \in Nat /\ q \in 1 .. Len(dev[a].queues) /\ F.sizes[q] \in 1 .. PerPage
        /\ q \in 1 .. Len(F.sizes) /\ Len(F.sizes) \in Nat
        /\ Len(dev[a].queues) = Len(F.sizes) /\ Len(free) = q
        /\ idesc \in Nat /\ free[q] = 0 .. F.sizes[q] - 1
        /\ stage = "fill" => idesc < F.sizes[q]
        /\ stage \in {"avail", "used"} => idesc = F.sizes[q]
    BY <1>2, Setting DEF SInv
  <1>5. PICK P : PagesInv(P) /\ ReadyIn(P) /\ CurrentIn(P)
    BY DEF SInv, QueuesInv
  <1>6. IInv /\ VisitInv
    BY DEF DInv, BInv
  <1>7. Page \in Nat /\ \A y \in P : y.frame # Page
    BY <1>1, <1>5, <1>6, NewPage DEF SInv
  <1>8. /\ Writes(a, q) /\ dev'[a].queues[q].device = Page
        /\ dev'[a].queues[q].desc = dev[a].queues[q].desc
        /\ dev'[a].queues[q].driver = dev[a].queues[q].driver
        /\ dev'[a].queues[q].enable
    <2>1. SetsDevice(a, q, Page)
      BY <1>1, <1>3 DEF SetsDevice
    <2>2. /\ DevInv /\ a \in DOMAIN machine /\ UNCHANGED machine
          /\ q \in 1 .. Len(dev[a].queues) /\ Page \in Nat
      BY <1>1, <1>3, <1>4, <1>7 DEF SInv
    <2> QED
      BY <2>1, <2>2, UsedWritten
  <1>9. /\ \A n \in 1 .. q - 1 : dev'[a].queues[n] = dev[a].queues[n]
        /\ \A d \in 1 .. Len(virtio_devices) :
             dev'[virtio_devices[d].device] = dev[virtio_devices[d].device]
    BY <1>2, <1>8, WriteElsewhere DEF SInv
  <1> DEFINE table == dev[a].queues[q].desc
  <1>10. /\ PageUse(table, Latest, q, "table", 0) \in P
         /\ BuffersIn(mem, P, table, 0 .. idesc - 1, Latest, q)
         /\ \A n \in 1 .. q - 1 : QueueIn(mem, P, dev[a].queues[n], free[n], Latest, n)
         /\ stage = "used" => PageUse(dev[a].queues[q].driver, Latest, q, "avail", 0) \in P
    BY <1>2, <1>5 DEF CurrentIn, Queueing
  <1>11. q' - 1 = q
    BY <1>1, <1>4
  <1>12. LoopInv'
    <2>1. /\ stage' \notin Handshake /\ stage' \in Queueing /\ stage' \notin AllocStages
          /\ stage' # "acknowledge" /\ stage' # "driver" /\ stage' # "check"
          /\ stage' \notin {"features", "features_ok"} /\ stage' # "fill"
          /\ stage' \notin {"avail", "used"} /\ stage \in Queueing
      BY <1>1 DEF Handshake, Queueing, AllocStages
    <2>2. /\ q' \in Nat \ {0} /\ q' <= Len(F.sizes) + 1 /\ Len(free) = q' - 1
      BY <1>1, <1>4
    <2>3. /\ free \in Seq(SUBSET Nat) /\ dev[a].status = Accepted
          /\ \A n \in 1 .. Len(free) : free[n] = 0 .. machine[a].sizes[n] - 1
      BY <2>1 DEF SInv, LoopInv
    <2> QED
      BY <1>1, <1>3, <1>4, <1>8, <2>1, <2>2, <2>3 DEF LoopInv, Writes
  <1>13. CellsInv'
    BY <1>1, <1>4, <1>8, <1>9, CellsKept DEF SInv, Queueing, AllocStages, Filled
  <1> DEFINE x  == PageUse(Page, Latest, q, "used", 0)
  <1> PICK P2 : P2 = P \cup {x}
    OBVIOUS
  <1>14. PagesInv(P2)'
    BY <1>1, <1>5, <1>6, PageAdded DEF SInv, PageUse
  <1>15. Untouched(P) /\ P \subseteq P2 /\ x \in P2
    BY <1>1 DEF Untouched
  <1>16. ReadyIn(P2)'
    BY <1>1, <1>5, <1>6, <1>9, <1>15, ReadyKept
  <1>17. \A n \in 1 .. q - 1 : QueueIn(mem', P2, dev'[a].queues[n], free[n], Latest, n)
    BY <1>4, <1>6, <1>9, <1>10, <1>15, CompleteKept
  <1>18. Latest' = Latest
    BY <1>1 DEF Latest
  <1>19. CurrentIn(P2)'
    <2>1. BuffersIn(mem', P2, table, free[q], Latest, q)
      <3>1. free[q] = 0 .. idesc - 1
        BY <1>1, <1>4
      <3> HIDE DEF table
      <3> QED
        BY <1>1, <1>10, <1>15, <3>1 DEF BuffersIn
    <2>2. QueueIn(mem', P2, dev'[a].queues[q], free[q], Latest, q)
      BY <1>1, <1>8, <1>10, <1>15, <2>1 DEF QueueIn
    <2>3. \A n \in 1 .. q' - 1 : n \in 1 .. q - 1 \/ n = q
      BY <1>4, <1>11
    <2>4. \A n \in 1 .. q' - 1 : QueueIn(mem', P2, dev'[a].queues[n], free[n], Latest, n)
      BY <1>17, <2>2, <2>3
    <2> QED
      BY <1>1, <1>18, <2>4 DEF CurrentIn, Filled
  <1>20. QueuesInv'
    BY <1>14, <1>16, <1>19 DEF QueuesInv
  <1>21. AskInv'
    BY <1>1 DEF AskInv
  <1> QED
    BY <1>8, <1>12, <1>13, <1>20, <1>21 DEF SInv, Writes

(* The next queue is selected. *)
LEMMA SelectStep ==
    ASSUME DInv, SInv, SelectQueue, UNCHANGED << vars, pcivars >>
    PROVE  SInv'
  <1> DEFINE a == devs[cur]
             new == 0 .. F.sizes[q] - 1
  <1>1. /\ stage = "select" /\ stage' = "desc" /\ q <= Len(F.sizes)
        /\ free' = Append(free, new)
        /\ UNCHANGED << cur, q, idesc, asked, dev, mem, virtio_devices, machine, devs >>
    BY DEF SelectQueue, pcivars, devicevars
  <1>2. /\ stage \in Visiting /\ stage \in Queueing /\ stage' \in Queueing
        /\ stage' \in AllocStages /\ stage \notin AllocStages /\ stage \notin Filled
        /\ stage' \notin Filled
    BY <1>1 DEF AllocStages, Visiting, InitStages, Queueing, Filled
  <1>3. F = machine[a] /\ Len(F.sizes) \in Nat /\ F.sizes[q] \in Nat
    <2>1. F = machine[a] /\ SoundFunction(F)
      BY <1>2, Visited
    <2>2. q \in 1 .. Len(F.sizes) /\ Len(F.sizes) \in Nat
      BY <1>1, <2>1 DEF SInv, LoopInv, SoundFunction
    <2>3. F.sizes[q] \in 1 .. PerPage
      BY <2>1, <2>2 DEF SoundFunction
    <2> QED
      BY <2>1, <2>2, <2>3
  <1>4. /\ q \in Nat \ {0} /\ free \in Seq(SUBSET Nat) /\ Len(free) = q - 1
        /\ \A n \in 1 .. Len(free) : free[n] = 0 .. F.sizes[n] - 1
    BY <1>1, <1>2, <1>3 DEF SInv, LoopInv
  <1>5. /\ free' \in Seq(SUBSET Nat) /\ Len(free') = q /\ free'[q] = new
        /\ \A n \in 1 .. q - 1 : free'[n] = free[n]
    <2>1. new \in SUBSET Nat
      BY <1>3
    <2> HIDE DEF new
    <2> QED
      BY <1>1, <1>4, <2>1
  <1>6. LoopInv'
    <2>1. /\ stage' \notin Handshake /\ stage' # "select"
          /\ stage' # "acknowledge" /\ stage' # "driver" /\ stage' # "check"
          /\ stage' \notin {"features", "features_ok"} /\ stage' # "fill"
          /\ stage' \notin {"avail", "used"}
      BY <1>1 DEF Handshake
    <2>2. \A n \in 1 .. Len(free') : free'[n] = 0 .. machine[a].sizes[n] - 1
      BY <1>3, <1>4, <1>5
    <2>3. /\ idesc \in Nat /\ Len(dev[a].queues) = Len(machine[a].sizes)
          /\ dev[a].status = Accepted /\ q <= Len(machine[a].sizes) + 1
      BY <1>2 DEF SInv, LoopInv
    <2> QED
      BY <1>1, <1>2, <1>3, <1>4, <1>5, <2>1, <2>2, <2>3 DEF LoopInv
  <1>7. CellsInv'
    BY <1>1, <1>2, <1>4, CellsKept DEF SInv, Filled
  <1>8. PICK P : PagesInv(P) /\ ReadyIn(P) /\ CurrentIn(P)
    BY DEF SInv, QueuesInv
  <1>9. PagesInv(P)'
    BY <1>1, <1>8 DEF PagesInv, vars
  <1>10. ReadyIn(P)'
    BY <1>1, <1>8 DEF ReadyIn
  <1>11. CurrentIn(P)'
    <2>1. \A n \in 1 .. q - 1 : QueueIn(mem, P, dev[a].queues[n], free'[n], Latest, n)
      BY <1>2, <1>5, <1>8 DEF CurrentIn
    <2>2. UNCHANGED << dev, devs, cur, mem, q, Latest >> /\ stage' # "used"
      BY <1>1 DEF Latest
    <2> QED
      BY <1>2, <2>1, <2>2 DEF CurrentIn
  <1>12. AskInv'
    BY <1>1, <1>2 DEF SInv, AskInv
  <1>13. DevInv'
    BY <1>1 DEF SInv, DevInv
  <1> QED
    BY <1>6, <1>7, <1>9, <1>10, <1>11, <1>12, <1>13 DEF SInv, QueuesInv

(* Steps that concern frames only. *)
LEMMA FramesOnly ==
    ASSUME DInv, SInv, [Next]_vars, AskInv', asked' => asked \/ op' = op + 1,
           UNCHANGED << stage, cur, q, idesc, free, dev, mem, virtio_devices,
                        machine, devs >>
    PROVE  SInv'
  <1>1. DevInv' /\ LoopInv' /\ CellsInv'
    BY SMTT(20) DEF SInv, DevInv, LoopInv, CellsInv, ReadyCell, OwnCell
  <1>2. PICK P : PagesInv(P) /\ ReadyIn(P) /\ CurrentIn(P)
    BY DEF SInv, QueuesInv
  <1>3. PagesInv(P)'
    BY <1>2, PagesKept DEF DInv, BInv
  <1>4. ReadyIn(P)' /\ CurrentIn(P)'
    BY <1>2 DEF ReadyIn, CurrentIn, Latest
  <1> QED
    BY <1>1, <1>3, <1>4 DEF SInv, QueuesInv

(* A page is asked for. *)
LEMMA AskStep ==
    ASSUME DInv, SInv, AskPage, UNCHANGED pcivars, [Next]_vars
    PROVE  SInv'
  <1>1. /\ stage \in AllocStages /\ asked' = TRUE /\ op' = op + 1 /\ pc' = "collect"
        /\ block' = [op |-> op + 1, identity |-> TRUE, pages |-> 1, first |-> 0]
        /\ UNCHANGED << stage, cur, q, idesc, free, dev, mem, virtio_devices,
                        machine, devs >>
    BY DEF AskPage, Begin, pcivars, devicevars
  <1>2. AskInv'
    BY <1>1 DEF AskInv
  <1> QED
    BY <1>1, <1>2, FramesOnly

(* The operation that provides it. *)
LEMMA AllocateStep ==
    ASSUME DInv, SInv, Allocate, [Next]_vars
    PROVE  SInv'
  <1>1. UNCHANGED << stage, cur, q, idesc, free, dev, mem, virtio_devices,
                     machine, devs, asked >>
    BY DEF Allocate, pcivars, initvars, devicevars
  <1>2. ASSUME asked
        PROVE  /\ block'.op = op' /\ block'.pages = 1 /\ block'.identity
               /\ pc' = "idle" => block' \in blocks' /\ block'.first \in mapped'
    <2>1. block.op = op /\ block.pages = 1 /\ block.identity
      BY <1>2 DEF SInv, AskInv
    <2>2. OpTypes /\ block.first \in Nat /\ i \in Nat
      BY OpFacts DEF DInv, BInv, IInv
    <2>3. ASSUME NEW f, Collect(f)
          PROVE  /\ pc' # "idle" /\ op' = op /\ block'.op = block.op
                 /\ block'.pages = block.pages /\ block'.identity = block.identity
      <3>1. block' = [block EXCEPT !.first = f] \/ block' = block
        BY <2>3 DEF Collect, Panic
      <3>2. pc' # "idle" /\ op' = op
        BY <2>3 DEF Collect, Panic
      <3> QED
        BY <2>2, <3>1, <3>2 DEF OpTypes, Blocks
    <2>4. ASSUME NEW f, MapTable(f)
          PROVE  pc' # "idle" /\ op' = op /\ block' = block
      BY <2>4 DEF MapTable
    <2>5. ASSUME MapPage
          PROVE  /\ op' = op /\ block' = block
                 /\ pc' = "idle" => block \in blocks' /\ block.first \in mapped'
      <3>1. /\ op' = op /\ block' = block
            /\ pc' = "idle" => /\ i + 1 = block.pages /\ blocks' = blocks \cup {block}
                               /\ mapped' = mapped \cup {block.first + i}
        BY <2>1, <2>5 DEF MapPage, Panic
      <3>2. i + 1 = 1 => block.first + i = block.first
        BY <2>2
      <3> QED
        BY <2>1, <3>1, <3>2
    <2>6. ASSUME Exhausted
          PROVE  pc' # "idle" /\ op' = op /\ block' = block
      BY <2>6 DEF Exhausted, Panic
    <2>7. (\E f : Collect(f)) \/ (\E f : MapTable(f)) \/ MapPage \/ Exhausted
      BY DEF Allocate
    <2> QED
      BY <2>1, <2>3, <2>4, <2>5, <2>6, <2>7
  <1>3. AskInv'
    BY <1>1, <1>2 DEF SInv, AskInv
  <1> QED
    BY <1>1, <1>3, FramesOnly

(* Steps outside the set-up of queues. *)
LEMMA OutsideStep ==
    ASSUME DInv, SInv, [Next]_vars, UNCHANGED << machine, mem, virtio_devices, asked >>,
           stage \notin Queueing,
           stage' \notin Queueing \/ (stage' = "select" /\ q' = 1),
           \A d \in 1 .. Len(virtio_devices) :
             dev'[virtio_devices[d].device] = dev[virtio_devices[d].device],
           DevInv', LoopInv'
    PROVE  SInv'
  <1>1. VisitInv /\ IInv
    BY DEF DInv, BInv
  <1>2. ~asked /\ asked' = FALSE
    BY DEF SInv, AskInv, Queueing
  <1>3. AskInv'
    BY <1>2 DEF AskInv
  <1>4. CellsInv'
    BY DEF SInv, CellsInv, OwnCell, ReadyCell
  <1>5. PICK P : PagesInv(P) /\ ReadyIn(P)
    BY DEF SInv, QueuesInv
  <1>6. PagesInv(P)'
    BY <1>1, <1>2, <1>5, PagesKept
  <1>7. ReadyIn(P)'
    BY <1>5 DEF ReadyIn
  <1>8. CurrentIn(P)'
    BY DEF CurrentIn, Queueing, AllocStages, Filled
  <1> QED
    BY <1>3, <1>4, <1>6, <1>7, <1>8 DEF SInv, QueuesInv

(* Outside the handshake and the queues, the loop variables are idle. *)
LEMMA LoopIdle ==
    ASSUME LoopInv, stage' \notin Handshake \cup Queueing, UNCHANGED << q, idesc, free >>
    PROVE  LoopInv'
  BY DEF LoopInv, Handshake, Queueing, AllocStages

(* The status register in the handshake. *)
LEMMA StatusStep ==
    ASSUME DInv, SInv, UNCHANGED << vars, pcivars >>,
           Acknowledge \/ Driver \/ FeaturesOk \/ FeaturesRefused
    PROVE  SInv'
  <1> DEFINE a == devs[cur]
  <1>1. PICK bits \in {{"ACKNOWLEDGE"}, {"DRIVER"}, {"FEATURES_OK"}, {}} :
          /\ dev' = [dev EXCEPT ![Here].status = @ \cup bits]
          /\ \/ stage = "acknowledge" /\ bits = {"ACKNOWLEDGE"} /\ stage' = "driver"
             \/ stage = "driver" /\ bits = {"DRIVER"} /\ stage' = "features"
             \/ /\ stage = "features_ok" /\ stage' = "check"
                /\ bits \in {{"FEATURES_OK"}, {}}
    BY DEF Acknowledge, Driver, FeaturesOk, FeaturesRefused, WriteStatus
  <1>2. UNCHANGED << machine, devs, cur, q, idesc, asked, free, mem, virtio_devices >>
    BY DEF Acknowledge, Driver, FeaturesOk, FeaturesRefused, WriteStatus, pcivars
  <1>3. /\ stage \in Visiting /\ stage \in Handshake /\ stage' \in Handshake
        /\ stage \notin Queueing /\ stage' \notin Queueing
    BY <1>1 DEF Visiting, InitStages, AllocStages, Handshake, Queueing
  <1>4. /\ Here = a /\ a \in DOMAIN machine
        /\ \A d \in 1 .. Len(virtio_devices) : virtio_devices[d].device # a
    BY <1>3, Visited
  <1>5. /\ DevInv' /\ dev'[a].status = dev[a].status \cup bits
        /\ dev'[a].queues = dev[a].queues
        /\ \A b \in DOMAIN machine : b # a => dev'[b] = dev[b]
    <2>1. bits \in SUBSET (Accepted \cup {"DRIVER_OK"})
      BY DEF Accepted
    <2>2. DevInv
      BY DEF SInv
    <2>3. dev' = [dev EXCEPT ![a].status = @ \cup bits]
      BY <1>1, <1>4
    <2> QED
      BY <1>2, <1>4, <2>1, <2>2, <2>3, StatusWritten
  <1>6. \A d \in 1 .. Len(virtio_devices) : virtio_devices[d].device \in DOMAIN machine
    BY DEF DInv, BInv, VisitInv, ScanInv
  <1>7. LoopInv'
    <2>1. /\ q \in Nat \ {0} /\ idesc \in Nat /\ free \in Seq(SUBSET Nat)
          /\ q = 1 /\ free = <<>> /\ Len(dev[a].queues) = Len(machine[a].sizes)
          /\ stage = "acknowledge" => dev[a].status = {}
          /\ stage = "driver" => dev[a].status = {"ACKNOWLEDGE"}
          /\ stage = "features_ok" => dev[a].status = {"ACKNOWLEDGE", "DRIVER"}
      BY <1>3 DEF SInv, LoopInv
    <2>2. /\ stage' = "driver" => dev'[a].status = {"ACKNOWLEDGE"}
          /\ stage' = "features" => dev'[a].status = {"ACKNOWLEDGE", "DRIVER"}
          /\ stage' = "check" => /\ {"ACKNOWLEDGE", "DRIVER"} \subseteq dev'[a].status
                                 /\ dev'[a].status \subseteq Accepted
          /\ stage' # "acknowledge" /\ stage' # "features_ok"
      BY <1>1, <1>5, <2>1 DEF Accepted
    <2> QED
      BY <1>2, <1>3, <1>5, <2>1, <2>2 DEF LoopInv, Queueing, AllocStages
  <1> QED
    BY <1>2, <1>3, <1>4, <1>5, <1>6, <1>7, OutsideStep

(* A device after reset. *)
LEMMA FreshDevice ==
    ASSUME NEW f, SoundFunction(f)
    PROVE  /\ Fresh(f) \in Devices /\ Fresh(f).status = {}
           /\ Len(Fresh(f).queues) = Len(f.sizes)
  <1> DEFINE Q == [k \in 1 .. Len(f.sizes) |-> NoQueue]
  <1>1. NoQueue \in Queues
    BY DEF NoQueue, Queues
  <1>2. Len(f.sizes) \in Nat
    BY DEF SoundFunction
  <1>3. Q \in Seq(Queues) /\ Len(Q) = Len(f.sizes)
    BY <1>1, <1>2
  <1> HIDE DEF Q
  <1>4. Fresh(f) = [status |-> {}, features |-> {}, queues |-> Q]
    BY DEF Fresh, Q
  <1>5. Fresh(f) \in Devices
    <2> DEFINE A == SUBSET {"ACKNOWLEDGE", "DRIVER", "FEATURES_OK", "DRIVER_OK"}
               B == SUBSET {0, 1}
               C == Seq(Queues)
    <2>1. {} \in A /\ {} \in B /\ Q \in C
      BY <1>3
    <2>2. Devices = [status : A, features : B, queues : C]
      BY DEF Devices
    <2> HIDE DEF A, B, C
    <2> QED
      BY <1>4, <2>1, <2>2
  <1> QED
    BY <1>3, <1>4, <1>5

(* The reset. *)
LEMMA ResetStep ==
    ASSUME DInv, SInv, UNCHANGED << vars, pcivars >>, ResetDevice
    PROVE  SInv'
  <1> DEFINE a == devs[cur]
             r == Fresh(F)
  <1>1. /\ stage = "reset" /\ stage' = "acknowledge" /\ free' = <<>> /\ q' = 1
        /\ dev' = [dev EXCEPT ![Here] = r]
        /\ UNCHANGED << machine, devs, cur, idesc, asked, mem, virtio_devices >>
    BY DEF ResetDevice, pcivars
  <1>2. /\ stage \in Visiting /\ stage \notin Queueing /\ stage' \notin Queueing
        /\ stage' \in Handshake /\ stage' # "driver" /\ stage' # "check"
        /\ stage' \notin {"features", "features_ok"} /\ stage' # "select"
        /\ stage' \notin AllocStages
    BY <1>1 DEF Visiting, InitStages, AllocStages, Handshake, Queueing
  <1>3. /\ Here = a /\ a \in DOMAIN machine /\ F = machine[a] /\ SoundFunction(F)
        /\ \A d \in 1 .. Len(virtio_devices) : virtio_devices[d].device # a
    BY <1>2, Visited
  <1>4. \A d \in 1 .. Len(virtio_devices) : virtio_devices[d].device \in DOMAIN machine
    BY DEF DInv, BInv, VisitInv, ScanInv
  <1>5. r \in Devices /\ r.status = {} /\ Len(r.queues) = Len(F.sizes)
    BY <1>3, FreshDevice
  <1>6. /\ DevInv' /\ dev'[a] = r
        /\ \A b \in DOMAIN machine : b # a => dev'[b] = dev[b]
    <2> HIDE DEF r
    <2> QED
      BY <1>1, <1>3, <1>5 DEF SInv, DevInv
  <1>7. LoopInv'
    <2>1. idesc \in Nat
      BY DEF SInv, LoopInv
    <2> HIDE DEF r
    <2> QED
      BY <1>1, <1>2, <1>3, <1>5, <1>6, <2>1 DEF LoopInv
  <1> QED
    BY <1>1, <1>2, <1>3, <1>4, <1>6, <1>7, OutsideStep

(* The features. *)
LEMMA FeaturesStep ==
    ASSUME DInv, SInv, UNCHANGED << vars, pcivars >>, WriteFeatures
    PROVE  SInv'
  <1> DEFINE a == devs[cur]
             w == IF F.type = "gpu" THEN {0, 1} ELSE {}
  <1>1. /\ stage = "features" /\ stage' = "features_ok"
        /\ dev' = [dev EXCEPT ![Here].features = w]
        /\ UNCHANGED << machine, devs, cur, q, idesc, free, asked, mem, virtio_devices >>
    BY DEF WriteFeatures, pcivars
  <1>2. /\ stage \in Visiting /\ stage \notin Queueing /\ stage' \notin Queueing
        /\ stage \in Handshake
        /\ stage' \in Handshake /\ stage' # "driver" /\ stage' # "check"
        /\ stage' # "acknowledge" /\ stage' # "select" /\ stage' \notin AllocStages
    BY <1>1 DEF Visiting, InitStages, AllocStages, Handshake, Queueing
  <1>3. /\ Here = a /\ a \in DOMAIN machine
        /\ \A d \in 1 .. Len(virtio_devices) : virtio_devices[d].device # a
    BY <1>2, Visited
  <1>4. \A d \in 1 .. Len(virtio_devices) : virtio_devices[d].device \in DOMAIN machine
    BY DEF DInv, BInv, VisitInv, ScanInv
  <1>5. w \in SUBSET {0, 1}
    OBVIOUS
  <1>6. /\ DevInv' /\ dev'[a].status = dev[a].status /\ dev'[a].queues = dev[a].queues
        /\ \A b \in DOMAIN machine : b # a => dev'[b] = dev[b]
    <2> HIDE DEF w
    <2>1. dev[a] \in Devices /\ dev \in [DOMAIN machine -> Devices]
      BY <1>3 DEF SInv, DevInv
    <2>2. dev'[a] = [dev[a] EXCEPT !.features = w]
      BY <1>1, <1>3, <2>1
    <2>3. /\ dev'[a] \in Devices /\ dev'[a].status = dev[a].status
          /\ dev'[a].queues = dev[a].queues
      BY <1>5, <2>1, <2>2 DEF Devices
    <2> QED
      BY <1>1, <1>3, <2>1, <2>3 DEF DevInv
  <1>7. LoopInv'
    <2>1. /\ q \in Nat \ {0} /\ idesc \in Nat /\ free \in Seq(SUBSET Nat)
          /\ q = 1 /\ free = <<>> /\ Len(dev[a].queues) = Len(machine[a].sizes)
          /\ dev[a].status = {"ACKNOWLEDGE", "DRIVER"}
      BY <1>1, <1>2 DEF SInv, LoopInv
    <2> QED
      BY <1>1, <1>2, <1>6, <2>1 DEF LoopInv
  <1> QED
    BY <1>1, <1>2, <1>3, <1>4, <1>6, <1>7, OutsideStep

(* The device accepts, or the kernel panics. *)
LEMMA CheckStep ==
    ASSUME DInv, SInv, UNCHANGED << vars, pcivars >>, CheckFeatures
    PROVE  SInv'
  <1> DEFINE a == devs[cur]
  <1>1. /\ stage = "check"
        /\ stage' = IF "FEATURES_OK" \in dev[Here].status THEN "select" ELSE "refused"
        /\ UNCHANGED << machine, devs, cur, q, idesc, free, asked, mem, virtio_devices,
                        dev >>
    BY DEF CheckFeatures, pcivars, devicevars
  <1>2. stage \in Visiting /\ stage \notin Queueing /\ stage \in Handshake
    BY <1>1 DEF Visiting, InitStages, AllocStages, Handshake, Queueing
  <1>3. Here = a /\ F = machine[a] /\ Len(F.sizes) \in Nat
    BY <1>2, Visited DEF SoundFunction
  <1>4. /\ q = 1 /\ free = <<>> /\ Len(dev[a].queues) = Len(machine[a].sizes)
        /\ idesc \in Nat
        /\ {"ACKNOWLEDGE", "DRIVER"} \subseteq dev[a].status /\ dev[a].status \subseteq Accepted
    BY <1>1, <1>2 DEF SInv, LoopInv
  <1>5. stage' \notin Queueing \/ (stage' = "select" /\ q' = 1)
    BY <1>1, <1>4 DEF Queueing, AllocStages
  <1>6. DevInv'
    BY <1>1 DEF SInv, DevInv
  <1>7. LoopInv'
    <2>1. CASE stage' = "refused"
      <3>1. stage' \notin Handshake \cup Queueing
        BY <2>1 DEF Handshake, Queueing, AllocStages
      <3> QED
        BY <1>1, <3>1, LoopIdle DEF SInv
    <2>2. CASE stage' = "select"
      <3>1. dev[a].status = Accepted
        BY <1>1, <1>3, <1>4, <2>2 DEF Accepted
      <3>2. /\ stage' \notin Handshake /\ stage' \notin AllocStages
            /\ stage' # "acknowledge" /\ stage' # "driver" /\ stage' # "check"
            /\ stage' \notin {"features", "features_ok"} /\ stage' # "fill"
            /\ stage' \notin {"avail", "used"}
        BY <2>2 DEF Handshake, AllocStages
      <3>3. Len(free) = 0 /\ free \in Seq(SUBSET Nat) /\ q <= Len(machine[a].sizes) + 1
        BY <1>3, <1>4
      <3> QED
        BY <1>1, <1>4, <3>1, <3>2, <3>3 DEF LoopInv
    <2> QED
      BY <1>1, <2>1, <2>2
  <1> QED
    BY <1>1, <1>2, <1>5, <1>6, <1>7, OutsideStep

(* The device becomes ready. *)
LEMMA ReadyStep ==
    ASSUME DInv, SInv, UNCHANGED << vars, pcivars >>, DriverOk
    PROVE  SInv'
  <1> DEFINE a == devs[cur]
             N == Len(virtio_devices)
             v == [device |-> Here, type |-> F.type, free |-> free, caps |-> found]
  <1>1. /\ stage = "select" /\ stage' = "probe" /\ q = Len(F.sizes) + 1
        /\ dev' = [dev EXCEPT ![Here].status = @ \cup {"DRIVER_OK"}]
        /\ virtio_devices' = Append(virtio_devices, v)
        /\ UNCHANGED << machine, devs, q, idesc, free, asked, mem >>
    BY DEF DriverOk, NextFunction, pcivars
  <1>2. /\ stage \in Visiting /\ stage \in Queueing /\ stage \notin AllocStages
        /\ stage' \notin Handshake \cup Queueing /\ stage \notin Filled
        /\ stage # "used" /\ stage' # "used" /\ stage' \notin Filled
    BY <1>1 DEF Visiting, InitStages, AllocStages, Handshake, Queueing, Filled
  <1>3. /\ Here = a /\ a \in DOMAIN machine /\ F = machine[a] /\ Len(F.sizes) \in Nat
        /\ \A d \in 1 .. N : virtio_devices[d].device # a
    BY <1>2, Visited DEF SoundFunction
  <1>4. \A d \in 1 .. N : virtio_devices[d].device \in DOMAIN machine
    BY DEF DInv, BInv, VisitInv, ScanInv
  <1>5. /\ dev[a].status = Accepted /\ Len(dev[a].queues) = Len(free)
        /\ Len(free) = q - 1 /\ q \in Nat
    BY <1>1, <1>2, <1>3 DEF SInv, LoopInv
  <1>6. /\ DevInv' /\ dev'[a].status = dev[a].status \cup {"DRIVER_OK"}
        /\ dev'[a].queues = dev[a].queues
        /\ \A b \in DOMAIN machine : b # a => dev'[b] = dev[b]
    <2>1. dev' = [dev EXCEPT ![a].status = @ \cup {"DRIVER_OK"}]
      BY <1>1, <1>3
    <2>2. {"DRIVER_OK"} \in SUBSET (Accepted \cup {"DRIVER_OK"}) /\ DevInv
      BY DEF SInv
    <2> QED
      BY <1>1, <1>3, <2>1, <2>2, StatusWritten
  <1>7. v.device = a /\ v.free = free
    BY <1>3
  <1>8. /\ N \in Nat /\ Len(virtio_devices') = N + 1 /\ virtio_devices'[N + 1] = v
        /\ \A k \in 1 .. N : virtio_devices'[k] = virtio_devices[k]
        /\ \A k \in 1 .. N + 1 : k \in 1 .. N \/ k = N + 1
        /\ N + 1 \in 1 .. N + 1 /\ \A k \in 1 .. N : k \in 1 .. N + 1
    <2>1. PICK S : virtio_devices \in Seq(S)
      BY DEF DInv, BInv, VisitInv
    <2>2. virtio_devices \in Seq(S \cup {v}) /\ N \in Nat
      BY <2>1
    <2> HIDE DEF v
    <2> QED
      BY <1>1, <2>2
  <1> HIDE DEF v
  <1>9. PICK P : PagesInv(P) /\ ReadyIn(P) /\ CurrentIn(P)
    BY DEF SInv, QueuesInv
  <1>10. PagesInv(P)'
    BY <1>1, <1>9 DEF PagesInv, vars
  <1>11. ReadyIn(P)'
    <2> SUFFICES ASSUME NEW d \in 1 .. N + 1
                 PROVE  LET w == virtio_devices'[d]
                            r == dev'[w.device]
                        IN
                        /\ r.status = Accepted \cup {"DRIVER_OK"}
                        /\ Len(r.queues) = Len(w.free)
                        /\ \A n \in 1 .. Len(w.free) :
                             QueueIn(mem', P, r.queues[n], w.free[n], d, n)
      BY <1>8 DEF ReadyIn
    <2>1. CASE d \in 1 .. N
      <3>1. /\ virtio_devices'[d] = virtio_devices[d]
            /\ dev'[virtio_devices[d].device] = dev[virtio_devices[d].device]
        BY <1>3, <1>4, <1>6, <1>8, <2>1
      <3> QED
        BY <1>1, <1>9, <2>1, <3>1 DEF ReadyIn
    <2>2. CASE d = N + 1
      <3>1. /\ virtio_devices'[d].device = a /\ virtio_devices'[d].free = free
            /\ d = Latest
        BY <1>7, <1>8, <2>2 DEF Latest
      <3>2. \A n \in 1 .. q - 1 : QueueIn(mem, P, dev[a].queues[n], free[n], Latest, n)
        BY <1>2, <1>9 DEF CurrentIn
      <3> QED
        BY <1>1, <1>5, <1>6, <3>1, <3>2
    <2> QED
      BY <1>8, <2>1, <2>2
  <1>12. CurrentIn(P)'
    BY <1>2 DEF CurrentIn
  <1>13. CellsInv'
    <2>1. ASSUME NEW c, ReadyCell(c)
          PROVE  ReadyCell(c)'
      <3>1. PICK d \in 1 .. N : \E n \in 1 .. Len(virtio_devices[d].free) :
              LET Q == dev[virtio_devices[d].device].queues[n] IN
              c[1] \in {Q.desc, Q.driver}
        BY <2>1 DEF ReadyCell
      <3>2. /\ virtio_devices'[d] = virtio_devices[d] /\ d \in 1 .. Len(virtio_devices')
            /\ dev'[virtio_devices[d].device] = dev[virtio_devices[d].device]
        BY <1>3, <1>4, <1>6, <1>8
      <3> QED
        BY <3>1, <3>2 DEF ReadyCell
    <2>2. ASSUME NEW c, OwnCell(c)
          PROVE  ReadyCell(c)'
      <3>1. PICK n \in 1 .. q : LET Q == dev[a].queues[n] IN
              n < q /\ c[1] \in {Q.desc, Q.driver}
        BY <1>2, <2>2 DEF OwnCell
      <3>2. n \in 1 .. Len(free)
        BY <1>5, <3>1
      <3>3. /\ virtio_devices'[N + 1].device = a /\ virtio_devices'[N + 1].free = free
            /\ N + 1 \in 1 .. Len(virtio_devices')
        BY <1>7, <1>8
      <3> QED
        BY <1>6, <3>1, <3>2, <3>3 DEF ReadyCell
    <2> QED
      BY <1>1, <2>1, <2>2 DEF SInv, CellsInv
  <1>14. LoopInv'
    BY <1>1, <1>2, LoopIdle DEF SInv
  <1>15. AskInv'
    BY <1>1, <1>2 DEF SInv, AskInv
  <1> QED
    BY <1>6, <1>10, <1>11, <1>12, <1>13, <1>14, <1>15 DEF SInv, QueuesInv

(* The steps before a device is reset, and those of kernel_main. *)
LEMMA IdleStep ==
    ASSUME DInv, SInv, [Next]_vars, stage \notin Handshake \cup Queueing,
           stage' \notin Handshake \cup Queueing,
           UNCHANGED << machine, q, idesc, free, asked, dev, mem, virtio_devices >>
    PROVE  SInv'
  <1>1. LoopInv'
    BY LoopIdle DEF SInv
  <1>2. DevInv'
    BY DEF SInv, DevInv
  <1> QED
    BY <1>1, <1>2, OutsideStep

(* Every step of the system preserves the invariant. *)
LEMMA SInvStep ==
    ASSUME DInv, SInv, [BootNext]_allvars
    PROVE  SInv'
  <1>1. [Next]_vars
    BY FramesStep DEF DInv, BInv
  <1>2. CASE UNCHANGED allvars
    <2>1. UNCHANGED << stage, cur, q, idesc, free, dev, mem, virtio_devices,
                       machine, devs, asked, vars >>
      BY <1>2 DEF allvars, pcivars, initvars, devicevars
    <2>2. AskInv'
      BY <2>1 DEF SInv, AskInv, vars
    <2> QED
      BY <1>1, <2>1, <2>2, FramesOnly
  <1>3. CASE Allocate
    BY <1>1, <1>3, AllocateStep
  <1>4. CASE Device
    <2>1. UNCHANGED pcivars
      BY <1>4 DEF Device
    <2>2. CASE AskPage
      BY <1>1, <2>1, <2>2, AskStep
    <2>3. CASE UNCHANGED vars /\ (Probe \/ WalkCapability)
      <3>1. /\ stage \notin Handshake \cup Queueing /\ stage' \notin Handshake \cup Queueing
            /\ UNCHANGED << machine, q, idesc, free, asked, dev, mem, virtio_devices >>
        BY <2>1, <2>3 DEF Probe, WalkCapability, NextFunction, pcivars, devicevars,
           Handshake, Queueing, AllocStages
      <3> QED
        BY <1>1, <3>1, IdleStep
    <2>4. CASE /\ UNCHANGED vars
               /\ \/ ResetDevice \/ Acknowledge \/ Driver \/ WriteFeatures \/ FeaturesOk
                  \/ FeaturesRefused \/ CheckFeatures
      BY <2>1, <2>4, ResetStep, StatusStep, FeaturesStep, CheckStep
    <2>5. CASE /\ UNCHANGED vars
               /\ SelectQueue \/ StoreTable \/ FillDesc \/ StoreAvail \/ StoreUsed
                  \/ DriverOk
      BY <2>1, <2>5, SelectStep, TableStep, BufferStep, AvailStep, UsedStep, ReadyStep
    <2> QED
      BY <1>4, <2>2, <2>3, <2>4, <2>5 DEF Device, InitDevice
  <1>5. ASSUME \/ MapMemory \/ MapMemoryEnds \/ HeapPage \/ HeapEnds \/ Scan
               \/ StartExecutor \/ (\E pages \in BlockSizes : FrameBuffer(pages))
               \/ LoadApp
        PROVE  SInv'
    <2>1. /\ UNCHANGED << q, idesc, free, asked, dev, mem, virtio_devices, machine >>
          /\ stage \in {"map", "heap", "scan", "probe", "running"}
          /\ stage' \in {"map", "heap", "scan", "probe", "running"}
      BY <1>5 DEF MapMemory, MapMemoryEnds, HeapPage, HeapEnds, Scan, StartExecutor,
         FrameBuffer, LoadApp, Unmoved, ScanFunction, pcivars, initvars, devicevars
    <2>2. /\ stage \notin Handshake \cup Queueing /\ stage' \notin Handshake \cup Queueing
      BY <2>1 DEF Handshake, Queueing, AllocStages
    <2> QED
      BY <1>1, <2>1, <2>2, IdleStep
  <1> QED
    BY <1>2, <1>3, <1>4, <1>5 DEF BootNext

(* The invariant holds when kernel_main starts. *)
LEMMA SInvInit == BootInit => SInv
  <1> SUFFICES ASSUME BootInit
               PROVE  SInv
    OBVIOUS
  <1>1. /\ stage = "map" /\ q = 1 /\ idesc = 0 /\ asked = FALSE /\ free = <<>>
        /\ dev = [b \in DOMAIN machine |-> Fresh(machine[b])]
        /\ mem = << >> /\ virtio_devices = <<>> /\ machine \in Machines
    BY DEF BootInit
  <1>2. stage \notin Handshake \cup Queueing /\ stage \notin Filled /\ stage # "used"
    BY <1>1 DEF Handshake, Queueing, AllocStages, Filled
  <1>3. DevInv
    <2>1. \A b \in DOMAIN machine : Fresh(machine[b]) \in Devices
      BY <1>1, MachinesAssumption, FreshDevice
    <2> QED
      BY <1>1, <2>1 DEF DevInv
  <1>4. LoopInv
    BY <1>1, <1>2 DEF LoopInv, Handshake, Queueing, AllocStages
  <1>5. AskInv
    BY <1>1 DEF AskInv
  <1>6. CellsInv
    <2>1. DOMAIN mem = {}
      BY <1>1
    <2> QED
      BY <2>1 DEF CellsInv
  <1>7. PagesInv({}) /\ ReadyIn({}) /\ CurrentIn({})
    BY <1>1, <1>2 DEF PagesInv, ReadyIn, CurrentIn
  <1> QED
    BY <1>3, <1>4, <1>5, <1>6, <1>7 DEF SInv, QueuesInv

(* The invariant always holds. *)
LEMMA SInvAlways == BootSpec => [](DInv /\ SInv)
  <1>1. DInv /\ SInv /\ [BootNext]_allvars => SInv'
    BY SInvStep
  <1> QED
    BY <1>1, SInvInit, DInvAlways, PTL DEF BootSpec

(* The pages that DmaPages names are among those in use. *)
LEMMA PagesUsed ==
    ASSUME NEW P, ReadyIn(P)
    PROVE  DmaPages \subseteq P
  <1> SUFFICES ASSUME NEW d \in 1 .. Len(virtio_devices),
                      NEW n \in 1 .. Len(virtio_devices[d].free)
               PROVE  QueuePages(d, n) \subseteq P
    BY DEF DmaPages
  <1> DEFINE v == virtio_devices[d]
             Q == dev[v.device].queues[n]
  <1>1. QueueIn(mem, P, Q, v.free[n], d, n)
    BY DEF ReadyIn
  <1>2. /\ PageUse(Q.desc, d, n, "table", 0) \in P
        /\ PageUse(Q.driver, d, n, "avail", 0) \in P
        /\ PageUse(Q.device, d, n, "used", 0) \in P
        /\ \A k \in v.free[n] : PageUse(mem[<< Q.desc, k >>][2], d, n, "buffer", k) \in P
    BY <1>1 DEF QueueIn, BuffersIn
  <1> QED
    BY <1>2 DEF QueuePages, PageUse

(* A device that is ready has accepted its features, all its queues are    *)
(* complete and enabled, and no page of memory has two uses, for every     *)
(* machine, memory map and size of queues that fits a page.                *)
THEOREM QueuesAlwaysSetUp == BootSpec => []QueuesSetUp
  <1>1. ASSUME DInv, SInv
        PROVE  QueuesSetUp
    <2>1. PICK P : PagesInv(P) /\ ReadyIn(P)
      BY <1>1 DEF SInv, QueuesInv
    <2>2. DmaPages \subseteq P
      BY <2>1, PagesUsed
    <2>3. ASSUME NEW d \in 1 .. Len(virtio_devices)
          PROVE  LET v == virtio_devices[d]
                     r == dev[v.device]
                 IN /\ r.status = {"ACKNOWLEDGE", "DRIVER", "FEATURES_OK", "DRIVER_OK"}
                    /\ Len(r.queues) = Len(v.free)
                    /\ \A n \in 1 .. Len(v.free) :
                         /\ r.queues[n].enable
                         /\ \A k \in v.free[n] :
                              /\ << r.queues[n].desc, k >> \in DOMAIN mem
                              /\ mem[<< r.queues[n].desc, k >>][1] = "buffer"
      BY <2>1 DEF ReadyIn, QueueIn, BuffersIn, Accepted
    <2>4. \A x, y \in DmaPages : x.frame = y.frame => x.use = y.use
      BY <2>1, <2>2 DEF PagesInv
    <2>5. \A x \in DmaPages : owner[x.frame].use = "data" /\ x.frame \in mapped
      BY <2>1, <2>2 DEF PagesInv
    <2>6. ASSUME stage = "running", NEW c \in DOMAIN mem
          PROVE  \E y \in DmaPages : y.use[3] \in {"table", "avail"} /\ y.frame = c[1]
      <3>1. ReadyCell(c)
        BY <1>1, <2>6 DEF SInv, CellsInv, OwnCell, Queueing, AllocStages
      <3>2. PICK d \in 1 .. Len(virtio_devices) :
              \E n \in 1 .. Len(virtio_devices[d].free) :
                LET Q == dev[virtio_devices[d].device].queues[n] IN
                c[1] \in {Q.desc, Q.driver}
        BY <3>1 DEF ReadyCell
      <3>3. PICK n \in 1 .. Len(virtio_devices[d].free) :
              LET Q == dev[virtio_devices[d].device].queues[n] IN
              c[1] \in {Q.desc, Q.driver}
        BY <3>2
      <3> DEFINE Q == dev[virtio_devices[d].device].queues[n]
                 x == [frame |-> Q.desc, use |-> << d, n, "table", 0 >>]
                 y == [frame |-> Q.driver, use |-> << d, n, "avail", 0 >>]
      <3>4. x \in QueuePages(d, n) /\ y \in QueuePages(d, n)
        BY DEF QueuePages
      <3>5. x \in DmaPages /\ y \in DmaPages
        BY SMTT(20), <3>4 DEF DmaPages
      <3>6. /\ x.frame = Q.desc /\ x.use[3] = "table"
            /\ y.frame = Q.driver /\ y.use[3] = "avail"
        OBVIOUS
      <3> HIDE DEF x, y
      <3> QED
        BY <3>3, <3>5, <3>6
    <2>7. stage = "running" =>
            {c[1] : c \in DOMAIN mem} \subseteq
              {x.frame : x \in {y \in DmaPages : y.use[3] \in {"table", "avail"}}}
      BY <2>6
    <2> QED
      BY <2>3, <2>4, <2>5, <2>7, Zenon DEF QueuesSetUp
  <1> QED
    BY <1>1, SInvAlways, PTL

-----------------------------------------------------------------------------
(* App::new: its loops and the vector they fill. *)

Hdr == image.headers
Rla == image.rela

(* The loops' variables; no application is begun that would be one too     *)
(* many.                                                                   *)
LoopsInv ==
    /\ loading \in {"no", "measure", "segments", "relocations"}
    /\ \E S : apps \in Seq(S)
    /\ Len(apps) <= MaxApps
    /\ loading # "no" => image \in Images /\ Len(apps) < MaxApps
    /\ loading = "no" => image = NoImage /\ code = << >>
    /\ loading \in {"no", "measure"} => code = << >> /\ rel = 1
    /\ header \in Nat \ {0} /\ rel \in Nat \ {0} /\ max_virt \in Nat
    /\ loading = "no" => header = 1 /\ max_virt = 0
    /\ header <= Len(Hdr) + 1 /\ rel <= Len(Rla) + 1
    /\ loading = "relocations" => header \in Loads(image)

(* The first loop: max_virt is not before the end of a header it saw. *)
MeasuredInv ==
    \A k \in 1 .. Len(Hdr) :
        /\ Hdr[k].memsz > 0
        /\ loading = "measure" => k < header
        => Hdr[k].vaddr + Hdr[k].memsz <= max_virt

(* The relocations applied and the segments copied so far. *)
Applied ==
    {r \in 1 .. Len(Rla) :
        \/ \E k \in Loads(image) : k < header /\ Inside(Rla[r], Hdr[k])
        \/ loading = "relocations" /\ r < rel /\ Inside(Rla[r], Hdr[header])}

Copied == {k \in Loads(image) : k < header \/ (loading = "relocations" /\ k = header)}

(* The second loop: the vector is what they describe. *)
ContentInv ==
    loading \in {"segments", "relocations"} =>
        /\ DOMAIN code = 0 .. max_virt - 1
        /\ \A v \in DOMAIN code : Described(image, Applied, Copied, v, code[v])

LInv == LoopsInv /\ MeasuredInv /\ ContentInv /\ ImagesLoaded

(* What WellFormed says of the file being loaded. *)
LEMMA FileTypes ==
    ASSUME LoopsInv, loading # "no"
    PROVE  /\ Hdr \in Seq([load : BOOLEAN, vaddr : Nat, offset : Nat, filesz : Nat,
                            memsz : Nat])
           /\ Rla \in Seq([off : Nat, add : Nat])
           /\ Len(Hdr) \in Nat /\ Len(Rla) \in Nat
           /\ \A k \in 1 .. Len(Hdr) : /\ Hdr[k].load \in BOOLEAN
                                        /\ Hdr[k].vaddr \in Nat /\ Hdr[k].offset \in Nat
                                        /\ Hdr[k].filesz \in Nat /\ Hdr[k].memsz \in Nat
           /\ \A r \in 1 .. Len(Rla) : Rla[r].off \in Nat /\ Rla[r].add \in Nat
  <1>1. WellFormed(image)
    BY ImagesAssumption DEF LoopsInv
  <1>2. /\ Hdr \in Seq([load : BOOLEAN, vaddr : Nat, offset : Nat, filesz : Nat,
                         memsz : Nat])
        /\ Rla \in Seq([off : Nat, add : Nat])
    BY <1>1 DEF WellFormed, Hdr, Rla
  <1>3. Len(Hdr) \in Nat /\ Len(Rla) \in Nat
    BY <1>2
  <1>4. ASSUME NEW k \in 1 .. Len(Hdr)
        PROVE  /\ Hdr[k].load \in BOOLEAN /\ Hdr[k].vaddr \in Nat
               /\ Hdr[k].offset \in Nat /\ Hdr[k].filesz \in Nat /\ Hdr[k].memsz \in Nat
    <2>1. Hdr[k] \in [load : BOOLEAN, vaddr : Nat, offset : Nat, filesz : Nat,
                      memsz : Nat]
      BY <1>2, ElementOfSeq, Zenon
    <2> QED
      BY <2>1
  <1>5. ASSUME NEW r \in 1 .. Len(Rla)
        PROVE  Rla[r].off \in Nat /\ Rla[r].add \in Nat
    <2>1. Rla[r] \in [off : Nat, add : Nat]
      BY <1>2, <1>5, ElementOfSeq
    <2> QED
      BY <2>1
  <1> QED
    BY <1>2, <1>3, <1>4, <1>5

LEMMA FileShape ==
    ASSUME LoopsInv, loading # "no"
    PROVE  /\ \A k \in Loads(image) : Hdr[k].filesz <= Hdr[k].memsz
           /\ \A j, k \in Loads(image) : j < k => Hdr[j].vaddr + Hdr[j].memsz <= Hdr[k].vaddr
           /\ \A r \in 1 .. Len(Rla) : \E k \in Loads(image) :
                /\ Rla[r].off >= Hdr[k].vaddr
                /\ Rla[r].off + WORD <= Hdr[k].vaddr + Hdr[k].memsz
           /\ \A r, s \in 1 .. Len(Rla) : r < s =>
                Rla[r].off + WORD <= Rla[s].off \/ Rla[s].off + WORD <= Rla[r].off
           /\ \E k \in Loads(image) : InFile(Hdr[k], image.entry)
           /\ Loads(image) \subseteq 1 .. Len(Hdr)
  <1>1. WellFormed(image)
    BY ImagesAssumption DEF LoopsInv
  <1>2. Loads(image) \subseteq 1 .. Len(Hdr)
    BY DEF Loads, Hdr
  <1> QED
    BY <1>1, <1>2 DEF WellFormed, Hdr, Rla

(* A byte that a relocation covers is in memory of the segment that holds  *)
(* the relocation, and in no other.                                        *)
LEMMA WordInSegment ==
    ASSUME LoopsInv, loading # "no", NEW r \in 1 .. Len(Rla), NEW k \in Loads(image),
           Inside(Rla[r], Hdr[k]), NEW v \in Nat, InWord(Rla[r], v)
    PROVE  /\ v >= Hdr[k].vaddr /\ v < Hdr[k].vaddr + Hdr[k].memsz
           /\ \A j \in Loads(image) : j # k => ~InFile(Hdr[j], v)
  <1>1. PICK m \in Loads(image) : /\ Rla[r].off >= Hdr[m].vaddr
                                  /\ Rla[r].off + WORD <= Hdr[m].vaddr + Hdr[m].memsz
    BY FileShape
  <1>2. /\ k \in 1 .. Len(Hdr) /\ m \in 1 .. Len(Hdr) /\ Len(Hdr) \in Nat
        /\ Hdr[k].vaddr \in Nat /\ Hdr[k].memsz \in Nat
        /\ Hdr[m].vaddr \in Nat /\ Hdr[m].memsz \in Nat /\ Rla[r].off \in Nat
    BY FileTypes, FileShape
  <1>3. m = k
    <2>1. CASE m < k
      <3>1. Hdr[m].vaddr + Hdr[m].memsz <= Hdr[k].vaddr
        BY <2>1, FileShape
      <3>2. FALSE
        <4>1. Rla[r].off + WORD <= Hdr[k].vaddr
          <5>1. \A x, w, a, b, c \in Nat : x + w <= a + b /\ a + b <= c => x + w <= c
            OBVIOUS
          <5>2. WORD \in Nat
            BY WordAssumption
          <5> QED
            BY <1>1, <1>2, <3>1, <5>1, <5>2, Zenon
        <4>2. Rla[r].off >= Hdr[k].vaddr
          BY DEF Inside
        <4> QED
          BY SMTT(20), <1>2, <4>1, <4>2, WordAssumption
      <3> QED
        BY <3>2
    <2>2. CASE k < m
      <3>1. Hdr[k].vaddr + Hdr[k].memsz <= Hdr[m].vaddr
        BY <2>2, FileShape
      <3>2. FALSE
        <4>1. \A x, a, b, c \in Nat : a + b <= c /\ x >= c => ~(x < a + b)
          OBVIOUS
        <4>2. Rla[r].off < Hdr[k].vaddr + Hdr[k].memsz
          BY DEF Inside
        <4> QED
          BY <1>1, <1>2, <3>1, <4>1, <4>2, Zenon
      <3> QED
        BY <3>2
    <2> QED
      BY <1>2, <2>1, <2>2
  <1>4. v >= Hdr[k].vaddr /\ v < Hdr[k].vaddr + Hdr[k].memsz
    BY <1>1, <1>2, <1>3, WordAssumption DEF InWord
  <1>5. ASSUME NEW j \in Loads(image), j # k
        PROVE  ~InFile(Hdr[j], v)
    <2>1. /\ j \in 1 .. Len(Hdr) /\ Hdr[j].vaddr \in Nat /\ Hdr[j].memsz \in Nat
          /\ Hdr[j].filesz \in Nat /\ Hdr[j].filesz <= Hdr[j].memsz
      BY FileTypes, FileShape
    <2>2. CASE j < k
      <3>1. Hdr[j].vaddr + Hdr[j].memsz <= Hdr[k].vaddr
        BY <2>2, FileShape
      <3>2. v >= Hdr[j].vaddr + Hdr[j].memsz
        <4>1. \A a, b, c \in Nat : a + b <= c /\ v >= c => v >= a + b
          OBVIOUS
        <4> QED
          BY <1>2, <1>4, <2>1, <3>1, <4>1
      <3> QED
        BY <2>1, <3>2 DEF InFile
    <2>3. CASE k < j
      <3>1. Hdr[k].vaddr + Hdr[k].memsz <= Hdr[j].vaddr
        BY <2>3, FileShape
      <3> QED
        BY SMTT(20), <1>2, <1>4, <2>1, <3>1 DEF InFile
    <2> QED
      BY <1>2, <1>5, <2>1, <2>2, <2>3
  <1> QED
    BY <1>4, <1>5

(* Two segments of the file have no byte in common. *)
LEMMA FilesApart ==
    ASSUME LoopsInv, loading # "no", NEW j \in Loads(image), NEW k \in Loads(image),
           NEW v \in Nat, InFile(Hdr[j], v), InFile(Hdr[k], v)
    PROVE  j = k
  <1>1. /\ j \in 1 .. Len(Hdr) /\ k \in 1 .. Len(Hdr) /\ Len(Hdr) \in Nat
        /\ Hdr[j].vaddr \in Nat /\ Hdr[j].memsz \in Nat /\ Hdr[j].filesz \in Nat
        /\ Hdr[k].vaddr \in Nat /\ Hdr[k].memsz \in Nat /\ Hdr[k].filesz \in Nat
        /\ Hdr[j].filesz <= Hdr[j].memsz /\ Hdr[k].filesz <= Hdr[k].memsz
    BY FileTypes, FileShape
  <1>2. CASE j < k
    <2>1. Hdr[j].vaddr + Hdr[j].memsz <= Hdr[k].vaddr
      BY <1>2, FileShape
    <2> QED
      BY SMTT(20), <1>1, <2>1 DEF InFile
  <1>3. CASE k < j
    <2>1. Hdr[k].vaddr + Hdr[k].memsz <= Hdr[j].vaddr
      BY <1>3, FileShape
    <2> QED
      BY SMTT(20), <1>1, <2>1 DEF InFile
  <1> QED
    BY <1>1, <1>2, <1>3

(* The loops' variables stay what they are. *)
LEMMA LoopsStep ==
    ASSUME LoopsInv,
           (\E file \in Images : Len(apps) < MaxApps /\ AppNew(file)) \/ LoadStep
    PROVE  LoopsInv'
  <1>1. CASE \E file \in Images : Len(apps) < MaxApps /\ AppNew(file)
    <2>1. PICK file \in Images : Len(apps) < MaxApps /\ AppNew(file)
      BY <1>1
    <2>2. header = 1 /\ rel = 1 /\ code = << >> /\ max_virt = 0
      BY <2>1 DEF LoopsInv, AppNew
    <2>3. file.headers \in Seq([load : BOOLEAN, vaddr : Nat, offset : Nat, filesz : Nat,
                                memsz : Nat])
          /\ file.rela \in Seq([off : Nat, add : Nat])
      BY ImagesAssumption DEF WellFormed
    <2>4. Len(file.headers) \in Nat /\ Len(file.rela) \in Nat
      BY <2>3, LenProperties
    <2>5. Len(Hdr') \in Nat /\ Len(Rla') \in Nat
      BY <2>1, <2>4 DEF AppNew, Hdr, Rla
    <2>6. /\ loading' = "measure" /\ image' = file /\ file \in Images
          /\ UNCHANGED << header, rel, max_virt, code, apps >> /\ Len(apps) < MaxApps
      BY <2>1 DEF AppNew
    <2>7. header' <= Len(Hdr') + 1 /\ rel' <= Len(Rla') + 1
      BY <2>2, <2>5, <2>6
    <2> QED
      BY <2>2, <2>6, <2>7 DEF LoopsInv
  <1>2. CASE LoadStep /\ ~AppReturned
    <2>1. loading # "no" /\ image' = image /\ apps' = apps
      BY <1>2 DEF LoadStep, Measure, Allocated, LoadSegment, SkipHeader, Relocate,
         NextHeader
    <2>2. Len(Hdr) \in Nat /\ Len(Rla) \in Nat /\ Hdr' = Hdr /\ Rla' = Rla
      BY <2>1, FileTypes DEF Hdr, Rla
    <2>3. Loads(image)' = Loads(image) /\ Loads(image) \subseteq 1 .. Len(Hdr)
      BY <2>1 DEF Loads, Hdr
    <2>4. CASE Measure
      <3>1. header \in 1 .. Len(Hdr) /\ header \in Nat /\ max_virt \in Nat
        BY <2>2, <2>4 DEF Measure, LoopsInv, Hdr
      <3>2. Hdr[header].vaddr \in Nat /\ Hdr[header].memsz \in Nat
        BY <2>1, <3>1, FileTypes
      <3>3. max_virt' \in Nat
        BY <2>4, <3>1, <3>2 DEF Measure, Hdr
      <3> QED
        BY <2>1, <2>2, <2>4, <3>1, <3>3 DEF LoopsInv, Measure
    <2>5. CASE Allocated
      BY <2>1, <2>2, <2>5 DEF LoopsInv, Allocated
    <2>6. CASE LoadSegment
      <3>1. header \in Loads(image)
        BY <2>2, <2>6 DEF LoadSegment, LoopsInv, Loads
      <3> QED
        BY <2>1, <2>2, <2>3, <2>6, <3>1 DEF LoopsInv, LoadSegment
    <2>7. CASE SkipHeader
      BY <2>1, <2>2, <2>7 DEF LoopsInv, SkipHeader, Hdr
    <2>8. CASE Relocate
      BY <2>1, <2>2, <2>3, <2>8 DEF LoopsInv, Relocate, Rla
    <2>9. CASE NextHeader
      <3>1. header <= Len(Hdr)
        BY <2>2, <2>3, <2>9 DEF NextHeader, LoopsInv
      <3> QED
        BY <2>1, <2>2, <2>9, <3>1 DEF LoopsInv, NextHeader
    <2> QED
      BY <1>2, <2>4, <2>5, <2>6, <2>7, <2>8, <2>9 DEF LoadStep
  <1>3. CASE AppReturned
    <2> DEFINE e == [image |-> image, pid |-> Len(apps), code |-> code,
                     entry |-> image.entry]
    <2>1. apps' = Append(apps, e) /\ Len(apps) < MaxApps
      BY <1>3 DEF AppReturned, LoopsInv
    <2>2. PICK S : apps \in Seq(S)
      BY DEF LoopsInv
    <2>3. apps \in Seq(S \cup {e})
      BY <2>2
    <2> HIDE DEF e
    <2>4. apps' \in Seq(S \cup {e}) /\ Len(apps') = Len(apps) + 1 /\ Len(apps) \in Nat
      BY <2>1, <2>3
    <2>5. (\E T : apps' \in Seq(T)) /\ Len(apps') <= MaxApps
      BY <2>1, <2>4, BootAssumption
    <2>6. /\ loading' = "no" /\ image' = NoImage /\ header' = 1 /\ rel' = 1
          /\ max_virt' = 0 /\ code' = << >>
      BY <1>3 DEF AppReturned
    <2>7. Len(Hdr') = 0 /\ Len(Rla') = 0
      BY <2>6 DEF NoImage, Hdr, Rla
    <2> QED
      BY <2>5, <2>6, <2>7 DEF LoopsInv
  <1> QED
    BY <1>1, <1>2, <1>3

(* The first loop. *)
LEMMA MeasuredStep ==
    ASSUME LoopsInv, MeasuredInv,
           (\E file \in Images : Len(apps) < MaxApps /\ AppNew(file)) \/ LoadStep
    PROVE  MeasuredInv'
  <1>1. CASE \E file \in Images : Len(apps) < MaxApps /\ AppNew(file)
    <2>1. loading' = "measure" /\ header' = 1
      BY <1>1 DEF AppNew, LoopsInv
    <2> QED
      BY <2>1 DEF MeasuredInv
  <1>2. CASE Measure
    <2>1. loading = "measure" /\ loading' = "measure" /\ header' = header + 1
          /\ Hdr' = Hdr /\ header \in 1 .. Len(Hdr)
      BY <1>2, FileTypes DEF Measure, Hdr, LoopsInv
    <2>2. /\ max_virt \in Nat /\ max_virt' \in Nat /\ max_virt' >= max_virt
          /\ Hdr[header].memsz > 0 => Hdr[header].vaddr + Hdr[header].memsz <= max_virt'
      <3>1. max_virt \in Nat /\ Hdr[header].vaddr \in Nat /\ Hdr[header].memsz \in Nat
        BY <2>1, FileTypes DEF LoopsInv
      <3>2. max_virt' = IF Hdr[header].memsz > 0
                           /\ Hdr[header].vaddr + Hdr[header].memsz > max_virt
                        THEN Hdr[header].vaddr + Hdr[header].memsz ELSE max_virt
        BY <1>2 DEF Measure, Hdr
      <3> QED
        BY <3>1, <3>2
    <2>3. ASSUME NEW k \in 1 .. Len(Hdr), Hdr[k].memsz > 0, k < header + 1
          PROVE  Hdr[k].vaddr + Hdr[k].memsz <= max_virt'
      <3>1. Hdr[k].vaddr \in Nat /\ Hdr[k].memsz \in Nat /\ Len(Hdr) \in Nat
        BY <2>1, FileTypes
      <3>2. CASE k = header
        BY <2>2, <2>3, <3>2
      <3>3. CASE k < header
        <4>1. Hdr[k].vaddr + Hdr[k].memsz <= max_virt
          BY <2>1, <2>3, <3>3 DEF MeasuredInv
        <4> QED
          BY <2>2, <3>1, <4>1
      <3> QED
        BY <2>1, <2>3, <3>1, <3>2, <3>3
    <2> QED
      BY <2>1, <2>3 DEF MeasuredInv
  <1>3. CASE Allocated
    <2>1. /\ loading = "measure" /\ header > Len(Hdr) /\ Hdr' = Hdr
          /\ max_virt' = max_virt /\ header \in Nat /\ Len(Hdr) \in Nat
      BY <1>3, FileTypes DEF Allocated, Hdr, LoopsInv
    <2>2. \A k \in 1 .. Len(Hdr) : k < header
      BY <2>1
    <2> QED
      BY <2>1, <2>2 DEF MeasuredInv
  <1>4. CASE LoadSegment \/ SkipHeader \/ Relocate \/ NextHeader
    <2>1. loading # "measure" /\ Hdr' = Hdr /\ max_virt' = max_virt
      BY <1>4 DEF LoadSegment, SkipHeader, Relocate, NextHeader, Hdr
    <2> QED
      BY <2>1 DEF MeasuredInv
  <1>5. CASE AppReturned
    <2>1. Len(Hdr') = 0
      BY <1>5 DEF AppReturned, Hdr, NoImage
    <2> QED
      BY <2>1 DEF MeasuredInv
  <1> QED
    BY <1>1, <1>2, <1>3, <1>4, <1>5 DEF LoadStep

(* A step that leaves the file alone and the sets as they are. *)
LEMMA SameContent ==
    ASSUME ContentInv, loading \in {"segments", "relocations"},
           UNCHANGED << image, code, max_virt >>, Applied' = Applied, Copied' = Copied
    PROVE  ContentInv'
  BY DEF ContentInv

(* The vector is allocated: nothing was copied to it yet. *)
LEMMA AllocatedContent ==
    ASSUME LoopsInv, Allocated
    PROVE  ContentInv'
  <1>1. /\ header' = 1 /\ loading' = "segments" /\ max_virt' = max_virt
        /\ code' = [v \in 0 .. max_virt - 1 |-> Zero] /\ image' = image
    BY DEF Allocated
  <1>2. Loads(image)' = Loads(image) /\ Loads(image) \subseteq 1 .. Len(Hdr)
    BY <1>1 DEF Loads, Hdr
  <1>3. \A k \in Loads(image)' : ~(k < header')
    BY <1>1, <1>2
  <1>4. Applied' = {} /\ Copied' = {}
    BY <1>1, <1>3 DEF Applied, Copied
  <1>5. \A v \in 0 .. max_virt - 1 : Described(image', {}, {}, v, Zero)
    BY DEF Described
  <1> QED
    BY <1>1, <1>4, <1>5 DEF ContentInv

(* A segment is copied over nothing that was written before. *)
LEMMA SegmentContent ==
    ASSUME LoopsInv, ContentInv, LoadSegment
    PROVE  ContentInv'
  <1>1. /\ loading = "segments" /\ header \in Loads(image) /\ loading' = "relocations"
        /\ rel' = 1 /\ UNCHANGED << image, header, max_virt >> /\ Hdr' = Hdr /\ Rla' = Rla
        /\ code' = CopySegment(code, Hdr[header])
    BY DEF LoadSegment, LoopsInv, Loads, Hdr, Rla
  <1>2. Loads(image)' = Loads(image) /\ Loads(image) \subseteq 1 .. Len(Hdr)
    BY <1>1 DEF Loads, Hdr
  <1>3. Applied' = Applied
    <2>1. \A r \in 1 .. Len(Rla) : ~(r < rel')
      BY <1>1
    <2> QED
      BY <1>1, <1>2, <2>1 DEF Applied
  <1>4. Copied' = Copied \cup {header}
    BY <1>1, <1>2 DEF Copied
  <1>5. DOMAIN code' = DOMAIN code /\ DOMAIN code = 0 .. max_virt - 1
    BY <1>1 DEF CopySegment, ContentInv
  <1>6. ASSUME NEW v \in DOMAIN code
        PROVE  Described(image, Applied, Copied \cup {header}, v, code'[v])
    <2>1. Described(image, Applied, Copied, v, code[v]) /\ v \in Nat
      BY <1>1, <1>5 DEF ContentInv, LoopsInv
    <2>2. code'[v] = IF InFile(Hdr[header], v)
                     THEN FileByte(Hdr[header].offset + v - Hdr[header].vaddr)
                     ELSE code[v]
      BY <1>1 DEF CopySegment, InFile
    <2>3. CASE InFile(Hdr[header], v)
      <3>1. \A r \in Applied : ~InWord(Rla[r], v)
        <4> SUFFICES ASSUME NEW r \in Applied, InWord(Rla[r], v)
                     PROVE  FALSE
          OBVIOUS
        <4>1. r \in 1 .. Len(Rla)
          BY DEF Applied
        <4>2. PICK k \in Loads(image) : k < header /\ Inside(Rla[r], Hdr[k])
          BY <1>1 DEF Applied
        <4>3. header # k
          BY <1>2, <4>2 DEF LoopsInv
        <4> QED
          BY <1>1, <2>1, <2>3, <4>1, <4>2, <4>3, WordInSegment
      <3>2. \A k \in Copied \cup {header} : InFile(Hdr[k], v) => k = header
        BY <1>1, <2>1, <2>3, FilesApart DEF Copied
      <3> QED
        BY <2>2, <2>3, <3>1, <3>2 DEF Described, Hdr, Rla
    <2>4. CASE ~InFile(Hdr[header], v)
      BY <2>1, <2>2, <2>4 DEF Described, Hdr
    <2> QED
      BY <2>3, <2>4
  <1> QED
    BY <1>1, <1>3, <1>4, <1>5, <1>6 DEF ContentInv

(* A relocation is written over bytes of the file or zeroes, never over    *)
(* another relocation.                                                     *)
LEMMA RelocateContent ==
    ASSUME LoopsInv, ContentInv, Relocate
    PROVE  ContentInv'
  <1>1. /\ loading = "relocations" /\ loading' = "relocations" /\ rel' = rel + 1
        /\ UNCHANGED << image, header, max_virt >> /\ Hdr' = Hdr /\ Rla' = Rla
        /\ rel \in 1 .. Len(Rla) /\ Len(Rla) \in Nat /\ header \in Loads(image)
        /\ code' = IF Inside(Rla[rel], Hdr[header]) THEN WriteWord(code, Rla[rel]) ELSE code
    BY FileTypes DEF Relocate, LoopsInv, Hdr, Rla
  <1>2. Loads(image)' = Loads(image)
    BY <1>1 DEF Loads
  <1>3. Copied' = Copied
    BY <1>1, <1>2 DEF Copied
  <1>4. \A r \in 1 .. Len(Rla) : r < rel' <=> (r < rel \/ r = rel)
    BY <1>1
  <1>5. CASE ~Inside(Rla[rel], Hdr[header])
    <2>1. Applied' = Applied
      BY <1>1, <1>2, <1>4, <1>5 DEF Applied
    <2> QED
      BY <1>1, <1>3, <1>5, <2>1, SameContent
  <1>6. CASE Inside(Rla[rel], Hdr[header])
    <2>1. Applied' = Applied \cup {rel}
      BY <1>1, <1>2, <1>4, <1>6 DEF Applied
    <2>2. DOMAIN code' = DOMAIN code /\ DOMAIN code = 0 .. max_virt - 1
      BY <1>1, <1>6 DEF WriteWord, ContentInv
    <2>3. ASSUME NEW v \in DOMAIN code
          PROVE  Described(image, Applied \cup {rel}, Copied, v, code'[v])
      <3>1. Described(image, Applied, Copied, v, code[v]) /\ v \in Nat
        BY <1>1, <2>2 DEF ContentInv, LoopsInv
      <3>2. code'[v] = IF InWord(Rla[rel], v)
                       THEN BaseByte(Rla[rel].add, v - Rla[rel].off) ELSE code[v]
        BY <1>1, <1>6 DEF WriteWord, InWord
      <3>3. CASE InWord(Rla[rel], v)
        <4>1. \A r \in Applied \cup {rel} : InWord(Rla[r], v) => r = rel
          <5> SUFFICES ASSUME NEW r \in Applied, InWord(Rla[r], v), r # rel
                       PROVE  FALSE
            OBVIOUS
          <5>1. r \in 1 .. Len(Rla) /\ Rla[r].off \in Nat /\ Rla[rel].off \in Nat
            BY <1>1, FileTypes DEF Applied
          <5>2. r < rel \/ rel < r
            BY <1>1, <5>1
          <5>3. Rla[r].off + WORD <= Rla[rel].off \/ Rla[rel].off + WORD <= Rla[r].off
            BY <1>1, <5>1, <5>2, FileShape
          <5> QED
            BY <3>1, <3>3, <5>1, <5>3, WordAssumption DEF InWord
        <4> QED
          BY <3>2, <3>3, <4>1 DEF Described, Rla
      <3>4. CASE ~InWord(Rla[rel], v)
        BY <3>1, <3>2, <3>4 DEF Described, Rla
      <3> QED
        BY <3>3, <3>4
    <2> QED
      BY <1>1, <1>3, <2>1, <2>2, <2>3 DEF ContentInv
  <1> QED
    BY <1>5, <1>6

(* Going on to the next header changes neither set. *)
LEMMA OnToHeaderContent ==
    ASSUME LoopsInv, ContentInv, SkipHeader \/ NextHeader
    PROVE  ContentInv'
  <1>1. /\ loading \in {"segments", "relocations"} /\ loading' = "segments"
        /\ header' = header + 1 /\ header \in Nat
        /\ UNCHANGED << image, code, max_virt >> /\ Hdr' = Hdr /\ Rla' = Rla
    BY DEF SkipHeader, NextHeader, LoopsInv, Hdr, Rla
  <1>2. Loads(image)' = Loads(image) /\ Loads(image) \subseteq 1 .. Len(Hdr)
    BY <1>1 DEF Loads, Hdr
  <1>3. \A k \in Loads(image) : k < header' <=> (k < header \/ k = header)
    BY <1>1, <1>2
  <1>4. CASE SkipHeader
    <2>1. header \notin Loads(image) /\ loading = "segments"
      BY <1>4 DEF SkipHeader, Loads
    <2>2. Applied' = Applied /\ Copied' = Copied
      BY <1>1, <1>2, <1>3, <2>1 DEF Applied, Copied
    <2> QED
      BY <1>1, <2>2, SameContent
  <1>5. CASE NextHeader
    <2>1. /\ loading = "relocations" /\ header \in Loads(image)
          /\ \A r \in 1 .. Len(Rla) : r < rel
      <3>1. rel > Len(Rla) /\ rel \in Nat /\ Len(Rla) \in Nat
        BY <1>5, FileTypes DEF NextHeader, LoopsInv, Rla
      <3> QED
        BY <1>5, <3>1 DEF NextHeader, LoopsInv
    <2>2. Applied' = Applied
      BY <1>1, <1>2, <1>3, <2>1 DEF Applied
    <2>3. Copied' = Copied
      BY <1>1, <1>2, <1>3, <2>1 DEF Copied
    <2> QED
      BY <1>1, <2>2, <2>3, SameContent
  <1> QED
    BY <1>4, <1>5

(* When App::new returns, all segments were copied and every relocation    *)
(* was applied: the application is as its file describes it.               *)
LEMMA AllLoaded ==
    ASSUME LoopsInv, MeasuredInv, ContentInv, AppReturned
    PROVE  LoadedRight([image |-> image, pid |-> Len(apps), code |-> code,
                        entry |-> image.entry])
  <1>1. /\ loading = "segments" /\ header > Len(Hdr) /\ header \in Nat /\ Len(Hdr) \in Nat
        /\ Len(Rla) \in Nat /\ max_virt \in Nat
    BY FileTypes DEF AppReturned, LoopsInv, Hdr
  <1>2. \A k \in Loads(image) : k < header /\ k \in 1 .. Len(Hdr)
    BY <1>1 DEF Loads, Hdr
  <1>3. Copied = Loads(image)
    BY <1>1, <1>2 DEF Copied
  <1>4. Applied = 1 .. Len(Rla)
    <2>1. ASSUME NEW r \in 1 .. Len(Rla)
          PROVE  r \in Applied
      <3>1. PICK k \in Loads(image) : /\ Rla[r].off >= Hdr[k].vaddr
                                      /\ Rla[r].off + WORD <= Hdr[k].vaddr + Hdr[k].memsz
        BY <1>1, FileShape
      <3>2. Rla[r].off \in Nat /\ Hdr[k].vaddr \in Nat /\ Hdr[k].memsz \in Nat
        BY <1>1, <1>2, FileTypes
      <3>3. Rla[r].off < Hdr[k].vaddr + Hdr[k].memsz
        BY <3>1, <3>2, WordAssumption
      <3>4. Inside(Rla[r], Hdr[k])
        BY <3>1, <3>3 DEF Inside
      <3> QED
        BY <1>2, <3>4 DEF Applied
    <2> QED
      BY <2>1 DEF Applied
  <1>5. \A v \in DOMAIN code : Described(image, 1 .. Len(Rla), Loads(image), v, code[v])
    BY <1>1, <1>3, <1>4 DEF ContentInv
  <1>6. ASSUME NEW k \in Loads(image),
               NEW v \in Hdr[k].vaddr .. Hdr[k].vaddr + Hdr[k].memsz - 1
        PROVE  v \in DOMAIN code
    <2>1. Hdr[k].vaddr \in Nat /\ Hdr[k].memsz \in Nat
      BY <1>1, <1>2, FileTypes
    <2>2. Hdr[k].memsz > 0
      BY <2>1
    <2>3. Hdr[k].vaddr + Hdr[k].memsz <= max_virt
      BY <1>1, <1>2, <2>2 DEF MeasuredInv
    <2> QED
      BY SMTT(20), <1>1, <2>1, <2>3 DEF ContentInv
  <1>7. image.entry \in DOMAIN code /\ code[image.entry] # Zero
    <2>1. PICK k \in Loads(image) : InFile(Hdr[k], image.entry)
      BY <1>1, FileShape
    <2>2. /\ Hdr[k].vaddr \in Nat /\ Hdr[k].filesz \in Nat /\ Hdr[k].memsz \in Nat
          /\ Hdr[k].filesz <= Hdr[k].memsz /\ image.entry \in Nat
      BY <1>1, <1>2, FileTypes, FileShape, ImagesAssumption DEF LoopsInv, WellFormed
    <2>3. image.entry \in Hdr[k].vaddr .. Hdr[k].vaddr + Hdr[k].memsz - 1
      BY <2>1, <2>2 DEF InFile
    <2>4. image.entry \in DOMAIN code
      BY <1>6, <2>3
    <2>5. Described(image, 1 .. Len(Rla), Loads(image), image.entry, code[image.entry])
      BY <1>5, <2>4
    <2>6. \/ \E r \in 1 .. Len(Rla) : code[image.entry]
                 = BaseByte(Rla[r].add, image.entry - Rla[r].off)
          \/ code[image.entry] = FileByte(Hdr[k].offset + image.entry - Hdr[k].vaddr)
      BY <2>1, <2>5 DEF Described, Hdr, Rla
    <2> QED
      BY <2>4, <2>6 DEF BaseByte, FileByte, Zero
  <1> QED
    BY <1>5, <1>6, <1>7 DEF LoadedRight, Hdr, Rla

(* The applications loaded before stay as they are. *)
LEMMA LoadedStep ==
    ASSUME LoopsInv, MeasuredInv, ContentInv, ImagesLoaded, LoadStep
    PROVE  ImagesLoaded'
  <1>1. CASE ~AppReturned
    <2>1. apps' = apps
      BY <1>1 DEF LoadStep, Measure, Allocated, LoadSegment, SkipHeader, Relocate,
         NextHeader
    <2> QED
      BY <2>1 DEF ImagesLoaded
  <1>2. CASE AppReturned
    <2> DEFINE e == [image |-> image, pid |-> Len(apps), code |-> code,
                     entry |-> image.entry]
    <2>1. apps' = Append(apps, e)
      BY <1>2 DEF AppReturned
    <2>2. LoadedRight(e)
      BY <1>2, AllLoaded
    <2>3. PICK S : apps \in Seq(S)
      BY DEF LoopsInv
    <2>4. apps \in Seq(S \cup {e}) /\ e \in S \cup {e}
      BY <2>3
    <2> HIDE DEF e
    <2>5. /\ Len(apps) \in Nat /\ Len(Append(apps, e)) = Len(apps) + 1
          /\ \A k \in 1 .. Len(apps) : Append(apps, e)[k] = apps[k]
          /\ Append(apps, e)[Len(apps) + 1] = e
      BY <2>4
    <2>6. \A k \in 1 .. Len(Append(apps, e)) : LoadedRight(Append(apps, e)[k])
      BY <2>2, <2>5 DEF ImagesLoaded
    <2> QED
      BY <2>1, <2>6 DEF ImagesLoaded
  <1> QED
    BY <1>1, <1>2

(* Every step of the system preserves the invariant. *)
LEMMA LInvStep == LInv /\ [BootNext]_allvars => LInv'
  <1> SUFFICES ASSUME LInv, [BootNext]_allvars
               PROVE  LInv'
    OBVIOUS
  <1>1. LoopsInv /\ MeasuredInv /\ ContentInv /\ ImagesLoaded
    BY DEF LInv
  <1>2. CASE UNCHANGED loadvars
    <2>1. UNCHANGED << loading, image, header, rel, max_virt, code, apps >>
      BY <1>2 DEF loadvars
    <2>2. Hdr' = Hdr /\ Rla' = Rla /\ Loads(image)' = Loads(image)
      BY <2>1 DEF Hdr, Rla, Loads
    <2>3. Applied' = Applied /\ Copied' = Copied
      BY <2>1, <2>2 DEF Applied, Copied
    <2>4. LoopsInv'
      BY <1>1, <2>1, <2>2 DEF LoopsInv
    <2>5. MeasuredInv' /\ ContentInv' /\ ImagesLoaded'
      BY <1>1, <2>1, <2>2, <2>3 DEF MeasuredInv, ContentInv, ImagesLoaded
    <2> QED
      BY <2>4, <2>5 DEF LInv
  <1>3. CASE LoadApp
    <2>1. CASE \E file \in Images : Len(apps) < MaxApps /\ AppNew(file)
      <3>1. loading' = "measure" /\ apps' = apps
        BY <2>1 DEF AppNew
      <3>2. ContentInv' /\ ImagesLoaded'
        BY <1>1, <3>1 DEF ContentInv, ImagesLoaded
      <3> QED
        BY <1>1, <2>1, <3>2, LoopsStep, MeasuredStep DEF LInv
    <2>2. CASE LoadStep
      <3>1. ContentInv'
        <4>1. CASE Measure
          BY <4>1 DEF Measure, ContentInv
        <4>2. CASE AppReturned
          BY <4>2 DEF AppReturned, ContentInv
        <4>3. CASE Allocated \/ LoadSegment \/ Relocate \/ SkipHeader \/ NextHeader
          BY <1>1, <4>3, AllocatedContent, SegmentContent, RelocateContent,
             OnToHeaderContent
        <4> QED
          BY <2>2, <4>1, <4>2, <4>3 DEF LoadStep
      <3> QED
        BY <1>1, <2>2, <3>1, LoopsStep, MeasuredStep, LoadedStep DEF LInv
    <2> QED
      BY <1>3, <2>1, <2>2 DEF LoadApp
  <1> QED
    BY <1>2, <1>3 DEF BootNext, MapMemory, MapMemoryEnds, HeapPage, HeapEnds, Scan,
       Device, StartExecutor, Allocate, FrameBuffer, bootvars, allvars

(* The invariant holds when kernel_main starts. *)
LEMMA LInvInit == BootInit => LInv
  <1> SUFFICES ASSUME BootInit
               PROVE  LInv
    OBVIOUS
  <1>1. LoaderInit
    BY DEF BootInit
  <1>2. Len(Hdr) = 0 /\ Len(Rla) = 0
    BY <1>1 DEF LoaderInit, NoImage, Hdr, Rla
  <1>3. apps \in Seq({}) /\ Len(apps) = 0
    BY <1>1 DEF LoaderInit
  <1>4. LoopsInv
    BY <1>1, <1>2, <1>3, BootAssumption DEF LoaderInit, LoopsInv
  <1>5. MeasuredInv /\ ContentInv /\ ImagesLoaded
    BY <1>1, <1>2, <1>3 DEF LoaderInit, MeasuredInv, ContentInv, ImagesLoaded
  <1> QED
    BY <1>4, <1>5 DEF LInv

LEMMA LInvAlways == BootSpec => []LInv
  BY LInvInit, LInvStep, PTL DEF BootSpec

(* App::new loads every file that a linker may produce as the file         *)
(* describes it, whatever the sizes and places of its segments and         *)
(* relocations: no copy overwrites a relocation, no relocation is missed   *)
(* or applied to another segment, and the entry point is code.             *)
THEOREM ImagesAlwaysLoaded == BootSpec => []ImagesLoaded
  <1>1. LInv => ImagesLoaded
    BY DEF LInv
  <1> QED
    BY <1>1, LInvAlways, PTL

-----------------------------------------------------------------------------
(* The rest of the types: kernel_main's stages and counters. *)
StagesInv ==
    /\ machine \in Machines
    /\ stage \in {"map", "heap", "scan", "running", "refused"} \cup InitStages
                 \cup AllocStages
    /\ cur <= Len(devs) + 1 /\ off \in Nat
    /\ phys \in 0 .. PhysTables /\ heap \in 0 .. HeapPages
    /\ buffers \in 0 .. MaxBuffers

(* A step of Virtio::init. *)
LEMMA StagesOfDevice ==
    ASSUME DInv, StagesInv, Device
    PROVE  StagesInv'
  <1>1. UNCHANGED << machine, devs, phys, heap, buffers >>
    BY DEF Device, pcivars, bootvars
  <1>2. /\ cur \in Nat /\ Len(devs) \in Nat
        /\ stage \in Visiting => cur <= Len(devs)
    BY DEF DInv, BInv, VisitInv, ScanInv
  <1>3. Moves \/ Readies
    BY DeviceStep DEF DInv, BInv
  <1>4. stage' \in {"map", "heap", "scan", "running", "refused"} \cup InitStages
                   \cup AllocStages
    BY <1>3 DEF Moves, Readies, Visiting, InitStages
  <1>5. cur' <= Len(devs) + 1
    <2>1. CASE cur' = cur
      BY <2>1 DEF StagesInv
    <2>2. CASE cur' = cur + 1 /\ stage \in Visiting
      BY <1>2, <2>2
    <2>3. CASE cur' = cur + 1 /\ stage \notin Visiting
      <3>1. stage = "probe"
        BY <1>3, <2>3 DEF Moves, Readies, Visiting
      <3>2. Probe
        BY <3>1 DEF Device, InitDevice, WalkCapability, ResetDevice, Acknowledge,
           Driver, WriteFeatures, FeaturesOk, FeaturesRefused, WriteStatus,
           CheckFeatures, SelectQueue, StoreTable, FillDesc, StoreAvail, StoreUsed,
           UsePage, DriverOk, AskPage, AllocStages
      <3>3. cur <= Len(devs)
        BY <3>2 DEF Probe
      <3> QED
        BY <1>2, <2>3, <3>3
    <2> QED
      BY <1>3, <2>1, <2>2, <2>3 DEF Moves, Readies
  <1>6. off' \in Nat
    <2>1. off \in Nat
      BY DEF StagesInv
    <2>2. CASE Probe \/ WalkCapability
      BY <2>1, <2>2 DEF Probe, WalkCapability
    <2>3. CASE off' = off
      BY <2>1, <2>3
    <2>4. Probe \/ WalkCapability \/ off' = off
      BY DEF Device, InitDevice, ResetDevice, Acknowledge,
         Driver, WriteFeatures, FeaturesOk, FeaturesRefused, WriteStatus,
         CheckFeatures, SelectQueue, StoreTable, FillDesc, StoreAvail, StoreUsed,
         UsePage, DriverOk, AskPage
    <2> QED
      BY <2>2, <2>3, <2>4
  <1> QED
    BY <1>1, <1>4, <1>5, <1>6 DEF StagesInv

(* The other steps. *)
LEMMA StagesElsewhere ==
    ASSUME DInv, StagesInv, [BootNext]_allvars, ~Device
    PROVE  StagesInv'
  <1>1. /\ UNCHANGED << machine, cur, off >>
        /\ stage' \in {stage, "heap", "scan", "probe", "running"}
    BY DEF BootNext, MapMemory, MapMemoryEnds, HeapPage, HeapEnds, StartExecutor,
       Allocate, FrameBuffer, LoadApp, Scan, ScanFunction, Unmoved, pcivars,
       initvars, allvars
  <1>2. stage' \in {"map", "heap", "scan", "running", "refused"} \cup InitStages
                   \cup AllocStages
    BY <1>1 DEF StagesInv, InitStages
  <1>3. cur' <= Len(devs') + 1
    <2>1. CASE Scan
      <3>1. cur = 1 /\ ScanInv'
        BY <2>1, ScanStep DEF Scan, DInv, BInv, ServedInv, Scans
      <3>2. Len(devs') \in Nat
        BY <3>1 DEF ScanInv
      <3> QED
        BY <1>1, <3>1, <3>2
    <2>2. CASE ~Scan
      <3>1. devs' = devs
        BY <2>2 DEF BootNext, MapMemory, MapMemoryEnds, HeapPage, HeapEnds,
           StartExecutor, Allocate, FrameBuffer, LoadApp, pcivars, allvars
      <3> QED
        BY <1>1, <3>1 DEF StagesInv
    <2> QED
      BY <2>1, <2>2
  <1>4. phys' \in 0 .. PhysTables
    <2>1. phys' = phys \/ (phys < PhysTables /\ phys' = phys + 1)
      BY DEF BootNext, MapMemory, MapMemoryEnds, HeapPage, HeapEnds, StartExecutor,
         Allocate, FrameBuffer, LoadApp, Scan, bootvars, allvars
    <2> QED
      BY <2>1, BootAssumption DEF StagesInv
  <1>5. heap' \in 0 .. HeapPages
    <2>1. heap' = heap \/ (heap < HeapPages /\ heap' = heap + 1)
      BY DEF BootNext, MapMemory, MapMemoryEnds, HeapPage, HeapEnds, StartExecutor,
         Allocate, FrameBuffer, LoadApp, Scan, bootvars, allvars
    <2> QED
      BY <2>1, BootAssumption DEF StagesInv
  <1>6. buffers' \in 0 .. MaxBuffers
    <2>1. buffers' = buffers \/ (buffers < MaxBuffers /\ buffers' = buffers + 1)
      BY DEF BootNext, MapMemory, MapMemoryEnds, HeapPage, HeapEnds, StartExecutor,
         Allocate, FrameBuffer, LoadApp, Scan, bootvars, allvars
    <2> QED
      BY <2>1, BootAssumption DEF StagesInv
  <1> QED
    BY <1>1, <1>2, <1>3, <1>4, <1>5, <1>6 DEF StagesInv

(* The state of boot is of its type for every machine, memory map and set  *)
(* of images: no stage, counter, register or queue is anything else.       *)
THEOREM BootTypes == BootSpec => []BootTypeOK
  <1>1. BootInit => StagesInv
    <2> SUFFICES ASSUME BootInit
                 PROVE  StagesInv
      OBVIOUS
    <2>1. Len(devs) = 0
      BY DEF BootInit
    <2> QED
      BY <2>1, BootAssumption DEF BootInit, StagesInv
  <1>2. DInv /\ StagesInv /\ [BootNext]_allvars => StagesInv'
    BY StagesOfDevice, StagesElsewhere
  <1>3. ASSUME DInv, SInv, LInv, StagesInv
        PROVE  BootTypeOK
    <2>1. /\ slot \in 0 .. NumSlots /\ func \in Nat /\ devs \in Seq(DOMAIN machine)
          /\ DOMAIN machine \subseteq Addresses
      BY <1>3, PciAssumption DEF DInv, BInv, ScanInv, SoundMachine
    <2>2. devs \in Seq(Addresses)
      BY <2>1
    <2>3. cur \in 1 .. Len(devs) + 1
      BY <1>3, <2>2 DEF DInv, BInv, VisitInv, StagesInv
    <2>4. q \in Nat /\ idesc \in Nat /\ asked \in BOOLEAN /\ dev \in [DOMAIN machine -> Devices]
      BY <1>3 DEF SInv, LoopInv, AskInv, DevInv
    <2>5. LoopsInv /\ ContentInv
      BY <1>3 DEF LInv
    <2>6. /\ loading \in {"no", "measure", "segments", "relocations"}
          /\ Len(apps) <= MaxApps /\ max_virt \in Nat
      BY <2>5 DEF LoopsInv
    <2>7. header \in 1 .. Len(image.headers) + 1 /\ rel \in 1 .. Len(image.rela) + 1
      <3>1. Len(Hdr) \in Nat /\ Len(Rla) \in Nat
        <4>1. CASE loading = "no"
          BY <2>5, <4>1 DEF LoopsInv, NoImage, Hdr, Rla
        <4> QED
          BY <2>5, <4>1, FileTypes
      <3>2. header \in 1 .. Len(Hdr) + 1 /\ rel \in 1 .. Len(Rla) + 1
        BY <2>5, <3>1 DEF LoopsInv
      <3> QED
        BY <3>2 DEF Hdr, Rla
    <2>8. DOMAIN code \in {{}, 0 .. max_virt - 1}
      BY <2>5 DEF LoopsInv, ContentInv
    <2> QED
      BY <1>3, <2>1, <2>2, <2>3, <2>4, <2>6, <2>7, <2>8, Zenon
         DEF BootTypeOK, StagesInv, Devices, Queues
  <1> QED
    BY <1>1, <1>2, <1>3, SInvAlways, LInvAlways, PTL DEF BootSpec
=============================================================================
