---------------------------- MODULE InputProofs ----------------------------
(***************************************************************************)
(* Proofs about the input driver: for every queue size, index width and    *)
(* set of events, it loses and repeats no buffer, and is a FIFO channel;   *)
(* and applications see of every key what the device reported.             *)
(***************************************************************************)
EXTENDS InputFrames, VirtqueueProofs

(* Where a buffer can be, in parts that the steps disturb one by one. *)
Places(f, h, a, u, held) ==
    /\ f \in Seq(Descs) /\ h \in Seq(Descs) /\ a \in Seq(Descs) /\ u \in Seq(Descs)
    /\ held \in SUBSET Descs
    /\ IsInjective(f) /\ IsInjective(h) /\ IsInjective(a) /\ IsInjective(u)
    /\ Range(f) \cap Range(h) = {} /\ Range(f) \cap Range(a) = {}
    /\ Range(f) \cap Range(u) = {} /\ Range(h) \cap Range(a) = {}
    /\ Range(h) \cap Range(u) = {} /\ Range(a) \cap Range(u) = {}
    /\ (Range(f) \cup Range(h) \cup Range(a) \cup Range(u)) \cap held = {}
    /\ Range(f) \cup Range(h) \cup Range(a) \cup Range(u) \cup held = Descs

(* The free list, the hand and the rings as one sequence without           *)
(* repetition.                                                             *)
LEMMA PlacesJoin ==
    ASSUME NEW f, NEW h, NEW a, NEW u, NEW held, Places(f, h, a, u, held)
    PROVE  \E places \in Seq(Descs) :
             /\ places = f \o h \o a \o u /\ IsInjective(places)
             /\ Len(places) = Len(f) + Len(h) + Len(a) + Len(u)
             /\ Range(places) \cap held = {} /\ Range(places) \cup held = Descs
<1>1. /\ f \o h \in Seq(Descs) /\ Len(f \o h) = Len(f) + Len(h)
      /\ Range(f \o h) = Range(f) \cup Range(h)
      /\ IsInjective(f \o h)
  BY ConcatFacts DEF Places
<1> DEFINE fh == f \o h
<1> HIDE DEF fh
<1>2. /\ fh \o a \in Seq(Descs) /\ Len(fh \o a) = Len(fh) + Len(a)
      /\ Range(fh \o a) = Range(fh) \cup Range(a)
      /\ IsInjective(fh \o a)
  <2>1. fh \in Seq(Descs) /\ IsInjective(fh) /\ Range(fh) \cap Range(a) = {}
    BY <1>1 DEF fh, Places
  <2> QED BY <2>1, ConcatFacts DEF Places
<1> DEFINE fha == fh \o a
<1> HIDE DEF fha
<1>3. /\ fha \o u \in Seq(Descs) /\ Len(fha \o u) = Len(fha) + Len(u)
      /\ Range(fha \o u) = Range(fha) \cup Range(u)
      /\ IsInjective(fha \o u)
  <2>1. fha \in Seq(Descs) /\ IsInjective(fha) /\ Range(fha) \cap Range(u) = {}
    BY <1>1, <1>2 DEF fh, fha, Places
  <2> QED BY <2>1, ConcatFacts DEF Places
<1>4. Range(fha \o u) = Range(f) \cup Range(h) \cup Range(a) \cup Range(u)
  BY <1>1, <1>2, <1>3 DEF fh, fha
<1>5. Len(fha \o u) = Len(f) + Len(h) + Len(a) + Len(u)
  BY <1>1, <1>2, <1>3 DEF fh, fha
<1>6. Range(fha \o u) \cap held = {} /\ Range(fha \o u) \cup held = Descs
  BY <1>4 DEF Places
<1> QED BY <1>3, <1>5, <1>6 DEF fh, fha

(* No ring is overrun: what is elsewhere is not pending. *)
LEMMA PlacesRoom ==
    ASSUME NEW f, NEW h, NEW a, NEW u, NEW held, Places(f, h, a, u, held)
    PROVE  /\ Len(f) \in Nat /\ Len(h) \in Nat /\ Len(a) \in Nat /\ Len(u) \in Nat
           /\ Len(f) + Len(h) + Len(a) + Len(u) <= QSize
           /\ held # {} => Len(f) + Len(h) + Len(a) + Len(u) < QSize
<1>1. PICK places \in Seq(Descs) :
        /\ IsInjective(places) /\ Range(places) \cap held = {}
        /\ Len(places) = Len(f) + Len(h) + Len(a) + Len(u)
  BY PlacesJoin
<1>2. Len(places) <= QSize /\ (held # {} => Len(places) < QSize)
  <2>1. held \in SUBSET Descs
    BY DEF Places
  <2> QED BY <1>1, <2>1, DistinctHeads
<1>3. Len(f) \in Nat /\ Len(h) \in Nat /\ Len(a) \in Nat /\ Len(u) \in Nat
  BY LenProperties DEF Places
<1> QED BY <1>1, <1>2, <1>3

(* A buffer goes from one place to the next. *)
LEMMA PlacesGetFree ==
    ASSUME NEW f, NEW a, NEW u, NEW held, Places(f, <<>>, a, u, held), f # <<>>
    PROVE  Last(f) \in Descs /\ Places(Front(f), << Last(f) >>, a, u, held)
<1>1. /\ Last(f) \in Descs /\ Front(f) \in Seq(Descs)
      /\ Range(f) = Range(Front(f)) \cup {Last(f)}
      /\ IsInjective(Front(f)) /\ Last(f) \notin Range(Front(f))
  BY FrontFacts DEF Places
<1> DEFINE h == << Last(f) >>
<1>2. h \in Seq(Descs) /\ IsInjective(h) /\ Range(h) = {Last(f)} /\ Range(<<>>) = {}
  BY <1>1, OneOrNone
<1> HIDE DEF h
<1>3. Places(Front(f), h, a, u, held)
  BY <1>1, <1>2 DEF Places
<1> QED BY <1>1, <1>3 DEF h

(* The descriptor in hand is published. *)
LEMMA PlacesPublish ==
    ASSUME NEW f, NEW a, NEW u, NEW held, NEW d \in Descs,
           Places(f, <<d>>, a, u, held)
    PROVE  Places(f, <<>>, Append(a, d), u, held)
<1>1. /\ Range(<<d>>) = {d} /\ Range(<<>>) = {} /\ IsInjective(<<>>)
      /\ <<>> \in Seq(Descs)
  BY OneOrNone
<1>2. a \in Seq(Descs) /\ IsInjective(a) /\ d \notin Range(a)
  BY <1>1 DEF Places
<1>3. /\ Append(a, d) \in Seq(Descs) /\ Range(Append(a, d)) = Range(a) \cup {d}
      /\ IsInjective(Append(a, d))
  BY <1>2, AppendFacts
<1> QED BY <1>1, <1>3 DEF Places

(* The device takes the oldest published descriptor. *)
LEMMA PlacesTake ==
    ASSUME NEW f, NEW h, NEW a, NEW u, NEW held, Places(f, h, a, u, held), a # <<>>
    PROVE  /\ Head(a) \in Descs \ held
           /\ Places(f, h, Tail(a), u, held \cup {Head(a)})
<1>1. /\ Head(a) \in Descs /\ Tail(a) \in Seq(Descs)
      /\ Range(a) = Range(Tail(a)) \cup {Head(a)}
      /\ IsInjective(Tail(a)) /\ Head(a) \notin Range(Tail(a))
  BY TailFacts DEF Places
<1> QED BY <1>1 DEF Places

(* The device returns a descriptor. *)
LEMMA PlacesReturn ==
    ASSUME NEW f, NEW h, NEW a, NEW u, NEW held, Places(f, h, a, u, held),
           NEW d \in held
    PROVE  Places(f, h, a, Append(u, d), held \ {d})
<1>1. u \in Seq(Descs) /\ IsInjective(u) /\ d \notin Range(u) /\ d \in Descs
  BY DEF Places
<1>2. /\ Append(u, d) \in Seq(Descs) /\ Range(Append(u, d)) = Range(u) \cup {d}
      /\ IsInjective(Append(u, d))
  BY <1>1, AppendFacts
<1> QED BY <1>1, <1>2 DEF Places

(* The driver takes the oldest returned descriptor in its hand. *)
LEMMA PlacesNextUsed ==
    ASSUME NEW f, NEW a, NEW u, NEW held, Places(f, <<>>, a, u, held), u # <<>>
    PROVE  Head(u) \in Descs /\ Places(f, << Head(u) >>, a, Tail(u), held)
<1>1. /\ Head(u) \in Descs /\ Tail(u) \in Seq(Descs)
      /\ Range(u) = Range(Tail(u)) \cup {Head(u)}
      /\ IsInjective(Tail(u)) /\ Head(u) \notin Range(Tail(u))
  BY TailFacts DEF Places
<1> DEFINE h == << Head(u) >>
<1>2. h \in Seq(Descs) /\ IsInjective(h) /\ Range(h) = {Head(u)} /\ Range(<<>>) = {}
  BY <1>1, OneOrNone
<1> HIDE DEF h
<1>3. Places(f, h, a, Tail(u), held)
  BY <1>1, <1>2 DEF Places
<1> QED BY <1>1, <1>3 DEF h

-----------------------------------------------------------------------------
(* A descriptor is in drive()'s hand exactly from get_free_desc_id or      *)
(* next_used to the end of set_writable_available. *)
HandInv ==
    /\ cur \in Descs <=> pc \in {"fillslot", "fillidx", "apply", "slot", "idx"}
    /\ pc \in {"fillidx", "idx"} => avail_ring[Slot(avail_idx)] = cur

(* A buffer that came back holds an event. *)
EventInv ==
    /\ \A d \in Range(UsedPending) : buf[d] \in Events
    /\ pc = "apply" => buf[cur] \in Events

PlacesInv == Places(free, InHand, AvailPending, UsedPending, dev_held)

IInv == TypeOK /\ HandInv /\ EventInv /\ PlacesInv

(* The inductive invariant holds when the driver starts. *)
LEMMA InitInv == Init => IInv
<1> SUFFICES ASSUME Init PROVE IInv
  OBVIOUS
<1>1. /\ VqTypeOK /\ AvailPending = <<>> /\ UsedPending = <<>> /\ dev_held = {}
      /\ free \in Seq(Descs) /\ IsInjective(free) /\ Range(free) = Descs
  BY VqInitFacts DEF Init
<1>2. NoDesc \notin Descs
  BY RingAssumption DEF NoDesc, Descs
<1>3. TypeOK
  BY <1>1, EventAssumption, EmptySeq DEF Init, TypeOK
<1>4. InHand = <<>>
  BY <1>2 DEF Init, InHand
<1>5. PlacesInv
  BY <1>1, <1>4, OneOrNone DEF PlacesInv, Places
<1>6. HandInv /\ EventInv
  BY <1>1, <1>2, OneOrNone DEF Init, HandInv, EventInv
<1> QED BY <1>3, <1>5, <1>6 DEF IInv

(* What the invariant says of the lengths and of the hand. *)
LEMMA InvFacts ==
    ASSUME IInv
    PROVE  /\ Len(AvailPending) <= QSize /\ Len(UsedPending) <= QSize
           /\ cur \in Descs => Len(AvailPending) < QSize /\ InHand = <<cur>>
           /\ cur \notin Descs => InHand = <<>>
           /\ dev_held # {} => Len(UsedPending) < QSize
           /\ dev_held # {} /\ cur \in Descs => Len(UsedPending) + 1 < QSize
<1>1. /\ Len(free) \in Nat /\ Len(InHand) \in Nat
      /\ Len(AvailPending) \in Nat /\ Len(UsedPending) \in Nat
      /\ Len(free) + Len(InHand) + Len(AvailPending) + Len(UsedPending) <= QSize
      /\ dev_held # {} =>
           Len(free) + Len(InHand) + Len(AvailPending) + Len(UsedPending) < QSize
  BY PlacesRoom DEF IInv, PlacesInv
<1>2. QSize \in Nat /\ (cur \in Descs => Len(InHand) = 1)
  BY RingAssumption DEF InHand
<1>3. /\ Len(AvailPending) <= QSize /\ Len(UsedPending) <= QSize
      /\ cur \in Descs => Len(AvailPending) < QSize
      /\ dev_held # {} => Len(UsedPending) < QSize
      /\ dev_held # {} /\ cur \in Descs => Len(UsedPending) + 1 < QSize
  <2>1. Len(AvailPending) <= QSize /\ Len(UsedPending) <= QSize
    BY <1>1, <1>2
  <2>2. cur \in Descs => Len(AvailPending) < QSize
    BY <1>1, <1>2
  <2>3. dev_held # {} => Len(UsedPending) < QSize
    BY <1>1, <1>2
  <2>4. dev_held # {} /\ cur \in Descs => Len(UsedPending) + 1 < QSize
    BY SMTT(20), <1>1, <1>2
  <2> QED BY <2>1, <2>2, <2>3, <2>4
<1>4. /\ cur \in Descs => InHand = <<cur>>
      /\ cur \notin Descs => InHand = <<>>
  BY DEF InHand
<1> QED BY <1>3, <1>4

-----------------------------------------------------------------------------
(* One lemma for each step of drive() and of the device. *)
LEMMA FillInv == IInv /\ Fill => IInv'
<1> SUFFICES ASSUME IInv, Fill PROVE IInv'
  OBVIOUS
<1> USE DEF IInv
<1>1. /\ AvailPending' = AvailPending /\ UsedPending' = UsedPending
      /\ dev_held' = dev_held
  BY PendingSame DEF Fill, availvars, usedvars, devvars
<1>2. cur \notin Descs /\ InHand = <<>>
  BY InvFacts DEF HandInv, Fill
<1>3. Places(free, <<>>, AvailPending, UsedPending, dev_held)
  BY <1>2 DEF PlacesInv
<1>4. CASE free = <<>>
  <2>1. free' = free /\ cur' = cur /\ pc' = "scan" /\ buf' = buf
    BY <1>4 DEF Fill
  <2>2. TypeOK'
    BY <2>1 DEF Fill, TypeOK, VqTypeOK, availvars, usedvars, devvars
  <2>3. HandInv'
    BY <1>2, <2>1 DEF HandInv
  <2>4. EventInv'
    BY <1>1, <2>1 DEF EventInv
  <2>5. InHand' = InHand
    BY <2>1 DEF InHand
  <2>6. PlacesInv'
    BY <1>1, <2>1, <2>5 DEF PlacesInv
  <2> QED BY <2>2, <2>3, <2>4, <2>6
<1>5. CASE free # <<>>
  <2>1. /\ Last(free) \in Descs
        /\ Places(Front(free), << Last(free) >>, AvailPending, UsedPending, dev_held)
    BY <1>3, <1>5, PlacesGetFree
  <2>2. /\ cur' = Last(free) /\ free' = Front(free) /\ pc' = "fillslot"
        /\ buf' = buf
    BY <1>5 DEF Fill, get_free
  <2>3. Front(free) \in Seq(Descs)
    BY <2>1 DEF Places
  <2>4. TypeOK'
    BY <2>1, <2>2, <2>3 DEF Fill, TypeOK, VqTypeOK, availvars, usedvars, devvars
  <2>5. HandInv'
    BY <2>1, <2>2 DEF HandInv
  <2>6. EventInv'
    BY <1>1, <2>2 DEF EventInv
  <2>7. InHand' = << Last(free) >>
    BY <2>1, <2>2 DEF InHand
  <2>8. PlacesInv'
    BY <1>1, <2>1, <2>2, <2>7 DEF PlacesInv
  <2> QED BY <2>4, <2>5, <2>6, <2>8
<1> QED BY <1>4, <1>5

(* The descriptor in hand is written in the ring... *)
LEMMA WriteSlotInv == IInv /\ WriteSlot => IInv'
<1> SUFFICES ASSUME IInv, WriteSlot PROVE IInv'
  OBVIOUS
<1> USE DEF IInv
<1>1. cur \in Descs /\ Len(AvailPending) < QSize
  BY InvFacts DEF HandInv, WriteSlot
<1>2. VqTypeOK /\ write_slot(cur) /\ UNCHANGED << avail_idx, dev_idx >>
  BY DEF WriteSlot, TypeOK, devvars
<1>3. /\ AvailPending' = AvailPending /\ avail_ring' \in Rings
      /\ avail_ring'[Slot(avail_idx)] = cur
  BY <1>1, <1>2, WriteSlotStep
<1>4. UsedPending' = UsedPending
  BY PendingSame DEF WriteSlot
<1>5. /\ free' = free /\ cur' = cur /\ buf' = buf /\ dev_held' = dev_held
      /\ avail_idx' = avail_idx
      /\ pc' \in {"fillidx", "idx"}
  BY DEF WriteSlot, devvars
<1>6. TypeOK'
  BY <1>3, <1>5 DEF WriteSlot, TypeOK, VqTypeOK, usedvars, devvars, Rings
<1>7. HandInv'
  <2>1. Slot(avail_idx)' = Slot(avail_idx)
    BY <1>5 DEF Slot
  <2> QED BY <1>1, <1>3, <1>5, <2>1 DEF HandInv
<1>8. EventInv'
  BY <1>4, <1>5 DEF EventInv
<1>9. InHand' = InHand
  BY <1>5 DEF InHand
<1>10. PlacesInv'
  BY <1>3, <1>4, <1>5, <1>9 DEF PlacesInv
<1> QED BY <1>6, <1>7, <1>8, <1>10

(* ...and the index advanced. *)
LEMMA WriteIdxInv == IInv /\ WriteIdx => IInv'
<1> SUFFICES ASSUME IInv, WriteIdx PROVE IInv'
  OBVIOUS
<1> USE DEF IInv
<1>1. /\ cur \in Descs /\ Len(AvailPending) < QSize /\ InHand = <<cur>>
      /\ avail_ring[Slot(avail_idx)] = cur
  BY InvFacts DEF HandInv, WriteIdx
<1>2. VqTypeOK /\ write_idx /\ UNCHANGED << avail_ring, dev_idx >>
  BY DEF WriteIdx, TypeOK, devvars
<1>3. AvailPending' = Append(AvailPending, cur) /\ avail_idx' \in Indexes
  BY <1>1, <1>2, WriteIdxStep
<1>4. UsedPending' = UsedPending
  BY PendingSame DEF WriteIdx
<1>5. /\ free' = free /\ cur' = NoDesc /\ buf' = buf /\ dev_held' = dev_held
      /\ pc' \in {"scan", "fill"}
  BY DEF WriteIdx, devvars
<1>6. NoDesc \notin Descs
  BY RingAssumption DEF NoDesc, Descs
<1>7. TypeOK'
  BY <1>3, <1>5 DEF WriteIdx, TypeOK, VqTypeOK, usedvars, devvars
<1>8. HandInv'
  BY <1>5, <1>6 DEF HandInv
<1>9. EventInv'
  BY <1>4, <1>5 DEF EventInv
<1>10. InHand' = <<>>
  BY <1>5, <1>6 DEF InHand
<1>11. Places(free, <<cur>>, AvailPending, UsedPending, dev_held)
  BY <1>1 DEF PlacesInv
<1>12. Places(free, <<>>, Append(AvailPending, cur), UsedPending, dev_held)
  BY <1>1, <1>11, PlacesPublish
<1>13. PlacesInv'
  BY <1>3, <1>4, <1>5, <1>10, <1>12 DEF PlacesInv
<1> QED BY <1>7, <1>8, <1>9, <1>13

(* next_used finds a returned descriptor, or none. *)
LEMMA ScanInv == IInv /\ Scan => IInv'
<1> SUFFICES ASSUME IInv, Scan PROVE IInv'
  OBVIOUS
<1> USE DEF IInv
<1>1. cur \notin Descs /\ InHand = <<>>
  BY InvFacts DEF HandInv, Scan
<1>2. Places(free, <<>>, AvailPending, UsedPending, dev_held)
  BY <1>1 DEF PlacesInv
<1>3. /\ free' = free /\ buf' = buf /\ dev_held' = dev_held
      /\ AvailPending' = AvailPending
  BY PendingSame DEF Scan, devvars
<1>4. CASE has_used
  <2>1. PICK d \in Descs : next_used(d) /\ cur' = d
    BY <1>4 DEF Scan
  <2>2. VqTypeOK /\ Len(UsedPending) <= QSize /\ used_idx' = used_idx
    BY InvFacts DEF Scan, TypeOK
  <2>3. /\ UsedPending # <<>> /\ d = Head(UsedPending)
        /\ UsedPending' = Tail(UsedPending)
        /\ used_ring' \in Rings /\ last_used_idx' \in Indexes
    BY <2>1, <2>2, NextUsedStep
  <2>4. Places(free, << d >>, AvailPending, Tail(UsedPending), dev_held)
    BY <1>2, <2>3, PlacesNextUsed
  <2>5. /\ UsedPending \in Seq(Descs)
        /\ Range(UsedPending) = Range(Tail(UsedPending)) \cup {d}
    <3>1. UsedPending \in Seq(Descs)
      BY <1>2 DEF Places
    <3> QED BY <2>3, <3>1, TailFacts
  <2>6. pc' = "apply"
    BY <1>4 DEF Scan
  <2>7. TypeOK'
    BY <2>1, <2>3, <2>6 DEF Scan, TypeOK, VqTypeOK, availvars, devvars, Rings
  <2>8. HandInv'
    BY <2>1, <2>6 DEF HandInv
  <2>9. EventInv'
    BY <1>3, <2>1, <2>3, <2>5 DEF EventInv
  <2>10. InHand' = << d >>
    BY <2>1 DEF InHand
  <2>11. PlacesInv'
    BY <1>3, <2>3, <2>4, <2>10 DEF PlacesInv
  <2> QED BY <2>7, <2>8, <2>9, <2>11
<1>5. CASE ~has_used
  <2>1. /\ pc' = "yield" /\ UNCHANGED << usedvars, cur >>
    BY <1>5 DEF Scan, usedvars
  <2>2. UsedPending' = UsedPending
    BY <2>1, PendingSame
  <2>3. TypeOK'
    BY <2>1 DEF Scan, TypeOK, VqTypeOK, availvars, usedvars, devvars
  <2>4. HandInv'
    BY <1>1, <2>1 DEF HandInv
  <2>5. EventInv'
    BY <1>3, <2>1, <2>2 DEF EventInv
  <2>6. InHand' = InHand
    BY <2>1 DEF InHand
  <2>7. PlacesInv'
    BY <1>3, <2>2, <2>6 DEF PlacesInv
  <2> QED BY <2>3, <2>4, <2>5, <2>7
<1> QED BY <1>4, <1>5

(* An event is applied to the input state. *)
LEMMA ApplyInv == IInv /\ Apply => IInv'
<1> SUFFICES ASSUME IInv, Apply PROVE IInv'
  OBVIOUS
<1> USE DEF IInv
<1>1. /\ UNCHANGED << vqvars, cur, buf >> /\ pc = "apply" /\ pc' = "slot"
      /\ input' = Append(input, buf[cur])
  BY DEF Apply
<1>2. /\ AvailPending' = AvailPending /\ UsedPending' = UsedPending
      /\ InHand' = InHand
  BY <1>1, PendingSame DEF vqvars, availvars, usedvars, InHand
<1>3. input' \in Seq(Events)
  BY <1>1, AppendProperties DEF EventInv, TypeOK
<1>4. TypeOK'
  BY <1>1, <1>3 DEF TypeOK, VqTypeOK, vqvars
<1>5. HandInv' /\ EventInv'
  BY <1>1, <1>2 DEF HandInv, EventInv
<1>6. PlacesInv'
  BY <1>1, <1>2 DEF PlacesInv, vqvars
<1> QED BY <1>4, <1>5, <1>6

(* The driver is polled again. *)
LEMMA ResumeInv == IInv /\ (Resume \/ UNCHANGED vars) => IInv'
<1> SUFFICES ASSUME IInv, Resume \/ UNCHANGED vars PROVE IInv'
  OBVIOUS
<1> USE DEF IInv
<1>1. /\ UNCHANGED << vqvars, cur, buf, input >>
      /\ pc' = pc \/ (pc = "yield" /\ pc' = "scan")
  BY DEF Resume, vars
<1>2. /\ AvailPending' = AvailPending /\ UsedPending' = UsedPending
      /\ InHand' = InHand
  BY <1>1, PendingSame DEF vqvars, availvars, usedvars, InHand
<1>3. TypeOK'
  BY <1>1 DEF TypeOK, VqTypeOK, vqvars
<1>4. HandInv'
  BY <1>1 DEF HandInv, vqvars, Slot
<1>5. EventInv'
  BY <1>1, <1>2 DEF EventInv
<1>6. PlacesInv'
  BY <1>1, <1>2 DEF PlacesInv, vqvars
<1> QED BY <1>3, <1>4, <1>5, <1>6

(* The device takes a buffer. *)
LEMMA DeviceTakeInv == IInv /\ DeviceTake => IInv'
<1> SUFFICES ASSUME IInv, DeviceTake PROVE IInv'
  OBVIOUS
<1> USE DEF IInv
<1>1. PICK d \in Descs : DevTake(d)
  BY DEF DeviceTake
<1>2. UNCHANGED << pc, cur, buf, input >>
  BY DEF DeviceTake
<1>3. VqTypeOK /\ Len(AvailPending) <= QSize
  BY InvFacts DEF TypeOK
<1>4. /\ AvailPending # <<>> /\ d = Head(AvailPending)
      /\ AvailPending' = Tail(AvailPending) /\ UsedPending' = UsedPending
      /\ avail_ring' \in Rings /\ dev_idx' \in Indexes
  BY <1>1, <1>3, DevTakeStep
<1>5. /\ free' = free /\ dev_held' = dev_held \cup {d} /\ avail_idx' = avail_idx
      /\ avail_ring' = [avail_ring EXCEPT ![Slot(dev_idx)] = NoDesc]
  BY <1>1 DEF DevTake
<1>6. InHand' = InHand
  BY <1>2 DEF InHand
<1>7. TypeOK'
  BY <1>1, <1>2, <1>4 DEF DevTake, TypeOK, VqTypeOK, usedvars, Rings
<1>8. HandInv'
  <2>1. ASSUME pc \in {"fillidx", "idx"}
        PROVE  avail_ring'[Slot(avail_idx)] = cur
    <3>1. cur \in Descs /\ Len(AvailPending) < QSize /\ avail_ring[Slot(avail_idx)] = cur
      BY <2>1, InvFacts DEF HandInv
    <3>2. Slot(dev_idx) # Slot(avail_idx)
      BY <1>3, <1>4, <3>1, HeadSlotNotNext
    <3> QED BY <1>3, <1>5, <3>1, <3>2, SlotFacts DEF VqTypeOK, Indexes
  <2>2. Slot(avail_idx)' = Slot(avail_idx)
    BY <1>5 DEF Slot
  <2> QED BY <1>2, <2>1, <2>2 DEF HandInv
<1>9. EventInv'
  BY <1>2, <1>4 DEF EventInv
<1>10. PlacesInv'
  <2>1. Places(free, InHand, Tail(AvailPending), UsedPending, dev_held \cup {d})
    BY <1>4, PlacesTake DEF PlacesInv
  <2> QED BY <1>4, <1>5, <1>6, <2>1 DEF PlacesInv
<1> QED BY <1>7, <1>8, <1>9, <1>10

(* The device reports an event in a buffer it holds. *)
LEMMA DeviceReportInv ==
    ASSUME IInv, NEW d \in Descs, NEW e \in Events, DeviceReport(d, e)
    PROVE  IInv'
<1> USE DEF IInv
<1>1. /\ DevReturn(d) /\ UNCHANGED << pc, cur, input >>
      /\ buf' = [buf EXCEPT ![d] = e] /\ d \in dev_held
  BY DEF DeviceReport, DevReturn
<1>2. VqTypeOK /\ Len(UsedPending) < QSize
  BY <1>1, InvFacts DEF TypeOK
<1>3. /\ UsedPending' = Append(UsedPending, d) /\ AvailPending' = AvailPending
      /\ used_ring' \in Rings /\ used_idx' \in Indexes
  BY <1>1, <1>2, DevReturnStep
<1>4. UNCHANGED << free, availvars >> /\ dev_held' = dev_held \ {d}
  BY <1>1 DEF DevReturn
<1>5. InHand' = InHand
  BY <1>1 DEF InHand
<1>6. TypeOK'
  BY <1>1, <1>3, <1>4 DEF DevReturn, TypeOK, VqTypeOK, availvars, Rings
<1>7. HandInv'
  BY <1>1, <1>4 DEF HandInv, availvars, Slot
<1>8. Range(UsedPending') = Range(UsedPending) \cup {d}
  <2>1. UsedPending \in Seq(Descs)
    BY DEF PlacesInv, Places
  <2> QED BY <1>3, <2>1, AppendFacts
<1>9. EventInv'
  <2>1. \A x \in Descs : buf'[x] = IF x = d THEN e ELSE buf[x]
    BY <1>1 DEF TypeOK
  <2>2. Range(UsedPending) \subseteq Descs
    BY DEF PlacesInv, Places
  <2>3. \A x \in Range(UsedPending') : buf'[x] \in Events
    BY <1>8, <2>1, <2>2 DEF EventInv
  <2>4. pc = "apply" => cur \in Descs /\ buf[cur] \in Events
    BY DEF EventInv, HandInv
  <2> QED BY <1>1, <2>1, <2>3, <2>4 DEF EventInv
<1>10. PlacesInv'
  <2>1. Places(free, InHand, AvailPending, Append(UsedPending, d), dev_held \ {d})
    BY <1>1, PlacesReturn DEF PlacesInv
  <2> QED BY <1>3, <1>4, <1>5, <2>1 DEF PlacesInv
<1> QED BY <1>6, <1>7, <1>9, <1>10

(* Every step preserves the inductive invariant. *)
LEMMA NextInv == IInv /\ [Next]_vars => IInv'
<1> SUFFICES ASSUME IInv, [Next]_vars PROVE IInv'
  OBVIOUS
<1>1. CASE Fill      BY <1>1, FillInv
<1>2. CASE WriteSlot BY <1>2, WriteSlotInv
<1>3. CASE WriteIdx  BY <1>3, WriteIdxInv
<1>4. CASE Scan      BY <1>4, ScanInv
<1>5. CASE Apply     BY <1>5, ApplyInv
<1>6. CASE Resume \/ UNCHANGED vars BY <1>6, ResumeInv
<1>7. CASE DeviceTake BY <1>7, DeviceTakeInv
<1>8. ASSUME NEW d \in Descs, NEW e \in Events, DeviceReport(d, e) PROVE IInv'
  BY <1>8, DeviceReportInv
<1> QED BY <1>1, <1>2, <1>3, <1>4, <1>5, <1>6, <1>7, <1>8 DEF Next, Driver

-----------------------------------------------------------------------------
(* The refinement of the channel: what the driver's queue maps to. *)
Contents(b, u) == [k \in 1 .. Len(u) |-> b[u[k]]]
InHandEvent    == IF pc = "apply" THEN << buf[cur] >> ELSE <<>>

(* The channel: the event in hand, then those of the used ring. *)
LEMMA ReportedParts == Reported = InHandEvent \o Contents(buf, UsedPending)
BY DEF Reported, InHandEvent, Contents

(* The events in the buffers of a sequence of descriptors. *)
LEMMA ContentsFacts ==
    ASSUME NEW b, NEW u \in Seq(Descs), \A d \in Range(u) : b[d] \in Events
    PROVE  /\ Contents(b, u) \in Seq(Events) /\ Len(Contents(b, u)) = Len(u)
           /\ \A k \in 1 .. Len(u) : Contents(b, u)[k] = b[u[k]]
<1>1. Len(u) \in Nat /\ DOMAIN u = 1 .. Len(u)
  BY LenProperties
<1>2. \A k \in 1 .. Len(u) : b[u[k]] \in Events
  BY <1>1 DEF Range
<1>3. Contents(b, u) \in [1 .. Len(u) -> Events]
  BY <1>2 DEF Contents
<1>4. Contents(b, u) \in Seq(Events)
  BY <1>1, <1>3, SeqDef
<1>5. Len(Contents(b, u)) = Len(u)
  BY <1>1, <1>3, <1>4, LenProperties
<1> QED BY <1>4, <1>5 DEF Contents

(* An event at the end of the second part is at the end of the whole. *)
LEMMA PushEvent ==
    ASSUME NEW s \in Seq(Events), NEW t \in Seq(Events), NEW e \in Events
    PROVE  s \o Append(t, e) = Append(s \o t, e)
<1>1. /\ Len(s) \in Nat /\ Len(t) \in Nat
      /\ Append(t, e) \in Seq(Events) /\ Len(Append(t, e)) = Len(t) + 1
      /\ s \o t \in Seq(Events) /\ Len(s \o t) = Len(s) + Len(t)
  BY AppendProperties, ConcatProperties, LenProperties
<1>2. /\ s \o Append(t, e) \in Seq(Events)
      /\ Len(s \o Append(t, e)) = Len(s) + Len(t) + 1
      /\ Append(s \o t, e) \in Seq(Events)
      /\ Len(Append(s \o t, e)) = Len(s) + Len(t) + 1
  BY <1>1, AppendProperties, ConcatProperties
<1>3. ASSUME NEW k \in 1 .. Len(s) + Len(t) + 1
      PROVE  (s \o Append(t, e))[k] = Append(s \o t, e)[k]
  <2>1. CASE k <= Len(s)
    BY <1>1, <2>1, AppendProperties, ConcatProperties
  <2>2. CASE k > Len(s) /\ k <= Len(s) + Len(t)
    BY <1>1, <2>2, AppendProperties, ConcatProperties
  <2>3. CASE k = Len(s) + Len(t) + 1
    BY <1>1, <2>3, AppendProperties, ConcatProperties
  <2> QED BY <1>1, <2>1, <2>2, <2>3
<1> QED BY <1>2, <1>3, SeqEqual

(* A channel whose first part is one event. *)
LEMMA FirstEvent ==
    ASSUME NEW t \in Seq(Events), NEW e \in Events
    PROVE  /\ <<e>> \o t \in Seq(Events) /\ <<e>> \o t # <<>>
           /\ Head(<<e>> \o t) = e /\ Tail(<<e>> \o t) = t
           /\ <<>> \o t = t /\ Len(<<e>> \o t) = Len(t) + 1
<1> DEFINE h == <<e>>
           p == h \o t
<1>1. h \in Seq(Events) /\ Len(h) = 1 /\ h[1] = e /\ Len(t) \in Nat
  BY LenProperties
<1> HIDE DEF h
<1>2. /\ p \in Seq(Events) /\ Len(p) = Len(t) + 1 /\ p[1] = e
      /\ \A k \in 1 .. Len(t) : p[k + 1] = t[k]
  <2>1. p \in Seq(Events) /\ Len(p) = Len(t) + 1
    <3>1. p \in Seq(Events) /\ Len(p) = Len(h) + Len(t)
      BY <1>1, ConcatProperties, Zenon
    <3> QED BY <1>1, <3>1
  <2>2. p[1] = e
    BY <1>1, ConcatProperties
  <2>3. ASSUME NEW k \in 1 .. Len(t) PROVE p[k + 1] = t[k]
    <3>1. k + 1 \in 1 .. Len(h) + Len(t) /\ ~(k + 1 <= Len(h)) /\ (k + 1) - Len(h) = k
      BY <1>1
    <3>2. p[k + 1] = t[(k + 1) - Len(h)]
      BY <1>1, <3>1, ConcatProperties
    <3> QED BY <3>1, <3>2
  <2> QED BY <2>1, <2>2, <2>3
<1>3. p # <<>> /\ Head(p) = e
  BY <1>1, <1>2, EmptySeq
<1>4. Tail(p) = t
  <2>1. /\ Tail(p) \in Seq(Events) /\ Len(Tail(p)) = Len(t)
        /\ \A k \in 1 .. Len(t) : Tail(p)[k] = p[k + 1]
    BY <1>1, <1>2, <1>3, HeadTailProperties
  <2> QED BY <1>2, <2>1, SeqEqual
<1>5. <<>> \o t = t
  BY ConcatEmptySeq
<1> QED BY <1>2, <1>3, <1>4, <1>5 DEF h

(* Arithmetic of positions. *)
LEMMA Positions ==
    /\ \A m, n \in Nat \ {0} : m - 1 = n - 1 => m = n
    /\ \A n \in Nat \ {0} : \A k \in 1 .. n :
         k # 1 => k - 1 \in 1 .. n - 1 /\ (k - 1) + 1 = k
    /\ \A n \in Nat : \A k \in 1 .. n + 1 : k \in 1 .. n \/ k = n + 1
OBVIOUS

(* A sequence is determined by its head and its tail. *)
LEMMA SameHeadTail ==
    ASSUME NEW s \in Seq(Events), NEW t \in Seq(Events), s # <<>>, t # <<>>,
           Head(s) = Head(t), Tail(s) = Tail(t)
    PROVE  s = t
<1>1. /\ Len(s) \in Nat \ {0} /\ Len(t) \in Nat \ {0}
      /\ s[1] = Head(s) /\ t[1] = Head(t)
      /\ Len(Tail(s)) = Len(s) - 1 /\ Len(Tail(t)) = Len(t) - 1
      /\ \A k \in 1 .. Len(s) - 1 : Tail(s)[k] = s[k + 1]
      /\ \A k \in 1 .. Len(t) - 1 : Tail(t)[k] = t[k + 1]
  BY HeadTailProperties, LenProperties, EmptySeq
<1>2. Len(s) = Len(t)
  BY <1>1, Positions, Zenon
<1>3. ASSUME NEW k \in 1 .. Len(s) PROVE s[k] = t[k]
  <2>1. CASE k = 1
    BY <1>1, <2>1, Zenon
  <2>2. CASE k # 1
    <3>1. k - 1 \in 1 .. Len(s) - 1 /\ (k - 1) + 1 = k
      BY <1>1, <2>2, Positions, Zenon
    <3>2. s[(k - 1) + 1] = t[(k - 1) + 1]
      BY <1>1, <1>2, <3>1, Zenon
    <3> QED BY <3>1, <3>2, Zenon
  <2> QED BY <2>1, <2>2
<1> QED BY <1>2, <1>3, SeqEqual

(* What leaves the used ring and its buffers alone leaves the channel      *)
(* alone.                                                                  *)
LEMMA SameReported ==
    ASSUME UsedPending' = UsedPending, buf' = buf,
           pc # "apply", pc' # "apply"
    PROVE  Reported' = Reported
BY DEF Reported

(* DeviceReport puts its event at the end of the channel, Apply takes the  *)
(* oldest one out, and no other step changes the channel.                  *)
LEMMA ChannelReport ==
    ASSUME IInv, NEW d \in Descs, NEW e \in Events, DeviceReport(d, e)
    PROVE  Channel!Report(e)
<1> USE DEF IInv
<1>1. /\ DevReturn(d) /\ UNCHANGED << pc, cur, input >>
      /\ buf' = [buf EXCEPT ![d] = e] /\ d \in dev_held
  BY DEF DeviceReport, DevReturn
<1>2. /\ VqTypeOK /\ Len(UsedPending) < QSize
      /\ cur \in Descs => Len(UsedPending) + 1 < QSize
  BY <1>1, InvFacts DEF TypeOK
<1> DEFINE u == UsedPending
           v == Append(u, d)
<1>3. UsedPending' = v
  BY <1>1, <1>2, DevReturnStep
<1>4. u \in Seq(Descs) /\ d \notin Range(u) /\ Range(u) \subseteq Descs
  BY <1>1 DEF PlacesInv, Places
<1>5. pc = "apply" => cur \in Descs /\ cur # d /\ buf[cur] \in Events
  <2>1. pc = "apply" => cur \in Descs /\ InHand = <<cur>> /\ buf[cur] \in Events
    BY InvFacts DEF HandInv, EventInv
  <2>2. cur \in Descs => Range(<<cur>>) = {cur}
    BY OneOrNone
  <2> QED BY <1>1, <2>1, <2>2 DEF PlacesInv, Places
<1>6. \A x \in Descs : buf'[x] = IF x = d THEN e ELSE buf[x]
  BY <1>1 DEF TypeOK
<1>7. InHandEvent' = InHandEvent /\ InHandEvent \in Seq(Events)
  <2>1. CASE pc = "apply"
    BY <2>1, <1>1, <1>5, <1>6 DEF InHandEvent
  <2>2. CASE pc # "apply"
    BY <2>2, <1>1 DEF InHandEvent
  <2> QED BY <2>1, <2>2
<1>8. \A x \in Range(u) : buf[x] \in Events
  BY DEF EventInv
<1> HIDE DEF u, v
<1>9. /\ v \in Seq(Descs) /\ Len(v) = Len(u) + 1 /\ Range(v) = Range(u) \cup {d}
      /\ Len(u) \in Nat /\ v[Len(u) + 1] = d
      /\ \A k \in 1 .. Len(u) : v[k] = u[k] /\ u[k] \in Range(u)
  <2>1. v \in Seq(Descs) /\ Len(v) = Len(u) + 1 /\ Range(v) = Range(u) \cup {d}
    BY <1>4, AppendFacts DEF v
  <2>2. Len(u) \in Nat /\ v[Len(u) + 1] = d /\ \A k \in 1 .. Len(u) : v[k] = u[k]
    BY <1>4, AppendProperties, LenProperties DEF v
  <2>3. \A k \in 1 .. Len(u) : u[k] \in Range(u)
    BY <1>4, LenProperties DEF Range
  <2> QED BY <2>1, <2>2, <2>3
<1>10. \A x \in Range(v) : buf'[x] \in Events
  BY <1>4, <1>6, <1>8, <1>9
<1> DEFINE c == Contents(buf, u)
<1>11. /\ c \in Seq(Events) /\ Len(c) = Len(u)
       /\ \A k \in 1 .. Len(u) : c[k] = buf[u[k]]
  BY <1>4, <1>8, ContentsFacts
<1>12. /\ Contents(buf', v) \in Seq(Events) /\ Len(Contents(buf', v)) = Len(u) + 1
       /\ \A k \in 1 .. Len(u) + 1 : Contents(buf', v)[k] = buf'[v[k]]
  <2>1. /\ Contents(buf', v) \in Seq(Events) /\ Len(Contents(buf', v)) = Len(v)
        /\ \A k \in 1 .. Len(v) : Contents(buf', v)[k] = buf'[v[k]]
    BY <1>9, <1>10, ContentsFacts
  <2> QED BY <1>9, <2>1
<1> HIDE DEF c
<1>13. /\ Append(c, e) \in Seq(Events) /\ Len(Append(c, e)) = Len(u) + 1
       /\ Append(c, e)[Len(u) + 1] = e
       /\ \A k \in 1 .. Len(u) : Append(c, e)[k] = c[k]
  BY <1>11, AppendProperties
<1>14. \A k \in 1 .. Len(u) + 1 : Contents(buf', v)[k] = Append(c, e)[k]
  <2> SUFFICES ASSUME NEW k \in 1 .. Len(u) + 1
               PROVE  Contents(buf', v)[k] = Append(c, e)[k]
    OBVIOUS
  <2>1. CASE k \in 1 .. Len(u)
    <3>1. u[k] \in Descs /\ u[k] # d /\ v[k] = u[k]
      BY <2>1, <1>4, <1>9
    <3> QED BY <2>1, <3>1, <1>6, <1>11, <1>12, <1>13
  <2>2. CASE k = Len(u) + 1
    BY <2>2, <1>6, <1>9, <1>12, <1>13
  <2>3. Len(u) \in Nat
    BY <1>9
  <2> QED BY <2>1, <2>2, <2>3, Positions, Zenon
<1>15. Contents(buf', v) = Append(c, e)
  BY <1>12, <1>13, <1>14, SeqEqual
<1>16. Reported' = InHandEvent \o Append(c, e)
  BY <1>3, <1>7, <1>15, ReportedParts DEF Reported, InHandEvent, Contents
<1>17. Reported = InHandEvent \o c
  BY ReportedParts DEF c, u
<1>18. Reported' = Append(Reported, e)
  BY <1>7, <1>11, <1>16, <1>17, PushEvent
<1>19. Len(Reported) < QSize
  <2>1. Len(Reported) = Len(InHandEvent) + Len(u)
    <3>1. Len(InHandEvent \o c) = Len(InHandEvent) + Len(c)
      BY <1>7, <1>11, ConcatProperties, Zenon
    <3> QED BY <1>11, <1>17, <3>1, Zenon
  <2>2. Len(InHandEvent) = IF pc = "apply" THEN 1 ELSE 0
    BY DEF InHandEvent
  <2> QED BY <1>2, <1>5, <1>9, <2>1, <2>2, RingAssumption DEF u
<1> QED BY <1>1, <1>18, <1>19 DEF Channel!Report

(* An event is taken from the front of the channel. *)
LEMMA ChannelApply == IInv /\ Apply => Channel!Apply
<1> SUFFICES ASSUME IInv, Apply PROVE Channel!Apply
  OBVIOUS
<1> USE DEF IInv
<1>1. /\ UNCHANGED << vqvars, cur, buf >> /\ pc = "apply" /\ pc' = "slot"
      /\ input' = Append(input, buf[cur])
  BY DEF Apply
<1>2. UsedPending' = UsedPending
  BY <1>1, PendingSame DEF vqvars, usedvars
<1> DEFINE c == Contents(buf, UsedPending)
           e == buf[cur]
<1>3. c \in Seq(Events)
  BY ContentsFacts DEF EventInv, PlacesInv, Places
<1>4. e \in Events
  BY <1>1 DEF EventInv
<1>5. Reported = <<e>> \o c
  BY <1>1, ReportedParts DEF InHandEvent
<1>6. Reported' = <<>> \o c
  BY <1>1, <1>2 DEF Reported, Contents
<1> HIDE DEF c, e
<1>7. Reported # <<>> /\ Head(Reported) = e /\ Tail(Reported) = c /\ Reported' = c
  BY <1>3, <1>4, <1>5, <1>6, FirstEvent
<1> QED BY <1>1, <1>7 DEF Channel!Apply, e

(* next_used moves the oldest event to the hand, where it stays the        *)
(* oldest.                                                                 *)
LEMMA ChannelScan == IInv /\ Scan => UNCHANGED << Reported, input >>
<1> SUFFICES ASSUME IInv, Scan PROVE UNCHANGED << Reported, input >>
  OBVIOUS
<1> USE DEF IInv
<1>1. CASE has_used
  <2>1. PICK d \in Descs : next_used(d) /\ cur' = d
    BY <1>1 DEF Scan
  <2>2. VqTypeOK /\ Len(UsedPending) <= QSize /\ used_idx' = used_idx
    BY InvFacts DEF Scan, TypeOK
  <2> DEFINE u == UsedPending
  <2>3. u # <<>> /\ d = Head(u) /\ UsedPending' = Tail(u)
    BY <2>1, <2>2, NextUsedStep
  <2>4. /\ u \in Seq(Descs) /\ \A x \in Range(u) : buf[x] \in Events
    BY DEF PlacesInv, Places, EventInv
  <2>5. /\ pc = "scan" /\ pc' = "apply" /\ buf' = buf /\ input' = input
    BY <1>1 DEF Scan
  <2>6. Reported = <<>> \o Contents(buf, u)
    BY <2>5, ReportedParts DEF InHandEvent
  <2>7. Reported' = << buf[d] >> \o Contents(buf, Tail(u))
    BY <2>1, <2>3, <2>5 DEF Reported, Contents
  <2> HIDE DEF u
  <2>8. /\ Tail(u) \in Seq(Descs) /\ Len(u) \in Nat \ {0}
        /\ Len(Tail(u)) = Len(u) - 1 /\ Range(u) = Range(Tail(u)) \cup {d}
    BY <2>3, <2>4, TailFacts
  <2>9. /\ u[1] = d /\ \A k \in 1 .. Len(u) - 1 : Tail(u)[k] = u[k + 1]
    BY <2>3, <2>4, <2>8, HeadTailProperties
  <2> DEFINE c == Contents(buf, u)
             t == Contents(buf, Tail(u))
             e == buf[d]
  <2>10. e \in Events /\ \A x \in Range(Tail(u)) : buf[x] \in Events
    BY <2>4, <2>8
  <2>11. /\ c \in Seq(Events) /\ Len(c) = Len(u)
         /\ \A k \in 1 .. Len(u) : c[k] = buf[u[k]]
    BY <2>4, ContentsFacts
  <2>12. /\ t \in Seq(Events) /\ Len(t) = Len(u) - 1
         /\ \A k \in 1 .. Len(u) - 1 : t[k] = buf[Tail(u)[k]]
    <3>1. /\ t \in Seq(Events) /\ Len(t) = Len(Tail(u))
          /\ \A k \in 1 .. Len(Tail(u)) : t[k] = buf[Tail(u)[k]]
      BY <2>8, <2>10, ContentsFacts
    <3> QED BY <2>8, <3>1
  <2> HIDE DEF c, t
  <2>13. c # <<>> /\ Head(c) = e /\ Tail(c) = t
    <3>1. c # <<>> /\ Head(c) = c[1] /\ c[1] = e
      BY <2>8, <2>9, <2>11, EmptySeq
    <3>2. /\ Tail(c) \in Seq(Events) /\ Len(Tail(c)) = Len(u) - 1
          /\ \A k \in 1 .. Len(u) - 1 : Tail(c)[k] = c[k + 1]
      BY <2>8, <2>11, <3>1, HeadTailProperties
    <3>3. \A k \in 1 .. Len(u) - 1 : c[k + 1] = t[k]
      BY SMTT(40), <2>8, <2>9, <2>11, <2>12
    <3>4. Tail(c) = t
      BY <2>8, <2>12, <3>2, <3>3, SeqEqual
    <3> QED BY <3>1, <3>4
  <2> HIDE DEF e
  <2>14. <<e>> \o t = c
    <3> DEFINE p == <<e>> \o t
    <3>1. /\ p \in Seq(Events) /\ p # <<>> /\ Head(p) = e /\ Tail(p) = t
      BY <2>10, <2>12, FirstEvent
    <3> HIDE DEF p
    <3>2. p = c
      BY <2>11, <2>13, <3>1, SameHeadTail
    <3> QED BY <3>2 DEF p
  <2>15. <<>> \o c = c
    BY <2>10, <2>11, FirstEvent
  <2> QED BY <2>5, <2>6, <2>7, <2>14, <2>15 DEF c, t, e
<1>2. CASE ~has_used
  <2>1. /\ pc = "scan" /\ pc' = "yield" /\ buf' = buf /\ input' = input
        /\ UNCHANGED usedvars
    BY <1>2 DEF Scan, usedvars
  <2> QED BY <2>1, PendingSame, SameReported
<1> QED BY <1>1, <1>2

(* Every step of the driver is a step of the channel, or none. *)
LEMMA ChannelStep ==
    IInv /\ [Next]_vars => [Channel!Next]_<< Reported, input >>
<1> SUFFICES ASSUME IInv, [Next]_vars
             PROVE  Channel!Next \/ UNCHANGED << Reported, input >>
  OBVIOUS
<1>1. CASE Fill
  BY <1>1, PendingSame, SameReported DEF Fill
<1>2. CASE WriteSlot
  BY <1>2, PendingSame, SameReported DEF WriteSlot
<1>3. CASE WriteIdx
  BY <1>3, PendingSame, SameReported DEF WriteIdx
<1>4. CASE Scan
  BY <1>4, ChannelScan
<1>5. CASE Apply
  BY <1>5, ChannelApply DEF Channel!Next
<1>6. CASE Resume
  BY <1>6, PendingSame, SameReported DEF Resume, vqvars, usedvars
<1>7. CASE DeviceTake
  <2>1. UsedPending' = UsedPending /\ UNCHANGED << pc, cur, buf, input >>
    BY <1>7, PendingSame DEF DeviceTake, DevTake
  <2> QED BY <2>1 DEF Reported
<1>8. ASSUME NEW d \in Descs, NEW e \in Events, DeviceReport(d, e)
      PROVE  Channel!Next
  BY <1>8, ChannelReport DEF Channel!Next
<1>9. CASE UNCHANGED vars
  <2>1. UsedPending' = UsedPending /\ UNCHANGED << pc, cur, buf, input >>
    BY <1>9, PendingSame DEF vars, vqvars, usedvars
  <2> QED BY <2>1 DEF Reported
<1> QED BY <1>1, <1>2, <1>3, <1>4, <1>5, <1>6, <1>7, <1>8, <1>9 DEF Next, Driver

(* The driver starts with an empty channel. *)
LEMMA ChannelInit == Init => Channel!Init
<1> SUFFICES ASSUME Init PROVE Channel!Init
  OBVIOUS
<1>1. UsedPending = <<>>
  BY VqInitFacts DEF Init
<1>2. InHandEvent = <<>> /\ Contents(buf, UsedPending) = <<>>
  BY <1>1 DEF Init, InHandEvent, Contents
<1>3. Reported = <<>>
  BY <1>2, ReportedParts
<1> QED BY <1>3 DEF Init, Channel!Init

-----------------------------------------------------------------------------
(* The driver runs beside the application loop (InputFrames): a step of    *)
(* the whole is a step of the driver or leaves the driver alone.           *)
LEMMA InputNextIsDriver == [InputNext]_allvars => [Next]_vars
BY DEF InputNext, allvars, Drive, Update, Frame, Device, Next, Driver

(* The driver's invariant holds with the frames of the applications beside *)
(* it.                                                                     *)
LEMMA DriverInvariant == InputSpec => []IInv
<1>1. InputInit => IInv
  BY InitInv DEF InputInit
<1>2. IInv /\ [InputNext]_allvars => IInv'
  BY NextInv, InputNextIsDriver
<1> QED BY <1>1, <1>2, PTL DEF InputSpec

(* Every event buffer is in exactly one place, so neither ring is overrun  *)
(* and the device never writes a buffer that drive() reads.                *)
THEOREM BuffersAreConserved == InputSpec => []BuffersConserved
<1>1. IInv => BuffersConserved
  <2> SUFFICES ASSUME IInv PROVE BuffersConserved
    OBVIOUS
  <2>1. PICK places \in Seq(Descs) :
          /\ places = free \o InHand \o AvailPending \o UsedPending
          /\ IsInjective(places)
          /\ Range(places) \cap dev_held = {} /\ Range(places) \cup dev_held = Descs
    BY PlacesJoin DEF IInv, PlacesInv
  <2> QED BY <2>1, Zenon DEF BuffersConserved
<1> QED BY <1>1, DriverInvariant, PTL

(* The safety part of ImplementsChannel: drive() and the device refine a   *)
(* bounded FIFO channel to INPUT, whatever the queue size and the number   *)
(* of times the ring indexes wrapped around.                               *)
THEOREM DriverRefinesChannel ==
    InputSpec => Channel!Init /\ [][Channel!Next]_<< Reported, input >>
<1>1. InputInit => Channel!Init
  BY ChannelInit DEF InputInit
<1>2. IInv /\ [InputNext]_allvars => [Channel!Next]_<< Reported, input >>
  BY ChannelStep, InputNextIsDriver
<1> QED BY <1>1, <1>2, DriverInvariant, PTL DEF InputSpec

-----------------------------------------------------------------------------
(* INPUT between the driver and the application loop. *)
LEMMA HistoryIndex ==
    ASSUME NEW i \in Nat
    PROVE  i % HISTORY_SIZE \in 0 .. HISTORY_SIZE - 1
<1>1. i \in Int /\ HISTORY_SIZE \in Nat \ {0}
  BY InputAssumption
<1> QED BY <1>1, ModFacts

(* The input state is updated with an event. *)
LEMMA UpdateTypes ==
    ASSUME IInv, IInv', InputTypeOK, Update
    PROVE  InputTypeOK'
<1> DEFINE e == buf[cur]
<1>1. /\ Apply /\ UNCHANGED << last_seen, shift, reader, read_events, frames >>
      /\ e \in Events /\ TypeOK'
  BY DEF Update, IInv, EventInv, Apply
<1>2. Len(input) \in Nat /\ Len(input') = Len(input) + 1
  <2>1. input \in Seq(Events) /\ input' = Append(input, e)
    BY <1>1 DEF IInv, TypeOK, Apply
  <2> QED BY <1>1, <2>1, AppendProperties, LenProperties
<1> HIDE DEF e
<1>3. /\ frames' = frames /\ frames.before \in 0 .. frames.last
      /\ frames.last \in 0 .. Len(input)
      /\ history_last_index \in 0 .. Len(input)
      /\ last_seen \in {NoStore} \cup 0 .. history_last_index
  BY <1>1 DEF InputTypeOK
<1>4. /\ frames'.before \in 0 .. frames'.last /\ frames'.last \in 0 .. Len(input')
      /\ history_last_index \in 0 .. Len(input')
      /\ history_last_index + 1 \in 0 .. Len(input')
      /\ last_seen \in {NoStore} \cup 0 .. history_last_index + 1
      /\ history_last_index + 1 \in Nat
  BY <1>2, <1>3
<1>5. CASE e.type = 0 /\ UNCHANGED << keys, mouse, history_last_index, history_ring >>
  BY <1>1, <1>3, <1>4, <1>5 DEF InputTypeOK
<1>6. CASE e.type = 1 /\ Incoming(e.code, e.value # 0) /\ UNCHANGED mouse
  <2>1. e.code \in Keys
    BY <1>1, <1>6, InputAssumption
  <2>2. /\ history_last_index' = history_last_index + 1
        /\ history_ring' = [history_ring EXCEPT
              ![(history_last_index + 1) % HISTORY_SIZE] =
                  [trigger |-> e.value # 0, key |-> e.code]]
        /\ keys' = [keys EXCEPT ![e.code] = KeyStateIncoming(@, e.value # 0)]
    BY <1>6 DEF Incoming
  <2>3. (history_last_index + 1) % HISTORY_SIZE \in 0 .. HISTORY_SIZE - 1
    BY <1>4, HistoryIndex
  <2>4. [trigger |-> e.value # 0, key |-> e.code] \in InputEvents
    BY <2>1 DEF InputEvents
  <2>5. history_ring' \in [0 .. HISTORY_SIZE - 1 -> InputEvents \cup {NoInput}]
    BY <2>2, <2>3, <2>4 DEF InputTypeOK
  <2>6. \A s \in OffStates \cup OnStates, b \in BOOLEAN :
           KeyStateIncoming(s, b) \in OffStates \cup OnStates
    BY DEF KeyStateIncoming, OffStates, OnStates
  <2>7. keys' \in [Keys -> OffStates \cup OnStates]
    <3>1. KeyStateIncoming(keys[e.code], e.value # 0) \in OffStates \cup OnStates
      BY <2>1, <2>6 DEF InputTypeOK
    <3> QED BY <2>2, <3>1 DEF InputTypeOK
  <2> QED BY <1>1, <1>3, <1>4, <1>6, <2>2, <2>5, <2>7 DEF InputTypeOK
<1>7. CASE /\ e.type = 2
           /\ mouse' = [mouse EXCEPT ![e.code] = Moved(@, e.value)]
           /\ UNCHANGED << keys, history_last_index, history_ring >>
  <2>1. e.code \in {0, 1} /\ e.value \in Int
    BY <1>1, <1>7, InputAssumption
  <2>2. mouse[e.code] \in Nat
    BY <2>1 DEF InputTypeOK
  <2>3. Moved(mouse[e.code], e.value) \in Nat
    BY <2>1, <2>2 DEF Moved
  <2>4. mouse' \in [{0, 1} -> Nat]
    BY <1>7, <2>1, <2>3 DEF InputTypeOK
  <2> QED BY <1>1, <1>3, <1>4, <1>7, <2>4 DEF InputTypeOK
<1>8. e.type \in {0, 1, 2}
  BY <1>1, InputAssumption
<1> QED BY <1>5, <1>6, <1>7, <1>8 DEF Update, e

(* What the console reads from the ring is events, however much it reads.  *)
LEMMA ReadTypes ==
    ASSUME InputTypeOK, last_seen # NoStore, NEW n \in Nat
    PROVE  [i \in 1 .. n |-> NewInput(i)] \in Seq(InputEvents \cup {NoInput})
<1>1. last_seen \in Nat
  BY DEF InputTypeOK
<1>2. ASSUME NEW i \in 1 .. n
      PROVE  NewInput(i) \in InputEvents \cup {NoInput}
  <2>1. last_seen + i \in Nat
    BY <1>1
  <2>2. (last_seen + i) % HISTORY_SIZE \in 0 .. HISTORY_SIZE - 1
    BY <2>1, HistoryIndex
  <2> QED BY <2>2 DEF InputTypeOK, NewInput
<1>3. [i \in 1 .. n |-> NewInput(i)] \in [1 .. n -> InputEvents \cup {NoInput}]
  BY <1>2
<1> QED BY <1>3, SeqDef

(* A frame of the application loop. *)
LEMMA FrameTypes ==
    ASSUME InputTypeOK, TypeOK', Frame
    PROVE  InputTypeOK'
<1>1. /\ UNCHANGED << vars, mouse, history_last_index, history_ring >>
      /\ frames' = [before |-> frames.last, last |-> Len(input)]
      /\ keys' = [k \in Keys |-> KeyStateStep(keys[k])]
      /\ NewStore \/ SkipInputs \/ ReadInputs
  BY DEF Frame
<1>2. input' = input /\ input \in Seq(Events) /\ Len(input) \in Nat
  BY <1>1, LenProperties DEF vars, InputTypeOK, TypeOK
<1>3. frames.last \in 0 .. Len(input) /\ history_last_index \in Nat
  BY <1>2 DEF InputTypeOK
<1>4. keys' \in [Keys -> OffStates \cup OnStates]
  BY <1>1 DEF KeyStateStep, OffStates, OnStates, InputTypeOK
<1>5. /\ last_seen' \in {NoStore} \cup 0 .. history_last_index
      /\ shift' \in BOOLEAN /\ reader' \in {"idle", "active"}
      /\ read_events' \in Seq(InputEvents \cup {NoInput})
  <2>1. CASE NewStore \/ SkipInputs
    <3>1. read_events' \in Seq(InputEvents \cup {NoInput})
      BY <2>1, EmptySeq DEF NewStore, SkipInputs
    <3>2. shift \in BOOLEAN
      BY DEF InputTypeOK
    <3>3. history_last_index \in 0 .. history_last_index
      BY <1>3
    <3> QED BY <2>1, <3>1, <3>2, <3>3, Zenon DEF NewStore, SkipInputs
  <2>2. CASE ReadInputs
    <3>1. PICK n \in Nat :
             /\ reader' = "active" /\ read_events' = [i \in 1 .. n |-> NewInput(i)]
             /\ \/ last_seen' = history_last_index /\ shift' = ShiftAfter(n)
                \/ last_seen' = NoStore /\ shift' = FALSE
      BY <1>3, <2>2 DEF ReadInputs, InputTypeOK
    <3>2. read_events' \in Seq(InputEvents \cup {NoInput})
      BY <2>2, <3>1, ReadTypes DEF ReadInputs
    <3>3. shift' \in BOOLEAN
      BY <3>1, Zenon DEF ShiftAfter
    <3> QED BY <1>3, <3>1, <3>2, <3>3
  <2> QED BY <1>1, <2>1, <2>2
<1>6. frames'.before \in 0 .. frames'.last /\ frames'.last \in 0 .. Len(input')
  <2>1. frames'.before = frames.last /\ frames'.last = Len(input)
    BY <1>1
  <2> QED BY <1>2, <1>3, <2>1
<1> QED BY <1>1, <1>2, <1>4, <1>5, <1>6 DEF InputTypeOK

(* INPUT, the copies the applications see and the queue keep their types;  *)
(* in particular no reader is ahead of the history it reads.               *)
THEOREM InputTypes == InputSpec => []InputTypeOK
<1>1. InputInit => InputTypeOK
  <2> SUFFICES ASSUME InputInit PROVE InputTypeOK
    OBVIOUS
  <2>1. TypeOK /\ input = <<>> /\ HISTORY_SIZE \in Nat
    BY InitInv, InputAssumption DEF InputInit, IInv, Init
  <2>2. frames.before = 0 /\ frames.last = 0 /\ Len(input) = 0
    BY <2>1 DEF InputInit
  <2>3. keys \in [Keys -> OffStates \cup OnStates] /\ mouse \in [{0, 1} -> Nat]
    BY DEF InputInit, OffStates
  <2>4. read_events \in Seq(InputEvents \cup {NoInput})
    BY EmptySeq DEF InputInit
  <2>5. history_ring \in [0 .. HISTORY_SIZE - 1 -> InputEvents \cup {NoInput}]
    BY DEF InputInit
  <2>6. /\ last_seen \in {NoStore} \cup 0 .. history_last_index
        /\ shift \in BOOLEAN /\ reader \in {"idle", "active"}
    BY Zenon DEF InputInit
  <2>7. history_last_index \in 0 .. Len(input)
    BY <2>2 DEF InputInit
  <2>8. frames.before \in 0 .. frames.last /\ frames.last \in 0 .. Len(input)
    BY <2>2
  <2> QED BY <2>1, <2>3, <2>4, <2>5, <2>6, <2>7, <2>8, Zenon DEF InputTypeOK
<1>2. IInv /\ IInv' /\ InputTypeOK /\ [InputNext]_allvars => InputTypeOK'
  <2> SUFFICES ASSUME IInv, IInv', InputTypeOK, [InputNext]_allvars
               PROVE  InputTypeOK'
    OBVIOUS
  <2>1. CASE Update
    BY <2>1, UpdateTypes
  <2>2. CASE Frame
    BY <2>2, FrameTypes DEF IInv
  <2>3. CASE UNCHANGED << inputvars, input >>
    BY <2>3 DEF InputTypeOK, IInv, inputvars
  <2>4. Device \/ UNCHANGED allvars => UNCHANGED << inputvars, input >>
    BY DEF Device, allvars, vars, DeviceTake, DeviceReport
  <2>5. Drive => Update \/ UNCHANGED << inputvars, input >>
    BY DEF Drive, Fill, WriteSlot, WriteIdx, Scan, Resume
  <2> QED BY <2>1, <2>2, <2>3, <2>4, <2>5 DEF InputNext
<1> QED BY <1>1, <1>2, DriverInvariant, PTL DEF InputSpec

-----------------------------------------------------------------------------
(* What applications see of INPUT.  Key events can be counted. *)
LEMMA KeyCount ==
    ASSUME NEW from \in Nat, NEW to \in Nat
    PROVE  /\ IsFiniteSet(KeyEvents(from, to)) /\ Count(from, to) \in Nat
           /\ \A i \in KeyEvents(from, to) : Count(from, to) > 0
<1>1. IsFiniteSet(from + 1 .. to)
  BY FS_Interval
<1>2. KeyEvents(from, to) \in SUBSET (from + 1 .. to)
  BY DEF KeyEvents
<1>3. IsFiniteSet(KeyEvents(from, to))
  BY <1>1, <1>2, FS_Subset
<1>4. Count(from, to) \in Nat
  BY <1>3, FS_CardinalityType DEF Count
<1>5. Count(from, to) = 0 => KeyEvents(from, to) = {}
  BY <1>3, FS_EmptySet DEF Count
<1> QED BY <1>3, <1>4, <1>5

(* Their numbers add up. *)
LEMMA KeyCountsAdd ==
    ASSUME NEW from \in Nat, NEW mid \in Nat, NEW to \in Nat,
           from <= mid, mid <= to
    PROVE  Count(from, to) = Count(from, mid) + Count(mid, to)
<1>1. /\ IsFiniteSet(KeyEvents(from, mid)) /\ Count(from, mid) \in Nat
      /\ IsFiniteSet(KeyEvents(mid, to)) /\ Count(mid, to) \in Nat
  BY KeyCount
<1>2. KeyEvents(from, to) = KeyEvents(from, mid) \cup KeyEvents(mid, to)
  BY DEF KeyEvents
<1>3. KeyEvents(from, mid) \cap KeyEvents(mid, to) = {}
  BY DEF KeyEvents
<1>4. Cardinality(KeyEvents(from, mid) \cup KeyEvents(mid, to)) =
        Cardinality(KeyEvents(from, mid)) + Cardinality(KeyEvents(mid, to)) - 0
  BY <1>1, <1>3, FS_Union, FS_EmptySet
<1> QED BY <1>1, <1>2, <1>4 DEF Count

(* An event is applied: what was applied before stays, and the new one is  *)
(* the last.                                                               *)
LEMMA EventApplied ==
    ASSUME NEW e \in Events, input \in Seq(Events), input' = Append(input, e)
    PROVE  LET n == Len(input) + 1 IN
           /\ n \in Nat /\ Len(input') = n
           /\ \A i \in 1 .. Len(input) : input'[i] = input[i]
           /\ input'[n] = e
<1>1. Len(input) \in Nat
  BY LenProperties
<1> QED BY <1>1, AppendProperties

(* The key events before it are the same ones. *)
LEMMA EarlierKept ==
    ASSUME NEW e \in Events, input \in Seq(Events), input' = Append(input, e),
           NEW from \in Nat, NEW to \in Nat, to <= Len(input)
    PROVE  /\ KeyEvents(from, to)' = KeyEvents(from, to)
           /\ Count(from, to)' = Count(from, to)
           /\ \A i \in KeyEvents(from, to) : KeyEvent(i)' = KeyEvent(i)
           /\ \A k : OfKey(k, from, to)' = OfKey(k, from, to)
<1>1. /\ Len(input) \in Nat
      /\ \A i \in from + 1 .. to : i \in 1 .. Len(input) /\ input'[i] = input[i]
  BY EventApplied, LenProperties
<1>2. KeyEvents(from, to)' = KeyEvents(from, to)
  BY <1>1 DEF KeyEvents
<1>3. \A i \in KeyEvents(from, to) : input'[i] = input[i]
  BY <1>1 DEF KeyEvents
<1> QED BY <1>2, <1>3 DEF Count, KeyEvent, OfKey

(* Nor did keys that were pressed then change. *)
LEMMA EarlierPressed ==
    ASSUME NEW e \in Events, input \in Seq(Events), input' = Append(input, e),
           NEW k, NEW to \in Nat, to <= Len(input)
    PROVE  Pressed(k, to)' <=> Pressed(k, to)
<1>1. OfKey(k, 0, to)' = OfKey(k, 0, to)
  BY EarlierKept
<1>2. ASSUME NEW i \in OfKey(k, 0, to)
      PROVE  /\ KeyEvent(i)' = KeyEvent(i)
             /\ OfKey(k, i, to)' = OfKey(k, i, to)
  <2>1. i \in KeyEvents(0, to) /\ i \in Nat
    BY <1>2 DEF OfKey, KeyEvents
  <2> QED BY <2>1, EarlierKept
<1>3. Pressed(k, to)' <=> \E i \in OfKey(k, 0, to)' :
                             KeyEvent(i)'.trigger /\ OfKey(k, i, to)' = {}
  BY DEF Pressed
<1> QED BY <1>1, <1>2, <1>3 DEF Pressed

(* The new event, number n, among the others. *)
LEMMA LatestAdded ==
    ASSUME NEW e \in Events, input \in Seq(Events), input' = Append(input, e),
           NEW n \in Nat, n = Len(input) + 1, NEW from \in Nat, from < n
    PROVE  /\ KeyEvents(from, n)' = KeyEvents(from, n - 1) \cup
                                      (IF e.type = 1 THEN {n} ELSE {})
           /\ \A k : OfKey(k, from, n)' = OfKey(k, from, n - 1) \cup
                         (IF e.type = 1 /\ e.code = k THEN {n} ELSE {})
           /\ KeyEvent(n)' = [trigger |-> e.value # 0, key |-> e.code]
<1>1. /\ input'[n] = e /\ n - 1 = Len(input)
      /\ \A i \in from + 1 .. n - 1 : input'[i] = input[i]
  BY EventApplied, LenProperties
<1>2. from + 1 .. n = (from + 1 .. n - 1) \cup {n}
  OBVIOUS
<1>3. KeyEvents(from, n)' = {i \in from + 1 .. n : input'[i].type = 1}
  BY DEF KeyEvents
<1>4. KeyEvents(from, n)' = KeyEvents(from, n - 1) \cup
                              (IF e.type = 1 THEN {n} ELSE {})
  BY <1>1, <1>2, <1>3 DEF KeyEvents
<1>5. ASSUME NEW k
      PROVE  OfKey(k, from, n)' = OfKey(k, from, n - 1) \cup
                                   (IF e.type = 1 /\ e.code = k THEN {n} ELSE {})
  <2>1. OfKey(k, from, n)' = {i \in KeyEvents(from, n)' : input'[i].code = k}
    BY DEF OfKey
  <2>2. \A i \in KeyEvents(from, n - 1) : input'[i] = input[i]
    BY <1>1 DEF KeyEvents
  <2> QED BY <1>1, <1>4, <2>1, <2>2 DEF OfKey
<1>6. KeyEvent(n)' = [trigger |-> e.value # 0, key |-> e.code]
  BY <1>1 DEF KeyEvent
<1> QED BY <1>4, <1>5, <1>6

(* A key is down after an event if the event says so, or was down before   *)
(* if it is about something else.                                          *)
LEMMA LatestPressed ==
    ASSUME NEW e \in Events, input \in Seq(Events), input' = Append(input, e), NEW k
    PROVE  Pressed(k, Now)' <=> IF e.type = 1 /\ e.code = k THEN e.value # 0
                                ELSE Pressed(k, Now)
<1> DEFINE own == e.type = 1 /\ e.code = k
<1>1. PICK n \in Nat : n = Len(input) + 1 /\ Len(input') = n /\ n - 1 = Len(input)
  BY EventApplied, LenProperties
<1>2. PICK all : all = OfKey(k, 0, n - 1)
  OBVIOUS
<1>3. /\ OfKey(k, 0, n)' = all \cup (IF own THEN {n} ELSE {})
      /\ KeyEvent(n)' = [trigger |-> e.value # 0, key |-> e.code]
  BY SMTT(20), <1>1, <1>2, LatestAdded
<1>4. \A i \in all : i \in Nat /\ i < n /\ n \notin all
  BY <1>2 DEF OfKey, KeyEvents
<1>5. \A i \in all : KeyEvent(i)' = KeyEvent(i)
  <2>1. all \subseteq KeyEvents(0, n - 1) /\ n - 1 \in Nat /\ n - 1 <= Len(input)
    BY <1>1, <1>2, LenProperties DEF OfKey
  <2> QED BY <2>1, EarlierKept
<1>6. \A i \in all : OfKey(k, i, n)' = OfKey(k, i, n - 1) \cup
                                         (IF own THEN {n} ELSE {})
  BY <1>1, <1>4, LatestAdded
<1>7. OfKey(k, n, n)' = {}
  BY DEF OfKey, KeyEvents
<1>8. Pressed(k, Now)' <=> \E i \in OfKey(k, 0, n)' :
                              KeyEvent(i)'.trigger /\ OfKey(k, i, n)' = {}
  BY <1>1 DEF Pressed, Now
<1>9. Pressed(k, Now) <=> \E i \in all :
                              KeyEvent(i).trigger /\ OfKey(k, i, n - 1) = {}
  BY <1>1, <1>2 DEF Pressed, Now
<1>10. CASE own
  <2>1. \A i \in all : OfKey(k, i, n)' # {}
    BY <1>6, <1>10
  <2>2. Pressed(k, Now)' <=> KeyEvent(n)'.trigger
    BY <1>3, <1>7, <1>8, <1>10, <2>1
  <2>3. KeyEvent(n)'.trigger = (e.value # 0)
    BY <1>3
  <2> QED BY <1>10, <2>2, <2>3, Zenon
<1>11. CASE ~own
  <2>1. OfKey(k, 0, n)' = all /\ \A i \in all : OfKey(k, i, n)' = OfKey(k, i, n - 1)
    BY <1>3, <1>6, <1>11
  <2> QED BY <1>5, <1>8, <1>9, <1>11, <2>1
<1> QED BY <1>10, <1>11

(* An event is applied: every key's state still tells its history. *)
LEMMA UpdateKeys ==
    ASSUME IInv, InputTypeOK, KeyStateExact, Update
    PROVE  KeyStateExact'
<1>1. PICK e \in Events : e = buf[cur] /\ input' = Append(input, e)
  BY DEF Update, IInv, EventInv, Apply
<1>2. PICK n \in Nat : n = Len(input) + 1 /\ Len(input') = n /\ n - 1 = Len(input)
  BY <1>1, EventApplied, LenProperties DEF InputTypeOK, TypeOK
<1>3. PICK last \in Nat : last = frames.last /\ last <= n - 1 /\ frames' = frames
  BY <1>2 DEF InputTypeOK, Update
<1> SUFFICES ASSUME NEW k \in Keys
             PROVE  /\ (keys[k] \in OnStates)' <=> Pressed(k, Now)'
                    /\ (Cardinality(Recent(k)) <= 2 /\ Alternates(k))' =>
                          keys'[k] = Documented(k)'
  BY DEF KeyStateExact
<1> DEFINE own == e.type = 1 /\ e.code = k
<1>4. input \in Seq(Events) /\ keys[k] \in OffStates \cup OnStates
  BY DEF InputTypeOK, TypeOK
<1>5. /\ keys[k] \in OnStates <=> Pressed(k, Now)
      /\ Cardinality(Recent(k)) <= 2 /\ Alternates(k) => keys[k] = Documented(k)
  BY DEF KeyStateExact
<1>6. keys'[k] = IF own THEN KeyStateIncoming(keys[k], e.value # 0) ELSE keys[k]
  BY <1>1 DEF Update, Incoming, InputTypeOK
<1>7. Pressed(k, Now)' <=> IF own THEN e.value # 0 ELSE Pressed(k, Now)
  BY <1>1, <1>4, LatestPressed
<1>8. PICK r : r = Recent(k)
  OBVIOUS
<1>9. Recent(k)' = r \cup (IF own THEN {n} ELSE {})
  <2>1. r = OfKey(k, last, n - 1)
    BY <1>2, <1>3, <1>8 DEF Recent, Now
  <2>2. Recent(k)' = OfKey(k, last, n)'
    BY <1>2, <1>3 DEF Recent, Now
  <2> QED BY <1>1, <1>2, <1>3, <1>4, <2>1, <2>2, LatestAdded
<1>10. WasPressed(k)' <=> WasPressed(k)
  <2>1. WasPressed(k) <=> Pressed(k, last)
    BY <1>3 DEF WasPressed
  <2>2. WasPressed(k)' <=> Pressed(k, last)'
    BY <1>3 DEF WasPressed
  <2> QED BY <1>1, <1>2, <1>3, <1>4, <2>1, <2>2, EarlierPressed
<1>11. /\ IsFiniteSet(r) /\ Cardinality(r) \in Nat /\ n \notin r
       /\ r \subseteq KeyEvents(0, n - 1) /\ r \subseteq 1 .. n - 1
  <2>1. r \subseteq KeyEvents(last, n - 1)
    BY <1>2, <1>3, <1>8 DEF Recent, Now, OfKey
  <2>2. r \subseteq last + 1 .. n - 1 /\ r \subseteq KeyEvents(0, n - 1)
    BY <2>1 DEF KeyEvents
  <2>3. IsFiniteSet(last + 1 .. n - 1)
    BY FS_Interval
  <2>4. IsFiniteSet(r) /\ Cardinality(r) \in Nat
    BY <2>2, <2>3, FS_Subset, FS_CardinalityType
  <2> QED BY <2>2, <2>4
<1>12. (keys[k] \in OnStates)' <=> Pressed(k, Now)'
  <2>1. \A s \in OffStates \cup OnStates, b \in BOOLEAN :
           KeyStateIncoming(s, b) \in OnStates <=> b
    BY DEF KeyStateIncoming, OffStates, OnStates
  <2>2. (e.value # 0) \in BOOLEAN
    OBVIOUS
  <2>3. KeyStateIncoming(keys[k], e.value # 0) \in OnStates <=> e.value # 0
    BY <1>4, <2>1, <2>2, Zenon
  <2> QED BY <1>5, <1>6, <1>7, <2>3, Zenon
<1>13. ASSUME Alternates(k)'
       PROVE  /\ Alternates(k)
              /\ own => ((e.value # 0) <=> ~Pressed(k, Now))
  <2>1. \A i \in r \cup (IF own THEN {n} ELSE {}) :
           KeyEvent(i)'.trigger # Pressed(k, i - 1)'
    BY <1>9, <1>13 DEF Alternates
  <2>2. ASSUME NEW i \in r
        PROVE  KeyEvent(i).trigger # Pressed(k, i - 1)
    <3>1. KeyEvent(i)' = KeyEvent(i)
      BY <1>1, <1>2, <1>4, <1>11, EarlierKept
    <3>2. i - 1 \in Nat /\ i - 1 <= Len(input)
      BY <1>2, <1>11
    <3>3. Pressed(k, i - 1)' <=> Pressed(k, i - 1)
      BY <1>1, <1>4, <3>2, EarlierPressed
    <3>4. Pressed(k, i - 1)' = Pressed(k, i - 1)
      BY <3>3 DEF Pressed
    <3> QED BY <2>1, <3>1, <3>4
  <2>3. ASSUME own
        PROVE  (e.value # 0) <=> ~Pressed(k, Now)
    <3>1. KeyEvent(n)'.trigger # Pressed(k, n - 1)'
      BY <2>1, <2>3
    <3>2. Pressed(k, n - 1)' <=> Pressed(k, n - 1)
      BY <1>1, <1>2, <1>4, EarlierPressed
    <3>3. Pressed(k, n - 1) <=> Pressed(k, Now)
      BY <1>2 DEF Now
    <3>4. KeyEvent(n)' = [trigger |-> e.value # 0, key |-> e.code]
      BY <1>1, <1>2, <1>4, LatestAdded
    <3>5. KeyEvent(n)'.trigger = (e.value # 0)
      BY <3>4
    <3>6. Pressed(k, n - 1)' \in BOOLEAN
      BY DEF Pressed
    <3> QED BY <3>1, <3>2, <3>3, <3>5, <3>6, Zenon
  <2> QED BY <1>8, <2>2, <2>3 DEF Alternates
<1>14. CASE ~own
  <2>1. Recent(k)' = Recent(k) /\ keys'[k] = keys[k]
    BY <1>6, <1>8, <1>9, <1>14
  <2>2. Documented(k)' = Documented(k)
    BY <1>10, <2>1 DEF Documented
  <2> QED BY <1>5, <1>12, <1>13, <2>1, <2>2
<1>15. CASE own
  <2> SUFFICES ASSUME Cardinality(Recent(k))' <= 2, Alternates(k)'
               PROVE  keys'[k] = Documented(k)'
    BY <1>12
  <2>1. Recent(k)' = r \cup {n}
    BY <1>9, <1>15
  <2>2. Cardinality(Recent(k))' = Cardinality(r) + 1
    BY <1>11, <2>1, FS_AddElement
  <2>3. Cardinality(Recent(k)) \in {0, 1}
    BY <1>8, <1>11, <2>2
  <2>4. keys[k] = Documented(k) /\ ((e.value # 0) <=> ~Pressed(k, Now))
    BY <1>5, <1>13, <1>15, <2>3
  <2>5. (e.value # 0) <=> ~(keys[k] \in OnStates)
    BY <1>5, <2>4, Zenon
  <2>6. keys'[k] = KeyStateIncoming(keys[k], ~(keys[k] \in OnStates))
    <3>1. (e.value # 0) = ~(keys[k] \in OnStates)
      BY <2>5, Zenon
    <3> QED BY <1>6, <1>15, <3>1
  <2>7. CASE Cardinality(Recent(k)) = 0
    <3>1. Documented(k) = IF WasPressed(k) THEN "On" ELSE "Off"
      BY <2>7 DEF Documented
    <3>2. Documented(k)' = IF WasPressed(k) THEN "OffFromOn" ELSE "OnFromOff"
      BY <1>8, <1>10, <2>2, <2>7 DEF Documented
    <3> QED BY <2>4, <2>6, <3>1, <3>2 DEF KeyStateIncoming, OnStates
  <2>8. CASE Cardinality(Recent(k)) = 1
    <3>1. Documented(k) = IF WasPressed(k) THEN "OffFromOn" ELSE "OnFromOff"
      BY <2>8 DEF Documented
    <3>2. Documented(k)' = IF WasPressed(k) THEN "OnTransientOff" ELSE "OffTransientOn"
      BY <1>8, <1>10, <2>2, <2>8 DEF Documented
    <3> QED BY <2>4, <2>6, <3>1, <3>2 DEF KeyStateIncoming, OnStates
  <2> QED BY <2>3, <2>7, <2>8
<1> QED BY <1>14, <1>15

(* A frame: there are no recent events, and the state is that of the key. *)
LEMMA FrameKeys ==
    ASSUME InputTypeOK, KeyStateExact, Frame
    PROVE  KeyStateExact'
<1> SUFFICES ASSUME NEW k \in Keys
             PROVE  /\ (keys[k] \in OnStates)' <=> Pressed(k, Now)'
                    /\ keys'[k] = Documented(k)'
  BY DEF KeyStateExact
<1>1. PICK n \in Nat : n = Len(input) /\ input' = input
  BY LenProperties DEF InputTypeOK, TypeOK, Frame, vars
<1>2. keys[k] \in OnStates <=> Pressed(k, n)
  BY <1>1 DEF KeyStateExact, Now
<1>3. keys'[k] = KeyStateStep(keys[k]) /\ frames'.last = n
  BY <1>1 DEF Frame
<1>4. Pressed(k, n)' <=> Pressed(k, n)
  BY <1>1 DEF Pressed, OfKey, KeyEvents, KeyEvent
<1>5. (Pressed(k, Now)' <=> Pressed(k, n)) /\ (WasPressed(k)' <=> Pressed(k, n))
  BY <1>1, <1>3, <1>4 DEF Now, WasPressed
<1>6. Cardinality(Recent(k))' = 0
  <2>1. Recent(k)' = {}
    BY <1>1, <1>3 DEF Recent, OfKey, KeyEvents, Now
  <2> QED BY <2>1, FS_EmptySet
<1>7. Documented(k)' = IF Pressed(k, n) THEN "On" ELSE "Off"
  BY <1>5, <1>6 DEF Documented
<1>8. keys[k] \in OffStates \cup OnStates
  BY DEF InputTypeOK
<1>9. KeyStateStep(keys[k]) = IF keys[k] \in OnStates THEN "On" ELSE "Off"
  BY <1>8 DEF KeyStateStep, OnStates, OffStates
<1> QED BY <1>2, <1>3, <1>5, <1>7, <1>9 DEF OnStates

-----------------------------------------------------------------------------
(* The history ring: an index counts the key events before it, and the     *)
(* last HISTORY_SIZE of them are in their slots.                           *)
HistoryInv ==
    /\ history_last_index = Count(0, Now)
    /\ last_seen \in {NoStore, Count(0, frames.last)}
    /\ \A i \in KeyEvents(0, Now) :
         Count(0, Now) - Count(0, i) < HISTORY_SIZE =>
             history_ring[Count(0, i) % HISTORY_SIZE] = KeyEvent(i)

(* Two indexes less than HISTORY_SIZE apart have different slots. *)
LEMMA OtherSlot ==
    ASSUME NEW a \in Nat, NEW b \in Nat, a < b, b - a < HISTORY_SIZE
    PROVE  a % HISTORY_SIZE # b % HISTORY_SIZE
<1>1. HISTORY_SIZE \in Nat \ {0} /\ a \in Int /\ b \in Int
  BY InputAssumption
<1>2. PICK p \in Int : a = HISTORY_SIZE * p + (a % HISTORY_SIZE)
  BY <1>1, ModFacts
<1>3. PICK q \in Int : b = HISTORY_SIZE * q + (b % HISTORY_SIZE)
  BY <1>1, ModFacts
<1>4. SUFFICES ASSUME a % HISTORY_SIZE = b % HISTORY_SIZE PROVE FALSE
  OBVIOUS
<1>5. a % HISTORY_SIZE \in Int
  BY <1>1
<1>6. b - a = HISTORY_SIZE * (q - p)
  BY <1>1, <1>2, <1>3, <1>4, <1>5
<1>7. q - p >= 1 => HISTORY_SIZE * (q - p) >= HISTORY_SIZE
  BY <1>1
<1>8. q - p <= 0 => HISTORY_SIZE * (q - p) <= 0
  BY <1>1
<1> QED BY <1>1, <1>6, <1>7, <1>8

(* An event is applied, and stored in the ring if it is of a key. *)
LEMMA UpdateHistory ==
    ASSUME IInv, InputTypeOK, HistoryInv, Update
    PROVE  HistoryInv'
<1>1. PICK e \in Events : e = buf[cur] /\ input' = Append(input, e)
  BY DEF Update, IInv, EventInv, Apply
<1>2. PICK n \in Nat : n = Len(input) + 1 /\ Len(input') = n /\ n - 1 = Len(input)
  BY <1>1, EventApplied, LenProperties DEF InputTypeOK, TypeOK
<1>3. PICK last \in Nat : last = frames.last /\ last <= n - 1 /\ frames' = frames
  BY <1>2 DEF InputTypeOK, Update
<1>4. input \in Seq(Events) /\ n - 1 \in Nat
  BY <1>2, LenProperties DEF InputTypeOK, TypeOK
<1>5. PICK c \in Nat : c = Count(0, n - 1)
  BY <1>4, KeyCount
<1>6. /\ history_last_index = c /\ last_seen \in {NoStore, Count(0, last)}
      /\ \A i \in KeyEvents(0, n - 1) :
           c - Count(0, i) < HISTORY_SIZE =>
               history_ring[Count(0, i) % HISTORY_SIZE] = KeyEvent(i)
  BY <1>2, <1>3, <1>5 DEF HistoryInv, Now
<1>7. last_seen' \in {NoStore, Count(0, last)'} /\ frames'.last = last
  <2>1. last_seen' = last_seen
    BY DEF Update
  <2> QED BY <1>1, <1>2, <1>3, <1>4, <1>6, <2>1, EarlierKept
<1>8. \A i \in KeyEvents(0, n - 1) : /\ i \in Nat /\ i <= n - 1
                                     /\ Count(0, i)' = Count(0, i) /\ Count(0, i) \in Nat
                                     /\ Count(0, i) <= c
                                     /\ KeyEvent(i)' = KeyEvent(i)
  <2> TAKE i \in KeyEvents(0, n - 1)
  <2>1. i \in Nat /\ i <= n - 1
    BY <1>4 DEF KeyEvents
  <2>2. Count(0, i)' = Count(0, i) /\ KeyEvent(i)' = KeyEvent(i)
    BY <1>1, <1>2, <1>4, <2>1, EarlierKept
  <2>3. Count(0, i) \in Nat /\ Count(i, n - 1) \in Nat /\ c = Count(0, i) + Count(i, n - 1)
    BY <1>4, <1>5, <2>1, KeyCount, KeyCountsAdd
  <2> QED BY <2>1, <2>2, <2>3
<1>9. CASE e.type # 1
  <2>1. KeyEvents(0, n)' = KeyEvents(0, n - 1)
    <3>1. 0 \in Nat /\ 0 < n
      BY <1>4
    <3>2. KeyEvents(0, n)' = KeyEvents(0, n - 1) \cup (IF e.type = 1 THEN {n} ELSE {})
      BY <1>1, <1>2, <1>4, <3>1, LatestAdded
    <3> QED BY <1>9, <3>2
  <2>2. Count(0, n)' = c
    BY <1>5, <2>1 DEF Count
  <2>3. UNCHANGED << history_last_index, history_ring >>
    BY <1>1, <1>9 DEF Update
  <2>4. \A i \in KeyEvents(0, n)' :
           Count(0, n)' - Count(0, i)' < HISTORY_SIZE =>
               history_ring'[Count(0, i)' % HISTORY_SIZE] = KeyEvent(i)'
    BY <1>6, <1>8, <2>1, <2>2, <2>3
  <2> QED BY <1>2, <1>6, <1>7, <2>2, <2>3, <2>4 DEF HistoryInv, Now
<1>10. CASE e.type = 1
  <2>1. /\ KeyEvents(0, n)' = KeyEvents(0, n - 1) \cup {n}
        /\ KeyEvent(n)' = [trigger |-> e.value # 0, key |-> e.code]
    BY <1>1, <1>2, <1>4, <1>10, LatestAdded
  <2>2. Count(0, n)' = c + 1
    <3>1. IsFiniteSet(KeyEvents(0, n - 1))
      BY <1>4, KeyCount
    <3>2. n \notin KeyEvents(0, n - 1)
      BY <1>4 DEF KeyEvents
    <3> QED BY <1>5, <2>1, <3>1, <3>2, FS_AddElement DEF Count
  <2>3. /\ history_last_index' = c + 1
        /\ history_ring' = [history_ring EXCEPT ![(c + 1) % HISTORY_SIZE] = KeyEvent(n)']
    BY <1>1, <1>6, <1>10, <2>1 DEF Update, Incoming
  <2>4. (c + 1) % HISTORY_SIZE \in DOMAIN history_ring
    <3>1. c + 1 \in Nat
      OBVIOUS
    <3> QED BY <3>1, HistoryIndex DEF InputTypeOK
  <2>5. history_ring'[(c + 1) % HISTORY_SIZE] = KeyEvent(n)'
    BY <2>3, <2>4
  <2>6. ASSUME NEW i \in KeyEvents(0, n - 1), c + 1 - Count(0, i) < HISTORY_SIZE
        PROVE  history_ring'[Count(0, i) % HISTORY_SIZE] = KeyEvent(i)
    <3>1. Count(0, i) \in Nat /\ Count(0, i) < c + 1 /\ HISTORY_SIZE \in Nat
      BY <1>8, InputAssumption
    <3>2. Count(0, i) % HISTORY_SIZE # (c + 1) % HISTORY_SIZE
      BY <2>6, <3>1, OtherSlot
    <3>3. history_ring[Count(0, i) % HISTORY_SIZE] = KeyEvent(i)
      BY <1>6, <2>6, <3>1
    <3>4. Count(0, i) % HISTORY_SIZE \in DOMAIN history_ring
      BY <3>1, HistoryIndex DEF InputTypeOK
    <3> QED BY <2>3, <3>2, <3>3, <3>4
  <2>7. \A i \in KeyEvents(0, n)' :
           Count(0, n)' - Count(0, i)' < HISTORY_SIZE =>
               history_ring'[Count(0, i)' % HISTORY_SIZE] = KeyEvent(i)'
    <3> SUFFICES ASSUME NEW i \in KeyEvents(0, n - 1) \cup {n},
                        Count(0, n)' - Count(0, i)' < HISTORY_SIZE
                 PROVE  history_ring'[Count(0, i)' % HISTORY_SIZE] = KeyEvent(i)'
      BY <2>1
    <3>1. CASE i = n
      BY <2>2, <2>5, <3>1
    <3>2. CASE i \in KeyEvents(0, n - 1)
      BY <1>8, <2>2, <2>6, <3>2
    <3> QED BY <3>1, <3>2
  <2> QED BY <1>2, <1>7, <2>2, <2>3, <2>7 DEF HistoryInv, Now
<1> QED BY <1>9, <1>10

(* Of n new key events that the console reads from the ring, each that it  *)
(* finds is the one whose number says so.                                  *)
LEMMA ReadFromRing ==
    ASSUME InputTypeOK, HistoryInv, last_seen # NoStore,
           Count(frames.last, Now) <= HISTORY_SIZE,
           NEW i \in KeyEvents(frames.last, Now)
    PROVE  /\ Count(frames.last, i) \in Nat /\ Count(frames.last, i) > 0
           /\ NewInput(Count(frames.last, i)) = KeyEvent(i)
<1>1. PICK n \in Nat, last \in Nat : n = Now /\ last = frames.last /\ last <= n
  BY LenProperties DEF InputTypeOK, TypeOK, Now
<1>2. /\ i \in Nat /\ last < i /\ i <= n
      /\ i \in KeyEvents(0, n) /\ i \in KeyEvents(last, i)
  BY <1>1 DEF KeyEvents
<1>3. last_seen = Count(0, last)
  BY <1>1 DEF HistoryInv
<1>4. /\ Count(0, i) = Count(0, last) + Count(last, i) /\ Count(0, last) \in Nat
      /\ Count(last, i) \in Nat /\ Count(last, i) > 0
  <2>1. 0 \in Nat /\ 0 <= last /\ last <= i
    BY <1>1, <1>2
  <2>2. Count(0, i) = Count(0, last) + Count(last, i)
    BY <1>2, <2>1, KeyCountsAdd
  <2>3. Count(0, last) \in Nat /\ Count(last, i) \in Nat /\ Count(last, i) > 0
    BY <1>2, KeyCount
  <2> QED BY <2>2, <2>3
<1>5. Count(last, n) = Count(last, i) + Count(i, n) /\ Count(i, n) \in Nat
  <2>1. last <= i /\ i <= n
    BY <1>2
  <2>2. Count(last, n) = Count(last, i) + Count(i, n)
    BY <1>2, <2>1, KeyCountsAdd
  <2> QED BY <1>2, <2>2, KeyCount
<1>6. Count(0, n) = Count(0, i) + Count(i, n)
  <2>1. 0 \in Nat /\ 0 <= i /\ i <= n
    BY <1>2
  <2> QED BY <1>2, <2>1, KeyCountsAdd
<1>7. Count(last, n) <= HISTORY_SIZE /\ HISTORY_SIZE \in Nat
  BY <1>1, InputAssumption
<1>8. Count(0, n) - Count(0, i) < HISTORY_SIZE
  BY <1>4, <1>5, <1>6, <1>7
<1>9. history_ring[Count(0, i) % HISTORY_SIZE] = KeyEvent(i)
  BY <1>1, <1>2, <1>8 DEF HistoryInv
<1>10. last_seen + Count(last, i) = Count(0, i)
  BY <1>3, <1>4
<1> QED BY <1>1, <1>4, <1>9, <1>10 DEF NewInput

(* A frame: the console reads the key events since the last one. *)
LEMMA FrameHistory ==
    ASSUME InputTypeOK, HistoryInv, Frame
    PROVE  HistoryInv' /\ HistoryExact'
<1>1. PICK n \in Nat : n = Len(input) /\ input' = input
  BY LenProperties DEF InputTypeOK, TypeOK, Frame, vars
<1>2. PICK last \in Nat : last = frames.last /\ last <= n
  BY <1>1 DEF InputTypeOK
<1>3. frames'.before = last /\ frames'.last = n
  BY <1>1, <1>2 DEF Frame
<1>4. /\ history_last_index = Count(0, n) /\ last_seen \in {NoStore, Count(0, last)}
      /\ \A i \in KeyEvents(0, n) :
           Count(0, n) - Count(0, i) < HISTORY_SIZE =>
               history_ring[Count(0, i) % HISTORY_SIZE] = KeyEvent(i)
  BY <1>1, <1>2 DEF HistoryInv, Now
<1>5. \A a, b \in Nat : /\ KeyEvents(a, b)' = KeyEvents(a, b)
                        /\ Count(a, b)' = Count(a, b)
  BY <1>1 DEF KeyEvents, Count
<1>6. \A i : KeyEvent(i)' = KeyEvent(i)
  BY <1>1 DEF KeyEvent
<1>7. HistoryInv'
  <2>1. /\ last_seen' \in {NoStore, Count(0, n)}
        /\ UNCHANGED << history_last_index, history_ring >>
    BY <1>4 DEF Frame, NewStore, SkipInputs, ReadInputs
  <2>2. /\ KeyEvents(0, n)' = KeyEvents(0, n) /\ Count(0, n)' = Count(0, n)
        /\ \A i \in KeyEvents(0, n) : Count(0, i)' = Count(0, i)
    BY <1>1, <1>5 DEF KeyEvents
  <2>3. \A i \in KeyEvents(0, n)' :
           Count(0, n)' - Count(0, i)' < HISTORY_SIZE =>
               history_ring'[Count(0, i)' % HISTORY_SIZE] = KeyEvent(i)'
    BY <1>4, <1>6, <2>1, <2>2
  <2> QED BY <1>1, <1>3, <1>4, <2>1, <2>2, <2>3 DEF HistoryInv, Now
<1>8. HistoryExact'
  <2>1. /\ KeyEvents(frames.before, frames.last)' = KeyEvents(last, n)
        /\ Cardinality(KeyEvents(frames.before, frames.last))' = Count(last, n)
    BY <1>3, <1>5 DEF Count
  <2>2. ASSUME NEW i \in KeyEvents(last, n)
        PROVE  Count(frames.before, i)' = Count(last, i)
    <3>1. i \in Nat
      BY <1>1, <1>2, <2>2 DEF KeyEvents
    <3> QED BY <1>3, <1>5, <3>1
  <2>3. SUFFICES ASSUME reader' = "active", Count(last, n) <= HISTORY_SIZE
                 PROVE  /\ Len(read_events') <= Count(last, n)
                        /\ \A i \in KeyEvents(last, n) :
                             Count(last, i) <= Len(read_events') =>
                                 read_events'[Count(last, i)] = KeyEvent(i)
                        /\ Len(read_events') < Count(last, n) =>
                             /\ Len(read_events') > 0
                             /\ read_events'[Len(read_events')] =
                                    [trigger |-> TRUE, key |-> KeyEnter]
    BY <1>6, <2>1, <2>2 DEF HistoryExact
  <2>4. last_seen # NoStore /\ ReadInputs
    BY <2>3 DEF Frame, NewStore, SkipInputs, ReadInputs
  <2>5. Count(last, n) \in Nat /\ Count(last, n) = history_last_index - last_seen
    <3>1. 0 \in Nat /\ 0 <= last /\ last <= n
      BY <1>2
    <3>2. Count(0, n) = Count(0, last) + Count(last, n)
      BY <3>1, KeyCountsAdd
    <3>3. Count(0, last) \in Nat /\ Count(last, n) \in Nat
      BY KeyCount
    <3> QED BY <1>4, <2>4, <3>2, <3>3
  <2>6. PICK m \in 0 .. Count(last, n) :
          /\ m < Count(last, n) => m > 0 /\ EndsLine(m)
          /\ read_events' = [i \in 1 .. m |-> NewInput(i)]
    BY <2>4, <2>5 DEF ReadInputs
  <2>7. m \in Nat /\ m <= Count(last, n) /\ Len(read_events') = m
    BY <2>5, <2>6
  <2>8. ASSUME NEW i \in KeyEvents(last, n), Count(last, i) <= m
        PROVE  read_events'[Count(last, i)] = KeyEvent(i)
    <3>1. /\ Count(last, i) \in Nat /\ Count(last, i) > 0
          /\ NewInput(Count(last, i)) = KeyEvent(i)
      BY <1>1, <1>2, <2>3, <2>4, ReadFromRing DEF Now
    <3>2. Count(last, i) \in 1 .. m
      BY <2>7, <2>8, <3>1
    <3> QED BY <2>6, <3>1, <3>2
  <2>9. ASSUME m < Count(last, n)
        PROVE  m > 0 /\ read_events'[m] = [trigger |-> TRUE, key |-> KeyEnter]
    <3>1. m \in 1 .. m /\ EndsLine(m)
      BY <2>6, <2>7, <2>9
    <3> QED BY <2>6, <3>1 DEF EndsLine
  <2> QED BY <2>7, <2>8, <2>9
<1> QED BY <1>7, <1>8

(* An event applied between frames changes nothing of what was read. *)
LEMMA UpdateRead ==
    ASSUME IInv, InputTypeOK, HistoryExact, Update
    PROVE  HistoryExact'
<1>1. PICK e \in Events : e = buf[cur] /\ input' = Append(input, e)
  BY DEF Update, IInv, EventInv, Apply
<1>2. PICK last \in Nat : last = frames.last /\ frames' = frames /\ last <= Len(input)
  BY LenProperties DEF InputTypeOK, TypeOK, Update
<1>3. PICK before \in Nat : before = frames.before
  BY <1>2 DEF InputTypeOK
<1>4. input \in Seq(Events) /\ UNCHANGED << reader, read_events >>
  BY DEF InputTypeOK, TypeOK, Update
<1>5. KeyEvents(before, last)' = KeyEvents(before, last)
  BY <1>1, <1>2, <1>4, EarlierKept
<1>6. ASSUME NEW i \in KeyEvents(before, last)
      PROVE  Count(before, i)' = Count(before, i) /\ KeyEvent(i)' = KeyEvent(i)
  <2>1. i \in Nat /\ i <= last /\ Len(input) \in Nat
    BY <1>4, LenProperties DEF KeyEvents
  <2>2. i <= Len(input)
    BY <1>2, <2>1
  <2> QED BY <1>1, <1>2, <1>4, <2>1, <2>2, EarlierKept
<1>7. KeyEvents(frames.before, frames.last)' = KeyEvents(before, last)
  BY <1>2, <1>3, <1>5
<1>8. \A i \in KeyEvents(before, last) : Count(frames.before, i)' = Count(before, i)
  BY <1>2, <1>3, <1>6
<1> QED BY <1>2, <1>3, <1>4, <1>6, <1>7, <1>8 DEF HistoryExact

(* What applications see, in one invariant. *)
SeenInv == KeyStateExact /\ HistoryInv /\ HistoryExact

(* Before the first event. *)
LEMMA InitSeen == InputInit => SeenInv
<1> SUFFICES ASSUME InputInit PROVE SeenInv
  OBVIOUS
<1>1. /\ input = <<>> /\ Len(input) = 0 /\ frames.before = 0 /\ frames.last = 0
      /\ history_last_index = 0 /\ last_seen = NoStore /\ reader = "idle"
      /\ keys = [k \in Keys |-> "Off"] /\ HISTORY_SIZE \in Nat
  BY InputAssumption DEF InputInit, Init
<1>2. KeyEvents(0, 0) = {} /\ \A k : OfKey(k, 0, 0) = {}
  BY DEF KeyEvents, OfKey
<1>3. Count(0, 0) = 0
  BY <1>2, FS_EmptySet DEF Count
<1>4. KeyStateExact
  <2> SUFFICES ASSUME NEW k \in Keys
               PROVE  /\ keys[k] \in OnStates <=> Pressed(k, Now)
                      /\ keys[k] = Documented(k)
    BY DEF KeyStateExact
  <2>1. ~Pressed(k, 0)
    BY <1>2 DEF Pressed
  <2>2. ~Pressed(k, Now) /\ ~WasPressed(k)
    BY <1>1, <2>1 DEF Now, WasPressed
  <2>3. Cardinality(Recent(k)) = 0
    BY <1>1, <1>2, FS_EmptySet DEF Recent, Now
  <2>4. Documented(k) = "Off" /\ keys[k] = "Off"
    BY <1>1, <2>2, <2>3 DEF Documented
  <2> QED BY <2>2, <2>4 DEF OnStates
<1>5. HistoryInv
  BY <1>1, <1>2, <1>3 DEF HistoryInv, Now
<1>6. HistoryExact
  BY <1>1, <1>2, <1>3 DEF HistoryExact, Count
<1> QED BY <1>4, <1>5, <1>6 DEF SeenInv

(* Every step of the driver, the device and the application loop keeps it. *)
LEMMA NextSeen == IInv /\ InputTypeOK /\ SeenInv /\ [InputNext]_allvars => SeenInv'
<1> SUFFICES ASSUME IInv, InputTypeOK, SeenInv, [InputNext]_allvars
             PROVE  SeenInv'
  OBVIOUS
<1>1. CASE Update
  BY <1>1, UpdateKeys, UpdateHistory, UpdateRead DEF SeenInv
<1>2. CASE Frame
  BY <1>2, FrameKeys, FrameHistory DEF SeenInv
<1>3. CASE UNCHANGED << inputvars, input >>
  <2>1. KeyStateExact'
    <3>1. input' = input /\ keys' = keys /\ frames' = frames
      BY <1>3 DEF inputvars
    <3>2. ASSUME NEW k, NEW to PROVE Pressed(k, to)' = Pressed(k, to)
      BY <3>1 DEF Pressed, OfKey, KeyEvents, KeyEvent
    <3>3. ASSUME NEW k
          PROVE  /\ Recent(k)' = Recent(k) /\ WasPressed(k)' = WasPressed(k)
                 /\ Pressed(k, Now)' = Pressed(k, Now)
      BY <3>1 DEF Recent, WasPressed, Pressed, OfKey, KeyEvents, KeyEvent, Now
    <3>4. ASSUME NEW k PROVE Alternates(k)' <=> Alternates(k)
      BY <3>1, <3>2, <3>3 DEF Alternates, KeyEvent
    <3>5. ASSUME NEW k PROVE Documented(k)' = Documented(k)
      BY <3>3 DEF Documented
    <3> QED BY <3>1, <3>3, <3>4, <3>5 DEF SeenInv, KeyStateExact
  <2>2. HistoryInv'
    BY <1>3 DEF SeenInv, HistoryInv, Count, KeyEvents, KeyEvent, Now, inputvars
  <2>3. HistoryExact'
    BY <1>3 DEF SeenInv, HistoryExact, Count, KeyEvents, KeyEvent, inputvars
  <2> QED BY <2>1, <2>2, <2>3 DEF SeenInv
<1>4. Device \/ UNCHANGED allvars => UNCHANGED << inputvars, input >>
  BY DEF Device, allvars, vars, DeviceTake, DeviceReport
<1>5. Drive => Update \/ UNCHANGED << inputvars, input >>
  BY DEF Drive, Fill, WriteSlot, WriteIdx, Scan, Resume
<1> QED BY <1>1, <1>2, <1>3, <1>4, <1>5 DEF InputNext

(* The invariant always holds. *)
LEMMA SeenAlways == InputSpec => []SeenInv
  BY InitSeen, NextSeen, InputTypes, DriverInvariant, PTL DEF InputSpec

(* For every set of events, any number of them between two frames: the     *)
(* state of a key says whether it is down, and which of the documented     *)
(* histories it had if it changed at most twice.                           *)
THEOREM KeyStatesExact == InputSpec => []KeyStateExact
<1>1. SeenInv => KeyStateExact
  BY DEF SeenInv
<1> QED BY <1>1, SeenAlways, PTL

(* For every size of the ring, whenever the console's store is dropped and *)
(* made again and whenever it is active: unless more than HISTORY_SIZE key *)
(* events came since the last frame, an active console reads them from the *)
(* ring in order, each once, up to the last one or to an Enter.            *)
THEOREM HistoryReadExact == InputSpec => []HistoryExact
<1>1. SeenInv => HistoryExact
  BY DEF SeenInv
<1> QED BY <1>1, SeenAlways, PTL
=============================================================================
