------------------------------ MODULE GpuProofs ------------------------------
(***************************************************************************)
(* Proofs about the GPU driver.  request(): for every queue size, index    *)
(* width and number of start-up requests, no descriptor is lost or used    *)
(* twice, and a request completes with the response to its own command.    *)
(* drive(): whatever the device supports and however many capsets it has,  *)
(* it refuses no command that the display needs.                           *)
(***************************************************************************)
EXTENDS GpuRequests, GpuCommands, VirtqueueProofs

Idle      == {"start", "fill", "fillidx"}
Busy      == {"add", "idx", "kick", "wait", "finish"}
Published == {"kick", "wait"}

(* Descriptors that are on a ring or with the device. *)
InFlight == Range(AvailPending) \cup Range(UsedPending) \cup dev_held

(* A requester owns two descriptors from get_free_twice_desc_id to set_free. *)
OwnInv ==
    /\ pc[Transfer] \notin {"fill", "fillidx"}
    /\ \A r \in Reqs :
         /\ pc[r] \in Idle => desc_id[r] = NoDesc /\ desc_next[r] = NoDesc
         /\ pc[r] \in Busy => /\ desc_id[r] \in Descs /\ desc_next[r] \in Descs
                              /\ desc_id[r] # desc_next[r]

(* Free, owned by one of the two requests, or published at start. *)
Split(f, A, B, C) ==
    /\ f \in Seq(Descs) /\ IsInjective(f)
    /\ A \cap B = {} /\ A \cap C = {} /\ B \cap C = {}
    /\ Range(f) \cap A = {} /\ Range(f) \cap B = {} /\ Range(f) \cap C = {}
    /\ Range(f) \cup A \cup B \cup C = Descs
SplitInv == Split(free, Owned(Drive), Owned(Transfer), filled)

(* A task is between two of its steps only while it is being polled. *)
RunInv == \A r \in Reqs : pc[r] \notin {"start", "wait"} => running = r

(* Each head is in flight once, and belongs to a published request or to   *)
(* the start-up loop.                                                      *)
Flight(a, u, held) ==
    /\ a \in Seq(Descs) /\ u \in Seq(Descs) /\ held \in SUBSET Descs
    /\ IsInjective(a) /\ IsInjective(u)
    /\ Range(a) \cap Range(u) = {} /\ Range(a) \cap held = {}
    /\ Range(u) \cap held = {}
FlightInv ==
    /\ Flight(AvailPending, UsedPending, dev_held)
    /\ \A d \in InFlight :
         d \in filled \/ \E r \in Reqs : pc[r] \in Published /\ d = desc_id[r]

(* The slot written is the one the next index makes visible. *)
SlotInv ==
    /\ pc[Drive] = "fillidx" => avail_ring[Slot(avail_idx)] \in filled \ InFlight
    /\ \A r \in Reqs : pc[r] = "idx" => avail_ring[Slot(avail_idx)] = desc_id[r]

(* A slot of WAKERS is Done only for a head that came back: of the start-up *)
(* loop, or of a request that has not seen it yet.                          *)
WakeInv ==
    /\ \A d \in Descs : WAKERS[d] = "Done" =>
         /\ d \notin InFlight
         /\ d \in filled \/ \E r \in Reqs : pc[r] = "wait" /\ d = desc_id[r]
    /\ pc[Drive] \in {"fill", "fillidx"} => \A d \in Descs : WAKERS[d] = "None"

(* The command and its chain stay as add_request left them, and once the   *)
(* device has given the head back the response page holds the answer.      *)
PageInv ==
    \A r \in Reqs :
        /\ pc[r] \in {"idx", "kick", "wait", "finish"} =>
             page[desc_id[r]] = << r, tag[r] >> /\ chain[desc_id[r]] = desc_next[r]
        /\ /\ pc[r] \in {"kick", "wait", "finish"}
           /\ desc_id[r] \notin Range(AvailPending) \cup dev_held
           => page[desc_next[r]] = << r, tag[r] >>

(* The descriptors of the start-up loop never had a chain. *)
FilledInv ==
    /\ \A d \in filled : chain[d] = NoDesc
    /\ pc[Drive] \in {"fill", "fillidx"} => \A d \in Descs : chain[d] = NoDesc
    /\ Cardinality(filled) <= Prefill

IInv == /\ TypeOK /\ OwnInv /\ SplitInv /\ RunInv /\ FlightInv /\ SlotInv
        /\ WakeInv /\ PageInv /\ FilledInv

-----------------------------------------------------------------------------
(* get_free_twice_desc_id and the two set_free of request(). *)
LEMMA PopTwice ==
    ASSUME NEW s \in Seq(Descs), IsInjective(s), Len(s) >= 2
    PROVE  /\ SubSeq(s, 1, Len(s) - 2) \in Seq(Descs)
           /\ IsInjective(SubSeq(s, 1, Len(s) - 2))
           /\ Last(s) \in Descs /\ s[Len(s) - 1] \in Descs
           /\ Last(s) # s[Len(s) - 1]
           /\ Last(s) \notin Range(SubSeq(s, 1, Len(s) - 2))
           /\ s[Len(s) - 1] \notin Range(SubSeq(s, 1, Len(s) - 2))
           /\ Range(s) = Range(SubSeq(s, 1, Len(s) - 2)) \cup {Last(s), s[Len(s) - 1]}
<1> DEFINE t == SubSeq(s, 1, Len(s) - 2)
           d == Last(s)
           n == s[Len(s) - 1]
<1> DEFINE m == Len(s)
<1>1. m \in Nat /\ m >= 2 /\ DOMAIN s = 1 .. m /\ m \in 1 .. m /\ m - 1 \in 1 .. m
  BY LenProperties
<1>2. d = s[m] /\ n = s[m - 1] /\ d \in Descs /\ n \in Descs
  BY <1>1, ElementOfSeq DEF Last
<1>3. d # n
  <2>1. \A i, j \in 1 .. m : s[i] = s[j] => i = j
    BY <1>1 DEF IsInjective
  <2> QED BY <1>1, <1>2, <2>1
<1>4. /\ t \in Seq(Descs) /\ Len(t) = m - 2 /\ DOMAIN t = 1 .. m - 2
      /\ \A i \in 1 .. m - 2 : t[i] = s[i]
  <2>1. \A i \in 1 .. m - 2 : s[i] \in Descs
    BY <1>1, ElementOfSeq
  <2>2. /\ t \in Seq(Descs) /\ Len(t) = m - 2
        /\ \A i \in 1 .. m - 2 : t[i] = s[i]
    BY <1>1, <2>1, SubSeqProperties
  <2> QED BY <2>2, LenProperties
<1> HIDE DEF m, t, d, n
<1>5. /\ \A i \in 1 .. m : i \in 1 .. m - 2 \/ i = m - 1 \/ i = m
      /\ \A i \in 1 .. m - 2 : i \in 1 .. m /\ i # m - 1 /\ i # m
  BY <1>1
<1>6. /\ \A i \in DOMAIN s : i \in DOMAIN t \/ i = m - 1 \/ i = m
      /\ \A i \in DOMAIN t : i \in DOMAIN s /\ i # m - 1 /\ i # m /\ t[i] = s[i]
      /\ m \in DOMAIN s /\ m - 1 \in DOMAIN s
  BY <1>1, <1>4, <1>5, Zenon
<1>7. Range(s) \subseteq Range(t) \cup {d, n}
  BY <1>2, <1>6, Zenon DEF Range
<1>8. Range(t) \cup {d, n} \subseteq Range(s)
  BY <1>2, <1>6, Zenon DEF Range
<1>9. IsInjective(t) /\ d \notin Range(t) /\ n \notin Range(t)
  BY <1>2, <1>6, Zenon DEF IsInjective, Range
<1>10. Range(s) = Range(t) \cup {d, n}
  BY <1>7, <1>8
<1> QED BY <1>2, <1>3, <1>4, <1>9, <1>10, Zenon DEF t, d, n

(* set_free of both descriptors of a request. *)
LEMMA PushTwice ==
    ASSUME NEW s \in Seq(Descs), IsInjective(s), NEW d \in Descs, NEW n \in Descs,
           d # n, d \notin Range(s), n \notin Range(s)
    PROVE  /\ s \o << d, n >> \in Seq(Descs) /\ IsInjective(s \o << d, n >>)
           /\ Range(s \o << d, n >>) = Range(s) \cup {d, n}
<1> DEFINE t == << d, n >>
<1>1. t \in Seq(Descs) /\ DOMAIN t = {1, 2} /\ t[1] = d /\ t[2] = n
  OBVIOUS
<1> HIDE DEF t
<1>2. IsInjective(t) /\ Range(t) = {d, n}
  BY <1>1 DEF IsInjective, Range
<1>3. /\ s \o t \in Seq(Descs) /\ Range(s \o t) = Range(s) \cup Range(t)
      /\ IsInjective(s \o t)
  BY <1>1, <1>2, ConcatFacts
<1> QED BY <1>2, <1>3 DEF t

-----------------------------------------------------------------------------
(* A head goes from one place to the next. *)
LEMMA FlightRoom ==
    ASSUME NEW a, NEW u, NEW held, Flight(a, u, held)
    PROVE  /\ Len(a) <= QSize /\ Len(u) <= QSize
           /\ \A d \in Descs : d \notin Range(a) => Len(a) < QSize
           /\ held # {} => Len(u) < QSize
<1>1. /\ a \in Seq(Descs) /\ IsInjective(a) /\ u \in Seq(Descs) /\ IsInjective(u)
      /\ held \in SUBSET Descs /\ Range(u) \cap held = {}
  BY DEF Flight
<1>2. Len(u) <= QSize /\ (held # {} => Len(u) < QSize)
  BY <1>1, DistinctHeads
<1>3. Len(a) <= QSize
  <2>1. {} \in SUBSET Descs /\ Range(a) \cap {} = {}
    OBVIOUS
  <2> QED BY <1>1, <2>1, DistinctHeads
<1>4. ASSUME NEW d \in Descs, d \notin Range(a) PROVE Len(a) < QSize
  <2>1. {d} \in SUBSET Descs /\ Range(a) \cap {d} = {} /\ {d} # {}
    BY <1>4
  <2> QED BY <1>1, <2>1, DistinctHeads
<1> QED BY <1>2, <1>3, <1>4

(* A descriptor that is published is in flight. *)
LEMMA FlightPublish ==
    ASSUME NEW a, NEW u, NEW held, Flight(a, u, held), NEW d \in Descs,
           d \notin Range(a) \cup Range(u) \cup held
    PROVE  /\ Flight(Append(a, d), u, held)
           /\ Range(Append(a, d)) = Range(a) \cup {d}
<1>1. a \in Seq(Descs) /\ IsInjective(a) /\ d \notin Range(a)
  BY DEF Flight
<1>2. /\ Append(a, d) \in Seq(Descs) /\ IsInjective(Append(a, d))
      /\ Range(Append(a, d)) = Range(a) \cup {d}
  BY <1>1, AppendFacts
<1> QED BY <1>2 DEF Flight

(* The device takes the oldest descriptor of the available ring. *)
LEMMA FlightTake ==
    ASSUME NEW a, NEW u, NEW held, Flight(a, u, held), a # <<>>
    PROVE  /\ Flight(Tail(a), u, held \cup {Head(a)})
           /\ Head(a) \in Descs /\ Range(a) = Range(Tail(a)) \cup {Head(a)}
<1>1. a \in Seq(Descs) /\ IsInjective(a)
  BY DEF Flight
<1>2. /\ Head(a) \in Descs /\ Tail(a) \in Seq(Descs)
      /\ Range(a) = Range(Tail(a)) \cup {Head(a)}
      /\ IsInjective(Tail(a)) /\ Head(a) \notin Range(Tail(a))
  BY <1>1, TailFacts
<1> QED BY <1>2 DEF Flight

(* The device returns a descriptor. *)
LEMMA FlightReturn ==
    ASSUME NEW a, NEW u, NEW held, Flight(a, u, held), NEW d \in held
    PROVE  /\ Flight(a, Append(u, d), held \ {d})
           /\ Range(Append(u, d)) = Range(u) \cup {d}
<1>1. u \in Seq(Descs) /\ IsInjective(u) /\ d \notin Range(u) /\ d \in Descs
  BY DEF Flight
<1>2. /\ Append(u, d) \in Seq(Descs) /\ IsInjective(Append(u, d))
      /\ Range(Append(u, d)) = Range(u) \cup {d}
  BY <1>1, AppendFacts
<1> QED BY <1>2 DEF Flight

(* The poller takes the oldest descriptor of the used ring. *)
LEMMA FlightNextUsed ==
    ASSUME NEW a, NEW u, NEW held, Flight(a, u, held), u # <<>>
    PROVE  /\ Flight(a, Tail(u), held)
           /\ Head(u) \in Descs /\ Range(u) = Range(Tail(u)) \cup {Head(u)}
           /\ Head(u) \notin Range(a) \cup Range(Tail(u)) \cup held
<1>1. u \in Seq(Descs) /\ IsInjective(u)
  BY DEF Flight
<1>2. /\ Head(u) \in Descs /\ Tail(u) \in Seq(Descs)
      /\ Range(u) = Range(Tail(u)) \cup {Head(u)}
      /\ IsInjective(Tail(u)) /\ Head(u) \notin Range(Tail(u))
  BY <1>1, TailFacts
<1> QED BY <1>2 DEF Flight

-----------------------------------------------------------------------------
(* What the invariant says of the descriptors of a request. *)
LEMMA OwnFacts ==
    ASSUME IInv, NEW r \in Reqs, pc[r] \in Busy
    PROVE  /\ desc_id[r] \in Descs /\ desc_next[r] \in Descs
           /\ desc_id[r] # desc_next[r]
           /\ desc_id[r] \notin filled /\ desc_next[r] \notin filled
           /\ desc_id[r] \notin Range(free) /\ desc_next[r] \notin Range(free)
           /\ \A q \in Reqs : q # r =>
                /\ desc_id[q] # desc_id[r] /\ desc_next[q] # desc_id[r]
                /\ desc_id[q] # desc_next[r] /\ desc_next[q] # desc_next[r]
<1>1. /\ desc_id[r] \in Descs /\ desc_next[r] \in Descs
      /\ desc_id[r] # desc_next[r]
  BY DEF IInv, OwnInv
<1>2. NoDesc \notin Descs
  BY RingAssumption DEF NoDesc, Descs
<1>3. Owned(r) = {desc_id[r], desc_next[r]}
  BY <1>1, <1>2 DEF Owned
<1>4. \A q \in Reqs : q # r => Owned(q) \cap Owned(r) = {}
  BY DEF IInv, SplitInv, Split, Reqs
<1>5. Owned(r) \cap filled = {} /\ Owned(r) \cap Range(free) = {}
  BY DEF IInv, SplitInv, Split, Reqs
<1>6. ASSUME NEW q \in Reqs, q # r
      PROVE  /\ desc_id[q] # desc_id[r] /\ desc_next[q] # desc_id[r]
             /\ desc_id[q] # desc_next[r] /\ desc_next[q] # desc_next[r]
  <2>1. Owned(q) = {desc_id[q], desc_next[q]} \ {NoDesc}
    BY DEF Owned
  <2> QED BY <1>1, <1>2, <1>3, <1>4, <1>6, <2>1
<1> QED BY <1>1, <1>3, <1>5, <1>6

(* Nothing owned but not yet published, and nothing free, is in flight. *)
LEMMA NotInFlight ==
    ASSUME IInv
    PROVE  /\ InFlight \subseteq Descs
           /\ \A d \in Range(free) : d \in Descs \ (InFlight \cup filled)
           /\ \A r \in Reqs : pc[r] \in Busy =>
                /\ desc_next[r] \notin InFlight
                /\ pc[r] \notin Published => desc_id[r] \notin InFlight
<1>1. InFlight \subseteq Descs
  BY DEF IInv, FlightInv, Flight, InFlight, Range
<1>2. ASSUME NEW d \in Range(free) PROVE d \in Descs \ (InFlight \cup filled)
  <2>1. d \in Descs /\ d \notin filled
    BY DEF IInv, SplitInv, Split
  <2>2. \A r \in Reqs : pc[r] \in Published => desc_id[r] # d
    BY OwnFacts DEF Published, Busy
  <2> QED BY <2>1, <2>2 DEF IInv, FlightInv
<1>3. ASSUME NEW r \in Reqs, pc[r] \in Busy
      PROVE  /\ desc_next[r] \notin InFlight
             /\ pc[r] \notin Published => desc_id[r] \notin InFlight
  <2>1. /\ desc_id[r] \notin filled /\ desc_next[r] \notin filled
        /\ desc_id[r] # desc_next[r]
        /\ \A q \in Reqs : q # r => /\ desc_id[q] # desc_id[r]
                                    /\ desc_id[q] # desc_next[r]
    BY <1>3, OwnFacts
  <2> QED BY <2>1 DEF IInv, FlightInv
<1> QED BY <1>1, <1>2, <1>3

(* The inductive invariant holds before drive() runs. *)
LEMMA InitInv == Init => IInv
<1> SUFFICES ASSUME Init PROVE IInv
  OBVIOUS
<1>1. /\ VqTypeOK /\ AvailPending = <<>> /\ UsedPending = <<>> /\ dev_held = {}
      /\ free \in Seq(Descs) /\ IsInjective(free) /\ Range(free) = Descs
  BY VqInitFacts DEF Init
<1>2. NoDesc \notin Descs
  BY RingAssumption DEF NoDesc, Descs
<1>3. Drive # Transfer /\ Prefill \in Nat /\ StartupReqs \in Nat
  BY GpuAssumption
<1>4. TypeOK
  <2>1. /\ pc \in [Reqs -> {"fill", "start"}] /\ made \in 0 .. StartupReqs
        /\ desc_id \in [Reqs -> {NoDesc}] /\ desc_next \in [Reqs -> {NoDesc}]
        /\ tag \in [Reqs -> {0, 1}]
    BY <1>3 DEF Init
  <2>2. /\ WAKERS \in [Descs -> {"None"}] /\ chain \in [Descs -> {NoDesc}]
        /\ page \in [Descs -> Payloads]
    BY DEF Init, Payloads
  <2>3. /\ filled = {} /\ ready = {} /\ running \in Reqs
        /\ notified \in BOOLEAN /\ panicked \in BOOLEAN
    BY DEF Init, Reqs
  <2> QED BY <1>1, <2>1, <2>2, <2>3 DEF TypeOK
<1>5. OwnInv /\ RunInv
  BY <1>3 DEF Init, OwnInv, RunInv, Idle, Busy, Reqs
<1>6. \A r \in Reqs : Owned(r) = {}
  BY DEF Init, Owned, Reqs
<1>7. SplitInv
  BY <1>1, <1>6 DEF Init, SplitInv, Split, Reqs
<1>8. InFlight = {} /\ Flight(AvailPending, UsedPending, dev_held)
  BY <1>1, OneOrNone DEF InFlight, Flight
<1>9. FlightInv /\ WakeInv
  BY <1>8 DEF Init, FlightInv, WakeInv
<1>10. SlotInv /\ PageInv
  BY <1>3 DEF Init, SlotInv, PageInv, Reqs
<1>11. FilledInv
  BY <1>3, FS_EmptySet DEF Init, FilledInv
<1> QED BY <1>4, <1>5, <1>7, <1>9, <1>10, <1>11 DEF IInv

-----------------------------------------------------------------------------
(* One lemma for each step of drive(), request(), the poller, the executor *)
(* and the device.                                                         *)
LEMMA FlightSame ==
    UNCHANGED vqvars => /\ AvailPending' = AvailPending
                        /\ UsedPending' = UsedPending
                        /\ InFlight' = InFlight
BY PendingSame DEF vqvars, availvars, usedvars, InFlight

(* The start-up loop takes a descriptor and writes it in the ring... *)
LEMMA FillGetInv == IInv /\ FillGet => IInv'
<1> SUFFICES ASSUME IInv, FillGet PROVE IInv'
  OBVIOUS
<1> USE DEF IInv
<1> DEFINE d == Last(free)
<1>1. /\ running = Drive /\ pc[Drive] = "fill" /\ free # <<>>
      /\ pc' = [pc EXCEPT ![Drive] = "fillidx"]
      /\ free' = Front(free) /\ write_slot(d) /\ filled' = filled \cup {d}
      /\ Cardinality(filled) < Prefill
  BY DEF FillGet, get_free
<1>2. UNCHANGED << avail_idx, usedvars, devvars, desc_id, desc_next, tag, made,
                   WAKERS, chain, page, ready, running, notified, panicked >>
  BY DEF FillGet
<1>3. free \in Seq(Descs) /\ IsInjective(free)
  BY DEF SplitInv, Split
<1>4. /\ d \in Descs /\ Front(free) \in Seq(Descs) /\ d \in Range(free)
      /\ Range(free) = Range(Front(free)) \cup {d}
      /\ IsInjective(Front(free)) /\ d \notin Range(Front(free))
  BY <1>1, <1>3, FrontFacts
<1>5. d \notin InFlight /\ d \notin filled
  BY <1>4, NotInFlight
<1> HIDE DEF d
<1>6. VqTypeOK /\ Len(AvailPending) < QSize
  <2>1. d \notin Range(AvailPending)
    BY <1>5 DEF InFlight
  <2> QED BY <1>4, <2>1, FlightRoom DEF FlightInv, TypeOK
<1>7. UNCHANGED << avail_idx, dev_idx >>
  BY <1>2 DEF devvars
<1>8. /\ AvailPending' = AvailPending /\ avail_ring' \in Rings
      /\ avail_ring'[Slot(avail_idx)] = d
  BY <1>1, <1>4, <1>6, <1>7, WriteSlotStep
<1>9. UsedPending' = UsedPending /\ dev_held' = dev_held /\ InFlight' = InFlight
  BY <1>2, <1>8, PendingSame DEF devvars, InFlight
<1>10. Drive \in Reqs /\ Transfer \in Reqs /\ Drive # Transfer
  BY GpuAssumption DEF Reqs
<1>11. /\ pc' \in [Reqs -> {"fill", "fillidx", "start", "add", "idx", "kick",
                            "wait", "finish"}]
       /\ pc'[Drive] = "fillidx" /\ \A r \in Reqs : r # Drive => pc'[r] = pc[r]
  BY <1>1, <1>10 DEF TypeOK
<1>12. TypeOK'
  BY <1>1, <1>2, <1>4, <1>8, <1>11
     DEF TypeOK, VqTypeOK, usedvars, devvars, Rings
<1>13. OwnInv'
  BY <1>1, <1>2, <1>10, <1>11 DEF OwnInv, Idle, Busy
<1>14. SplitInv'
  <2>1. Owned(Drive)' = Owned(Drive) /\ Owned(Transfer)' = Owned(Transfer)
    BY <1>2 DEF Owned
  <2> QED BY <1>1, <1>4, <2>1 DEF SplitInv, Split
<1>15. RunInv'
  BY <1>1, <1>2, <1>11 DEF RunInv
<1>16. FlightInv'
  <2>1. \A r \in Reqs : pc[r] \in Published => pc'[r] \in Published
    BY <1>1, <1>11 DEF Published
  <2> QED BY <1>1, <1>2, <1>8, <1>9, <2>1 DEF FlightInv
<1>17. SlotInv'
  <2>1. Slot(avail_idx)' = Slot(avail_idx)
    BY <1>2 DEF Slot
  <2>2. \A r \in Reqs : pc'[r] # "idx"
    BY <1>1, <1>10, <1>11 DEF RunInv
  <2> QED BY <1>1, <1>5, <1>8, <1>9, <2>1, <2>2 DEF SlotInv
<1>18. WakeInv'
  <2>1. \A r \in Reqs : pc[r] = "wait" => pc'[r] = "wait"
    BY <1>1, <1>11
  <2> QED BY <1>1, <1>2, <1>9, <2>1 DEF WakeInv
<1>19. PageInv'
  BY <1>1, <1>2, <1>8, <1>9, <1>11 DEF PageInv
<1>20. FilledInv'
  <2>1. IsFiniteSet(filled) /\ Cardinality(filled) \in Nat
    <3>1. IsFiniteSet(Descs)
      BY RingAssumption, FS_Interval DEF Descs
    <3> QED BY <3>1, FS_Subset, FS_CardinalityType DEF TypeOK
  <2>2. Cardinality(filled') = Cardinality(filled) + 1
    BY <1>1, <1>5, <2>1, FS_AddElement
  <2>3. Cardinality(filled') <= Prefill
    BY <1>1, <2>1, <2>2, GpuAssumption
  <2> QED BY <1>1, <1>2, <1>4, <2>3 DEF FilledInv
<1> QED BY <1>12, <1>13, <1>14, <1>15, <1>16, <1>17, <1>18, <1>19, <1>20

(* ...and advances the index. *)
LEMMA FillIdxInv == IInv /\ FillIdx => IInv'
<1> SUFFICES ASSUME IInv, FillIdx PROVE IInv'
  OBVIOUS
<1> USE DEF IInv
<1>1. /\ running = Drive /\ pc[Drive] = "fillidx" /\ write_idx
      /\ pc' = [pc EXCEPT ![Drive] = "fill"]
  BY DEF FillIdx
<1>2. UNCHANGED << free, avail_ring, usedvars, devvars, desc_id, desc_next, tag,
                   made, filled, WAKERS, chain, page, ready, running,
                   notified, panicked >>
  BY DEF FillIdx
<1> DEFINE d == avail_ring[Slot(avail_idx)]
<1>3. d \in filled \ InFlight /\ d \in Descs
  BY <1>1 DEF SlotInv, TypeOK
<1> HIDE DEF d
<1>4. VqTypeOK /\ Len(AvailPending) < QSize
  <2>1. d \notin Range(AvailPending)
    BY <1>3 DEF InFlight
  <2> QED BY <1>3, <2>1, FlightRoom DEF FlightInv, TypeOK
<1>5. UNCHANGED << avail_ring, dev_idx >>
  BY <1>2 DEF devvars
<1>6. AvailPending' = Append(AvailPending, d) /\ avail_idx' \in Indexes
  BY <1>1, <1>4, <1>5, WriteIdxStep DEF d
<1>7. UsedPending' = UsedPending /\ dev_held' = dev_held
  BY <1>2, PendingSame DEF devvars
<1>8. /\ Flight(Append(AvailPending, d), UsedPending, dev_held)
      /\ Range(Append(AvailPending, d)) = Range(AvailPending) \cup {d}
  BY <1>3, FlightPublish DEF FlightInv, InFlight
<1>9. InFlight' = InFlight \cup {d} /\ Range(AvailPending') = Range(AvailPending) \cup {d}
  BY <1>6, <1>7, <1>8 DEF InFlight
<1>10. Drive \in Reqs /\ Transfer \in Reqs /\ Drive # Transfer
  BY GpuAssumption DEF Reqs
<1>11. /\ pc' \in [Reqs -> {"fill", "fillidx", "start", "add", "idx", "kick",
                            "wait", "finish"}]
       /\ pc'[Drive] = "fill" /\ \A r \in Reqs : r # Drive => pc'[r] = pc[r]
  BY <1>1, <1>10 DEF TypeOK
<1>12. TypeOK'
  BY <1>1, <1>2, <1>6, <1>11 DEF TypeOK, VqTypeOK, usedvars, devvars
<1>13. OwnInv'
  BY <1>1, <1>2, <1>10, <1>11 DEF OwnInv, Idle, Busy
<1>14. SplitInv'
  BY <1>2 DEF SplitInv, Owned
<1>15. RunInv'
  BY <1>1, <1>2, <1>11 DEF RunInv
<1>16. FlightInv'
  <2>1. \A r \in Reqs : pc[r] \in Published => pc'[r] \in Published
    BY <1>1, <1>11 DEF Published
  <2> QED BY <1>2, <1>3, <1>6, <1>7, <1>8, <1>9, <2>1 DEF FlightInv
<1>17. SlotInv'
  <2>1. \A r \in Reqs : pc'[r] # "idx"
    BY <1>1, <1>10, <1>11 DEF RunInv
  <2> QED BY <1>11, <2>1 DEF SlotInv
<1>18. WakeInv'
  <2>1. \A x \in Descs : WAKERS[x] = "None"
    BY <1>1 DEF WakeInv
  <2> QED BY <1>2, <2>1 DEF WakeInv
<1>19. PageInv'
  BY <1>1, <1>2, <1>7, <1>9, <1>11 DEF PageInv
<1>20. FilledInv'
  BY <1>1, <1>2 DEF FilledInv
<1> QED BY <1>12, <1>13, <1>14, <1>15, <1>16, <1>17, <1>18, <1>19, <1>20

(* The start-up loop ends. *)
LEMMA FillDoneInv == IInv /\ FillDone => IInv'
<1> SUFFICES ASSUME IInv, FillDone PROVE IInv'
  OBVIOUS
<1> USE DEF IInv
<1>1. /\ running = Drive /\ pc[Drive] = "fill" /\ running' = "nobody"
      /\ pc' = [pc EXCEPT ![Drive] = "start"] /\ ready' = ready \cup {Drive}
  BY DEF FillDone
<1>2. UNCHANGED << vqvars, desc_id, desc_next, tag, made, filled, WAKERS, chain,
                   page, notified, panicked >>
  BY DEF FillDone
<1>3. /\ AvailPending' = AvailPending /\ UsedPending' = UsedPending
      /\ InFlight' = InFlight
  BY <1>2, FlightSame
<1>4. Drive \in Reqs /\ Transfer \in Reqs /\ Drive # Transfer
  BY GpuAssumption DEF Reqs
<1>5. /\ pc' \in [Reqs -> {"fill", "fillidx", "start", "add", "idx", "kick",
                           "wait", "finish"}]
      /\ pc'[Drive] = "start" /\ \A r \in Reqs : r # Drive => pc'[r] = pc[r]
  BY <1>1, <1>4 DEF TypeOK
<1>6. TypeOK'
  BY <1>1, <1>2, <1>4, <1>5 DEF TypeOK, VqTypeOK, vqvars
<1>7. OwnInv' /\ RunInv'
  BY <1>1, <1>2, <1>4, <1>5 DEF OwnInv, RunInv, Idle, Busy
<1>8. SplitInv'
  BY <1>2 DEF SplitInv, Owned, vqvars
<1>9. FlightInv'
  <2>1. \A r \in Reqs : pc[r] \in Published => pc'[r] \in Published
    BY <1>1, <1>5 DEF Published
  <2> QED BY <1>2, <1>3, <2>1 DEF FlightInv, vqvars
<1>10. SlotInv'
  BY <1>1, <1>4, <1>5 DEF SlotInv, RunInv
<1>11. WakeInv'
  BY <1>1, <1>2, <1>3, <1>5 DEF WakeInv
<1>12. PageInv'
  BY <1>1, <1>2, <1>3, <1>5 DEF PageInv, vqvars
<1>13. FilledInv'
  BY <1>1, <1>2, <1>5 DEF FilledInv
<1> QED BY <1>6, <1>7, <1>8, <1>9, <1>10, <1>11, <1>12, <1>13

(* request() takes two descriptors, or panics. *)
LEMMA RequestStartInv ==
    ASSUME IInv, NEW r \in Reqs, RequestStart(r)
    PROVE  IInv'
<1> USE DEF IInv
<1>1. running = r /\ pc[r] = "start"
  BY DEF RequestStart
<1>2. UNCHANGED << availvars, usedvars, devvars, tag, made, filled, WAKERS,
                   chain, page, ready, running, notified >>
  BY DEF RequestStart
<1>3. /\ AvailPending' = AvailPending /\ UsedPending' = UsedPending
      /\ InFlight' = InFlight /\ dev_held' = dev_held
  BY <1>2, PendingSame DEF availvars, usedvars, devvars, InFlight
<1>4. /\ Drive \in Reqs /\ Transfer \in Reqs /\ Drive # Transfer
      /\ Reqs = {Drive, Transfer}
  BY GpuAssumption DEF Reqs
<1>5. CASE Len(free) < 2
  <2>1. UNCHANGED << free, pc, desc_id, desc_next >> /\ panicked' = TRUE
    BY <1>5 DEF RequestStart
  <2>2. TypeOK'
    BY <1>2, <2>1 DEF TypeOK, VqTypeOK, availvars, usedvars, devvars
  <2>3. OwnInv' /\ RunInv' /\ FilledInv'
    BY <1>2, <2>1 DEF OwnInv, RunInv, FilledInv
  <2>4. SplitInv'
    BY <1>2, <2>1 DEF SplitInv, Owned
  <2>5. FlightInv'
    BY <1>2, <1>3, <2>1 DEF FlightInv
  <2>6. SlotInv'
    BY <1>2, <1>3, <2>1 DEF SlotInv, Slot, availvars
  <2>7. WakeInv' /\ PageInv'
    BY <1>2, <1>3, <2>1 DEF WakeInv, PageInv
  <2> QED BY <2>2, <2>3, <2>4, <2>5, <2>6, <2>7
<1>6. CASE ~(Len(free) < 2)
  <2> DEFINE d == Last(free)
             n == free[Len(free) - 1]
  <2>1. /\ free' = SubSeq(free, 1, Len(free) - 2) /\ Len(free) >= 2
        /\ desc_id' = [desc_id EXCEPT ![r] = d]
        /\ desc_next' = [desc_next EXCEPT ![r] = n]
        /\ pc' = [pc EXCEPT ![r] = "add"] /\ panicked' = panicked
    BY <1>6 DEF RequestStart, get_free_twice
  <2>2. free \in Seq(Descs) /\ IsInjective(free)
    BY DEF SplitInv, Split
  <2>3. /\ free' \in Seq(Descs) /\ IsInjective(free') /\ d \in Descs /\ n \in Descs
        /\ d # n /\ d \notin Range(free') /\ n \notin Range(free')
        /\ Range(free) = Range(free') \cup {d, n}
    BY <2>1, <2>2, PopTwice
  <2> HIDE DEF d, n
  <2>4. /\ pc' \in [Reqs -> {"fill", "fillidx", "start", "add", "idx", "kick",
                             "wait", "finish"}]
        /\ pc'[r] = "add" /\ \A q \in Reqs : q # r => pc'[q] = pc[q]
    BY <2>1 DEF TypeOK
  <2>5. /\ desc_id'[r] = d /\ \A q \in Reqs : q # r => desc_id'[q] = desc_id[q]
        /\ desc_next'[r] = n /\ \A q \in Reqs : q # r => desc_next'[q] = desc_next[q]
        /\ desc_id' \in [Reqs -> Descs \cup {NoDesc}]
        /\ desc_next' \in [Reqs -> Descs \cup {NoDesc}]
    BY <2>1, <2>3 DEF TypeOK
  <2>6. TypeOK'
    BY <1>2, <2>1, <2>3, <2>4, <2>5 DEF TypeOK, VqTypeOK, availvars, usedvars, devvars
  <2>7. OwnInv'
    BY <1>1, <1>4, <2>3, <2>4, <2>5 DEF OwnInv, Idle, Busy
  <2>8. RunInv'
    BY <1>1, <1>2, <2>4 DEF RunInv
  <2>9. SplitInv'
    <3>1. NoDesc \notin Descs
      BY RingAssumption DEF NoDesc, Descs
    <3>2. Owned(r) = {}
      BY <1>1 DEF Owned, OwnInv, Idle
    <3>3. Owned(r)' = {d, n}
      BY <2>3, <2>5, <3>1 DEF Owned
    <3>4. \A q \in Reqs : q # r => Owned(q)' = Owned(q)
      BY <2>5 DEF Owned
    <3>5. CASE r = Drive
      BY <1>2, <1>4, <2>3, <3>2, <3>3, <3>4, <3>5 DEF SplitInv, Split
    <3>6. CASE r = Transfer
      BY <1>2, <1>4, <2>3, <3>2, <3>3, <3>4, <3>6 DEF SplitInv, Split
    <3> QED BY <1>4, <3>5, <3>6
  <2>10. FlightInv'
    <3>1. \A q \in Reqs : pc[q] \in Published =>
             pc'[q] \in Published /\ desc_id'[q] = desc_id[q]
      BY <1>1, <2>4, <2>5 DEF Published
    <3> QED BY <1>2, <1>3, <3>1 DEF FlightInv
  <2>11. SlotInv'
    <3>1. \A q \in Reqs : pc'[q] \notin {"idx", "fillidx"}
      BY <1>1, <2>4 DEF RunInv
    <3> QED BY <1>4, <3>1 DEF SlotInv
  <2>12. WakeInv'
    <3>1. \A q \in Reqs : pc[q] = "wait" =>
             pc'[q] = "wait" /\ desc_id'[q] = desc_id[q]
      BY <1>1, <2>4, <2>5
    <3>2. pc'[Drive] \in {"fill", "fillidx"} => pc[Drive] \in {"fill", "fillidx"}
      BY <1>4, <2>4
    <3> QED BY <1>2, <1>3, <3>1, <3>2 DEF WakeInv
  <2>13. PageInv'
    BY ZenonT(40), <1>1, <1>2, <1>3, <2>4, <2>5 DEF PageInv
  <2>14. FilledInv'
    <3>1. pc'[Drive] \in {"fill", "fillidx"} => pc[Drive] \in {"fill", "fillidx"}
      BY <1>4, <2>4
    <3> QED BY <1>2, <3>1 DEF FilledInv
  <2> QED BY <2>6, <2>7, <2>8, <2>9, <2>10, <2>11, <2>12, <2>13, <2>14
<1> QED BY <1>5, <1>6

(* request() writes the command, the chain and the slot of the ring... *)
LEMMA AddRequestInv ==
    ASSUME IInv, NEW r \in Reqs, AddRequest(r)
    PROVE  IInv'
<1> USE DEF IInv
<1> DEFINE d == desc_id[r]
           n == desc_next[r]
<1>1. /\ running = r /\ pc[r] = "add" /\ write_slot(d)
      /\ page' = [page EXCEPT ![d] = << r, tag[r] >>]
      /\ chain' = [chain EXCEPT ![d] = n, ![n] = NoDesc]
      /\ pc' = [pc EXCEPT ![r] = "idx"]
  BY DEF AddRequest
<1>2. UNCHANGED << free, avail_idx, usedvars, devvars, desc_id, desc_next, tag,
                   made, filled, WAKERS, ready, running, notified, panicked >>
  BY DEF AddRequest
<1>3. /\ d \in Descs /\ n \in Descs /\ d # n /\ d \notin filled /\ n \notin filled
      /\ \A q \in Reqs : q # r => /\ desc_id[q] # d /\ desc_next[q] # d
                                  /\ desc_id[q] # n /\ desc_next[q] # n
  BY <1>1, OwnFacts DEF Busy
<1>4. d \notin InFlight /\ n \notin InFlight
  BY <1>1, NotInFlight DEF Busy, Published
<1> HIDE DEF d, n
<1>5. VqTypeOK /\ Len(AvailPending) < QSize
  <2>1. d \notin Range(AvailPending)
    BY <1>4 DEF InFlight
  <2> QED BY <1>3, <2>1, FlightRoom DEF FlightInv, TypeOK
<1>6. UNCHANGED << avail_idx, dev_idx >>
  BY <1>2 DEF devvars
<1>7. /\ AvailPending' = AvailPending /\ avail_ring' \in Rings
      /\ avail_ring'[Slot(avail_idx)] = d
  BY <1>1, <1>3, <1>5, <1>6, WriteSlotStep
<1>8. UsedPending' = UsedPending /\ dev_held' = dev_held /\ InFlight' = InFlight
  BY <1>2, <1>7, PendingSame DEF devvars, InFlight
<1>9. /\ pc' \in [Reqs -> {"fill", "fillidx", "start", "add", "idx", "kick",
                           "wait", "finish"}]
      /\ pc'[r] = "idx" /\ \A q \in Reqs : q # r => pc'[q] = pc[q]
  BY <1>1 DEF TypeOK
<1>10. << r, tag[r] >> \in Payloads
  BY DEF TypeOK, Payloads
<1>11. /\ page' \in [Descs -> Payloads] /\ page'[d] = << r, tag[r] >>
       /\ \A x \in Descs : x # d => page'[x] = page[x]
  BY <1>1, <1>3, <1>10 DEF TypeOK
<1>12. /\ chain' \in [Descs -> Descs \cup {NoDesc}] /\ chain'[d] = n
       /\ chain'[n] = NoDesc
       /\ \A x \in Descs : x # d /\ x # n => chain'[x] = chain[x]
  BY <1>1, <1>3 DEF TypeOK
<1>13. /\ Drive \in Reqs /\ Transfer \in Reqs /\ Drive # Transfer
       /\ Reqs = {Drive, Transfer}
  BY GpuAssumption DEF Reqs
<1>14. TypeOK'
  BY <1>2, <1>7, <1>9, <1>11, <1>12 DEF TypeOK, VqTypeOK, usedvars, devvars, Rings
<1>15. OwnInv'
  BY <1>1, <1>2, <1>9, <1>13 DEF OwnInv, Idle, Busy
<1>16. RunInv'
  BY <1>1, <1>2, <1>9 DEF RunInv
<1>17. SplitInv'
  BY <1>2 DEF SplitInv, Owned
<1>18. FlightInv'
  <2>1. \A q \in Reqs : pc[q] \in Published => pc'[q] \in Published
    BY <1>1, <1>9 DEF Published
  <2> QED BY <1>2, <1>7, <1>8, <2>1 DEF FlightInv
<1>19. SlotInv'
  <2>1. Slot(avail_idx)' = Slot(avail_idx)
    BY <1>2 DEF Slot
  <2>2. \A q \in Reqs : q # r => pc'[q] \notin {"idx", "fillidx"}
    BY <1>1, <1>9 DEF RunInv
  <2> QED BY <1>2, <1>7, <1>9, <1>13, <2>1, <2>2 DEF SlotInv, d
<1>20. WakeInv'
  <2>1. \A q \in Reqs : pc[q] = "wait" => pc'[q] = "wait"
    BY <1>1, <1>9
  <2>2. pc'[Drive] \in {"fill", "fillidx"} => pc[Drive] \in {"fill", "fillidx"}
    BY <1>9, <1>13
  <2> QED BY <1>2, <1>8, <2>1, <2>2 DEF WakeInv
<1>21. PageInv'
  <2> SUFFICES ASSUME NEW q \in Reqs
               PROVE  /\ pc'[q] \in {"idx", "kick", "wait", "finish"} =>
                           /\ page'[desc_id[q]] = << q, tag[q] >>
                           /\ chain'[desc_id[q]] = desc_next[q]
                      /\ /\ pc'[q] \in {"kick", "wait", "finish"}
                         /\ desc_id[q] \notin Range(AvailPending) \cup dev_held
                         => page'[desc_next[q]] = << q, tag[q] >>
    BY <1>2, <1>7, <1>8 DEF PageInv
  <2>1. CASE q = r
    BY <1>9, <1>11, <1>12, <2>1 DEF d, n
  <2>2. CASE q # r
    <3>1. pc[q] \in Busy => desc_id[q] \in Descs /\ desc_next[q] \in Descs
      BY DEF OwnInv
    <3> QED BY SMTT(40), <1>3, <1>9, <1>11, <1>12, <2>2, <3>1 DEF PageInv, Busy
  <2> QED BY <2>1, <2>2
<1>22. FilledInv'
  <2>1. pc'[Drive] \notin {"fill", "fillidx"}
    BY <1>1, <1>9, <1>13 DEF RunInv
  <2>2. filled \in SUBSET Descs
    BY DEF TypeOK
  <2> QED BY <1>2, <1>3, <1>12, <2>1, <2>2 DEF FilledInv
<1> QED BY <1>14, <1>15, <1>16, <1>17, <1>18, <1>19, <1>20, <1>21, <1>22

(* ...advances the index... *)
LEMMA AddRequestIdxInv ==
    ASSUME IInv, NEW r \in Reqs, AddRequestIdx(r)
    PROVE  IInv'
<1> USE DEF IInv
<1> DEFINE d == desc_id[r]
<1>1. /\ running = r /\ pc[r] = "idx" /\ write_idx
      /\ pc' = [pc EXCEPT ![r] = "kick"]
  BY DEF AddRequestIdx
<1>2. UNCHANGED << free, avail_ring, usedvars, devvars, desc_id, desc_next, tag,
                   made, filled, WAKERS, chain, page, ready, running,
                   notified, panicked >>
  BY DEF AddRequestIdx
<1>3. /\ d \in Descs /\ d \notin filled
      /\ \A q \in Reqs : q # r => desc_id[q] # d
  BY <1>1, OwnFacts DEF Busy
<1>4. d \notin InFlight /\ avail_ring[Slot(avail_idx)] = d
  BY <1>1, NotInFlight DEF Busy, Published, SlotInv
<1> HIDE DEF d
<1>5. VqTypeOK /\ Len(AvailPending) < QSize
  <2>1. d \notin Range(AvailPending)
    BY <1>4 DEF InFlight
  <2> QED BY <1>3, <2>1, FlightRoom DEF FlightInv, TypeOK
<1>6. UNCHANGED << avail_ring, dev_idx >>
  BY <1>2 DEF devvars
<1>7. AvailPending' = Append(AvailPending, d) /\ avail_idx' \in Indexes
  BY <1>1, <1>4, <1>5, <1>6, WriteIdxStep
<1>8. UsedPending' = UsedPending /\ dev_held' = dev_held
  BY <1>2, PendingSame DEF devvars
<1>9. /\ Flight(Append(AvailPending, d), UsedPending, dev_held)
      /\ Range(Append(AvailPending, d)) = Range(AvailPending) \cup {d}
  BY <1>3, <1>4, FlightPublish DEF FlightInv, InFlight
<1>10. /\ InFlight' = InFlight \cup {d}
       /\ Range(AvailPending') = Range(AvailPending) \cup {d}
  BY <1>7, <1>8, <1>9 DEF InFlight
<1>11. /\ pc' \in [Reqs -> {"fill", "fillidx", "start", "add", "idx", "kick",
                            "wait", "finish"}]
       /\ pc'[r] = "kick" /\ \A q \in Reqs : q # r => pc'[q] = pc[q]
  BY <1>1 DEF TypeOK
<1>12. /\ Drive \in Reqs /\ Transfer \in Reqs /\ Drive # Transfer
       /\ Reqs = {Drive, Transfer}
  BY GpuAssumption DEF Reqs
<1>13. TypeOK'
  BY <1>1, <1>2, <1>7, <1>11 DEF TypeOK, VqTypeOK, usedvars, devvars
<1>14. OwnInv'
  BY <1>1, <1>2, <1>11, <1>12 DEF OwnInv, Idle, Busy
<1>15. RunInv'
  BY <1>1, <1>2, <1>11 DEF RunInv
<1>16. SplitInv'
  BY <1>2 DEF SplitInv, Owned
<1>17. FlightInv'
  <2>1. \A q \in Reqs : pc[q] \in Published => pc'[q] \in Published
    BY <1>1, <1>11 DEF Published
  <2>2. pc'[r] \in Published /\ d = desc_id'[r]
    BY <1>2, <1>11 DEF Published, d
  <2> QED BY <1>2, <1>7, <1>8, <1>9, <1>10, <2>1, <2>2 DEF FlightInv
<1>18. SlotInv'
  <2>1. \A q \in Reqs : pc'[q] \notin {"idx", "fillidx"}
    BY <1>1, <1>11 DEF RunInv
  <2> QED BY <1>12, <2>1 DEF SlotInv
<1>19. WakeInv'
  <2>1. \A q \in Reqs : pc[q] = "wait" <=> pc'[q] = "wait"
    BY <1>1, <1>11
  <2>2. pc'[Drive] \in {"fill", "fillidx"} => pc[Drive] \in {"fill", "fillidx"}
    BY <1>11, <1>12
  <2>3. WAKERS[d] # "Done"
    BY <1>1, <1>3 DEF WakeInv
  <2> QED BY <1>2, <1>10, <2>1, <2>2, <2>3 DEF WakeInv
<1>20. PageInv'
  <2> SUFFICES ASSUME NEW q \in Reqs
               PROVE  /\ pc'[q] \in {"idx", "kick", "wait", "finish"} =>
                           /\ page[desc_id[q]] = << q, tag[q] >>
                           /\ chain[desc_id[q]] = desc_next[q]
                      /\ /\ pc'[q] \in {"kick", "wait", "finish"}
                         /\ desc_id[q] \notin Range(AvailPending) \cup {d} \cup dev_held
                         => page[desc_next[q]] = << q, tag[q] >>
    BY <1>2, <1>8, <1>10 DEF PageInv
  <2>1. CASE q = r
    BY <1>1, <2>1 DEF PageInv, d
  <2>2. CASE q # r
    BY <1>11, <2>2 DEF PageInv
  <2> QED BY <2>1, <2>2
<1>21. FilledInv'
  BY <1>2, <1>11, <1>12 DEF FilledInv
<1> QED BY <1>13, <1>14, <1>15, <1>16, <1>17, <1>18, <1>19, <1>20, <1>21

(* ...and notifies the device. *)
LEMMA KickInv ==
    ASSUME IInv, NEW r \in Reqs, kick(r)
    PROVE  IInv'
<1> USE DEF IInv
<1>1. running = r /\ pc[r] = "kick" /\ pc' = [pc EXCEPT ![r] = "wait"] /\ notified'
  BY DEF kick
<1>2. UNCHANGED << vqvars, desc_id, desc_next, tag, made, filled, WAKERS, chain,
                   page, ready, running, panicked >>
  BY DEF kick
<1>3. /\ AvailPending' = AvailPending /\ UsedPending' = UsedPending
      /\ InFlight' = InFlight
  BY <1>2, FlightSame
<1>4. /\ pc' \in [Reqs -> {"fill", "fillidx", "start", "add", "idx", "kick",
                           "wait", "finish"}]
      /\ pc'[r] = "wait" /\ \A q \in Reqs : q # r => pc'[q] = pc[q]
  BY <1>1 DEF TypeOK
<1>5. /\ Drive \in Reqs /\ Transfer \in Reqs /\ Drive # Transfer
      /\ Reqs = {Drive, Transfer}
  BY GpuAssumption DEF Reqs
<1>6. TypeOK'
  <2>1. notified' \in BOOLEAN
    BY DEF kick
  <2> QED BY <1>2, <1>4, <2>1 DEF TypeOK, VqTypeOK, vqvars
<1>7. OwnInv' /\ RunInv'
  BY <1>1, <1>2, <1>4, <1>5 DEF OwnInv, RunInv, Idle, Busy
<1>8. SplitInv'
  BY <1>2 DEF SplitInv, Owned, vqvars
<1>9. FlightInv'
  <2>1. \A q \in Reqs : pc[q] \in Published => pc'[q] \in Published
    BY <1>1, <1>4 DEF Published
  <2> QED BY <1>2, <1>3, <2>1 DEF FlightInv, vqvars
<1>10. SlotInv'
  <2>1. \A q \in Reqs : pc'[q] \notin {"idx", "fillidx"}
    BY <1>1, <1>4 DEF RunInv
  <2> QED BY <1>5, <2>1 DEF SlotInv
<1>11. pc'[Drive] \in {"fill", "fillidx"} => pc[Drive] \in {"fill", "fillidx"}
  BY <1>4, <1>5
<1>12. WakeInv'
  <2>1. \A q \in Reqs : pc[q] = "wait" => pc'[q] = "wait"
    BY <1>1, <1>4
  <2> QED BY <1>2, <1>3, <1>11, <2>1 DEF WakeInv
<1>13. PageInv'
  <2>1. \A q \in Reqs :
          /\ pc'[q] \in {"idx", "kick", "wait", "finish"} =>
               pc[q] \in {"idx", "kick", "wait", "finish"}
          /\ pc'[q] \in {"kick", "wait", "finish"} =>
               pc[q] \in {"kick", "wait", "finish"}
    BY <1>1, <1>4
  <2> QED BY <1>2, <1>3, <2>1 DEF PageInv, vqvars
<1>14. FilledInv'
  BY <1>2, <1>11 DEF FilledInv
<1> QED BY <1>6, <1>7, <1>8, <1>9, <1>10, <1>12, <1>13, <1>14

(* IdWait is polled before the answer: it leaves its waker. *)
LEMMA IdWaitPendingInv ==
    ASSUME IInv, NEW r \in Reqs, IdWaitPending(r)
    PROVE  IInv'
<1> USE DEF IInv
<1> DEFINE d == desc_id[r]
<1>1. /\ running = r /\ pc[r] = "wait" /\ running' = "nobody"
      /\ WAKERS' = [WAKERS EXCEPT ![d] = r]
  BY DEF IdWaitPending
<1>2. UNCHANGED << vqvars, reqvars, chain, page, ready, notified, panicked >>
  BY DEF IdWaitPending
<1>3. /\ AvailPending' = AvailPending /\ UsedPending' = UsedPending
      /\ InFlight' = InFlight
  BY <1>2, FlightSame
<1>4. d \in Descs
  BY <1>1, OwnFacts DEF Busy
<1> HIDE DEF d
<1>5. /\ Drive \in Reqs /\ Transfer \in Reqs /\ Drive # Transfer
      /\ Reqs = {Drive, Transfer} /\ r # "Done"
  BY GpuAssumption DEF Reqs
<1>6. /\ WAKERS' \in [Descs -> {"None", "Done"} \cup Reqs]
      /\ \A x \in Descs : WAKERS'[x] = "Done" => WAKERS[x] = "Done"
  BY <1>1, <1>4, <1>5 DEF TypeOK
<1>7. TypeOK'
  BY <1>1, <1>2, <1>6 DEF TypeOK, VqTypeOK, vqvars, reqvars
<1>8. OwnInv'
  BY <1>2 DEF OwnInv, reqvars
<1>9. RunInv'
  BY <1>1, <1>2 DEF RunInv, reqvars
<1>10. SplitInv'
  BY <1>2 DEF SplitInv, Owned, vqvars, reqvars
<1>11. FlightInv'
  BY <1>2, <1>3 DEF FlightInv, vqvars, reqvars
<1>12. SlotInv'
  <2>1. \A q \in Reqs : pc[q] \notin {"idx", "fillidx"}
    BY <1>1 DEF RunInv
  <2> QED BY <1>2, <1>5, <2>1 DEF SlotInv, reqvars
<1>13. pc'[Drive] \notin {"fill", "fillidx"}
  BY <1>1, <1>2, <1>5 DEF RunInv, reqvars
<1>14. WakeInv'
  BY <1>2, <1>3, <1>6, <1>13 DEF WakeInv, reqvars
<1>15. PageInv'
  BY <1>2, <1>3 DEF PageInv, reqvars, vqvars
<1>16. FilledInv'
  BY <1>2 DEF FilledInv, reqvars
<1> QED BY <1>7, <1>8, <1>9, <1>10, <1>11, <1>12, <1>14, <1>15, <1>16

(* IdWait is polled after the answer. *)
LEMMA IdWaitReadyInv ==
    ASSUME IInv, NEW r \in Reqs, IdWaitReady(r)
    PROVE  IInv'
<1> USE DEF IInv
<1> DEFINE d == desc_id[r]
<1>1. /\ running = r /\ pc[r] = "wait" /\ WAKERS[d] = "Done"
      /\ WAKERS' = [WAKERS EXCEPT ![d] = "None"]
      /\ pc' = [pc EXCEPT ![r] = "finish"]
  BY DEF IdWaitReady
<1>2. UNCHANGED << vqvars, desc_id, desc_next, tag, made, filled, chain, page,
                   ready, running, notified, panicked >>
  BY DEF IdWaitReady
<1>3. /\ AvailPending' = AvailPending /\ UsedPending' = UsedPending
      /\ InFlight' = InFlight
  BY <1>2, FlightSame
<1>4. d \in Descs /\ \A q \in Reqs : q # r => desc_id[q] # d
  BY <1>1, OwnFacts DEF Busy
<1>5. d \notin InFlight
  BY <1>1, <1>4 DEF WakeInv
<1>6. page[desc_next[r]] = << r, tag[r] >>
  BY <1>1, <1>5 DEF PageInv, InFlight
<1>8. /\ Drive \in Reqs /\ Transfer \in Reqs /\ Drive # Transfer
      /\ Reqs = {Drive, Transfer}
  BY GpuAssumption DEF Reqs
<1>9. /\ pc' \in [Reqs -> {"fill", "fillidx", "start", "add", "idx", "kick",
                           "wait", "finish"}]
      /\ pc'[r] = "finish" /\ \A q \in Reqs : q # r => pc'[q] = pc[q]
  BY <1>1 DEF TypeOK
<1>10. /\ WAKERS' \in [Descs -> {"None", "Done"} \cup Reqs]
       /\ \A x \in Descs : WAKERS'[x] = "Done" => WAKERS[x] = "Done" /\ x # d
  BY <1>1, <1>4 DEF TypeOK
<1> HIDE DEF d
<1>11. TypeOK'
  BY <1>2, <1>9, <1>10 DEF TypeOK, VqTypeOK, vqvars
<1>12. OwnInv' /\ RunInv'
  BY <1>1, <1>2, <1>8, <1>9 DEF OwnInv, RunInv, Idle, Busy
<1>13. SplitInv'
  BY <1>2 DEF SplitInv, Owned, vqvars
<1>14. FlightInv'
  <2>1. ASSUME NEW x \in InFlight, x \notin filled
        PROVE  \E q \in Reqs : pc'[q] \in Published /\ x = desc_id[q]
    <3>1. PICK q \in Reqs : pc[q] \in Published /\ x = desc_id[q]
      BY <2>1 DEF FlightInv
    <3>2. q # r
      BY <1>5, <3>1, <2>1 DEF d
    <3> QED BY <1>9, <3>1, <3>2
  <2> QED BY <1>2, <1>3, <2>1 DEF FlightInv, vqvars
<1>15. SlotInv'
  <2>1. \A q \in Reqs : pc'[q] \notin {"idx", "fillidx"}
    BY <1>1, <1>9 DEF RunInv
  <2> QED BY <1>8, <2>1 DEF SlotInv
<1>16. pc'[Drive] \notin {"fill", "fillidx"}
  BY <1>1, <1>8, <1>9 DEF RunInv
<1>17. WakeInv'
  <2>1. ASSUME NEW x \in Descs, WAKERS'[x] = "Done", x \notin filled
        PROVE  \E q \in Reqs : pc'[q] = "wait" /\ x = desc_id[q]
    <3>1. PICK q \in Reqs : pc[q] = "wait" /\ x = desc_id[q]
      BY <1>10, <2>1 DEF WakeInv
    <3>2. q # r
      BY <1>10, <3>1, <2>1 DEF d
    <3> QED BY <1>9, <3>1, <3>2
  <2> QED BY <1>2, <1>3, <1>10, <1>16, <2>1 DEF WakeInv
<1>18. PageInv'
  <2> SUFFICES ASSUME NEW q \in Reqs
               PROVE  /\ pc'[q] \in {"idx", "kick", "wait", "finish"} =>
                           /\ page[desc_id[q]] = << q, tag[q] >>
                           /\ chain[desc_id[q]] = desc_next[q]
                      /\ /\ pc'[q] \in {"kick", "wait", "finish"}
                         /\ desc_id[q] \notin Range(AvailPending) \cup dev_held
                         => page[desc_next[q]] = << q, tag[q] >>
    BY <1>2, <1>3 DEF PageInv, vqvars
  <2>1. CASE q = r
    BY <1>1, <1>6, <2>1 DEF PageInv
  <2>2. CASE q # r
    BY <1>9, <2>2 DEF PageInv
  <2> QED BY <2>1, <2>2
<1>19. FilledInv'
  BY <1>2, <1>16 DEF FilledInv
<1> QED BY <1>11, <1>12, <1>13, <1>14, <1>15, <1>17, <1>18, <1>19

(* request() reads the response and frees both descriptors. *)
LEMMA RequestFinishInv ==
    ASSUME IInv, NEW r \in Reqs, RequestFinish(r)
    PROVE  IInv'
<1> USE DEF IInv
<1> DEFINE d == desc_id[r]
           n == desc_next[r]
<1>1. /\ running = r /\ pc[r] = "finish" /\ pc' = [pc EXCEPT ![r] = "start"]
      /\ free' = free \o << d, n >>
      /\ desc_id' = [desc_id EXCEPT ![r] = NoDesc]
      /\ desc_next' = [desc_next EXCEPT ![r] = NoDesc]
      /\ tag' = [tag EXCEPT ![r] = 1 - @]
  BY DEF RequestFinish
<1>2. UNCHANGED << availvars, usedvars, devvars, filled, WAKERS, chain, page,
                   running, notified, panicked >>
  BY DEF RequestFinish
<1>3. /\ AvailPending' = AvailPending /\ UsedPending' = UsedPending
      /\ InFlight' = InFlight /\ dev_held' = dev_held
  BY <1>2, PendingSame DEF availvars, usedvars, devvars, InFlight
<1>4. /\ d \in Descs /\ n \in Descs /\ d # n
      /\ d \notin Range(free) /\ n \notin Range(free)
  BY <1>1, OwnFacts DEF Busy
<1>5. /\ free' \in Seq(Descs) /\ IsInjective(free')
      /\ Range(free') = Range(free) \cup {d, n}
  <2>1. free \in Seq(Descs) /\ IsInjective(free)
    BY DEF SplitInv, Split
  <2> HIDE DEF d, n
  <2> QED BY <1>1, <1>4, <2>1, PushTwice
<1>6. /\ Drive \in Reqs /\ Transfer \in Reqs /\ Drive # Transfer
      /\ Reqs = {Drive, Transfer}
  BY GpuAssumption DEF Reqs
<1>7. /\ pc' \in [Reqs -> {"fill", "fillidx", "start", "add", "idx", "kick",
                           "wait", "finish"}]
      /\ pc'[r] = "start" /\ \A q \in Reqs : q # r => pc'[q] = pc[q]
  BY <1>1 DEF TypeOK
<1>8. /\ desc_id'[r] = NoDesc /\ \A q \in Reqs : q # r => desc_id'[q] = desc_id[q]
      /\ desc_next'[r] = NoDesc
      /\ \A q \in Reqs : q # r => desc_next'[q] = desc_next[q]
      /\ desc_id' \in [Reqs -> Descs \cup {NoDesc}]
      /\ desc_next' \in [Reqs -> Descs \cup {NoDesc}]
  BY <1>1 DEF TypeOK
<1>9. /\ tag' \in [Reqs -> {0, 1}] /\ \A q \in Reqs : q # r => tag'[q] = tag[q]
  <2>1. 1 - tag[r] \in {0, 1}
    BY DEF TypeOK
  <2> QED BY <1>1, <2>1 DEF TypeOK
<1>10. made' \in 0 .. StartupReqs /\ ready' \in SUBSET Reqs
  <2>1. made' \in 0 .. StartupReqs
    BY GpuAssumption DEF RequestFinish, TypeOK
  <2>2. ready' \in SUBSET Reqs
    BY <1>6 DEF RequestFinish, TypeOK
  <2> QED BY <2>1, <2>2
<1> HIDE DEF d, n
<1>11. TypeOK'
  BY <1>2, <1>5, <1>7, <1>8, <1>9, <1>10
     DEF TypeOK, VqTypeOK, availvars, usedvars, devvars
<1>12. OwnInv'
  BY <1>6, <1>7, <1>8 DEF OwnInv, Idle, Busy
<1>13. RunInv'
  BY <1>1, <1>2, <1>7 DEF RunInv
<1>14. SplitInv'
  <2>1. NoDesc \notin Descs
    BY RingAssumption DEF NoDesc, Descs
  <2>2. Owned(r) = {d, n}
    BY <1>4, <2>1 DEF Owned, d, n
  <2>3. Owned(r)' = {}
    BY <1>8 DEF Owned
  <2>4. \A q \in Reqs : q # r => Owned(q)' = Owned(q)
    BY <1>8 DEF Owned
  <2>5. CASE r = Drive
    BY <1>2, <1>5, <1>6, <2>2, <2>3, <2>4, <2>5 DEF SplitInv, Split
  <2>6. CASE r = Transfer
    BY <1>2, <1>5, <1>6, <2>2, <2>3, <2>4, <2>6 DEF SplitInv, Split
  <2> QED BY <1>6, <2>5, <2>6
<1>15. FlightInv'
  <2>1. \A q \in Reqs : pc[q] \in Published =>
           pc'[q] \in Published /\ desc_id'[q] = desc_id[q]
    BY <1>1, <1>7, <1>8 DEF Published
  <2> QED BY <1>2, <1>3, <2>1 DEF FlightInv
<1>16. SlotInv'
  <2>1. \A q \in Reqs : pc'[q] \notin {"idx", "fillidx"}
    BY <1>1, <1>7 DEF RunInv
  <2> QED BY <1>6, <2>1 DEF SlotInv
<1>17. pc'[Drive] \notin {"fill", "fillidx"}
  BY <1>1, <1>6, <1>7 DEF RunInv
<1>18. WakeInv'
  <2>1. \A q \in Reqs : pc[q] = "wait" =>
           pc'[q] = "wait" /\ desc_id'[q] = desc_id[q]
    BY <1>1, <1>7, <1>8
  <2> QED BY <1>2, <1>3, <1>17, <2>1 DEF WakeInv
<1>19. PageInv'
  <2> SUFFICES ASSUME NEW q \in Reqs
               PROVE  /\ pc'[q] \in {"idx", "kick", "wait", "finish"} =>
                           /\ page[desc_id'[q]] = << q, tag'[q] >>
                           /\ chain[desc_id'[q]] = desc_next'[q]
                      /\ /\ pc'[q] \in {"kick", "wait", "finish"}
                         /\ desc_id'[q] \notin Range(AvailPending) \cup dev_held
                         => page[desc_next'[q]] = << q, tag'[q] >>
    BY <1>2, <1>3 DEF PageInv
  <2>1. CASE q = r
    BY <1>7, <2>1
  <2>2. CASE q # r
    BY <1>7, <1>8, <1>9, <2>2 DEF PageInv
  <2> QED BY <2>1, <2>2
<1>20. FilledInv'
  BY <1>2, <1>17 DEF FilledInv
<1> QED BY <1>11, <1>12, <1>13, <1>14, <1>15, <1>16, <1>18, <1>19, <1>20

(* The poller takes a descriptor off the used ring and wakes its request. *)
LEMMA PollerWakeInv == IInv /\ PollerWake => IInv'
<1> SUFFICES ASSUME IInv, PollerWake PROVE IInv'
  OBVIOUS
<1> USE DEF IInv
<1>1. running = Poller
  BY DEF PollerWake
<1>2. PICK d \in Descs : /\ next_used(d)
                         /\ WAKERS' = [WAKERS EXCEPT ![d] = "Done"]
                         /\ ready' = ready \cup ({WAKERS[d]} \cap Reqs)
  BY DEF PollerWake
<1>3. UNCHANGED << free, availvars, used_idx, devvars, reqvars, chain, page,
                   running, notified, panicked >>
  BY DEF PollerWake
<1>4. VqTypeOK /\ Len(UsedPending) <= QSize /\ UNCHANGED used_idx
  BY <1>3, FlightRoom DEF FlightInv, TypeOK
<1>5. /\ UsedPending # <<>> /\ d = Head(UsedPending)
      /\ UsedPending' = Tail(UsedPending)
      /\ used_ring' \in Rings /\ last_used_idx' \in Indexes
  BY <1>2, <1>4, NextUsedStep
<1>6. AvailPending' = AvailPending /\ dev_held' = dev_held
  BY <1>3, PendingSame DEF devvars
<1>7. /\ Flight(AvailPending, Tail(UsedPending), dev_held)
      /\ Range(UsedPending) = Range(Tail(UsedPending)) \cup {d}
      /\ d \notin Range(AvailPending) \cup Range(Tail(UsedPending)) \cup dev_held
  BY <1>5, FlightNextUsed DEF FlightInv
<1>8. InFlight' = InFlight \ {d} /\ d \in InFlight
  BY <1>5, <1>6, <1>7 DEF InFlight
<1>9. /\ Drive \in Reqs /\ Transfer \in Reqs /\ Drive # Transfer
      /\ Reqs = {Drive, Transfer} /\ Poller \notin Reqs
  BY GpuAssumption DEF Reqs
<1>10. \A q \in Reqs : pc[q] \in {"start", "wait"}
  BY <1>1, <1>9 DEF RunInv
<1>11. /\ WAKERS' \in [Descs -> {"None", "Done"} \cup Reqs]
       /\ \A x \in Descs : x # d => WAKERS'[x] = WAKERS[x]
  BY <1>2 DEF TypeOK
<1>12. TypeOK'
  <2>1. ready' \in SUBSET Reqs
    BY <1>2 DEF TypeOK
  <2> QED BY <1>3, <1>5, <1>11, <2>1
          DEF TypeOK, VqTypeOK, availvars, devvars, reqvars, Rings
<1>13. OwnInv' /\ RunInv'
  BY <1>3 DEF OwnInv, RunInv, reqvars
<1>14. SplitInv'
  BY <1>3 DEF SplitInv, Owned, reqvars
<1>15. FlightInv'
  BY <1>3, <1>5, <1>6, <1>7, <1>8 DEF FlightInv, reqvars
<1>16. SlotInv'
  BY <1>3, <1>9, <1>10 DEF SlotInv, reqvars
<1>17. WakeInv'
  <2>1. d \in filled \/ \E q \in Reqs : pc[q] = "wait" /\ d = desc_id[q]
    BY <1>8, <1>10 DEF FlightInv, Published
  <2>2. pc'[Drive] \notin {"fill", "fillidx"}
    BY <1>3, <1>9, <1>10 DEF reqvars
  <2> QED BY <1>3, <1>8, <1>11, <2>1, <2>2 DEF WakeInv, reqvars
<1>18. PageInv'
  BY <1>3, <1>6 DEF PageInv, reqvars
<1>19. FilledInv'
  BY <1>3 DEF FilledInv, reqvars
<1> QED BY <1>12, <1>13, <1>14, <1>15, <1>16, <1>17, <1>18, <1>19

(* The poller's yield, the executor's next poll, an idle device, and steps *)
(* of the rest of the kernel change neither the queue nor a request.       *)
LEMMA QuietInv ==
    ASSUME IInv, PollerYield \/ DeviceIdle \/ UNCHANGED vars
                     \/ \E t \in Reqs \cup {Poller} : Run(t)
    PROVE  IInv'
<1> USE DEF IInv
<1>1. UNCHANGED << vqvars, reqvars, WAKERS, chain, page, panicked >>
  BY DEF PollerYield, DeviceIdle, Run, vars
<1>2. /\ AvailPending' = AvailPending /\ UsedPending' = UsedPending
      /\ InFlight' = InFlight
  BY <1>1, FlightSame
<1>3. /\ running' \in Reqs \cup {Poller, "nobody"} /\ ready' \in SUBSET Reqs
      /\ notified' \in BOOLEAN
  BY DEF PollerYield, DeviceIdle, Run, vars, TypeOK
<1>4. TypeOK'
  BY <1>1, <1>3 DEF TypeOK, VqTypeOK, vqvars, reqvars
<1>5. OwnInv'
  BY <1>1 DEF OwnInv, reqvars
<1>6. RunInv'
  <2>1. running' # running => running \notin Reqs
    BY GpuAssumption DEF PollerYield, DeviceIdle, Run, vars, Reqs
  <2> QED BY <1>1, <2>1 DEF RunInv, reqvars
<1>7. SplitInv'
  BY <1>1 DEF SplitInv, Owned, vqvars, reqvars
<1>8. FlightInv'
  BY <1>1, <1>2 DEF FlightInv, vqvars, reqvars
<1>9. SlotInv'
  BY <1>1, <1>2 DEF SlotInv, Slot, vqvars, reqvars
<1>10. WakeInv'
  BY <1>1, <1>2 DEF WakeInv, reqvars
<1>11. PageInv'
  BY <1>1, <1>2 DEF PageInv, reqvars, vqvars
<1>12. FilledInv'
  BY <1>1 DEF FilledInv, reqvars
<1> QED BY <1>4, <1>5, <1>6, <1>7, <1>8, <1>9, <1>10, <1>11, <1>12

(* The device takes a command. *)
LEMMA DeviceTakeInv == IInv /\ DeviceTake => IInv'
<1> SUFFICES ASSUME IInv, DeviceTake PROVE IInv'
  OBVIOUS
<1> USE DEF IInv
<1>1. PICK d \in Descs : DevTake(d)
  BY DEF DeviceTake
<1>2. UNCHANGED << reqvars, WAKERS, chain, page, ready, running, notified,
                   panicked >>
  BY DEF DeviceTake
<1>3. VqTypeOK /\ Len(AvailPending) <= QSize
  BY FlightRoom DEF FlightInv, TypeOK
<1>4. /\ AvailPending # <<>> /\ d = Head(AvailPending)
      /\ AvailPending' = Tail(AvailPending) /\ UsedPending' = UsedPending
      /\ avail_ring' \in Rings /\ dev_idx' \in Indexes
  BY <1>1, <1>3, DevTakeStep
<1>5. /\ Flight(Tail(AvailPending), UsedPending, dev_held \cup {d})
      /\ Range(AvailPending) = Range(Tail(AvailPending)) \cup {d}
  BY <1>4, FlightTake DEF FlightInv
<1>6. /\ free' = free /\ dev_held' = dev_held \cup {d} /\ avail_idx' = avail_idx
      /\ avail_ring' = [avail_ring EXCEPT ![Slot(dev_idx)] = NoDesc]
  BY <1>1 DEF DevTake
<1>7. /\ InFlight' = InFlight
      /\ Range(AvailPending') \cup dev_held' = Range(AvailPending) \cup dev_held
  BY <1>4, <1>5, <1>6 DEF InFlight
<1>8. TypeOK'
  BY <1>1, <1>2, <1>4 DEF DevTake, TypeOK, VqTypeOK, usedvars, reqvars, Rings
<1>9. OwnInv' /\ RunInv'
  BY <1>2 DEF OwnInv, RunInv, reqvars
<1>10. SplitInv'
  BY <1>2, <1>6 DEF SplitInv, Owned, reqvars
<1>11. FlightInv'
  BY <1>2, <1>4, <1>5, <1>6, <1>7 DEF FlightInv, reqvars
<1>12. SlotInv'
  <2>1. ASSUME NEW x \in Descs, x \notin InFlight
        PROVE  avail_ring'[Slot(avail_idx)] = avail_ring[Slot(avail_idx)]
    <3>1. x \notin Range(AvailPending)
      BY <2>1 DEF InFlight
    <3>2. Len(AvailPending) < QSize
      BY <3>1, FlightRoom DEF FlightInv
    <3>3. Slot(dev_idx) # Slot(avail_idx)
      BY <1>3, <1>4, <3>2, HeadSlotNotNext
    <3> QED BY <1>3, <1>6, <3>3, SlotFacts DEF VqTypeOK, Indexes
  <2>2. Slot(avail_idx)' = Slot(avail_idx)
    BY <1>6 DEF Slot
  <2>3. ASSUME pc[Drive] = "fillidx"
        PROVE  avail_ring'[Slot(avail_idx)] \in filled \ InFlight
    <3>1. avail_ring[Slot(avail_idx)] \in filled \ InFlight
      BY <2>3 DEF SlotInv
    <3> QED BY <2>1, <3>1 DEF TypeOK
  <2>4. ASSUME NEW r \in Reqs, pc[r] = "idx"
        PROVE  avail_ring'[Slot(avail_idx)] = desc_id[r]
    <3>1. desc_id[r] \in Descs /\ desc_id[r] \notin InFlight
      BY <2>4, OwnFacts, NotInFlight DEF Busy, Published
    <3> QED BY <2>1, <2>4, <3>1 DEF SlotInv
  <2> QED BY <1>2, <1>7, <2>2, <2>3, <2>4 DEF SlotInv, reqvars
<1>13. WakeInv'
  BY <1>2, <1>7 DEF WakeInv, reqvars
<1>14. PageInv'
  BY <1>2, <1>7 DEF PageInv, reqvars
<1>15. FilledInv'
  BY <1>2 DEF FilledInv, reqvars
<1> QED BY <1>8, <1>9, <1>10, <1>11, <1>12, <1>13, <1>14, <1>15

(* The device answers a command. *)
LEMMA DeviceAnswerInv ==
    ASSUME IInv, NEW d \in Descs, DeviceAnswer(d)
    PROVE  IInv'
<1> USE DEF IInv
<1>1. /\ DevReturn(d) /\ d \in dev_held
      /\ page' = IF chain[d] = NoDesc THEN page
                 ELSE [page EXCEPT ![chain[d]] = page[d]]
  BY DEF DeviceAnswer, DevReturn
<1>2. UNCHANGED << reqvars, WAKERS, chain, ready, running, notified, panicked >>
  BY DEF DeviceAnswer
<1>3. VqTypeOK /\ Len(UsedPending) < QSize
  BY <1>1, FlightRoom DEF FlightInv, TypeOK
<1>4. /\ UsedPending' = Append(UsedPending, d) /\ AvailPending' = AvailPending
      /\ used_ring' \in Rings /\ used_idx' \in Indexes
  BY <1>1, <1>3, DevReturnStep
<1>5. /\ Flight(AvailPending, Append(UsedPending, d), dev_held \ {d})
      /\ Range(Append(UsedPending, d)) = Range(UsedPending) \cup {d}
  BY <1>1, FlightReturn DEF FlightInv
<1>6. UNCHANGED << free, availvars >> /\ dev_held' = dev_held \ {d}
  BY <1>1 DEF DevReturn
<1>7. InFlight' = InFlight /\ d \in InFlight
  BY <1>1, <1>4, <1>5, <1>6 DEF InFlight
<1>8. page' \in [Descs -> Payloads]
  BY <1>1 DEF TypeOK
<1>9. TypeOK'
  BY <1>1, <1>2, <1>4, <1>6, <1>8
     DEF DevReturn, TypeOK, VqTypeOK, availvars, reqvars, Rings
<1>10. OwnInv' /\ RunInv'
  BY <1>2 DEF OwnInv, RunInv, reqvars
<1>11. SplitInv'
  BY <1>2, <1>6 DEF SplitInv, Owned, reqvars
<1>12. FlightInv'
  BY <1>2, <1>4, <1>5, <1>6, <1>7 DEF FlightInv, reqvars
<1>13. SlotInv'
  BY <1>2, <1>6, <1>7 DEF SlotInv, Slot, availvars, reqvars
<1>14. WakeInv'
  BY <1>2, <1>7 DEF WakeInv, reqvars
<1>15. PageInv'
  <2> SUFFICES ASSUME NEW q \in Reqs
               PROVE  /\ pc[q] \in {"idx", "kick", "wait", "finish"} =>
                           /\ page'[desc_id[q]] = << q, tag[q] >>
                           /\ chain[desc_id[q]] = desc_next[q]
                      /\ /\ pc[q] \in {"kick", "wait", "finish"}
                         /\ desc_id[q] \notin Range(AvailPending) \cup (dev_held \ {d})
                         => page'[desc_next[q]] = << q, tag[q] >>
    BY <1>2, <1>4, <1>6 DEF PageInv, reqvars
  <2>1. CASE d \in filled
    <3>1. page' = page
      BY <1>1, <2>1 DEF FilledInv
    <3>2. pc[q] \in Busy => desc_id[q] # d
      BY <2>1, OwnFacts
    <3> QED BY <3>1, <3>2 DEF PageInv, Busy
  <2>2. ASSUME NEW r \in Reqs, pc[r] \in Published, d = desc_id[r]
        PROVE  /\ pc[q] \in {"idx", "kick", "wait", "finish"} =>
                    /\ page'[desc_id[q]] = << q, tag[q] >>
                    /\ chain[desc_id[q]] = desc_next[q]
               /\ /\ pc[q] \in {"kick", "wait", "finish"}
                  /\ desc_id[q] \notin Range(AvailPending) \cup (dev_held \ {d})
                  => page'[desc_next[q]] = << q, tag[q] >>
    <3>1. /\ desc_next[r] \in Descs /\ desc_id[r] # desc_next[r]
          /\ \A p \in Reqs : p # r =>
               /\ desc_id[p] # desc_id[r]
               /\ desc_id[p] # desc_next[r] /\ desc_next[p] # desc_next[r]
      BY <2>2, OwnFacts DEF Published, Busy
    <3>2. chain[d] = desc_next[r] /\ page[d] = << r, tag[r] >>
      BY <2>2 DEF PageInv, Published
    <3>3. desc_next[r] # NoDesc
      BY <3>1, RingAssumption DEF NoDesc, Descs
    <3>4. page' = [page EXCEPT ![desc_next[r]] = << r, tag[r] >>]
      BY <1>1, <3>2, <3>3
    <3>5. /\ page'[desc_next[r]] = << r, tag[r] >>
          /\ \A x \in Descs : x # desc_next[r] => page'[x] = page[x]
      BY <3>1, <3>4 DEF TypeOK
    <3>6. pc[q] \in Busy => desc_id[q] \in Descs /\ desc_next[q] \in Descs
      BY DEF OwnInv
    <3>7. CASE q = r
      BY <2>2, <3>1, <3>5, <3>6, <3>7 DEF PageInv, Busy
    <3>8. CASE q # r
      BY <2>2, <3>1, <3>5, <3>6, <3>8 DEF PageInv, Busy
    <3> QED BY <3>7, <3>8
  <2> QED BY <1>7, <2>1, <2>2 DEF FlightInv
<1>16. FilledInv'
  BY <1>2 DEF FilledInv, reqvars
<1> QED BY <1>9, <1>10, <1>11, <1>12, <1>13, <1>14, <1>15, <1>16

(* Every step preserves the inductive invariant. *)
LEMMA NextInv == IInv /\ [Next]_vars => IInv'
<1> SUFFICES ASSUME IInv, [Next]_vars PROVE IInv'
  OBVIOUS
<1>1. CASE FillGet    BY <1>1, FillGetInv
<1>2. CASE FillIdx    BY <1>2, FillIdxInv
<1>3. CASE FillDone   BY <1>3, FillDoneInv
<1>4. CASE PollerWake BY <1>4, PollerWakeInv
<1>5. CASE DeviceTake BY <1>5, DeviceTakeInv
<1>6. ASSUME NEW r \in Reqs, Request(r) PROVE IInv'
  BY <1>6, RequestStartInv, AddRequestInv, AddRequestIdxInv, KickInv,
     IdWaitPendingInv, IdWaitReadyInv, RequestFinishInv DEF Request
<1>7. ASSUME NEW d \in Descs, DeviceAnswer(d) PROVE IInv'
  BY <1>7, DeviceAnswerInv
<1>8. CASE PollerYield \/ DeviceIdle \/ UNCHANGED vars
             \/ \E t \in Reqs \cup {Poller} : Run(t)
  BY <1>8, QuietInv
<1> QED BY <1>1, <1>2, <1>3, <1>4, <1>5, <1>6, <1>7, <1>8 DEF Next, Task

(* The inductive invariant always holds. *)
LEMMA Invariant == Spec => []IInv
BY InitInv, NextInv, PTL DEF Spec

(* Every variable of request() and of its tasks keeps its type. *)
THEOREM RequestTypes == FairSpec => []TypeOK
<1>1. IInv => TypeOK
  BY DEF IInv
<1> QED BY <1>1, Invariant, PTL DEF FairSpec

(* A request completes only with the answer to its own command: whatever   *)
(* the order of the device's answers, no stale Done slot of WAKERS, reused *)
(* descriptor or late answer completes another one.                        *)
THEOREM ResponsesAreOwn == FairSpec => []ResponseIsOwn
<1>1. IInv => ResponseIsOwn
  <2> SUFFICES ASSUME IInv, NEW r \in Reqs, pc[r] = "finish"
               PROVE  page[desc_next[r]] = << r, tag[r] >>
    BY DEF ResponseIsOwn
  <2>1. desc_id[r] \notin InFlight
    BY NotInFlight DEF Busy, Published
  <2> QED BY <2>1 DEF IInv, PageInv, InFlight
<1> QED BY <1>1, Invariant, PTL DEF FairSpec

-----------------------------------------------------------------------------
(* No wake-up is lost. *)

(* A published command is in flight until its slot is Done; one that a     *)
(* task waits for is not left on the ring of a device that was not told;   *)
(* and a task that was not woken has its waker in the slot.                *)
WaitInv ==
    \A r \in Reqs :
        /\ pc[r] \in Published => desc_id[r] \in InFlight \/ WAKERS[desc_id[r]] = "Done"
        /\ pc[r] = "wait" /\ desc_id[r] \in Range(AvailPending) => notified
        /\ pc[r] = "wait" /\ running # r => r \in ready \/ WAKERS[desc_id[r]] = r

(* The steps that move no descriptor. *)
LEMMA RingsStill ==
    ASSUME IInv,
           \/ FillGet \/ FillDone \/ PollerYield \/ DeviceIdle \/ UNCHANGED vars
           \/ (\E t \in Reqs \cup {Poller} : Run(t))
           \/ \E r \in Reqs : RequestStart(r) \/ AddRequest(r) \/ kick(r)
                \/ IdWaitPending(r) \/ IdWaitReady(r) \/ RequestFinish(r)
    PROVE  AvailPending' = AvailPending /\ InFlight' = InFlight
<1>1. CASE FillGet
  <2>1. PICK d \in Descs : get_free(d) /\ write_slot(d)
    BY <1>1 DEF FillGet
  <2>2. UNCHANGED << avail_idx, usedvars, devvars >>
    BY <1>1 DEF FillGet
  <2>3. d \in Range(free)
    <3>1. free \in Seq(Descs) /\ free # <<>>
      BY <2>1 DEF get_free, IInv, TypeOK, VqTypeOK
    <3>2. Len(free) \in Nat /\ Len(free) > 0
      BY <3>1, LenProperties, EmptySeq
    <3>3. Len(free) \in DOMAIN free /\ d = free[Len(free)]
      BY <2>1, <3>1, <3>2, LenProperties DEF get_free, Last
    <3> QED BY <3>3 DEF Range
  <2>4. d \notin Range(AvailPending)
    BY <2>3, NotInFlight DEF InFlight
  <2>5. VqTypeOK /\ Len(AvailPending) < QSize /\ UNCHANGED << avail_idx, dev_idx >>
    BY <2>2, <2>4, FlightRoom DEF IInv, FlightInv, TypeOK, devvars
  <2>6. AvailPending' = AvailPending
    BY <2>1, <2>5, WriteSlotStep
  <2> QED BY <2>2, <2>6, PendingSame DEF InFlight, devvars
<1>2. ASSUME NEW r \in Reqs, AddRequest(r)
      PROVE  AvailPending' = AvailPending /\ InFlight' = InFlight
  <2>1. /\ write_slot(desc_id[r]) /\ pc[r] = "add"
        /\ UNCHANGED << avail_idx, usedvars, devvars >>
    BY <1>2 DEF AddRequest
  <2>2. desc_id[r] \in Descs /\ desc_id[r] \notin Range(AvailPending)
    BY <2>1, OwnFacts, NotInFlight DEF Busy, Published, InFlight
  <2>3. VqTypeOK /\ Len(AvailPending) < QSize /\ UNCHANGED << avail_idx, dev_idx >>
    BY <2>1, <2>2, FlightRoom DEF IInv, FlightInv, TypeOK, devvars
  <2>4. AvailPending' = AvailPending
    BY <2>1, <2>2, <2>3, WriteSlotStep
  <2> QED BY <2>1, <2>4, PendingSame DEF InFlight, devvars
<1>3. CASE \/ FillDone \/ PollerYield \/ DeviceIdle \/ UNCHANGED vars
           \/ (\E t \in Reqs \cup {Poller} : Run(t))
           \/ \E r \in Reqs : RequestStart(r) \/ kick(r)
                \/ IdWaitPending(r) \/ IdWaitReady(r) \/ RequestFinish(r)
  <2>1. UNCHANGED << availvars, usedvars, devvars >>
    BY <1>3 DEF FillDone, PollerYield, DeviceIdle, vars, Run, RequestStart, kick,
       IdWaitPending, IdWaitReady, RequestFinish, vqvars, availvars, usedvars, devvars
  <2> QED BY <2>1, PendingSame DEF InFlight, devvars
<1> QED BY <1>1, <1>2, <1>3

(* The steps that change no slot of WAKERS and begin no wait. *)
LEMMA WaitKept ==
    ASSUME IInv, WaitInv, UNCHANGED << WAKERS, notified >>, ready \subseteq ready',
           InFlight \subseteq InFlight',
           NEW r \in Reqs, desc_id'[r] = desc_id[r], pc'[r] \in Published => pc'[r] = pc[r],
           pc'[r] = "wait" /\ running # r => running' # r,
           pc'[r] = "wait" /\ running = r => running' = r,
           pc'[r] = "wait" /\ desc_id[r] \in Range(AvailPending')
              => desc_id[r] \in Range(AvailPending)
    PROVE  /\ pc'[r] \in Published => desc_id'[r] \in InFlight' \/ WAKERS'[desc_id'[r]] = "Done"
           /\ pc'[r] = "wait" /\ desc_id'[r] \in Range(AvailPending') => notified'
           /\ pc'[r] = "wait" /\ running' # r => r \in ready' \/ WAKERS'[desc_id'[r]] = r
<1>1. WAKERS' = WAKERS /\ notified' = notified
  OBVIOUS
<1>2. pc'[r] = "wait" => pc[r] = "wait"
  BY DEF Published
<1> QED BY <1>1, <1>2 DEF WaitInv

LEMMA WaitStep ==
    ASSUME IInv, WaitInv, [Next]_vars
    PROVE  WaitInv'
<1>1. /\ Drive \in Reqs /\ Transfer \in Reqs /\ Drive # Transfer
      /\ Reqs = {Drive, Transfer} /\ Poller \notin Reqs /\ "nobody" \notin Reqs
      /\ "Done" \notin Reqs /\ "None" \notin Reqs
  BY GpuAssumption DEF Reqs
<1>2. DOMAIN pc = Reqs /\ DOMAIN desc_id = Reqs /\ DOMAIN WAKERS = Descs
  BY DEF IInv, TypeOK
<1>3. CASE FillGet
  <2>1. /\ UNCHANGED << WAKERS, notified, ready, running, desc_id >>
        /\ \A r \in Reqs : pc'[r] \in Published => pc'[r] = pc[r]
    BY <1>1, <1>2, <1>3 DEF FillGet, Published
  <2>2. AvailPending' = AvailPending /\ InFlight' = InFlight
    BY <1>3, RingsStill
  <2> QED BY <2>1, <2>2, WaitKept DEF WaitInv
<1>4. CASE FillIdx
  <2>1. /\ UNCHANGED << WAKERS, notified, ready, running, desc_id >>
        /\ \A r \in Reqs : pc'[r] \in Published => pc'[r] = pc[r]
        /\ write_idx /\ UNCHANGED << avail_ring, usedvars, devvars >>
        /\ pc[Drive] = "fillidx"
    BY <1>1, <1>2, <1>4 DEF FillIdx, Published
  <2>2. PICK d \in Descs : d = avail_ring[Slot(avail_idx)] /\ d \in filled \ InFlight
    BY <2>1 DEF IInv, SlotInv, TypeOK
  <2>3. d \notin Range(AvailPending)
    BY <2>2 DEF InFlight
  <2>4. /\ VqTypeOK /\ Len(AvailPending) < QSize /\ UNCHANGED << avail_ring, dev_idx >>
    BY <2>1, <2>3, FlightRoom DEF IInv, FlightInv, TypeOK, devvars
  <2>5. AvailPending' = Append(AvailPending, d)
    BY <2>1, <2>2, <2>4, WriteIdxStep
  <2>6. Range(AvailPending') = Range(AvailPending) \cup {d}
    BY <2>2, <2>5, FlightPublish DEF IInv, FlightInv, InFlight
  <2>7. InFlight \subseteq InFlight'
    BY <2>1, <2>6, PendingSame DEF InFlight, devvars
  <2>8. \A r \in Reqs : pc'[r] = "wait" => desc_id[r] # d
    BY <2>1, <2>2, OwnFacts DEF Busy, Published
  <2> QED BY <2>1, <2>6, <2>7, <2>8, WaitKept DEF WaitInv
<1>5. CASE FillDone
  <2>1. /\ UNCHANGED << WAKERS, notified, desc_id >> /\ ready \subseteq ready'
        /\ \A r \in Reqs : pc'[r] \in Published => pc'[r] = pc[r]
        /\ running = Drive /\ running' = "nobody" /\ pc'[Drive] = "start"
    BY <1>1, <1>2, <1>5 DEF FillDone, Published
  <2>2. AvailPending' = AvailPending /\ InFlight' = InFlight
    BY <1>5, RingsStill
  <2> QED BY <1>1, <2>1, <2>2, WaitKept DEF WaitInv
<1>6. ASSUME NEW q \in Reqs, RequestStart(q) \/ AddRequest(q)
      PROVE  WaitInv'
  <2>1. /\ UNCHANGED << WAKERS, notified, ready, running >> /\ running = q
        /\ \A r \in Reqs : pc'[r] \in Published => pc'[r] = pc[r]
        /\ \A r \in Reqs : r # q => desc_id'[r] = desc_id[r]
        /\ pc'[q] \in {"start", "add", "idx"}
    BY <1>1, <1>2, <1>6 DEF RequestStart, AddRequest, Published
  <2>2. AvailPending' = AvailPending /\ InFlight' = InFlight
    BY <1>6, RingsStill
  <2>3. pc'[q] \notin Published
    BY <2>1 DEF Published
  <2>4. ASSUME NEW r \in Reqs, r # q
        PROVE  /\ pc'[r] \in Published => desc_id'[r] \in InFlight' \/ WAKERS'[desc_id'[r]] = "Done"
               /\ pc'[r] = "wait" /\ desc_id'[r] \in Range(AvailPending') => notified'
               /\ pc'[r] = "wait" /\ running' # r => r \in ready' \/ WAKERS'[desc_id'[r]] = r
    BY <2>1, <2>2, <2>4, WaitKept
  <2> QED BY <2>3, <2>4 DEF WaitInv, Published
<1>7. ASSUME NEW q \in Reqs, AddRequestIdx(q)
      PROVE  WaitInv'
  <2>1. /\ UNCHANGED << WAKERS, notified, ready, running, desc_id >> /\ running = q
        /\ write_idx /\ UNCHANGED << avail_ring, usedvars, devvars >>
        /\ pc[q] = "idx" /\ pc'[q] = "kick" /\ \A r \in Reqs : r # q => pc'[r] = pc[r]
    BY <1>2, <1>7 DEF AddRequestIdx
  <2>2. PICK d \in Descs : d = desc_id[q] /\ d \notin InFlight
    BY <2>1, OwnFacts, NotInFlight DEF Busy, Published
  <2>3. avail_ring[Slot(avail_idx)] = d
    BY <2>1, <2>2 DEF IInv, SlotInv
  <2>4. d \notin Range(AvailPending)
    BY <2>2 DEF InFlight
  <2>5. /\ VqTypeOK /\ Len(AvailPending) < QSize /\ UNCHANGED << avail_ring, dev_idx >>
    BY <2>1, <2>4, FlightRoom DEF IInv, FlightInv, TypeOK, devvars
  <2>6. AvailPending' = Append(AvailPending, d)
    BY <2>1, <2>3, <2>5, WriteIdxStep
  <2>7. Range(AvailPending') = Range(AvailPending) \cup {d}
    BY <2>2, <2>6, FlightPublish DEF IInv, FlightInv, InFlight
  <2>8. InFlight \subseteq InFlight' /\ d \in InFlight'
    BY <2>1, <2>7, PendingSame DEF InFlight, devvars
  <2>9. ASSUME NEW r \in Reqs, r # q
        PROVE  /\ pc'[r] \in Published => desc_id'[r] \in InFlight' \/ WAKERS'[desc_id'[r]] = "Done"
               /\ pc'[r] = "wait" /\ desc_id'[r] \in Range(AvailPending') => notified'
               /\ pc'[r] = "wait" /\ running' # r => r \in ready' \/ WAKERS'[desc_id'[r]] = r
    <3>1. desc_id[r] # d
      BY <2>1, <2>2, <2>9, OwnFacts DEF Busy
    <3> QED BY <2>1, <2>7, <2>8, <2>9, <3>1, WaitKept
  <2> QED BY <2>1, <2>2, <2>8, <2>9 DEF WaitInv
<1>8. ASSUME NEW q \in Reqs, kick(q)
      PROVE  WaitInv'
  <2>1. /\ UNCHANGED << WAKERS, ready, running, desc_id >> /\ running = q /\ notified' = TRUE
        /\ pc[q] = "kick" /\ pc'[q] = "wait" /\ \A r \in Reqs : r # q => pc'[r] = pc[r]
    BY <1>2, <1>8 DEF kick
  <2>2. AvailPending' = AvailPending /\ InFlight' = InFlight
    BY <1>8, RingsStill
  <2> QED BY <2>1, <2>2 DEF WaitInv, Published
<1>9. ASSUME NEW q \in Reqs, IdWaitPending(q)
      PROVE  WaitInv'
  <2>1. /\ UNCHANGED << pc, notified, ready, desc_id >> /\ running = q /\ running' = "nobody"
        /\ pc[q] = "wait" /\ WAKERS[desc_id[q]] # "Done"
        /\ WAKERS' = [WAKERS EXCEPT ![desc_id[q]] = q]
    BY <1>9 DEF IdWaitPending, reqvars
  <2>2. AvailPending' = AvailPending /\ InFlight' = InFlight
    BY <1>9, RingsStill
  <2>3. /\ desc_id[q] \in Descs
        /\ \A r \in Reqs : r # q => desc_id[r] # desc_id[q]
    BY <2>1, OwnFacts DEF Busy
  <2>4. /\ WAKERS'[desc_id[q]] = q
        /\ \A r \in Reqs : r # q /\ pc[r] \in Published =>
             WAKERS'[desc_id[r]] = WAKERS[desc_id[r]]
    BY <1>2, <2>1, <2>3, OwnFacts DEF Busy, Published
  <2>5. desc_id[q] \in InFlight
    BY <2>1 DEF WaitInv, Published
  <2> QED BY <1>1, <2>1, <2>2, <2>4, <2>5 DEF WaitInv, Published
<1>10. ASSUME NEW q \in Reqs, IdWaitReady(q)
       PROVE  WaitInv'
  <2>1. /\ UNCHANGED << notified, ready, desc_id, running >> /\ running = q
        /\ pc[q] = "wait" /\ pc'[q] = "finish" /\ \A r \in Reqs : r # q => pc'[r] = pc[r]
        /\ WAKERS' = [WAKERS EXCEPT ![desc_id[q]] = "None"]
    BY <1>2, <1>10 DEF IdWaitReady
  <2>2. AvailPending' = AvailPending /\ InFlight' = InFlight
    BY <1>10, RingsStill
  <2>3. \A r \in Reqs : r # q => desc_id[r] # desc_id[q]
    BY <2>1, OwnFacts DEF Busy
  <2>4. \A r \in Reqs : r # q /\ pc[r] \in Published =>
             WAKERS'[desc_id[r]] = WAKERS[desc_id[r]]
    BY <1>2, <2>1, <2>3, OwnFacts DEF Busy, Published
  <2> QED BY <2>1, <2>2, <2>4 DEF WaitInv, Published
<1>11. ASSUME NEW q \in Reqs, RequestFinish(q)
       PROVE  WaitInv'
  <2>1. /\ UNCHANGED << WAKERS, notified, running >> /\ running = q /\ ready \subseteq ready'
        /\ pc'[q] = "start" /\ \A r \in Reqs : r # q => pc'[r] = pc[r] /\ desc_id'[r] = desc_id[r]
    BY <1>2, <1>11 DEF RequestFinish
  <2>2. AvailPending' = AvailPending /\ InFlight' = InFlight
    BY <1>11, RingsStill
  <2> QED BY <2>1, <2>2 DEF WaitInv, Published
<1>12. CASE PollerWake
  <2>1. PICK d \in Descs : /\ next_used(d)
                           /\ WAKERS' = [WAKERS EXCEPT ![d] = "Done"]
                           /\ ready' = ready \cup ({WAKERS[d]} \cap Reqs)
    BY <1>12 DEF PollerWake
  <2>2. /\ UNCHANGED << pc, desc_id, running, notified, availvars, used_idx, devvars >>
        /\ running = Poller
    BY <1>12 DEF PollerWake, reqvars
  <2>3. VqTypeOK /\ Len(UsedPending) <= QSize /\ UNCHANGED used_idx
    BY <2>2, FlightRoom DEF IInv, FlightInv, TypeOK
  <2>4. UsedPending # <<>> /\ d = Head(UsedPending) /\ UsedPending' = Tail(UsedPending)
    BY <2>1, <2>3, NextUsedStep
  <2>5. AvailPending' = AvailPending /\ dev_held' = dev_held
    BY <2>2, PendingSame DEF devvars
  <2>6. Range(UsedPending) = Range(Tail(UsedPending)) \cup {d}
    BY <2>4, FlightNextUsed DEF IInv, FlightInv
  <2>7. InFlight \subseteq InFlight' \cup {d}
    BY <2>4, <2>5, <2>6 DEF InFlight
  <2>8. ASSUME NEW r \in Reqs
        PROVE  /\ pc'[r] \in Published => desc_id'[r] \in InFlight' \/ WAKERS'[desc_id'[r]] = "Done"
               /\ pc'[r] = "wait" /\ desc_id'[r] \in Range(AvailPending') => notified'
               /\ pc'[r] = "wait" /\ running' # r => r \in ready' \/ WAKERS'[desc_id'[r]] = r
    <3>1. CASE desc_id[r] = d
      BY <1>1, <1>2, <2>1, <2>2, <2>5, <3>1 DEF WaitInv
    <3>2. CASE desc_id[r] # d
      <4>1. pc[r] \in Published => WAKERS'[desc_id[r]] = WAKERS[desc_id[r]]
        BY <1>2, <2>1, <3>2, OwnFacts DEF Busy, Published
      <4> QED BY <2>1, <2>2, <2>5, <2>7, <3>2, <4>1 DEF WaitInv, Published
    <3> QED BY <3>1, <3>2
  <2> QED BY <2>8 DEF WaitInv
<1>13. CASE PollerYield \/ \E t \in Reqs \cup {Poller} : Run(t)
  <2>1. /\ UNCHANGED << pc, desc_id, WAKERS, notified >>
        /\ \A r \in Reqs : running' # r => running # r /\ (r \in ready => r \in ready')
    BY <1>1, <1>13 DEF PollerYield, Run, reqvars
  <2>2. AvailPending' = AvailPending /\ InFlight' = InFlight
    BY <1>13, RingsStill
  <2> QED BY <2>1, <2>2 DEF WaitInv
<1>14. CASE DeviceIdle
  <2>1. /\ UNCHANGED << pc, desc_id, WAKERS, running, ready >> /\ dev_idx = avail_idx
    BY <1>14 DEF DeviceIdle, reqvars
  <2>2. AvailPending' = AvailPending /\ InFlight' = InFlight
    BY <1>14, RingsStill
  <2>3. Range(AvailPending) = {}
    <3>1. dev_idx \in Int /\ avail_idx \in Int /\ IdxMod \in Nat /\ IdxMod > 0
      BY RingAssumption DEF IInv, TypeOK, VqTypeOK, Indexes
    <3>2. (avail_idx - dev_idx) % IdxMod = 0
      BY <2>1, <3>1
    <3>3. DOMAIN AvailPending = {}
      BY <3>2 DEF AvailPending, Pending
    <3> QED BY <3>3 DEF Range
  <2> QED BY <2>1, <2>2, <2>3 DEF WaitInv
<1>15. CASE DeviceTake
  <2>1. PICK d \in Descs : DevTake(d)
    BY <1>15 DEF DeviceTake
  <2>2. UNCHANGED << pc, desc_id, WAKERS, ready, running, notified >>
    BY <1>15 DEF DeviceTake, reqvars
  <2>3. VqTypeOK /\ Len(AvailPending) <= QSize
    BY FlightRoom DEF IInv, FlightInv, TypeOK
  <2>4. /\ AvailPending # <<>> /\ d = Head(AvailPending)
        /\ AvailPending' = Tail(AvailPending) /\ UsedPending' = UsedPending
    BY <2>1, <2>3, DevTakeStep
  <2>5. Range(AvailPending) = Range(Tail(AvailPending)) \cup {d}
    BY <2>4, FlightTake DEF IInv, FlightInv
  <2>6. dev_held' = dev_held \cup {d}
    BY <2>1 DEF DevTake
  <2>7. InFlight' = InFlight /\ Range(AvailPending') \subseteq Range(AvailPending)
    BY <2>4, <2>5, <2>6 DEF InFlight
  <2> QED BY <2>2, <2>7 DEF WaitInv
<1>16. ASSUME NEW d \in Descs, DeviceAnswer(d)
       PROVE  WaitInv'
  <2>1. DevReturn(d) /\ d \in dev_held
    BY <1>16 DEF DeviceAnswer, DevReturn
  <2>2. UNCHANGED << pc, desc_id, WAKERS, ready, running, notified >>
    BY <1>16 DEF DeviceAnswer, reqvars
  <2>3. VqTypeOK /\ Len(UsedPending) < QSize
    BY <2>1, FlightRoom DEF IInv, FlightInv, TypeOK
  <2>4. UsedPending' = Append(UsedPending, d) /\ AvailPending' = AvailPending
    BY <2>1, <2>3, DevReturnStep
  <2>5. /\ Flight(AvailPending, Append(UsedPending, d), dev_held \ {d})
        /\ Range(Append(UsedPending, d)) = Range(UsedPending) \cup {d}
    BY <2>1, FlightReturn DEF IInv, FlightInv
  <2>6. dev_held' = dev_held \ {d}
    BY <2>1 DEF DevReturn
  <2>7. InFlight' = InFlight
    BY <2>1, <2>4, <2>5, <2>6 DEF InFlight
  <2> QED BY <2>2, <2>4, <2>7 DEF WaitInv
<1>17. CASE UNCHANGED vars
  <2>1. UNCHANGED << pc, desc_id, WAKERS, ready, running, notified >>
    BY <1>17 DEF vars, reqvars
  <2>2. AvailPending' = AvailPending /\ InFlight' = InFlight
    BY <1>17, RingsStill
  <2> QED BY <2>1, <2>2 DEF WaitInv
<1> QED
  BY <1>3, <1>4, <1>5, <1>6, <1>7, <1>8, <1>9, <1>10, <1>11, <1>12, <1>13, <1>14,
     <1>15, <1>16, <1>17 DEF Next, Task, Request

(* No task sleeps on an answer that nobody will bring: whenever a request  *)
(* waits and is not about to be polled, its waker is in the slot of its    *)
(* command and the command is with a device that knows of it, or its       *)
(* answer is on the used ring before the poller.  What is left to liveness *)
(* is that the device answers and the executor polls.                      *)
THEOREM NoWakeupIsLost == FairSpec => []NoLostWakeup
<1>1. Init => WaitInv
  BY DEF Init, WaitInv, Published
<1>2. IInv /\ WaitInv /\ [Next]_vars => WaitInv'
  BY WaitStep
<1>3. IInv /\ WaitInv => NoLostWakeup
  <2> SUFFICES ASSUME IInv, WaitInv, NEW r \in Reqs, pc[r] = "wait", running # r, r \notin ready
               PROVE  /\ WAKERS[desc_id[r]] = r
                      /\ \/ desc_id[r] \in Range(UsedPending) \cup dev_held
                         \/ desc_id[r] \in Range(AvailPending) /\ notified
    BY DEF NoLostWakeup
  <2>1. WAKERS[desc_id[r]] = r /\ r # "Done"
    BY GpuAssumption DEF WaitInv, Reqs
  <2>2. desc_id[r] \in InFlight
    BY <2>1 DEF WaitInv, Published
  <2> QED BY <2>1, <2>2 DEF WaitInv, InFlight
<1> QED BY <1>1, <1>2, <1>3, Invariant, PTL DEF Spec, FairSpec

-----------------------------------------------------------------------------
(* A task that starts a request owns nothing, the other one owns at most   *)
(* two descriptors and the start-up loop took at most Prefill.             *)
LEMMA SmallUnion ==
    ASSUME NEW A, NEW B, IsFiniteSet(A), IsFiniteSet(B),
           NEW m \in Nat, NEW n \in Nat, Cardinality(A) <= m, Cardinality(B) <= n
    PROVE  IsFiniteSet(A \cup B) /\ Cardinality(A \cup B) <= m + n
<1>1. /\ IsFiniteSet(A \cup B)
      /\ Cardinality(A \cup B) = Cardinality(A) + Cardinality(B) - Cardinality(A \cap B)
  BY FS_Union
<1>2. IsFiniteSet(A \cap B)
  BY FS_Intersection
<1>3. Cardinality(A) \in Nat /\ Cardinality(B) \in Nat /\ Cardinality(A \cap B) \in Nat
  BY <1>2, FS_CardinalityType
<1> QED BY <1>1, <1>3

(* A part of a set of two. *)
LEMMA AtMostTwo ==
    ASSUME NEW a, NEW b, NEW S \in SUBSET {a, b}
    PROVE  IsFiniteSet(S) /\ Cardinality(S) <= 2
<1> DEFINE A == {a}
           B == {b}
<1>1. /\ IsFiniteSet(A) /\ Cardinality(A) = 1
      /\ IsFiniteSet(B) /\ Cardinality(B) = 1
  BY FS_Singleton, Zenon
<1>2. S \in SUBSET (A \cup B)
  OBVIOUS
<1> HIDE DEF A, B
<1>3. Cardinality(A) <= 1 /\ Cardinality(B) <= 1 /\ 1 \in Nat
  BY <1>1
<1>4. IsFiniteSet(A \cup B) /\ Cardinality(A \cup B) <= 1 + 1
  BY <1>1, <1>3, SmallUnion
<1>5. IsFiniteSet(S) /\ Cardinality(S) <= Cardinality(A \cup B)
  BY <1>2, <1>4, FS_Subset
<1>6. Cardinality(S) \in Nat /\ Cardinality(A \cup B) \in Nat
  BY <1>4, <1>5, FS_CardinalityType
<1> QED BY <1>4, <1>5, <1>6

(* A request that starts finds two free descriptors: the other request has *)
(* at most two, and the start-up loop took Prefill.                        *)
LEMMA TwoFree ==
    ASSUME IInv, QSize >= Prefill + 4, NEW r \in Reqs, pc[r] = "start"
    PROVE  ~(Len(free) < 2)
<1> SUFFICES ASSUME Len(free) < 2 PROVE FALSE
  OBVIOUS
<1>1. free \in Seq(Descs) /\ Len(free) \in Nat /\ DOMAIN free = 1 .. Len(free)
  BY LenProperties DEF IInv, SplitInv, Split
<1>2. IsFiniteSet(Range(free)) /\ Cardinality(Range(free)) <= 1
  <2>1. Range(free) \in SUBSET {free[1]}
    BY <1>1 DEF Range
  <2>2. /\ IsFiniteSet({free[1]}) /\ Cardinality({free[1]}) = 1
    BY FS_Singleton
  <2> QED BY <2>1, <2>2, FS_Subset, FS_CardinalityType
<1>3. PICK q \in Reqs : q # r /\ Reqs = {q, r}
  BY GpuAssumption DEF Reqs
<1>4. Owned(r) = {}
  BY DEF Owned, IInv, OwnInv, Idle
<1>5. IsFiniteSet(Owned(q)) /\ Cardinality(Owned(q)) <= 2
  <2>1. Owned(q) \in SUBSET {desc_id[q], desc_next[q]}
    BY DEF Owned
  <2> QED BY <2>1, AtMostTwo
<1>6. /\ QSize \in Nat /\ IsFiniteSet(Descs) /\ Cardinality(Descs) = QSize
  BY DescsFinite
<1>7. IsFiniteSet(filled) /\ Cardinality(filled) <= Prefill /\ Prefill \in Nat
  BY <1>6, FS_Subset, GpuAssumption DEF IInv, TypeOK, FilledInv
<1>8. Descs = (Range(free) \cup Owned(q)) \cup filled
  <2>1. Owned(Drive) \cup Owned(Transfer) = Owned(q) \cup Owned(r)
    BY <1>3 DEF Reqs
  <2> QED BY <1>4, <2>1 DEF IInv, SplitInv, Split
<1>9. /\ IsFiniteSet(Range(free) \cup Owned(q))
      /\ Cardinality(Range(free) \cup Owned(q)) <= 1 + 2
  BY <1>2, <1>5, SmallUnion
<1>10. Cardinality(Descs) <= (1 + 2) + Prefill
  <2>1. 1 + 2 \in Nat
    OBVIOUS
  <2> QED BY <1>7, <1>8, <1>9, <2>1, SmallUnion
<1> QED BY <1>6, <1>7, <1>10

(* So request() does not panic on an empty table. *)
LEMMA NeverPanics ==
    ASSUME QSize >= Prefill + 4
    PROVE  Spec => []~panicked
<1>1. Init => ~panicked
  BY DEF Init
<1>2. IInv /\ ~panicked /\ [Next]_vars => ~panicked'
  <2> SUFFICES ASSUME IInv, ~panicked, [Next]_vars PROVE ~panicked'
    OBVIOUS
  <2>1. ASSUME NEW r \in Reqs, RequestStart(r) PROVE panicked' = panicked
    BY <2>1, TwoFree DEF RequestStart
  <2>2. ASSUME NEW r \in Reqs, Request(r) PROVE panicked' = panicked
    BY <2>1, <2>2 DEF Request, AddRequest, AddRequestIdx, kick, IdWaitPending,
         IdWaitReady, RequestFinish
  <2>3. Task => panicked' = panicked
    BY <2>2 DEF Task, FillGet, FillIdx, FillDone, PollerWake, PollerYield
  <2>4. panicked' = panicked
    BY <2>3 DEF Next, Run, DeviceTake, DeviceIdle, DeviceAnswer, vars
  <2> QED BY <2>4
<1> QED BY <1>1, <1>2, Invariant, PTL DEF Spec

(* Every descriptor is free, owned by one request or published at start,   *)
(* each head is in flight at most once, and request() never runs out of    *)
(* descriptors if the queue has four more than drive() published at start  *)
(* (one request of drive() and one of the transfer loop at a time).        *)
THEOREM DescriptorsAreConserved ==
    ASSUME QSize >= Prefill + 4
    PROVE  FairSpec => []DescriptorsConserved
<1>1. IInv /\ ~panicked => DescriptorsConserved
  <2> SUFFICES ASSUME IInv, ~panicked PROVE DescriptorsConserved
    OBVIOUS
  <2> DEFINE rings == AvailPending \o UsedPending
  <2>1. /\ AvailPending \in Seq(Descs) /\ UsedPending \in Seq(Descs)
        /\ IsInjective(AvailPending) /\ IsInjective(UsedPending)
        /\ Range(AvailPending) \cap Range(UsedPending) = {}
        /\ Range(AvailPending) \cap dev_held = {}
        /\ Range(UsedPending) \cap dev_held = {}
    BY DEF IInv, FlightInv, Flight
  <2>2. /\ Range(rings) = Range(AvailPending) \cup Range(UsedPending)
        /\ IsInjective(rings)
    BY <2>1, ConcatFacts
  <2> HIDE DEF rings
  <2>3. dev_held \cap Range(rings) = {}
    BY <2>1, <2>2
  <2>4. dev_held \cup Range(rings) \subseteq filled \cup {desc_id[r] : r \in Reqs}
    BY <2>2 DEF IInv, FlightInv, InFlight
  <2>5. /\ IsInjective(free)
        /\ Owned(Drive) \cap Owned(Transfer) = {}
        /\ Range(free) \cap (Owned(Drive) \cup Owned(Transfer) \cup filled) = {}
        /\ filled \cap (Owned(Drive) \cup Owned(Transfer)) = {}
        /\ Range(free) \cup Owned(Drive) \cup Owned(Transfer) \cup filled = Descs
    BY DEF IInv, SplitInv, Split
  <2> QED BY <2>2, <2>3, <2>4, <2>5 DEF DescriptorsConserved, rings
<1>2. Spec => []~panicked
  BY NeverPanics
<1> QED BY <1>1, <1>2, Invariant, PTL DEF FairSpec
-----------------------------------------------------------------------------
(* The commands of drive(), for a device with any number of capsets. *)

InfoLen     == NumCapsets + 2
InfoCmds    == {Cmd("get_display_info"), Cmd("get_capset_info"), Cmd("get_edid")}
DisplayCmds == {On("create_2d", 1), Attach(1, Page), On("set_scanout", 1),
                TransferCmd, FlushCmd}
VirglCmds   == {Cmd("ctx_create"), On("create_3d", 2), On("ctx_attach", 2),
                Attach(2, Example), Cmd("submit_3d")}
ScriptCmds  == InfoCmds \cup DisplayCmds \cup VirglCmds

(* One sequence after another. *)
LEMMA Concat ==
    ASSUME NEW S, NEW s \in Seq(S), NEW t \in Seq(S)
    PROVE  /\ s \o t \in Seq(S) /\ Len(s \o t) = Len(s) + Len(t)
           /\ \A k \in 1 .. Len(s) + Len(t) :
                (s \o t)[k] = IF k <= Len(s) THEN s[k] ELSE t[k - Len(s)]
BY ConcatProperties, Zenon

(* The queries. *)
LEMMA InfoFacts == Info \in Seq(InfoCmds) /\ Len(Info) = InfoLen
<1> DEFINE A == << Cmd("get_display_info") >>
           B == [n \in 1 .. NumCapsets |-> Cmd("get_capset_info")]
           C == << Cmd("get_edid") >>
<1>1. NumCapsets \in Nat
  BY CommandsAssumption
<1>2. A \in Seq(InfoCmds) /\ Len(A) = 1 /\ C \in Seq(InfoCmds) /\ Len(C) = 1
  BY DEF InfoCmds
<1>3. B \in Seq(InfoCmds) /\ Len(B) = NumCapsets
  BY <1>1 DEF InfoCmds
<1>4. Info = (A \o B) \o C
  BY DEF Info
<1> HIDE DEF A, B, C
<1>5. A \o B \in Seq(InfoCmds) /\ Len(A \o B) = 1 + NumCapsets
  <2>1. A \o B \in Seq(InfoCmds) /\ Len(A \o B) = Len(A) + Len(B)
    BY <1>2, <1>3, Concat, Zenon
  <2> QED BY <1>2, <1>3, <2>1
<1>6. (A \o B) \o C \in Seq(InfoCmds) /\ Len((A \o B) \o C) = 1 + NumCapsets + 1
  <2>1. (A \o B) \o C \in Seq(InfoCmds) /\ Len((A \o B) \o C) = Len(A \o B) + Len(C)
    BY <1>2, <1>5, Concat, Zenon
  <2> QED BY <1>2, <1>5, <2>1
<1> QED BY <1>1, <1>4, <1>6 DEF InfoLen

(* The whole script, command by command. *)
LEMMA ScriptFacts ==
    /\ Len(Script) = InfoLen + 10 /\ InfoLen \in Nat
    /\ UpdateAt = InfoLen + 2 /\ FillAt = InfoLen + 4
    /\ \A n \in 1 .. InfoLen : Script[n] \in InfoCmds
    /\ Script[InfoLen + 1] = On("create_2d", 1)
    /\ Script[InfoLen + 2] = Attach(1, Page)
    /\ Script[InfoLen + 3] = On("set_scanout", 1)
    /\ Script[InfoLen + 4] = TransferCmd
    /\ Script[InfoLen + 5] = FlushCmd
    /\ \A n \in InfoLen + 6 .. InfoLen + 10 : Script[n] \in VirglCmds
<1> DEFINE S == ScriptCmds
<1>1. InfoLen \in Nat
  BY CommandsAssumption DEF InfoLen
<1>2. Info \in Seq(S) /\ Len(Info) = InfoLen /\ \A n \in 1 .. InfoLen : Info[n] \in InfoCmds
  <2>1. Info \in Seq(InfoCmds) /\ Len(Info) = InfoLen
    BY InfoFacts
  <2>2. \A n \in 1 .. InfoLen : Info[n] \in InfoCmds
    BY <1>1, <2>1, ElementOfSeq
  <2>3. Seq(InfoCmds) \subseteq Seq(S)
    BY DEF ScriptCmds
  <2> QED BY <2>1, <2>2, <2>3
<1>3. /\ Display \in Seq(S) /\ Len(Display) = 3 /\ Display[1] = On("create_2d", 1)
      /\ Display[2] = Attach(1, Page) /\ Display[3] = On("set_scanout", 1)
  BY DEF Display, ScriptCmds, DisplayCmds
<1>4. /\ FirstFlush \in Seq(S) /\ Len(FirstFlush) = 2
      /\ FirstFlush[1] = TransferCmd /\ FirstFlush[2] = FlushCmd
  BY DEF FirstFlush, ScriptCmds, DisplayCmds
<1>5. Virgl \in Seq(S) /\ Len(Virgl) = 5 /\ \A n \in 1 .. 5 : Virgl[n] \in VirglCmds
  BY DEF Virgl, ScriptCmds, VirglCmds
<1> DEFINE P == Info \o Display
           Q == P \o FirstFlush
<1>6. Script = Q \o Virgl
  BY DEF Script
<1> HIDE DEF S
<1>7. /\ P \in Seq(S) /\ Len(P) = InfoLen + 3
      /\ \A n \in 1 .. InfoLen + 3 :
           P[n] = IF n <= InfoLen THEN Info[n] ELSE Display[n - InfoLen]
  <2>1. /\ Info \o Display \in Seq(S) /\ Len(Info \o Display) = Len(Info) + Len(Display)
        /\ \A k \in 1 .. Len(Info) + Len(Display) :
             (Info \o Display)[k] = IF k <= Len(Info) THEN Info[k] ELSE Display[k - Len(Info)]
    BY <1>2, <1>3, Concat, Zenon
  <2> QED BY <1>2, <1>3, <1>1, <2>1
<1> HIDE DEF P
<1>8. /\ Q \in Seq(S) /\ Len(Q) = InfoLen + 3 + 2
      /\ \A n \in 1 .. InfoLen + 3 + 2 :
           Q[n] = IF n <= InfoLen + 3 THEN P[n] ELSE FirstFlush[n - (InfoLen + 3)]
  <2>1. /\ P \o FirstFlush \in Seq(S) /\ Len(P \o FirstFlush) = Len(P) + Len(FirstFlush)
        /\ \A k \in 1 .. Len(P) + Len(FirstFlush) :
             (P \o FirstFlush)[k] = IF k <= Len(P) THEN P[k] ELSE FirstFlush[k - Len(P)]
    BY <1>4, <1>7, Concat, Zenon
  <2> QED BY <1>4, <1>7, <1>1, <2>1
<1> HIDE DEF Q
<1>9. /\ Len(Q \o Virgl) = InfoLen + 5 + 5
      /\ \A n \in 1 .. InfoLen + 5 + 5 :
           (Q \o Virgl)[n] = IF n <= InfoLen + 5 THEN Q[n] ELSE Virgl[n - (InfoLen + 5)]
  <2>1. /\ Q \o Virgl \in Seq(S) /\ Len(Q \o Virgl) = Len(Q) + Len(Virgl)
        /\ \A k \in 1 .. Len(Q) + Len(Virgl) :
             (Q \o Virgl)[k] = IF k <= Len(Q) THEN Q[k] ELSE Virgl[k - Len(Q)]
    BY <1>5, <1>8, Concat, Zenon
  <2> QED BY <1>5, <1>8, <1>1, <2>1
<1>10. \A n \in 1 .. InfoLen + 10 :
           Script[n] = IF n <= InfoLen + 5 THEN Q[n] ELSE Virgl[n - (InfoLen + 5)]
  BY <1>1, <1>6, <1>9
<1>11. \A n \in 1 .. InfoLen + 5 : Script[n] = Q[n]
  BY <1>1, <1>10
<1>12. \A n \in 1 .. InfoLen + 3 : Script[n] = P[n]
  BY <1>1, <1>8, <1>11
<1>13. \A n \in 1 .. InfoLen : Script[n] = Info[n]
  BY <1>1, <1>7, <1>12
<1>14. /\ Script[InfoLen + 1] = Display[1] /\ Script[InfoLen + 2] = Display[2]
       /\ Script[InfoLen + 3] = Display[3]
  BY <1>1, <1>7, <1>12
<1>15. Script[InfoLen + 4] = FirstFlush[1] /\ Script[InfoLen + 5] = FirstFlush[2]
  BY <1>1, <1>8, <1>11
<1>16. \A n \in InfoLen + 6 .. InfoLen + 10 : Script[n] \in VirglCmds
  <2> SUFFICES ASSUME NEW n \in InfoLen + 6 .. InfoLen + 10 PROVE Script[n] \in VirglCmds
    OBVIOUS
  <2>1. n \in 1 .. InfoLen + 10 /\ ~(n <= InfoLen + 5) /\ n - (InfoLen + 5) \in 1 .. 5
    BY <1>1
  <2> QED BY <1>5, <1>10, <2>1
<1>17. Len(Script) = InfoLen + 10
  BY <1>1, <1>6, <1>9
<1>18. UpdateAt = InfoLen + 2 /\ FillAt = InfoLen + 4
  BY <1>1, <1>2, <1>7 DEF UpdateAt, FillAt, After, P
<1> QED
  BY <1>1, <1>2, <1>3, <1>4, <1>13, <1>14, <1>15, <1>16, <1>17, <1>18

(* The fields of the commands. *)
LEMMA CmdFields ==
    /\ \A c \in InfoCmds : c.resource = 0 /\ c.memory = Boot
         /\ c.type \in {"get_display_info", "get_capset_info", "get_edid"}
    /\ \A c \in VirglCmds : c.resource \in {0, 2} /\ c.memory \in Memory
         /\ c.type \in {"ctx_create", "create_3d", "ctx_attach", "attach_backing",
                        "submit_3d"}
         /\ (c.type \in {"create_3d", "attach_backing"} => c.resource = 2)
    /\ \A t, id : On(t, id).type = t /\ On(t, id).resource = id /\ On(t, id).memory = Boot
    /\ Attach(1, Page).type = "attach_backing" /\ Attach(1, Page).resource = 1
    /\ Attach(1, Page).memory = Page
    /\ TransferCmd.type = "transfer_to_host_2d" /\ TransferCmd.resource = 1
    /\ FlushCmd.type = "resource_flush" /\ FlushCmd.resource = 1
    /\ TransferCmd.memory = Boot /\ FlushCmd.memory = Boot
    /\ NoCmd.type = "none"
BY DEF InfoCmds, VirglCmds, Cmd, On, Attach, TransferCmd, FlushCmd, NoCmd, Memory

(* The commands that are sent. *)
LEMMA CmdsFacts ==
    /\ \A n \in 1 .. Len(Script) : Script[n] \in ScriptCmds /\ Script[n] \in Cmds
    /\ Cmds \subseteq ScriptCmds \cup {NoCmd} /\ NoCmd \in Cmds
    /\ TransferCmd \in Cmds /\ FlushCmd \in Cmds
<1>1. /\ Len(Script) = InfoLen + 10 /\ InfoLen \in Nat
      /\ InfoLen + 4 \in 1 .. Len(Script) /\ InfoLen + 5 \in 1 .. Len(Script)
  BY ScriptFacts
<1>2. \A n \in 1 .. Len(Script) : Script[n] \in ScriptCmds
  <2> SUFFICES ASSUME NEW n \in 1 .. Len(Script) PROVE Script[n] \in ScriptCmds
    OBVIOUS
  <2>1. \/ n \in 1 .. InfoLen \/ n = InfoLen + 1 \/ n = InfoLen + 2
        \/ n = InfoLen + 3 \/ n = InfoLen + 4 \/ n = InfoLen + 5
        \/ n \in InfoLen + 6 .. InfoLen + 10
    BY <1>1
  <2> QED BY <2>1, ScriptFacts DEF ScriptCmds, DisplayCmds
<1>3. TransferCmd = Script[InfoLen + 4] /\ FlushCmd = Script[InfoLen + 5]
  BY ScriptFacts
<1> QED BY <1>1, <1>2, <1>3 DEF Cmds

-----------------------------------------------------------------------------
(* What drive() and the transfer task have sent. *)
SentInv ==
    /\ sent["drive"] = IF step <= Len(Script) THEN Script[step] ELSE FlushCmd
    /\ sent["transfer"] \in {NoCmd, TransferCmd}
    /\ sent["transfer"] = TransferCmd => Started

(* Command n was answered. *)
Done(n) == step > n \/ (step = n /\ answered["drive"])

(* The display's resource exists, and has its memory, from the moment the  *)
(* command for it is answered.                                             *)
DisplayInv ==
    /\ 1 \in resources <=> Done(InfoLen + 1)
    /\ backing[1] # NoMemory <=> Done(InfoLen + 2)

(* The inductive invariant of the commands. *)
CommandsInv == CommandsTypeOK /\ SentInv /\ DisplayInv /\ DisplayNeverRefused

(* Where drive() is when it has sent a command for the display. *)
LEMMA DriveCmd ==
    ASSUME CommandsTypeOK, SentInv
    PROVE  /\ sent["drive"] = On("create_2d", 1) <=> step = InfoLen + 1
           /\ sent["drive"] = Attach(1, Page) <=> step = InfoLen + 2
           /\ sent["drive"] \in {On("set_scanout", 1), TransferCmd, FlushCmd}
                => step >= InfoLen + 3
           /\ sent["drive"] \in ScriptCmds
<1> DEFINE c == sent["drive"]
<1>1. InfoLen \in Nat /\ Len(Script) = InfoLen + 10 /\ step \in 1 .. InfoLen + 11
  BY ScriptFacts DEF CommandsTypeOK
<1>2. \/ step \in 1 .. InfoLen \/ step = InfoLen + 1 \/ step = InfoLen + 2
      \/ step = InfoLen + 3 \/ step = InfoLen + 4 \/ step = InfoLen + 5
      \/ step \in InfoLen + 6 .. InfoLen + 10 \/ step = InfoLen + 11
  BY <1>1
<1>3. On("create_2d", 1).type = "create_2d" /\ On("set_scanout", 1).type = "set_scanout"
  BY CmdFields
<1>4. CASE step \in 1 .. InfoLen
  <2>1. c \in InfoCmds
    BY <1>1, <1>4, ScriptFacts DEF SentInv
  <2>2. c.type \in {"get_display_info", "get_capset_info", "get_edid"}
    BY <2>1, CmdFields
  <2> QED BY <1>1, <1>3, <1>4, <2>1, <2>2, CmdFields DEF ScriptCmds
<1>5. CASE step = InfoLen + 1
  <2>1. c = On("create_2d", 1)
    BY <1>1, <1>5, ScriptFacts DEF SentInv
  <2> QED BY <1>1, <1>3, <1>5, <2>1, CmdFields DEF ScriptCmds, DisplayCmds
<1>6. CASE step = InfoLen + 2
  <2>1. c = Attach(1, Page)
    BY <1>1, <1>6, ScriptFacts DEF SentInv
  <2> QED BY <1>1, <1>3, <1>6, <2>1, CmdFields DEF ScriptCmds, DisplayCmds
<1>7. CASE step \in {InfoLen + 3, InfoLen + 4, InfoLen + 5, InfoLen + 11}
  <2>1. c \in {On("set_scanout", 1), TransferCmd, FlushCmd}
    BY SMTT(20), <1>1, <1>7, ScriptFacts DEF SentInv
  <2>2. c.type \in {"set_scanout", "transfer_to_host_2d", "resource_flush"}
    BY <1>3, <2>1, CmdFields
  <2> QED BY <1>1, <1>3, <1>7, <2>1, <2>2, CmdFields DEF ScriptCmds, DisplayCmds
<1>8. CASE step \in InfoLen + 6 .. InfoLen + 10
  <2>1. c \in VirglCmds
    BY <1>1, <1>8, ScriptFacts DEF SentInv
  <2>2. c # On("create_2d", 1) /\ c # Attach(1, Page)
    <3>1. c.type # "create_2d"
      BY <2>1, CmdFields
    <3>2. c.resource # 1
      BY <2>1, CmdFields
    <3> QED BY <1>3, <3>1, <3>2, CmdFields
  <2> QED BY <1>1, <1>8, <2>1, <2>2 DEF ScriptCmds
<1> QED BY <1>2, <1>4, <1>5, <1>6, <1>7, <1>8

(* The device takes every command that the display needs. *)
LEMMA DisplayAccepted ==
    ASSUME CommandsTypeOK, SentInv, DisplayInv, NEW task \in Tasks,
           sent[task] # NoCmd, ~answered[task]
    PROVE  /\ sent[task] \in ScriptCmds
           /\ sent[task] \in DisplayCmds => Accepts(sent[task])
           /\ sent[task].type = "get_display_info" => Accepts(sent[task])
<1> DEFINE c == sent[task]
<1>1. InfoLen \in Nat /\ step \in Nat
  BY ScriptFacts DEF CommandsTypeOK
<1>2. c \in ScriptCmds
  BY CmdsFacts DEF CommandsTypeOK
<1>3. c.type = "get_display_info" => Accepts(c)
  BY DEF Accepts
<1>4. c = On("create_2d", 1) => Accepts(c)
  <2> SUFFICES ASSUME c = On("create_2d", 1) PROVE Accepts(c)
    OBVIOUS
  <2>1. c.type = "create_2d" /\ c.resource = 1
    BY CmdFields
  <2>2. task = "drive"
    <3>1. c # NoCmd /\ c # TransferCmd
      BY <2>1, CmdFields
    <3> QED BY <3>1 DEF SentInv, Tasks
  <2>3. step = InfoLen + 1 /\ ~answered["drive"]
    BY <2>2, DriveCmd
  <2>4. 1 \notin resources
    BY <1>1, <2>3 DEF DisplayInv, Done
  <2> QED BY <2>1, <2>4 DEF Accepts
<1>5. c = Attach(1, Page) => Accepts(c)
  <2> SUFFICES ASSUME c = Attach(1, Page) PROVE Accepts(c)
    OBVIOUS
  <2>1. c.type = "attach_backing" /\ c.resource = 1
    BY CmdFields
  <2>2. task = "drive"
    <3>1. c # NoCmd /\ c # TransferCmd
      BY <2>1, CmdFields
    <3> QED BY <3>1 DEF SentInv, Tasks
  <2>3. step = InfoLen + 2 /\ ~answered["drive"]
    BY <2>2, DriveCmd
  <2>4. 1 \in resources /\ backing[1] = NoMemory
    BY <1>1, <2>3 DEF DisplayInv, Done
  <2> QED BY <2>1, <2>4 DEF Accepts
<1>6. c \in {On("set_scanout", 1), TransferCmd, FlushCmd} => Accepts(c)
  <2> SUFFICES ASSUME c \in {On("set_scanout", 1), TransferCmd, FlushCmd} PROVE Accepts(c)
    OBVIOUS
  <2>1. c.type \in {"set_scanout", "transfer_to_host_2d", "resource_flush"} /\ c.resource = 1
    BY CmdFields
  <2>2. step >= InfoLen + 3
    <3>1. CASE task = "drive"
      BY <3>1, DriveCmd
    <3>2. CASE task = "transfer"
      BY <1>1, <3>2, ScriptFacts DEF SentInv, Started
    <3> QED BY <3>1, <3>2 DEF Tasks
  <2>3. 1 \in resources /\ backing[1] # NoMemory
    BY <1>1, <2>2 DEF DisplayInv, Done
  <2> QED BY <2>1, <2>3 DEF Accepts
<1> QED BY <1>2, <1>3, <1>4, <1>5, <1>6 DEF DisplayCmds

(* What the device does to a command. *)
LEMMA ExecuteStep ==
    ASSUME CommandsInv, NEW task \in Tasks, Execute(task)
    PROVE  CommandsInv'
<1> USE DEF CommandsInv
<1> DEFINE c == sent[task]
<1>1. /\ c # NoCmd /\ ~answered[task]
      /\ answered' = [answered EXCEPT ![task] = TRUE]
      /\ UNCHANGED << step, sent, supports, fb, content, frames >>
  BY DEF Execute
<1>2. /\ c \in ScriptCmds /\ (c \in DisplayCmds => Accepts(c))
      /\ (c.type = "get_display_info" => Accepts(c))
  BY <1>1, DisplayAccepted
<1>3. c \in Cmds /\ InfoLen \in Nat /\ step \in Nat /\ Len(Script) = InfoLen + 10
  BY ScriptFacts DEF CommandsTypeOK
<1>4. answered' \in [Tasks -> BOOLEAN] /\ answered'[task] = TRUE
  BY <1>1 DEF CommandsTypeOK
<1>5. SentInv'
  BY <1>1 DEF SentInv, Started
<1>6. \A n \in Nat : Done(n)' <=> Done(n) \/ (task = "drive" /\ step = n)
  BY <1>1, <1>3, <1>4 DEF Done, CommandsTypeOK, Tasks
<1>7. /\ task = "transfer" => c = TransferCmd
      /\ task = "drive" => /\ c = On("create_2d", 1) <=> step = InfoLen + 1
                           /\ c = Attach(1, Page) <=> step = InfoLen + 2
  BY <1>1, DriveCmd DEF SentInv
<1>8. /\ c = On("create_2d", 1) <=> task = "drive" /\ step = InfoLen + 1
      /\ c = Attach(1, Page) <=> task = "drive" /\ step = InfoLen + 2
  <2>1. TransferCmd # On("create_2d", 1) /\ TransferCmd # Attach(1, Page)
    BY CmdFields
  <2> QED BY <1>7, <2>1 DEF Tasks
<1>9. /\ 1 \in resources' <=> 1 \in resources \/ c = On("create_2d", 1)
      /\ backing'[1] # NoMemory <=> backing[1] # NoMemory \/ c = Attach(1, Page)
      /\ resources' \subseteq {1, 2}
      /\ backing' \in [{1, 2} -> Memory \cup {NoMemory}]
      /\ scanout' \in 0 .. 2 /\ context' \in BOOLEAN
      /\ refused' \subseteq Cmds
      /\ host' \in 0 .. MaxFrames /\ screen' \in 0 .. MaxFrames
      /\ DisplayNeverRefused'
  <2>1. /\ resources \subseteq {1, 2} /\ backing \in [{1, 2} -> Memory \cup {NoMemory}]
        /\ scanout \in 0 .. 2 /\ context \in BOOLEAN /\ refused \subseteq Cmds
        /\ host \in 0 .. MaxFrames /\ screen \in 0 .. MaxFrames
        /\ content \in [Memory -> 0 .. MaxFrames]
    BY DEF CommandsTypeOK
  <2>2. CASE ~Accepts(c)
    <3>1. /\ refused' = refused \cup {c}
          /\ UNCHANGED << resources, backing, scanout, context, host, screen >>
      BY <2>2 DEF Execute
    <3>2. c \in InfoCmds \cup VirglCmds /\ c.type # "get_display_info" /\ c \notin DisplayCmds
      BY <1>2, <2>2 DEF ScriptCmds
    <3>3. c.type \in Optional \/ c.resource = 2
      <4>1. c \in InfoCmds => c.type \in {"get_capset_info", "get_edid"}
        BY <3>2, CmdFields
      <4>2. c \in VirglCmds => c.type \in Optional \/ c.resource = 2
        BY CmdFields DEF Optional
      <4> QED BY <3>2, <4>1, <4>2 DEF Optional
    <3>4. c # On("create_2d", 1) /\ c # Attach(1, Page)
      BY <3>2 DEF DisplayCmds
    <3>5. DisplayNeverRefused'
      BY <3>1, <3>3 DEF DisplayNeverRefused
    <3> QED BY <1>3, <2>1, <3>1, <3>4, <3>5
  <2>3. CASE Accepts(c)
    <3>1. /\ resources' = IF c.type \in {"create_2d", "create_3d"}
                          THEN resources \cup {c.resource} ELSE resources
          /\ backing' = IF c.type = "attach_backing"
                        THEN [backing EXCEPT ![c.resource] = c.memory] ELSE backing
          /\ scanout' = IF c.type = "set_scanout" THEN c.resource ELSE scanout
          /\ context' = (context \/ c.type = "ctx_create")
          /\ host' = IF c.type = "transfer_to_host_2d"
                     THEN content[backing[c.resource]] ELSE host
          /\ screen' = IF c.type = "resource_flush" /\ scanout = c.resource
                       THEN host ELSE screen
          /\ refused' = refused
      BY <2>3 DEF Execute
    <3>2. DisplayNeverRefused' /\ context' \in BOOLEAN /\ screen' \in 0 .. MaxFrames
          /\ refused' \subseteq Cmds
      BY <2>1, <3>1 DEF DisplayNeverRefused
    <3>3. \/ c \in InfoCmds \/ c \in VirglCmds \/ c = On("create_2d", 1)
          \/ c = Attach(1, Page) \/ c = On("set_scanout", 1)
          \/ c = TransferCmd \/ c = FlushCmd
      BY <1>2 DEF ScriptCmds, DisplayCmds
    <3>4. CASE c \in InfoCmds \/ c = FlushCmd
      <4>1. /\ c.type \in {"get_display_info", "get_capset_info", "get_edid", "resource_flush"}
            /\ c # On("create_2d", 1) /\ c # Attach(1, Page)
        BY <3>4, CmdFields
      <4>2. UNCHANGED << resources, backing, scanout, host >>
        BY <3>1, <4>1
      <4> QED BY <2>1, <3>2, <4>1, <4>2
    <3>5. CASE c \in VirglCmds
      <4>1. /\ c.type \in {"ctx_create", "create_3d", "ctx_attach", "attach_backing", "submit_3d"}
            /\ c.resource \in {0, 2} /\ c.memory \in Memory
            /\ (c.type \in {"create_3d", "attach_backing"} => c.resource = 2)
            /\ c # On("create_2d", 1) /\ c # Attach(1, Page)
        <5>1. /\ c.type \in {"ctx_create", "create_3d", "ctx_attach", "attach_backing", "submit_3d"}
              /\ c.resource \in {0, 2} /\ c.memory \in Memory
              /\ (c.type \in {"create_3d", "attach_backing"} => c.resource = 2)
          BY <3>5, CmdFields
        <5>2. On("create_2d", 1).resource = 1 /\ Attach(1, Page).resource = 1
          BY CmdFields
        <5> QED BY <5>1, <5>2
      <4>2. UNCHANGED << scanout, host >>
        BY <3>1, <4>1
      <4>3. resources' \subseteq {1, 2} /\ (1 \in resources' <=> 1 \in resources)
        <5>1. resources' = resources \/ resources' = resources \cup {2}
          BY <3>1, <4>1
        <5>2. resources' \subseteq {1, 2}
          BY <2>1, <5>1, Zenon
        <5>3. 1 \in resources' <=> 1 \in resources
          BY <5>1
        <5> QED BY <5>2, <5>3
      <4>4. /\ backing' \in [{1, 2} -> Memory \cup {NoMemory}]
            /\ backing'[1] = backing[1]
        BY <2>1, <3>1, <4>1
      <4> QED BY <2>1, <3>2, <4>1, <4>2, <4>3, <4>4
    <3>6. CASE c = On("create_2d", 1)
      <4>1. c.type = "create_2d" /\ c.resource = 1 /\ c # Attach(1, Page)
        BY <3>6, CmdFields
      <4>2. UNCHANGED << backing, scanout, host >> /\ resources' = resources \cup {1}
        BY <3>1, <4>1
      <4> QED BY <2>1, <3>2, <3>6, <4>1, <4>2
    <3>7. CASE c = Attach(1, Page)
      <4>1. c.type = "attach_backing" /\ c.resource = 1 /\ c.memory = Page
            /\ c # On("create_2d", 1)
        BY <3>7, CmdFields
      <4>2. UNCHANGED << resources, scanout, host >>
            /\ backing' = [backing EXCEPT ![1] = Page]
        BY <3>1, <4>1
      <4>3. Page \in Memory /\ Page # NoMemory
        BY DEF Memory, Page, NoMemory
      <4>4. backing'[1] = Page /\ backing' \in [{1, 2} -> Memory \cup {NoMemory}]
        BY <2>1, <4>2, <4>3
      <4>5. backing'[1] # NoMemory
        BY <4>3, <4>4
      <4>6. 1 \in resources' <=> 1 \in resources \/ c = On("create_2d", 1)
        BY <4>1, <4>2
      <4>7. backing'[1] # NoMemory <=> backing[1] # NoMemory \/ c = Attach(1, Page)
        BY <3>7, <4>5
      <4>8. resources' \subseteq {1, 2} /\ scanout' \in 0 .. 2 /\ host' \in 0 .. MaxFrames
        BY <2>1, <4>2
      <4> HIDE DEF c
      <4> QED BY <3>2, <4>4, <4>6, <4>7, <4>8
    <3>8. CASE c = On("set_scanout", 1)
      <4>1. c.type = "set_scanout" /\ c.resource = 1 /\ c # On("create_2d", 1)
            /\ c # Attach(1, Page)
        BY <3>8, CmdFields
      <4>2. UNCHANGED << resources, backing, host >> /\ scanout' = 1
        BY <3>1, <4>1
      <4> QED BY <2>1, <3>2, <4>1, <4>2
    <3>9. CASE c = TransferCmd
      <4>1. c.type = "transfer_to_host_2d" /\ c.resource = 1 /\ c # On("create_2d", 1)
            /\ c # Attach(1, Page)
        BY <3>9, CmdFields
      <4>2. UNCHANGED << resources, backing, scanout >> /\ host' = content[backing[1]]
        BY <3>1, <4>1
      <4>3. backing[1] # NoMemory
        BY <2>3, <4>1 DEF Accepts
      <4>4. backing[1] \in Memory
        BY <2>1, <4>3
      <4>5. host' \in 0 .. MaxFrames
        BY <2>1, <4>2, <4>4
      <4> QED BY <2>1, <3>2, <4>1, <4>2, <4>5
    <3> QED BY <3>3, <3>4, <3>5, <3>6, <3>7, <3>8, <3>9
  <2> QED BY <2>2, <2>3
<1>10. CommandsTypeOK'
  BY <1>1, <1>4, <1>9 DEF CommandsTypeOK
<1>11. DisplayInv'
  <2>1. InfoLen + 1 \in Nat /\ InfoLen + 2 \in Nat
    BY <1>3
  <2>2. Done(InfoLen + 1)' <=> Done(InfoLen + 1) \/ c = On("create_2d", 1)
    BY <1>6, <1>8, <2>1, Zenon
  <2>3. Done(InfoLen + 2)' <=> Done(InfoLen + 2) \/ c = Attach(1, Page)
    BY <1>6, <1>8, <2>1, Zenon
  <2> QED BY <1>9, <2>2, <2>3 DEF DisplayInv, InfoLen
<1> QED BY <1>5, <1>9, <1>10, <1>11

(* drive() goes on: the command it sends next is not answered yet. *)
LEMMA DriveSteps ==
    ASSUME CommandsInv, DriveStep \/ DriveStarted \/ DriveFlush
    PROVE  CommandsInv'
<1> USE DEF CommandsInv
<1>1. InfoLen \in Nat /\ Len(Script) = InfoLen + 10 /\ step \in 1 .. InfoLen + 11
  BY ScriptFacts DEF CommandsTypeOK
<1>2. answered["drive"] /\ UNCHANGED << devicevars, frames >>
  BY DEF DriveStep, DriveStarted, DriveFlush
<1>3. PICK cmd \in Cmds : /\ sent' = [sent EXCEPT !["drive"] = cmd]
                         /\ cmd = IF step' <= Len(Script) THEN Script[step'] ELSE FlushCmd
  <2>1. CASE DriveStep
    <3>1. /\ step < Len(Script) /\ step' = step + 1
          /\ sent' = [sent EXCEPT !["drive"] = Script[step + 1]]
      BY <2>1 DEF DriveStep, Send
    <3>2. step + 1 \in 1 .. Len(Script)
      BY <1>1, <3>1
    <3>3. Script[step + 1] \in Cmds
      BY <3>2, CmdsFacts
    <3>4. step' <= Len(Script) /\ Script[step'] = Script[step + 1]
      BY <1>1, <3>1, <3>2
    <3> QED BY <3>1, <3>3, <3>4
  <2>2. CASE DriveStarted \/ DriveFlush
    <3>1. /\ sent' = [sent EXCEPT !["drive"] = FlushCmd]
          /\ \/ step = Len(Script) /\ step' = step + 1
             \/ step > Len(Script) /\ step' = step
      BY <2>2 DEF DriveStarted, DriveFlush, Send, Started
    <3>2. ~(step' <= Len(Script))
      BY <1>1, <3>1
    <3> QED BY <3>1, <3>2, CmdsFacts
  <2> QED BY <2>1, <2>2
<1>4. answered' = [answered EXCEPT !["drive"] = FALSE]
  BY DEF DriveStep, DriveStarted, DriveFlush, Send
<1>5. /\ step' \in 1 .. InfoLen + 11
      /\ step' = step + 1 \/ (step' = step /\ step = InfoLen + 11)
      /\ step' >= step
  BY <1>1 DEF DriveStep, DriveStarted, DriveFlush, Started
<1>6. fb' \in Memory /\ content' \in [Memory -> 0 .. MaxFrames]
  <2>1. fb \in Memory /\ content \in [Memory -> 0 .. MaxFrames] /\ Page \in Memory
        /\ 0 \in 0 .. MaxFrames
    BY CommandsAssumption DEF CommandsTypeOK, Memory
  <2>2. fb' = fb \/ fb' = Page
    BY DEF DriveStep, DriveStarted, DriveFlush
  <2>3. content' = content \/ content' = [content EXCEPT ![Page] = 0]
    BY DEF DriveStep, DriveStarted, DriveFlush
  <2> QED BY <2>1, <2>2, <2>3
<1>7. CommandsTypeOK'
  <2>1. sent' \in [Tasks -> Cmds]
    BY <1>3 DEF CommandsTypeOK
  <2>2. answered' \in [Tasks -> BOOLEAN]
    BY <1>4 DEF CommandsTypeOK
  <2>3. step' \in 1 .. Len(Script) + 1
    BY <1>1, <1>5
  <2> QED BY <1>2, <1>6, <2>1, <2>2, <2>3 DEF CommandsTypeOK, devicevars
<1>8. SentInv'
  <2>1. "drive" \in Tasks /\ sent \in [Tasks -> Cmds]
    BY DEF CommandsTypeOK, Tasks
  <2>2. sent'["drive"] = cmd /\ sent'["transfer"] = sent["transfer"]
    BY <1>3, <2>1 DEF Tasks
  <2>3. Started => Started'
    BY <1>1, <1>5 DEF Started
  <2> QED BY <1>3, <2>2, <2>3 DEF SentInv
<1>9. DisplayInv'
  <2>1. answered'["drive"] = FALSE
    BY <1>4 DEF CommandsTypeOK, Tasks
  <2>2. \A n \in 1 .. InfoLen + 2 : Done(n)' <=> Done(n)
    BY <1>1, <1>2, <1>5, <2>1 DEF Done
  <2>3. InfoLen + 1 \in 1 .. InfoLen + 2 /\ InfoLen + 2 \in 1 .. InfoLen + 2
    BY <1>1
  <2>4. (Done(InfoLen + 1)' <=> Done(InfoLen + 1)) /\ (Done(InfoLen + 2)' <=> Done(InfoLen + 2))
    BY <2>2, <2>3, Zenon
  <2> QED BY <1>2, <2>4 DEF DisplayInv, devicevars, InfoLen
<1> QED BY <1>2, <1>7, <1>8, <1>9 DEF DisplayNeverRefused, devicevars

(* The transfer task and the applications leave the device as it is. *)
LEMMA OtherSteps ==
    ASSUME CommandsInv, TransferLoop \/ Draw
    PROVE  CommandsInv'
<1> USE DEF CommandsInv
<1>1. UNCHANGED << step, devicevars, fb >>
  BY DEF TransferLoop, Draw, drivervars
<1>2. answered'["drive"] = answered["drive"]
  BY DEF TransferLoop, Draw, drivervars, Send, CommandsTypeOK, Tasks
<1>3. CommandsTypeOK'
  <2>1. CASE TransferLoop
    <3>1. sent' \in [Tasks -> Cmds] /\ answered' \in [Tasks -> BOOLEAN]
      BY <2>1, CmdsFacts DEF TransferLoop, Send, CommandsTypeOK
    <3> QED BY <1>1, <2>1, <3>1 DEF CommandsTypeOK, TransferLoop, devicevars
  <2>2. CASE Draw
    <3>1. frames' \in 0 .. MaxFrames /\ frames + 1 \in 0 .. MaxFrames
      BY <2>2, CommandsAssumption DEF Draw, CommandsTypeOK
    <3>2. content' \in [Memory -> 0 .. MaxFrames]
      BY <2>2, <3>1 DEF Draw, CommandsTypeOK
    <3> QED BY <1>1, <2>2, <3>1, <3>2 DEF CommandsTypeOK, Draw, drivervars, devicevars
  <2> QED BY <2>1, <2>2
<1>4. SentInv'
  <2>1. CASE TransferLoop
    <3>1. sent'["drive"] = sent["drive"] /\ sent'["transfer"] = TransferCmd
      BY <2>1 DEF TransferLoop, Send, CommandsTypeOK, Tasks
    <3> QED BY <1>1, <2>1, <3>1 DEF SentInv, TransferLoop, Started
  <2>2. CASE Draw
    BY <2>2 DEF Draw, drivervars, SentInv, Started
  <2> QED BY <2>1, <2>2
<1>5. DisplayInv'
  BY <1>1, <1>2 DEF DisplayInv, Done, devicevars, InfoLen
<1> QED BY <1>1, <1>3, <1>4, <1>5 DEF DisplayNeverRefused, devicevars

(* The start. *)
LEMMA CommandsStart == CommandsInit => CommandsInv
<1> SUFFICES ASSUME CommandsInit PROVE CommandsInv
  OBVIOUS
<1>1. InfoLen \in Nat /\ Len(Script) = InfoLen + 10 /\ InfoLen >= 2
  BY ScriptFacts, CommandsAssumption DEF InfoLen
<1>2. step = 1 /\ sent["drive"] = Script[1] /\ sent["transfer"] = NoCmd
  BY DEF CommandsInit
<1>3. CommandsTypeOK
  <2>1. 1 \in 1 .. Len(Script)
    BY <1>1
  <2>2. Script[1] \in Cmds /\ NoCmd \in Cmds
    BY <2>1, CmdsFacts
  <2>3. sent \in [Tasks -> Cmds]
    BY <2>2 DEF CommandsInit, Tasks
  <2>4. 0 \in 0 .. MaxFrames
    BY CommandsAssumption
  <2>5. step \in 1 .. Len(Script) + 1
    BY <1>1, <1>2
  <2>6. /\ answered \in [Tasks -> BOOLEAN] /\ supports \subseteq {"edid", "virgl"}
        /\ backing \in [{1, 2} -> Memory \cup {NoMemory}]
    BY DEF CommandsInit
  <2>7. /\ resources \subseteq {1, 2} /\ refused \subseteq Cmds
        /\ scanout \in 0 .. 2 /\ context \in BOOLEAN
    <3>1. resources \subseteq {1, 2} /\ refused \subseteq Cmds
      BY Zenon DEF CommandsInit
    <3>2. scanout \in 0 .. 2
      BY DEF CommandsInit
    <3>3. context \in BOOLEAN
      BY Zenon DEF CommandsInit
    <3> QED BY <3>1, <3>2, <3>3
  <2>8. fb \in Memory /\ content \in [Memory -> 0 .. MaxFrames]
    BY <2>4 DEF CommandsInit, Memory
  <2>9. /\ host \in 0 .. MaxFrames /\ screen \in 0 .. MaxFrames
        /\ frames \in 0 .. MaxFrames
    BY <2>4 DEF CommandsInit
  <2> QED BY <2>3, <2>5, <2>6, <2>7, <2>8, <2>9 DEF CommandsTypeOK
<1>4. SentInv
  <2>1. NoCmd # TransferCmd
    BY CmdFields
  <2> QED BY <1>1, <1>2, <2>1 DEF SentInv
<1>5. DisplayInv
  BY <1>1, <1>2 DEF CommandsInit, DisplayInv, Done
<1>6. DisplayNeverRefused
  BY DEF CommandsInit, DisplayNeverRefused
<1> QED BY <1>3, <1>4, <1>5, <1>6 DEF CommandsInv

(* Every step. *)
LEMMA CommandsInvNext == CommandsInv /\ [CommandsNext]_commandvars => CommandsInv'
<1> SUFFICES ASSUME CommandsInv, [CommandsNext]_commandvars PROVE CommandsInv'
  OBVIOUS
<1>1. CASE DriveStep \/ DriveStarted \/ DriveFlush
  BY <1>1, DriveSteps
<1>2. CASE TransferLoop \/ Draw
  BY <1>2, OtherSteps
<1>3. CASE \E task \in Tasks : Execute(task)
  BY <1>3, ExecuteStep
<1>4. CASE UNCHANGED commandvars
  BY <1>4 DEF commandvars, drivervars, devicevars, CommandsInv, CommandsTypeOK,
     SentInv, DisplayInv, DisplayNeverRefused, Done, Started, InfoLen
<1> QED BY <1>1, <1>2, <1>3, <1>4 DEF CommandsNext

(* For every number of capsets, the state of the commands keeps its types: *)
(* in particular drive() and the transfer task send nothing but the        *)
(* commands of the script.                                                 *)
THEOREM CommandTypes == CommandsFairSpec => []CommandsTypeOK
<1>1. CommandsInv => CommandsTypeOK
  BY DEF CommandsInv
<1> QED
  BY <1>1, CommandsStart, CommandsInvNext, PTL DEF CommandsFairSpec, CommandsSpec

(* For every number of capsets, whatever the device supports and in        *)
(* whatever order it executes what drive() and the transfer task have      *)
(* sent, it refuses no command that the display needs, although drive()    *)
(* looks at no answer.                                                     *)
THEOREM DisplayAlwaysServed == CommandsFairSpec => []DisplayNeverRefused
<1>1. CommandsInv => DisplayNeverRefused
  BY DEF CommandsInv
<1> QED
  BY <1>1, CommandsStart, CommandsInvNext, PTL DEF CommandsFairSpec, CommandsSpec
=============================================================================
