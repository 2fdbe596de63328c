------------------------------ MODULE ElfLoader ------------------------------
(***************************************************************************)
(* App::new (app.rs): an application is copied from its ELF file into a    *)
(* zeroed vector that stands for its address space from 0, segment by      *)
(* segment, and after each segment the entries of .rela.dyn within it are  *)
(* applied.  An image is a record: its program headers, the entries of     *)
(* .rela.dyn and its entry point.  A byte of the vector is Zero, a byte of *)
(* the file, or byte k of the address "base + addend".  The loops of       *)
(* App::new are actions: one per header and one per entry of .rela.dyn.    *)
(***************************************************************************)
EXTENDS Naturals, SequencesExt

CONSTANT WORD   \* bytes that a relocation writes: 8

ASSUME WordAssumption == WORD \in Nat \ {0}

VARIABLES
    loading,    \* the loop that App::new is in, or "no"
    image,      \* the file it reads
    header,     \* index of the program header it comes to
    rel,        \* index of the entry of .rela.dyn it comes to
    max_virt,   \* the end of the address space, as far as it is known
    code,       \* owned_code
    apps        \* the applications loaded, each with its image

loadvars == << loading, image, header, rel, max_virt, code, apps >>

Zero         == << "zero", 0, 0 >>
FileByte(e)  == << "file", e, 0 >>
BaseByte(a, k) == << "base", a, k >>

NoImage == [headers |-> <<>>, rela |-> <<>>, entry |-> 0]

LoaderInit == /\ loading = "no" /\ image = NoImage /\ header = 1 /\ rel = 1
              /\ max_virt = 0 /\ code = << >> /\ apps = <<>>

(* The bytes of the file that the segment has, at its address. *)
CopySegmentAll(c, h) ==   \* mutant: mem_size bytes are copied
    [v \in DOMAIN c |->
        IF v >= h.vaddr /\ v < h.vaddr + h.memsz
        THEN FileByte(h.offset + v - h.vaddr) ELSE c[v]]

CopySegment(c, h) ==
    [v \in DOMAIN c |->
        IF v >= h.vaddr /\ v < h.vaddr + h.filesz
        THEN FileByte(h.offset + v - h.vaddr) ELSE c[v]]

(* A relocation: base + addend, at its offset. *)
WriteWord(c, r) ==
    [v \in DOMAIN c |->
        IF v >= r.off /\ v < r.off + WORD THEN BaseByte(r.add, v - r.off)
        ELSE c[v]]

-----------------------------------------------------------------------------
(* App::new is called with a file. *)
AppNew(file) ==
    /\ loading = "no"
    /\ loading' = "measure" /\ image' = file
    /\ UNCHANGED << header, rel, max_virt, code, apps >>

(* First loop: the end of the last header that takes up memory. *)
Measure ==
    /\ loading = "measure" /\ header <= Len(image.headers)
    /\ LET h == image.headers[header] IN
       max_virt' = IF h.memsz > 0 /\ h.vaddr + h.memsz > max_virt
                   THEN h.vaddr + h.memsz ELSE max_virt
    /\ header' = header + 1
    /\ UNCHANGED << loading, image, rel, code, apps >>

(* The vector is allocated and filled with zeroes. *)
Allocated ==
    /\ loading = "measure" /\ header > Len(image.headers)
    /\ code' = [v \in 0 .. max_virt - 1 |-> Zero]
    /\ loading' = "segments" /\ header' = 1
    /\ UNCHANGED << image, rel, max_virt, apps >>

(* Second loop: a header of type Load is copied... *)
LoadSegment ==
    /\ loading = "segments" /\ header <= Len(image.headers)
    /\ image.headers[header].load
    /\ code' = CopySegment(code, image.headers[header])
    /\ loading' = "relocations" /\ rel' = 1
    /\ UNCHANGED << image, header, max_virt, apps >>

SkipHeader ==
    /\ loading = "segments" /\ header <= Len(image.headers)
    /\ ~image.headers[header].load
    /\ header' = header + 1
    /\ UNCHANGED << loading, image, rel, max_virt, code, apps >>

(* ... and all of .rela.dyn is searched for entries within it. *)
Inside(r, h) == r.off >= h.vaddr /\ r.off < h.vaddr + h.memsz

Relocate ==
    /\ loading = "relocations" /\ rel <= Len(image.rela)
    /\ code' = IF Inside(image.rela[rel], image.headers[header])
               THEN WriteWord(code, image.rela[rel]) ELSE code
    /\ rel' = rel + 1
    /\ UNCHANGED << loading, image, header, max_virt, apps >>

NextHeader ==
    /\ loading = "relocations" /\ rel > Len(image.rela)
    /\ loading' = "segments" /\ header' = header + 1
    /\ UNCHANGED << image, rel, max_virt, code, apps >>

(* App::new returns the application, with the next identity, and the task  *)
(* pushes it.                                                              *)
AppReturned ==
    /\ loading = "segments" /\ header > Len(image.headers)
    /\ apps' = Append(apps, [image |-> image, pid |-> Len(apps), code |-> code,
                             entry |-> image.entry])
    /\ loading' = "no" /\ image' = NoImage /\ header' = 1 /\ rel' = 1
    /\ max_virt' = 0 /\ code' = << >>

LoadStep ==
    \/ Measure \/ Allocated \/ LoadSegment \/ SkipHeader \/ Relocate \/ NextHeader
    \/ AppReturned

-----------------------------------------------------------------------------
InWord(r, v) == v >= r.off /\ v < r.off + WORD
InFile(h, v) == v >= h.vaddr /\ v < h.vaddr + h.filesz
Loads(f)     == {k \in 1 .. Len(f.headers) : f.headers[k].load}

(* What a linker may produce: segments take up separate memory, in order,  *)
(* are no longer in the file than in memory, and hold each relocation      *)
(* entirely; relocations do not overlap; the entry point is in the file.   *)
WellFormed(f) ==
    LET hs == f.headers
        rs == f.rela
    IN /\ hs \in Seq([load : BOOLEAN, vaddr : Nat, offset : Nat, filesz : Nat,
                       memsz : Nat])
       /\ rs \in Seq([off : Nat, add : Nat])
       /\ \A k \in Loads(f) : hs[k].filesz <= hs[k].memsz
       /\ \A j, k \in Loads(f) : j < k => hs[j].vaddr + hs[j].memsz <= hs[k].vaddr
       /\ \A r \in 1 .. Len(rs) : \E k \in Loads(f) :
            rs[r].off >= hs[k].vaddr /\ rs[r].off + WORD <= hs[k].vaddr + hs[k].memsz
       /\ \A r, s \in 1 .. Len(rs) : r < s =>
            rs[r].off + WORD <= rs[s].off \/ rs[s].off + WORD <= rs[r].off
       /\ f.entry \in Nat /\ \E k \in Loads(f) : InFile(hs[k], f.entry)

(* b is byte v of the address space that the relocations R and segments S  *)
(* of a file describe: a relocation before a byte of the file, and zero    *)
(* where there is neither.                                                 *)
Described(f, R, S, v, b) ==
    /\ \A r \in R : InWord(f.rela[r], v) =>
         b = BaseByte(f.rela[r].add, v - f.rela[r].off)
    /\ (\A r \in R : ~InWord(f.rela[r], v)) =>
         /\ \A k \in S : InFile(f.headers[k], v) =>
              b = FileByte(f.headers[k].offset + v - f.headers[k].vaddr)
         /\ (\A k \in S : ~InFile(f.headers[k], v)) => b = Zero

LoadedRight(app) ==
    LET f == app.image IN
    /\ \A k \in Loads(f) :
         \A v \in f.headers[k].vaddr .. f.headers[k].vaddr + f.headers[k].memsz - 1 :
            v \in DOMAIN app.code
    /\ \A v \in DOMAIN app.code :
         Described(f, 1 .. Len(f.rela), Loads(f), v, app.code[v])
    /\ app.entry \in DOMAIN app.code /\ app.code[app.entry] # Zero
=============================================================================
