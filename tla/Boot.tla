-------------------------------- MODULE Boot --------------------------------
(***************************************************************************)
(* kernel_main (main.rs) from the mapping of physical memory to the        *)
(* running system: it maps physical memory and the heap, scans the PCI     *)
(* bus, initialises every virtio device it knows, and starts the executor, *)
(* whose tasks then load the applications and take blocks of frames for    *)
(* the GPU's frame buffers.  kernel_main is sequential; what varies is the *)
(* machine, the page tables map_to lacks and the order of the tasks.       *)
(***************************************************************************)
EXTENDS VirtioInit, ElfLoader, FiniteSets

CONSTANTS
    Machines,      \* PCI functions the system may find
    Images,        \* ELF files of applications
    HeapPages,     \* HEAP_SIZE in pages
    RegionPages,   \* pages that share a page table: 512
    PhysTables,    \* bound on the page tables that map physical memory
    MaxBuffers,    \* bound on the blocks the GPU's task takes
    MaxApps        \* bound on the applications loaded: 3

ASSUME BootAssumption ==
    /\ HeapPages \in Nat \ {0} /\ RegionPages \in Nat \ {0}
    /\ PhysTables \in Nat /\ MaxBuffers \in Nat /\ MaxApps \in Nat
    /\ 1 \in BlockSizes

(* A function has a list of capabilities that refer to its BARs, and its   *)
(* queues have at most the descriptors that fit in the page of the table.  *)
SoundFunction(f) ==
    /\ SoundLayout(f.layout)
    /\ Len(f.caps) \in Nat \ {0}
    /\ \A k \in 1 .. Len(f.caps) :
         f.caps[k].id = "virtio" => f.caps[k].bar \in DOMAIN f.layout
    /\ Len(f.sizes) \in Nat
    /\ \A k \in 1 .. Len(f.sizes) : f.sizes[k] \in 1 .. PerPage

ASSUME MachinesAssumption ==
    \A m \in Machines :
        SoundMachine(m) /\ \A a \in DOMAIN m : SoundFunction(m[a])

ASSUME ImagesAssumption == \A file \in Images : WellFormed(file)

VARIABLES
    phys,      \* page tables taken to map physical memory
    heap,      \* pages of the heap that are mapped
    buffers    \* blocks the GPU's task asked for

bootvars == << phys, heap, buffers, loadvars >>
allvars  == << vars, pcivars, initvars, bootvars >>

Panics   == {"exhausted", "non_contiguous", "already_mapped"}
Panicked == pc \in Panics \/ stage = "refused"
LiveSet  == {virtio_devices[k].device : k \in 1 .. Len(virtio_devices)}

BootTypeOK ==
    /\ machine \in Machines /\ slot \in 0 .. NumSlots /\ func \in Nat
    /\ devs \in Seq(Addresses)
    /\ stage \in {"map", "heap", "scan", "running", "refused"} \cup InitStages
                 \cup AllocStages
    /\ cur \in 1 .. Len(devs) + 1 /\ off \in Nat /\ q \in Nat /\ idesc \in Nat
    /\ asked \in BOOLEAN
    /\ dev \in [DOMAIN machine ->
                  [status : SUBSET {"ACKNOWLEDGE", "DRIVER", "FEATURES_OK",
                                    "DRIVER_OK"},
                   features : SUBSET {0, 1},
                   queues : Seq([desc : Nat, driver : Nat, device : Nat,
                                 enable : BOOLEAN])]]
    /\ phys \in 0 .. PhysTables /\ heap \in 0 .. HeapPages
    /\ buffers \in 0 .. MaxBuffers /\ Len(apps) <= MaxApps
    /\ loading \in {"no", "measure", "segments", "relocations"}
    /\ header \in 1 .. Len(image.headers) + 1 /\ rel \in 1 .. Len(image.rela) + 1
    /\ max_virt \in Nat /\ DOMAIN code \in {{}, 0 .. max_virt - 1}

BootInit ==
    /\ Init
    /\ machine \in Machines /\ slot = 0 /\ func = 0 /\ devs = <<>>
    /\ stage = "map" /\ cur = 1 /\ bars = [k \in 0 .. 5 |-> NoBar] /\ off = 0
    /\ found = [t \in CapTypes |-> Missing]
    /\ q = 1 /\ idesc = 0 /\ asked = FALSE /\ free = <<>>
    /\ dev = [a \in DOMAIN machine |-> Fresh(machine[a])]
    /\ mem = << >> /\ virtio_devices = <<>>
    /\ phys = 0 /\ heap = 0 /\ buffers = 0 /\ LoaderInit

-----------------------------------------------------------------------------
Unmoved == UNCHANGED << cur, bars, off, found, q, idesc, asked, free, devicevars,
                        virtio_devices >>

(* The loop over the 2 MiB frames. *)
MapMemory ==
    /\ stage = "map" /\ phys < PhysTables
    /\ IF Buffer # <<>> THEN \E f \in Range(Buffer) : MapPhysical(f)
                         ELSE MapPhysicalFails
    /\ phys' = phys + 1
    /\ UNCHANGED << pcivars, stage, heap, buffers, loadvars >> /\ Unmoved

MapMemoryEnds ==
    /\ stage = "map"
    /\ stage' = "heap"
    /\ UNCHANGED << vars, pcivars, bootvars >> /\ Unmoved

(* init_heap, page by page. *)
HeapPage ==
    /\ stage = "heap" /\ heap < HeapPages
    /\ Begin(FALSE, 1)
    /\ heap' = heap + 1
    /\ UNCHANGED << pcivars, stage, phys, buffers, loadvars >> /\ Unmoved

HeapEnds ==
    /\ stage = "heap" /\ heap = HeapPages /\ pc = "idle"
    /\ stage' = "scan"
    /\ UNCHANGED << vars, pcivars, bootvars >> /\ Unmoved

(* Pcis::new. *)
Scan ==
    /\ stage = "scan"
    /\ ScanFunction
    /\ stage' = IF Scanning' THEN "scan" ELSE "probe"
    /\ UNCHANGED << vars, bootvars >> /\ Unmoved

(* All functions were looked at: the executor starts. *)
StartExecutor ==
    /\ stage = "probe" /\ cur = Len(devs) + 1
    /\ stage' = "running"
    /\ UNCHANGED << vars, pcivars, bootvars >> /\ Unmoved

(* The steps of an operation of FrameAllocator.  map_to takes a frame only *)
(* if the page is the first of its region.                                 *)
FirstOfRegion ==
    IF block.identity
    THEN \A p \in mapped : p \div RegionPages # (block.first + i) \div RegionPages
    ELSE heap = 1

Allocate ==
    /\ \/ \E f \in Range(Buffer) : Collect(f)
       \/ FirstOfRegion /\ \E f \in Range(Buffer) : MapTable(f)
       \/ MapPage
       \/ (pc = "map" => FirstOfRegion) /\ Exhausted
    /\ UNCHANGED << pcivars, initvars, bootvars >>

-----------------------------------------------------------------------------
(* A GPU's task: the pages of a frame buffer. *)
FrameBuffer(pages) ==
    /\ stage = "running" /\ loading = "no"
    /\ \E k \in 1 .. Len(virtio_devices) : virtio_devices[k].type = "gpu"
    /\ buffers < MaxBuffers
    /\ Begin(TRUE, pages)
    /\ buffers' = buffers + 1
    /\ UNCHANGED << pcivars, initvars, phys, heap, loadvars >>

(* The applications' task: App::new for one file after the other, which no *)
(* other task interrupts.                                                  *)
LoadApp ==
    /\ stage = "running" /\ pc = "idle"
    /\ \/ \E file \in Images : Len(apps) < MaxApps /\ AppNew(file)
       \/ LoadStep
    /\ UNCHANGED << vars, pcivars, initvars, phys, heap, buffers >>

Device == InitDevice /\ UNCHANGED << pcivars, bootvars >>

BootNext ==
    \/ MapMemory \/ MapMemoryEnds \/ HeapPage \/ HeapEnds \/ Scan
    \/ Device \/ StartExecutor \/ Allocate
    \/ \E pages \in BlockSizes : FrameBuffer(pages)
    \/ LoadApp

(* kernel_main is one thread, and nothing it calls waits for anything. *)
BootSpec == BootInit /\ [][BootNext]_allvars /\ WF_allvars(BootNext)

-----------------------------------------------------------------------------
(* Where a device really has its structures: the addresses of the          *)
(* capabilities it lists for a type.                                       *)
Published(m, type) ==
    {[kind |-> IF m.layout[c.bar].io THEN "Io" ELSE "Mm",
      addr |-> m.layout[c.bar].base + c.offset] :
        c \in {m.caps[k] : k \in {j \in 1 .. Len(m.caps) :
                   m.caps[j].id = "virtio" /\ m.caps[j].type = type}}}

(* The registers that a driver uses are where the device has them: the     *)
(* BARs are decoded right whatever their kind and width, although the      *)
(* upper half of a 64-bit one is read as a BAR too, and of several         *)
(* capabilities of a type a usable one is kept (virtio.rs:113-220).        *)
RegistersFound ==
    \A k \in 1 .. Len(virtio_devices) :
        LET v == virtio_devices[k] IN
        /\ \A t \in {"common", "device", "notify"} :
             [kind |-> v.caps[t].bar.kind,
              addr |-> v.caps[t].bar.addr + v.caps[t].offset]
                \in Published(machine[v.device], t)
        /\ \A t \in {"common", "device"} : v.caps[t].bar.kind = "Mm"

(* The functions that have a driver, with the four structures it needs. *)
Offers(f, k, t) ==   \* capability k is a structure t that a driver can use
    /\ f.caps[k].id = "virtio" /\ f.caps[k].type = t
    /\ t \in {"common", "device"} => ~f.layout[f.caps[k].bar].io

Drivable(f) ==
    /\ f.vendor = "virtio" /\ f.type \in {"input", "gpu"}
    /\ \A t \in CapTypes : \E k \in 1 .. Len(f.caps) : Offers(f, k, t)

(* When the executor starts, its devices are exactly the functions of the  *)
(* machine that are virtio input or GPU devices with the four structures,  *)
(* each once: none was overlooked by the scan, by its BARs or in its list. *)
DevicesServed ==
    stage = "running" =>
        /\ LiveSet = {a \in DOMAIN machine : Drivable(machine[a])}
        /\ Len(virtio_devices) = Cardinality(LiveSet)

(* The pages that the queues of the ready devices use, with their use. *)
QueuePages(d, n) ==
    LET v == virtio_devices[d]
        Q == dev[v.device].queues[n]
    IN {[frame |-> Q.desc,   use |-> << d, n, "table", 0 >>],
        [frame |-> Q.driver, use |-> << d, n, "avail", 0 >>],
        [frame |-> Q.device, use |-> << d, n, "used", 0 >>]}
       \cup {[frame |-> mem[<< Q.desc, k >>][2], use |-> << d, n, "buffer", k >>] :
               k \in v.free[n]}

DmaPages ==
    UNION {UNION {QueuePages(d, n) : n \in 1 .. Len(virtio_devices[d].free)} :
             d \in 1 .. Len(virtio_devices)}

(* A device that is ready has accepted the features and has all its queues *)
(* enabled; every descriptor that get_free can return names a buffer in    *)
(* the table; no two tables, rings or buffers share a page, of one device  *)
(* or of several, none is a page table or a page of the heap; and nothing  *)
(* was written outside the tables and rings (virtio.rs:357-417).           *)
QueuesSetUp ==
    /\ \A d \in 1 .. Len(virtio_devices) :
         LET v == virtio_devices[d]
             r == dev[v.device]
         IN /\ r.status = {"ACKNOWLEDGE", "DRIVER", "FEATURES_OK", "DRIVER_OK"}
            /\ Len(r.queues) = Len(v.free)
            /\ \A n \in 1 .. Len(v.free) :
                 /\ r.queues[n].enable
                 /\ \A k \in v.free[n] :
                      /\ << r.queues[n].desc, k >> \in DOMAIN mem
                      /\ mem[<< r.queues[n].desc, k >>][1] = "buffer"
    /\ \A x, y \in DmaPages : x.frame = y.frame => x.use = y.use
    /\ \A x \in DmaPages : owner[x.frame].use = "data" /\ x.frame \in mapped
    /\ stage = "running" =>
         {c[1] : c \in DOMAIN mem} \subseteq
           {x.frame : x \in {y \in DmaPages : y.use[3] \in {"table", "avail"}}}

(* Nothing touches the registers of a device once it is ready: neither the *)
(* initialisation of another one, nor a second visit of the same.          *)
ReadyLeftAlone == [][\A a \in LiveSet : dev'[a] = dev[a]]_allvars

(* Every application is in memory as its file describes it: each segment   *)
(* with its bytes, zeroes after them, and every relocation on top, in      *)
(* whatever order App::new comes to them.                                  *)
ImagesLoaded == \A k \in 1 .. Len(apps) : LoadedRight(apps[k])

(* Boot comes to an end: the executor runs, unless the memory is used up   *)
(* or a device refuses its features, upon which the kernel panics.         *)
BootEnds == <>(stage \in {"running", "refused"} \/ pc = "exhausted")
=============================================================================
