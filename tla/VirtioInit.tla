----------------------------- MODULE VirtioInit -----------------------------
(***************************************************************************)
(* Virtio::init (virtio.rs), which kernel_main calls for every PCI         *)
(* function of the virtio vendor: the walk over the capability list, the   *)
(* handshake through the status register, and the set-up of every queue,   *)
(* whose descriptor table, buffers and rings are pages that                *)
(* create_identity_virt_from_phys takes from FrameAllocator.  The device   *)
(* is external: its registers are `dev`, and it may refuse features that   *)
(* it does not offer.  Only cells of memory that init writes are in `mem`. *)
(***************************************************************************)
EXTENDS Pci, FrameAllocator

CONSTANT PerPage   \* descriptors in a page: 4096 / 16

ASSUME PerPageAssumption == PerPage \in Nat \ {0}

VARIABLES
    stage,           \* where kernel_main is
    cur,             \* index in devs of the function being looked at
    bars,            \* its six BARs, decoded
    off,             \* current_off: position in its capability list
    found,           \* common, notify, device and pci_conf
    q, idesc,        \* the loop variables of the set-up of the queues
    asked,           \* a page was asked for and is not yet used
    free,            \* queues: the ids of the free descriptors
    dev,             \* the registers of every device
    mem,             \* what init wrote, by frame and descriptor slot
    virtio_devices   \* the devices that are ready

devicevars == << dev, mem >>
initvars   == << stage, cur, bars, off, found, q, idesc, asked, free, devicevars,
                 virtio_devices >>

InitStages  == {"probe", "caps", "reset", "acknowledge", "driver", "features",
                "features_ok", "check", "select"}
AllocStages == {"desc", "fill", "avail", "used"}
CapTypes    == {"common", "notify", "device", "pci_conf"}
Missing     == [bar |-> NoBar, offset |-> 0, some |-> FALSE]
NoQueue     == [desc |-> 0, driver |-> 0, device |-> 0, enable |-> FALSE]

(* A device after reset. *)
Fresh(f) == [status   |-> {}, features |-> {},
             queues   |-> [k \in 1 .. Len(f.sizes) |-> NoQueue]]

Here == CHOOSE a \in Answers(devs[cur]) : TRUE
F    == machine[Here]

(* The next function of the loop over pcis.devs. *)
NextFunction == stage' = "probe" /\ cur' = cur + 1

-----------------------------------------------------------------------------
(* The vendor, the device type, the six BARs, and the first capability. *)
Known == F.vendor = "virtio" /\ F.type \in {"input", "gpu"}

Probe ==
    /\ stage = "probe" /\ cur <= Len(devs)
    /\ IF Known
       THEN /\ bars' = [k \in 0 .. 5 |-> get_bar(Registers(F.layout), k)]
            /\ off' = 1
            /\ found' = [t \in CapTypes |-> Missing]
            /\ stage' = "caps"
            /\ UNCHANGED cur
       ELSE NextFunction /\ UNCHANGED << bars, off, found >>
    /\ UNCHANGED << q, idesc, asked, free, devicevars, virtio_devices >>

LearnsAnywhere(c) ==   \* mutant: an I/O BAR is taken for an address
    c.id = "virtio" /\ c.type \in CapTypes

(* One round of the loop over the capabilities: a structure that needs an  *)
(* address counts only in a memory BAR, and a later one replaces an        *)
(* earlier.  The list ends with offset 0; without one of the four the      *)
(* device is left alone.                                                   *)
Learns(c) ==
    /\ c.id = "virtio" /\ c.type \in CapTypes
    /\ c.type \in {"common", "device"} => bars[c.bar].kind = "Mm"

WalkShort ==   \* mutant: the last capability is not looked at
    /\ stage = "caps"
    /\ LET c == F.caps[off] IN
       found' = IF Learns(c)
                THEN [found EXCEPT ![c.type] =
                        [bar |-> bars[c.bar], offset |-> c.offset, some |-> TRUE]]
                ELSE found
    /\ off' = IF off + 1 = Len(F.caps) THEN 0 ELSE off + 1
    /\ CASE off' # 0 -> UNCHANGED << stage, cur >>
         [] off' = 0 /\ (\A t \in CapTypes : found'[t].some) ->
              stage' = "reset" /\ UNCHANGED cur
         [] OTHER -> NextFunction
    /\ UNCHANGED << bars, q, idesc, asked, free, devicevars, virtio_devices >>

WalkForever ==   \* mutant: the end of the list is not recognised
    /\ stage = "caps"
    /\ LET c == F.caps[off] IN
       found' = IF Learns(c)
                THEN [found EXCEPT ![c.type] =
                        [bar |-> bars[c.bar], offset |-> c.offset, some |-> TRUE]]
                ELSE found
    /\ off' = IF off = Len(F.caps) THEN 1 ELSE off + 1
    /\ CASE off' # 0 -> UNCHANGED << stage, cur >>
         [] off' = 0 /\ (\A t \in CapTypes : found'[t].some) ->
              stage' = "reset" /\ UNCHANGED cur
         [] OTHER -> NextFunction
    /\ UNCHANGED << bars, q, idesc, asked, free, devicevars, virtio_devices >>

WalkCapability ==
    /\ stage = "caps"
    /\ LET c == F.caps[off] IN
       found' = IF Learns(c)
                THEN [found EXCEPT ![c.type] =
                        [bar |-> bars[c.bar], offset |-> c.offset, some |-> TRUE]]
                ELSE found
    /\ off' = IF off = Len(F.caps) THEN 0 ELSE off + 1
    /\ CASE off' # 0 -> UNCHANGED << stage, cur >>
         [] off' = 0 /\ (\A t \in CapTypes : found'[t].some) ->
              stage' = "reset" /\ UNCHANGED cur
         [] OTHER -> NextFunction
    /\ UNCHANGED << bars, q, idesc, asked, free, devicevars, virtio_devices >>

-----------------------------------------------------------------------------
(* The handshake: a write of device_status at each of its stages. *)
WriteStatus(from, bits, to) ==
    /\ stage = from
    /\ dev' = [dev EXCEPT ![Here].status = @ \cup bits]
    /\ stage' = to
    /\ UNCHANGED << cur, bars, off, found, q, idesc, asked, free, mem,
                    virtio_devices >>

ResetDevice ==
    /\ stage = "reset"
    /\ dev' = [dev EXCEPT ![Here] = Fresh(F)]
    /\ free' = <<>> /\ q' = 1
    /\ stage' = "acknowledge"
    /\ UNCHANGED << cur, bars, off, found, idesc, asked, mem, virtio_devices >>

Acknowledge == WriteStatus("acknowledge", {"ACKNOWLEDGE"}, "driver")
Driver      == WriteStatus("driver", {"DRIVER"}, "features")

WriteFeatures ==
    /\ stage = "features"
    /\ dev' = [dev EXCEPT ![Here].features = IF F.type = "gpu" THEN {0, 1} ELSE {}]
    /\ stage' = "features_ok"
    /\ UNCHANGED << cur, bars, off, found, q, idesc, asked, free, mem,
                    virtio_devices >>

(* The device keeps FEATURES_OK clear to refuse. *)
FeaturesOk == WriteStatus("features_ok", {"FEATURES_OK"}, "check")
FeaturesRefused ==
    /\ stage = "features_ok" /\ ~(dev[Here].features \subseteq F.offers)
    /\ WriteStatus("features_ok", {}, "check")

CheckFeaturesNever ==   \* mutant: the status is not read back
    /\ stage = "check"
    /\ stage' = "select"
    /\ UNCHANGED << cur, bars, off, found, q, idesc, asked, free, devicevars,
                    virtio_devices >>

CheckFeatures ==
    /\ stage = "check"
    /\ stage' = IF "FEATURES_OK" \in dev[Here].status THEN "select" ELSE "refused"
    /\ UNCHANGED << cur, bars, off, found, q, idesc, asked, free, devicevars,
                    virtio_devices >>

-----------------------------------------------------------------------------
(* The loop over the queues: queue_select and QueueFreeDescs::new... *)
SelectQueue ==
    /\ stage = "select" /\ q <= Len(F.sizes)
    /\ free' = Append(free, 0 .. F.sizes[q] - 1)
    /\ stage' = "desc"
    /\ UNCHANGED << cur, bars, off, found, q, idesc, asked, devicevars,
                    virtio_devices >>

(* ...and the pages, each asked for with create_identity_virt_from_phys... *)
AskPage ==
    /\ stage \in AllocStages /\ ~asked
    /\ Begin(TRUE, 1)
    /\ asked' = TRUE
    /\ UNCHANGED << stage, cur, bars, off, found, q, idesc, free, devicevars,
                    virtio_devices >>

(* ...used when the call returns... *)
UsePage(from, to) ==
    /\ stage = from /\ asked /\ pc = "idle"
    /\ asked' = FALSE
    /\ stage' = to
    /\ UNCHANGED << cur, bars, off, found, free >>

Page == block.first

(* A write to memory. *)
Store(cell, value) ==
    mem' = [c \in DOMAIN mem \cup {cell} |-> IF c = cell THEN value ELSE mem[c]]

StoreTable ==
    /\ UsePage("desc", "fill")
    /\ dev' = [dev EXCEPT ![Here].queues[q].desc = Page]
    /\ idesc' = 0
    /\ UNCHANGED << q, mem, virtio_devices >>

(* ...for a buffer per descriptor, written to the table by its number... *)
FillDescOneMore ==   \* mutant: 0..=qsize
    /\ UsePage("fill", IF idesc = F.sizes[q] THEN "avail" ELSE "fill")
    /\ LET table == dev[Here].queues[q].desc IN
       Store(<< table + (idesc \div PerPage), idesc % PerPage >>, << "buffer", Page >>)
    /\ idesc' = idesc + 1
    /\ UNCHANGED << q, dev, virtio_devices >>

FillDesc ==
    /\ UsePage("fill", IF idesc + 1 = F.sizes[q] THEN "avail" ELSE "fill")
    /\ LET table == dev[Here].queues[q].desc IN
       Store(<< table + (idesc \div PerPage), idesc % PerPage >>, << "buffer", Page >>)
    /\ idesc' = idesc + 1
    /\ UNCHANGED << q, dev, virtio_devices >>

(* ...for the driver's ring, whose flags ask for no interrupts... *)
StoreAvail ==
    /\ UsePage("avail", "used")
    /\ dev' = [dev EXCEPT ![Here].queues[q].driver = Page]
    /\ Store(<< Page, 0 >>, << "no interrupt", 0 >>)
    /\ UNCHANGED << q, idesc, virtio_devices >>

(* ...and for the device's ring, upon which the queue is enabled. *)
StoreUsed ==
    /\ UsePage("used", "select")
    /\ dev' = [dev EXCEPT ![Here].queues[q] =
                             [@ EXCEPT !.device = Page, !.enable = TRUE]]
    /\ q' = q + 1
    /\ UNCHANGED << idesc, mem, virtio_devices >>

(* After the last queue: DRIVER_OK, and the device is ready. *)
DriverOk ==
    /\ stage = "select" /\ q = Len(F.sizes) + 1
    /\ dev' = [dev EXCEPT ![Here].status = @ \cup {"DRIVER_OK"}]
    /\ virtio_devices' = Append(virtio_devices,
         [device |-> Here, type |-> F.type, free |-> free, caps |-> found])
    /\ NextFunction
    /\ UNCHANGED << bars, off, found, q, idesc, asked, free, mem >>

InitDevice ==
    \/ /\ \/ Probe \/ WalkCapability
          \/ ResetDevice \/ Acknowledge \/ Driver \/ WriteFeatures
          \/ FeaturesOk \/ FeaturesRefused \/ CheckFeatures \/ SelectQueue
          \/ StoreTable \/ FillDesc \/ StoreAvail \/ StoreUsed \/ DriverOk
       /\ UNCHANGED vars
    \/ AskPage
=============================================================================
