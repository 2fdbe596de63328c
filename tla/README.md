# A TLA+ verification project for Fomos

Fomos (https://github.com/Ruddle/Fomos) is an experimental single-CPU operating
system in Rust: a kernel (`src/bootloader/kernel`) with a cooperative async
executor, virtio drivers for input and GPU, and applications that are called
once per frame through one function, `start`, with a `Context` that gives them
the frame buffer, the input and a slot for their own store. There are no
processes and no preemption other than interrupts.

This directory has TLA+ models of the parts where order, sharing and bounds
matter, TLC configurations that check them, and TLAPS proofs. Paths below are
relative to `src/`; `K` stands for `bootloader/kernel/src`.

## 1. The system and its hard parts

| Component | State | Operations | Interacts with |
|---|---|---|---|
| Executor, `K/task/executor.rs`, `K/task/mod.rs` | `tasks`, `waker_cache`, three `ArrayQueue`s of 100: `spawn_queue`, `task_queue`, static `YIELDERS` | `run`, `run_ready_tasks`, `spawn`, `Spawner::run`, `wake_task`, `yield_once` | every task; interrupts end its `hlt` |
| Virtqueues, `K/virtio.rs` | free descriptors, available and used rings with 16-bit indices | `get_free_desc_id`, `get_free_twice_desc_id`, `set_available`, `next_used`, `set_free_desc_id`, `kick` | the device, which reads and writes the same memory at any moment |
| Input driver, `K/drivers/virtio_input.rs` | its virtqueue, event buffers | give all buffers to the device, apply events, recycle | `globals::INPUT` |
| Input state, `K/globals.rs` | `KeyState` per key, mouse, history ring of 64 events | `handle_incoming_state`, `step` | driver writes, application loop reads and steps |
| GPU driver, `K/drivers/virtio_gpu.rs` | virtqueue behind a spin mutex, static `WAKERS` per descriptor, display resources, frame-buffer pages | `drive`, poller task, transfer loop, `request`, `IdWait` | executor, device, `FB` |
| Application loop, `K/main.rs`, `K/app.rs`, `K/framebuffer.rs` | list of `App`s with their stores, `FB` | `App::call`, `Context::new`, `FB::update`, `FB::share` | applications, GPU driver (which replaces the pixels) |
| Console, `app_console` | window rectangle, history of atoms, mode, script context, blur buffers | `_start` once per frame | `Context` |
| Background and cursor, `app_background`, `app_cursor` | a boxed image or image cache | `_start` | `Context` |
| Memory, `K/memory.rs`, `K/allocator.rs`, `K/main.rs` | boot memory map, buffer of 32 frames, page tables, heap | `allocate_frame`, `init_heap`, `create_identity_virt_from_phys(_n)` | drivers ask for contiguous, identity-mapped pages |
| Interrupts, `K/interrupts.rs`, `K/ioapic.rs`, `K/local_apic.rs`, `K/logger.rs` | redirection table, local APIC, the logger's locks | handlers, EOI, logging | the executor sleeps until an interrupt comes |
| PCI, `K/pci.rs` | list of functions | `Pcis::new`, `get_bar` | configuration space, in which one function may answer for its whole slot |
| Virtio start-up, `K/virtio.rs` | capabilities, device registers, queue memory | `Virtio::init` | devices, which may refuse; frame allocator |
| ELF loading, `K/app.rs` | code of an application | `App::new` | |
| `kernel_main`, `K/main.rs` | where boot is | maps memory, scans, initialises, starts the executor | all of the above |
| Serial, GDT, boot program | | straight-line code at boot | |

What is hard to test here, and what a correct system must do about it, is the
list of hazards in `PROJECT.json`. The main ones:

* tasks interleave at `await`s only, so state held across an `await` (the GPU's
  spin mutex) can deadlock the single CPU, or not, depending on queue order;
* results of pushes on bounded queues are ignored, and a task that is forgotten
  there never runs again;
* the devices run beside the drivers, between any two of their memory accesses,
  and ring indices wrap;
* requests are matched with answers through a static array of wakers indexed by
  descriptor, and descriptors are reused;
* the GPU driver replaces the pixels applications draw on, and scripts of the
  console keep raw pointers to them;
* between two frames a key may change any number of times, and the console stops
  reading the events of a frame at an Enter;
* every application's store passes through one static slot;
* windows are moved with unsigned arithmetic, and drawn with checked indices;
  a panic in an application ends in `loop {}` and stops the whole machine;
* page tables are allocated from the same frames as the blocks being mapped;
* the machine is whatever the buses say: functions that answer several times,
  64-bit BARs in two registers, structures listed twice or where they cannot be
  used, devices that refuse half-way;
* relocations of an application are applied between the copies of its segments;
* an interrupt handler runs on the stack of what it interrupted and logs too.

## 2. Modules

State has the names the code gives it; a variable `pc` (or `kernel`, `at`,
`stage`) says where the code is. An action is the code from one point where
another actor can interfere to the next one: `await`s for tasks, single shared
memory accesses next to a device, whole calls where nothing interferes.
Definitions marked `mutant` in a comment are altered copies of the definition
that follows them: they show that a property notices such a bug. They are part
of no specification.

Theorems are in modules of their own, named `...Proofs`: `ExecutorProofs`
(executor and GPU start-up), `VirtqueueProofs` (lemmas on rings, used by the next
two), `InputProofs`, `GpuProofs` (requests and commands), `LoopProofs`
(application loop and interrupts), `ConsoleProofs`, `ConsoleWindowProofs` and
`BootProofs` (frame allocator, PCI, device initialisation, boot).

**`Executor`** is the loop of `run()`: `Spawn` adopts one task, `PopTask` begins
a poll, the polled future may call `SpawnerRun` or wake a parked task
(`WakeParked`) and ends its poll with `PollReady`, `PollYield` or `PollPark`
(its waker is with a driver), `IdleCheck` and `Interrupt` are `hlt` and its end,
`WakeYielder` wakes one yielder. A failed push drops the value where the code
ignores the result, and panics where the code says `expect`. In `Executor`
futures are arbitrary. **`Scheduler`** is what all this promises to a task, with
one state per task (`new`, `ready`, `running`, `waiting`, `done`); `StateOf` maps
the queues, the map of tasks and the parked wakers to it. A task of the map that
is in none of these places is `lost`, which `Scheduler` does not know.

**`GpuStartup`** composes the executor with what `virtio_gpu::drive` does on it:
each GPU's task spawns its poller, locks the mutex, awaits `yield_once()` with
the guard alive, unlocks in its second poll, makes requests (parks) and spawns
the transfer loop; the poller locks the mutex in each poll and spins if it is
held. All other tasks do what any future may.

**`Virtqueue`** has the rings and the device's use of them; `InputDriver` and
`GpuRequests` extend it. The slot and the index of the available ring are
written in two steps. A consumed slot is emptied so that reading it again
blocks. `Pending` lists what is between two indices of a ring, modulo their
width; `AvailPending` and `UsedPending` are what one side published and the other
has not taken.

**`InputDriver`** is `virtio_input::drive`, **`EventChannel`** what it promises:
a bounded FIFO channel from the device to `INPUT`. **`InputFrames`** extends the
driver with `INPUT` itself (`Update` is the `match` on the event type, `Incoming`
is `handle_incoming_state`) and the console as its per-frame reader (`Frame`),
which runs only while the driver's task is suspended. A console without a store
makes one that starts at the current index of the ring (`NewStore`); one that is
not active skips what is new (`SkipInputs`); an active one goes over it and stops
at an Enter without shift, skipping what follows (`ReadInputs`); the line may have
been `>reset`, which drops the store. `input`, `frames`, `reader` and
`read_events` record what happened, for the properties, which speak of positions
in `input`. **`MCInputFrames`** has a set of events.

**`GpuRequests`** is `request()`, `IdWait`, `WAKERS` and the poller, next to a
device that takes commands once notified and answers in any order. Which task
runs is chosen as the executor may choose it (`Run`).

**`GpuCommands`** is the sequence of commands of `drive()`, with `FB::update` in
its place, and the three loops that follow without synchronisation: flush,
transfer, and applications that draw. The device has resources, their backing
and host copies, and a screen; it refuses commands about what does not exist,
and the optional ones if it does not support them. Its definitions, like those of
`Interrupts`, carry a prefix (`CommandsSpec`, `IrqSpec`) where a proof module
extends two specifications.

**`AppLoop`** is the loop of `kernel_main` over the applications with
`App::call`, the shared slot `none`, and each application's handling of its
store, plus the GPU's replacement of the frame buffer between frames. The console
is there with what it keeps between calls: its store, the size of its blur
buffers, and the pixels that the `draw` functions of its scripts point to
(`captured`): `>eval` makes one (`RunConsoleEval`), scripts of later calls may use
it (`RunConsoleRepl`), `>reset` drops them all. A call may end in the blur's index
(`panicked`) or through what was typed (`stopped`): a script that panics or does
not end, or the shell's own panics. **`MCAppLoop`** has the screen sizes.

**`Console`** is the shell in `_start`: text is abstracted to the number of
prompt bytes left and a few typed units (command words, a plain character,
U+00B2). The script interpreter is an external crate: code it evaluates may call
`quit` once that is defined. **`ConsoleWindow`** is the other half of `_start`:
mouse, moving, resizing, clamping; usize arithmetic is modulo `USIZE`. The button
is in any state in any frame, since a held button may be released and pressed
again within one; so a window may be moved and resized at once.
**`MCConsoleWindow`** has its screen and mouse positions.

**`FrameAllocator`** is `allocate_frame` with its buffer, the mapping of physical
memory, `init_heap`, and the identity mappings; `map_to` is external and takes up
to `MaxTables` frames for page tables per page.

**`Pci`** is the scan of `Pcis::new`, one action per round of its inner loop, and
`get_bar` as an operator. The machine is external: a function from addresses to
functions, each with its BARs (`Registers` is what the configuration space shows
of them), capabilities and queues. **`VirtioInit`** extends it and
`FrameAllocator` with `Virtio::init`: `Probe` (type, BARs), `WalkCapability`, the
status writes one by one, `CheckFeatures`, and for every queue `SelectQueue`,
`AskPage` (a call of `create_identity_virt_from_phys`, which runs in
`FrameAllocator`'s steps) and `StoreTable`, `FillDesc`, `StoreAvail`, `StoreUsed`,
which put the page to its use. `mem` has the cells that `init` writes: in which
frame, and at which descriptor. **`ElfLoader`** is `App::new`, one action per
round of its loops: `Measure` finds the end of the address space, `Allocated` is
the zeroed vector, `LoadSegment` copies a segment and `Relocate` applies one entry
of `.rela.dyn` to it; bytes are zero, a byte of the file or a byte of a relocated
address. `Described` says independently what an image describes. **`Boot`** composes them as
`kernel_main` does, and adds what the executor's tasks take afterwards: frame
buffers and applications. **`MCBoot`** has a memory map with a hole, five machines
and the images.

**`Interrupts`** is the redirection table as `kernel_main` programs it, delivery
by priority class, the handlers up to EOI and `iret`, the logger's lock, and the
executor's loop with `hlt`. The handler of pin 2 also stores its own redirection
entry again (`StoreOwnEntry`).

`PROJECT.json` maps each definition to the lines it models.

## 3. Runs

Each is `tlc -config <cfg> <module>`. All finish within about two minutes; the
largest, `input_frames`, has 747 630 states.

| Run | Module, configuration | Shows |
|---|---|---|
| `executor_gpus` | `GpuStartup` | `OneTokenPerTask`, `NoLostTask`: no task is scheduled twice or forgotten, no `expect` fires. `StarvationFree`: spawned, woken and yielding tasks are polled. `PollerNeverSpins`, `DriverStarts`: the mutex held across `await` never meets the poller, because yielders are woken before spawned tasks are adopted. `ImplementsScheduler`: the steps are those of `Scheduler`, so that a finished task is never polled again, nor a waiting one that nobody woke. |
| `input_frames` | `MCInputFrames`, `InputFrames.cfg` | `ImplementsChannel`: refinement of `EventChannel`, liveness included. `BuffersConserved`: each buffer is in one place. `KeyStateExact`: the state of a key says whether it is down and, after at most two changes, its history. `HistoryExact`: a console that is active reads the frame's key events in order, each once, up to the last one or to an Enter. |
| `gpu_requests` | `GpuRequests` | `DescriptorsConserved`: no descriptor is lost or used twice, and `request()` never runs out of them. `ResponseIsOwn`: an answer reaches the request it answers. `NoLostWakeup`: a task asleep on a request has its waker in the right slot and its command with a notified device, or answered. `RequestsComplete`: every request is answered. |
| `gpu_commands` | `GpuCommands` | `DisplayNeverRefused`: no command the display needs is refused, whatever the device supports. `FramesReachScreen`: a frame drawn once the display is set up, or a newer one, reaches the screen. |
| `app_loop` | `MCAppLoop`, `AppLoop.cfg` | `StoreGivenBack`: each application finds what it left. `PixelsLive`: freed pixels are drawn on only by a script of the console through a `draw` it kept, and none that were freed before the console's store was made. `OnlyTypingStops`: if the boot screen is not smaller than the GPU's mode, all are called for ever unless something typed in the console stops it. |
| `console` | `Console` | `PromptMatchesMode`: the prompt is that of the mode which will read the line. |
| `console_window` | `MCConsoleWindow`, `ConsoleWindow.cfg` | `DrawsInside`: no index out of bounds, whatever the mouse does, also when a press comes while the window is moving or being resized. |
| `boot` | `MCBoot`, `Boot.cfg` | `FunctionsFoundOnce`, `RegistersFound`, `DevicesServed`: the devices that can be driven are all found, once, at their addresses. `QueuesSetUp`: a ready device has accepted its features, its queues are complete, and no page serves two purposes. `ReadyLeftAlone`: nobody touches it again. `ImagesLoaded`: applications are in memory as their files describe. `GivenInOrder`, `BlocksOwnTheirFrames`: no frame is used twice. `BootEnds`: the executor starts, or the kernel panics for lack of memory or features. |
| `interrupts` | `Interrupts` | `HandlerNeverSpins` on the logger's lock. `AllAcknowledged`: no vector stays in service behind its handler. `LoopRuns`: the loop that halts is always woken. |
| `console_called_again` | `Console`, `ConsoleCalledAgain.cfg` | violated, see section 6 |
| `app_loop_resize` | `MCAppLoop`, `AppLoopResize.cfg` | violated, see section 6 |
| `interrupts_serial` | `Interrupts`, `InterruptsSerial.cfg` | violated, see section 6 |

### Bounds

* `executor_gpus`: queues of 8, eight tasks at most: two GPUs with two helpers
  each, another boot task, and one task spawned at will. The queues can be
  exactly full, which is the limit for `NoLostTask`. Overfull queues are covered
  by the proofs.
* `input_frames`: two buffers, indices modulo 4, four events of four kinds, with two
  keys among them, left shift and Enter. (The event that ends a report changes
  nothing in `INPUT`, and to the driver all events are alike; it is in the proofs
  only.) The indices wrap (`last_used_idx` starts at the maximum), both buffers are
  reused, the history ring of 3 wraps, a frame sees from none to four events, Enter
  comes with and without shift and with events behind it, and the console's store
  is dropped at such an Enter and made again.
* `gpu_requests`: 6 descriptors, of which 2 are published at start as drive()
  does with its own, and indices modulo 12; two start-up requests, then flush
  and transfer requests for ever (payload tags alternate), so that descriptors
  and indices are reused any number of times. Four descriptors suffice for the
  two concurrent requests.
* `gpu_commands`: two capability sets, three frames: an old, a current and a
  newer one.
* `app_loop`: screen modes smaller than, equal to and larger than 1600 x 900;
  two GPUs, so that pixels are freed before and after a `>reset`; three resets.
  Frames and scripts are unbounded.
* `console`: two units after a prompt, three key events per frame. Two units are
  a command and something that is not one; frames are unbounded.
* `console_window`: a 12 x 8 screen, mouse positions inside, at the edges and
  beyond `LIMIT`, coordinates modulo 64. The proofs lift this.
* `boot`: 24 usable frames in two regions (enough for all queues and a frame
  buffer on some machines, too few on others), buffer of 3, blocks of 1 and 3
  pages, up to one page table per page and one for physical memory, four pages to
  a table. Three slots of three functions; a bridge and a GPU that answer for
  their slot, a slot with functions 0 and 2; BARs below `DWORD` = 256, above it
  and at it; structures listed usually, twice, and only in an I/O BAR; a GPU that
  may refuse. Two descriptors fill the page of a table (`PerPage` = 2, 256 in the
  code), and queues have up to that many. Images have two segments, with and
  without a gap and a zeroed tail, and two relocations at any two places where they
do not overlap.
* `interrupts`: the timer and pins 1, 2, 10 and 11, those with handlers that
  acknowledge; no other bound.

The proofs of section 4 lift these bounds for every invariant, every action
property and both refinements. They remain for the liveness properties. The type
invariants `IrqTypeOK` and `CommandsTypeOK` are proved and part of no run.

`CHECK_DEADLOCK FALSE` appears where a model ends: after a panic (`AppLoop`,
`Console`, `Boot`), or when operations or memory are used up (`Boot`).

### Fairness

* Executor: weak fairness of the whole next-state relation. The loop of `run()`
  never stops by itself, a poll of these futures ends, and the timer ends `hlt`
  (which `interrupts` checks). No fairness towards single tasks is assumed;
  `StarvationFree` derives it from the queues.
* `InputSpec`, `GpuRequests`, `GpuCommands`: each task is polled again, which is
  `StarvationFree`. (A panic in an application stops all of them; that is for
  `AppLoop` and `Console`, and beyond it these models claim nothing.) In
  `GpuRequests` that is strong fairness of `Run(t)`, since
  another task may be running at any moment. The GPU answers what it was
  notified of (external). The input device and the applications need not do
  anything.
* `AppLoop`, `Console`: applications return unless they panic or run a script
  without end, and are called in a loop. These models are sequential, so weak
  fairness of `Next` is all. Whether a script ends is a choice of the step, not
  of fairness.
* `Boot`: weak fairness of the whole next-state relation: `kernel_main` is one
  thread, and nothing it calls before the executor waits for anything.
* `Interrupts`: the periodic timer keeps requesting its vector, the APIC
  delivers what its priorities allow, handlers run to their end; and interrupts
  do not come so fast that the kernel makes no step between them (strong
  fairness of the kernel's steps). Devices need not raise their pins.

## 4. Proofs

For every value of the constants that meets the `ASSUME`s of the modules, of the
specifications that the runs check and, for the executor and the frame allocator,
of those they extend:

| Theorem | Statement |
|---|---|
| `ExecutorProofs!TypeCorrect` | `[]TypeOK`: queues within their capacity, of task ids |
| `ExecutorProofs!TokensUnique` | `[]OneTokenPerTask`, also with overfull queues |
| `ExecutorProofs!NothingLost` | `[]NoLostTask` if `MaxLive <= QueueCap` |
| `ExecutorProofs!ExecutorRefinesScheduler` | `ImplementsScheduler` if `MaxLive <= QueueCap`, with arbitrary futures |
| `ExecutorProofs!GpusRunOnScheduler` | the same with any number of GPU drivers |
| `ExecutorProofs!GpuTypes` | `[]GpuTypeOK`, for any number of GPUs |
| `ExecutorProofs!PollersNeverSpin` | `[]PollerNeverSpins` if `MaxLive <= QueueCap` |
| `InputProofs!BuffersAreConserved` | `[]BuffersConserved` |
| `InputProofs!DriverRefinesChannel` | the steps of the driver and the device are steps of `EventChannel` or stutter |
| `InputProofs!InputTypes` | `[]InputTypeOK` |
| `InputProofs!KeyStatesExact` | `[]KeyStateExact` |
| `InputProofs!HistoryReadExact` | `[]HistoryExact`, however often the console's store is dropped and made again |
| `GpuProofs!RequestTypes` | `[]TypeOK` |
| `GpuProofs!ResponsesAreOwn` | `[]ResponseIsOwn` |
| `GpuProofs!DescriptorsAreConserved` | `[]DescriptorsConserved` if `QSize >= Prefill + 4` |
| `GpuProofs!NoWakeupIsLost` | `[]NoLostWakeup` |
| `GpuProofs!CommandTypes` | `[]CommandsTypeOK` |
| `GpuProofs!DisplayAlwaysServed` | `[]DisplayNeverRefused` |
| `LoopProofs!LoopTypes` | `[]TypeOK` of `AppLoop` |
| `LoopProofs!StoresGivenBack` | `[]StoreGivenBack` |
| `LoopProofs!PixelsStayLive` | `[]PixelsLive` |
| `LoopProofs!NoBlurPanicIfLarge` | the blur's index stays within bounds if no boot mode has fewer cells than the GPU's mode |
| `LoopProofs!IrqTypes` | `[]IrqTypeOK` |
| `LoopProofs!HandlersNeverSpin` | `[]HandlerNeverSpins`, for any wired pins |
| `LoopProofs!NothingLeftInService` | `[]AllAcknowledged` if all wired pins have handlers that acknowledge |
| `ConsoleProofs!ShellTypes` | `[]TypeOK` |
| `ConsoleProofs!PromptAlwaysMatches` | `[]PromptMatchesMode` |
| `ConsoleWindowProofs!WindowTypes` | `[]TypeOK` |
| `ConsoleWindowProofs!AlwaysDrawsInside` | `[]DrawsInside` |
| `BootProofs!FrameTypes` | `[]TypeOK` of the frame allocator |
| `BootProofs!FramesGivenInOrder` | `[]GivenInOrder` |
| `BootProofs!BlocksAreOwned` | `[]BlocksOwnTheirFrames` |
| `BootProofs!NoPageMappedTwice` | `[]NeverAlreadyMapped` |
| `BootProofs!BarDecoded` | `get_bar` of the registers of a sound layout is its kind and address |
| `BootProofs!EveryFunctionOnce` | `[]FunctionsFoundOnce` |
| `BootProofs!BootUsesFramesOnce` | the three properties of the frame allocator, for `BootSpec` |
| `BootProofs!ReadyDevicesLeftAlone` | `ReadyLeftAlone` |
| `BootProofs!RegistersAlwaysFound` | `[]RegistersFound` |
| `BootProofs!AllDevicesServed` | `[]DevicesServed` |
| `BootProofs!QueuesAlwaysSetUp` | `[]QueuesSetUp` |
| `BootProofs!ImagesAlwaysLoaded` | `[]ImagesLoaded`, for all images that a linker may produce |
| `BootProofs!BootTypes` | `[]BootTypeOK` |

Hypotheses, and why the code meets them: `MaxLive <= QueueCap`, since the queues
have 100 places and the kernel has a handful of tasks; `QSize >= Prefill + 4`,
since QEMU's control queue has 64 entries, `drive()` publishes 10 and the two
concurrent requests take two each; queues of at most `PerPage` descriptors
(`SoundFunction`), 256 for the one page that `Virtio::init` gives to a table; the
large boot modes and acknowledged pins are what the findings of section 6 show to
be necessary.

*Executor.* `IInv` adds to `TypeOK` and `OneTokenPerTask` that there is a current
task exactly during a poll (`CurrentInv`), and that ids in the spawn queue are
new: below `next_id`, different from each other and from adopted tasks
(`FreshInv`); otherwise `Spawn` could add a second token. `NothingLost` adds
`FitInv`: nothing is lost, no panic, and at most `MaxLive` tasks live. The
argument is counting: a queue that holds distinct ids of live tasks, and not the
one being pushed, is shorter than the number of live tasks, so the push fits.

*Scheduler.* The mapping is a function of the state, so each action is one case:
most change the state of one task (`PopTask` dispatches, `PollPark` waits), and
moving an id from one queue to another changes none, since the three queues map
to `ready` alike. `IInv` says that a task has one token, so that a poll or a wake
changes nobody else's state, and `FitInv` that no push fails: a lost token would
be a step to `lost`.

*GPU start-up.* Every step is an executor step or leaves its variables alone, so
the above carries over. `StartInv` adds why a poller never meets the mutex:
`PolledFirst` says that a `drive()` which holds it is polled before its poller,
because the poller is still in the spawn queue, or `drive()` is being polled, or
stands before it in the task queue. That is kept since `run()` adopts spawned
tasks only once it has woken all yielders (`TurnInv`).

*Input.* `PlacesInv` says that free list, hand, available ring, used ring and
device hold the descriptors between them, each once; the lemmas of
`VirtqueueProofs` say what each access does to what is pending between two
indices that wrap. With `EventInv` (a buffer on the used ring holds an event)
every step maps to one of the channel or to a stutter. `SeenInv` is about
applications: `KeyStateExact` is inductive by itself; for the ring, `HistoryInv`
says that an index is the number of key events so far, that the console's, if it
has a store, is the number at the last frame (also after an Enter, since what
follows is skipped), and that the last `HISTORY_SIZE` events are in their slots,
which two of them never share.

*GPU requests.* `OwnInv` and `SplitInv`: the free list, the two requests and the
start-up loop share out the descriptors. `FlightInv`: a head is in flight once,
for a published request or for the start-up loop; `WakeInv`: a slot of `WAKERS`
is `Done` only for a head that came back and was not seen yet, so that no stale
`Done` is left when a descriptor is reused; `PageInv`: pages and chains stay as
`add_request` left them, and hold the answer once the device gave the head back.
`WaitInv` is for the wake-ups: a published head is in flight, or its slot is
`Done`; a waiting request whose head is on the available ring was followed by a
notification; and a waiting request that is not running has a token, or its waker
is in the slot. The device stops looking only at an empty ring, and the poller
takes a waker only to put its task among the ready ones, which is why none of the
three can fail in between.

*GPU commands.* `SentInv` says which command of the script `drive()` waits for,
and that the transfer task sends nothing else than transfers, once started; the
device may execute the two in any order. `DisplayInv` says that the resource
exists, and has memory, from the moment its command is answered. Although
`drive()` looks at no answer, it waits for each, which is what the proof uses.

*Application loop.* `SlotInv`: what an application left is in its own store, or
in the static slot while it is called; `BoxInv`: each box was dropped or has one
owner; `ShareInv`: a call shares the current frame buffer, as drivers run only
between frames. `ScriptInv`, for `PixelsLive`: what `draw` functions point to was
current at some moment since the console made its store, and only the console
draws through them. `NoBlurPanicIfLarge` adds `BlurInv`, that the blur buffers
suffice; it says nothing of the console's other panics.

*Interrupts.* `HolderInv`: the kernel holds the logger's lock only with
interrupts off and no handler on its stack, a handler only while it logs;
`EntryInv`: entries that are not masked have a vector, and so have all of them
once interrupts can come, which is why a handler that stores its own entry again
stores a vector. `ServiceInv`
adds that only the running handler's vector is in service, until its EOI.

*Console.* `PromptInv` is `PromptMatchesMode` in every state, not only where keys
are read: the last atom is a prompt of the current mode, the mode of the REPL
implies that `quit` is defined, and the shell's one-byte prompt is never deleted,
since Backspace leaves one byte of text.

*Console window.* `TypeOK` is inductive as it stands; it says that a rectangle that
was drawn had been clamped, from which `DrawsInside` follows. Whatever unsigned
wrap-around did to the corners, `Clamped` brings them back, which is lemma work
on `%` and `\div`. `CellAssumption` is what the code needs of the screen: its
sides leave at most 1 modulo 4, as 1600 x 900 does; with a larger remainder the
blurred copy may lack cells that the window shows.

*Frame allocator.* `AllocInv` relates `next`, the buffer and the frames given
(the buffer, reversed, is what follows the given frames in `Usable`), which makes
`GivenInOrder` inductive. `RunningInv` describes a half-mapped block (the frames
collected so far are consecutive and owned by this operation), `DoneInv` the
completed ones, `UnusedInv` that frames not given have no owner, and `MappedInv`
that identity-mapped pages lie on frames owned by mapped operations; with
`DisjointAssumption` (regions of the memory map do not overlap) a fresh block
meets none of them.

*Boot.* What `kernel_main` does to frames is a step of `FrameAllocator` or none
(`FramesStep`), so that its invariant holds here too. `ScanInv` says that what was
found is what the machine has among the addresses passed, and that beyond
function 0 of a slot nobody answers for the whole slot; this needs
`SoundMachine`: only a slot whose function 0 says so has several functions.
`VisitInv` says that the ready devices come before the current function in the
list, which, the list having no duplicates, makes the current one different from
them all: `ReadyLeftAlone`. `CapsInv` describes the walk (of each type, one usable
structure among those passed is kept, if there is one) and `ServedInv` its
result; with `BarDecoded`, which is arithmetic on the two halves of an address,
they give `RegistersFound` and `DevicesServed`. `SoundFunction` is assumed of the
machine: aligned BARs, of which capabilities name one that exists, and at least
one capability.

*Queues.* `SInv` names a set of pages with their uses (`QueuesInv`): frames in it
are owned by the allocator's callers and mapped, no frame has two uses
(`PagesInv`), the queues of ready devices lie in it (`ReadyIn`), and so does the
part of the current queue that is done (`CurrentIn`). A page that was just asked
for is new to the set, since the allocator never gives a frame twice (`IInv`
above); a store into it touches no other queue. `CellsInv` says that memory is
written nowhere else, `LoopInv` where the loop over a queue's descriptors is.

*ELF loading.* `LInv`: the first loop has passed no header that ends beyond
`max_virt` (`MeasuredInv`), so that all copies and relocations are inside the
vector; in the second, every byte is what the segments copied and the relocations
applied so far describe (`ContentInv`, with `Copied` and `Applied`). A copy leaves
applied relocations alone since they lie in earlier segments, and those are
separate; after the last segment nothing is left to apply, because `WellFormed`
puts every relocation in some segment.

Only model-checked is liveness, since fairness and `ENABLED` are beyond the
prover: `StarvationFree`, `DriverStarts`, `RequestsComplete`, `FramesReachScreen`,
`OnlyTypingStops`, `BootEnds`, `LoopRuns`, and the fairness of
`ImplementsChannel`. What each of them needs of safety is proved: `NothingLost`
(a task that is not lost has a token), `PollersNeverSpin`, `NoWakeupIsLost`,
`DisplayAlwaysServed`, `NoBlurPanicIfLarge`, `NothingLeftInService`.

## 5. Not modelled

* Parsing of ELF files, a third-party crate's work, and the disassembly listing
  of `App::new`, which no caller asks for.
* Bytes and words cut out of PCI configuration registers; MSI-X, which is
  commented out; serial output; GDT and IDT tables.
* Text on the frame buffer: `write_str` of `framebuffer.rs` has its loop commented
  out, so that `FrameBufferWriter` never writes a character.
* The heap (`linked_list_allocator`), page tables (`x86_64`), the script
  interpreter, image decoding and font crates.
* Pixels, colours, blur weights, wording of messages, the virgl command buffer.
* `Timer`, `a_sleep` and `add_waker` (`interrupts.rs`), which nothing calls: the
  lock and the slots of its `WAKERS` are not exercised; `SimpleExecutor`;
  `app_test` and `app_c`, which the kernel does not run.
* Several GPUs share the static `WAKERS`. `GpuRequests` has one device.

## 6. Where code and documentation disagree

* `console_called_again`: the REPL slices `&text[4..]` behind a prompt `fos>`
  that Backspace can shorten to one byte (`app_console/src/main.rs:627`). The
  slice panics, and the console, with the whole machine, is never called again.
* `app_loop_resize`: the console's blur buffers keep the size of the first frame
  (`app_console/src/main.rs:262`). If the boot mode is smaller than 1600 x 900,
  the GPU driver's buffer makes it index past their end.
* `interrupts_serial`: `write_redtlb` unmasks every pin, and most I/O APIC
  handlers do not acknowledge. A byte from the serial port leaves vector 54 in
  service; the timer's 48 is of the same class and is never delivered again, so
  `run()` halts for ever.

Three more are in the models and have no run of their own. A key that is tapped
twice within a frame ends in `OffFromOn`, whose comment (`globals.rs:65`) says that
it was pressed at the last frame; `KeyStateExact` therefore claims the documented
state only for frames with at most two changes. The French layout has U+00B2
(`st.rs:301`), for which the compiled-in font has no raster, so that
`expect("unsupported char")` fails in the next frame; that panic is part of
`Console` (`CanDraw`) and of `AppLoop` (`RunConsoleStops`). And a `draw` function
that a script keeps while a GPU driver replaces the frame buffer points to freed
pixels: a later script writes to them. The code has a TODO for it
(`app_console/src/main.rs:726`); `PixelsLive` shows that this is the only way to
freed pixels, and that `>reset` closes it.

## 7. What is left

1. Two GPUs in `GpuRequests`, sharing `WAKERS`: `request()` would need two devices
   with descriptors of the same numbers. Nothing in the repository starts two.
2. `Timer`, `a_sleep` and `add_waker`, should anything call them.
3. What the console should do with a release of shift that follows Enter in the
   same frame, once that is written down.
