------------------------------ MODULE GpuCommands ------------------------------
(***************************************************************************)
(* drivers/virtio_gpu.rs: the commands of drive(), in order, and how an    *)
(* application's picture gets to the screen.  drive() awaits the answer to *)
(* each command before it makes the next one (how an answer arrives is     *)
(* GpuRequests), and goes on whatever the answer was.  After the start-up  *)
(* it flushes in a loop, while a task it spawned transfers in a loop and   *)
(* the application loop draws.  The device is external: it executes the    *)
(* outstanding commands in any order and refuses those that name what does *)
(* not exist, or ask for what it does not support.                         *)
(***************************************************************************)
EXTENDS Naturals, Sequences

CONSTANTS
    NumCapsets,   \* num_capsets of the device's configuration
    MaxFrames     \* bound on the frames drawn in a behaviour

ASSUME CommandsAssumption == NumCapsets \in Nat /\ MaxFrames \in Nat \ {0}

Boot == "boot"        \* the pixels of FB::new
Page == "pages"       \* the identity-mapped pages drive() gives to FB::update
Example == "example"  \* those of resource_example
Memory == {Boot, Page, Example}

On(type, id)    == [type |-> type, resource |-> id, memory |-> Boot]
Cmd(type)       == On(type, 0)
Attach(id, mem) == [type |-> "attach_backing", resource |-> id, memory |-> mem]
NoCmd == Cmd("none")

TransferCmd == On("transfer_to_host_2d", 1)
FlushCmd    == On("resource_flush", 1)

(* The commands of drive() before its loops. *)
Info ==
    << Cmd("get_display_info") >>
    \o [n \in 1 .. NumCapsets |-> Cmd("get_capset_info")]
    \o << Cmd("get_edid") >>

DisplayScanoutFirst ==   \* mutant: the scanout is set before there is a resource
    << On("set_scanout", 1), On("create_2d", 1), Attach(1, Page) >>

Display == << On("create_2d", 1), Attach(1, Page), On("set_scanout", 1) >>

FirstFlush == << TransferCmd, FlushCmd >>

Virgl ==
    << Cmd("ctx_create"), On("create_3d", 2), On("ctx_attach", 2),
       Attach(2, Example), Cmd("submit_3d") >>

Script == Info \o Display \o FirstFlush \o Virgl
After(cmds) == Len(cmds) + 1

UpdateAt == After(Info) + 1          \* create_2d was answered
FillAt   == After(Info \o Display)   \* set_scanout was answered

VARIABLES
    step,      \* which command of Script drive() awaits; then its loop
    sent,      \* the outstanding command of drive() and of the transfer task
    answered,  \* whether it was answered
    supports,  \* optional features of this device
    resources, \* the device's resources
    backing,   \* their memory, or NoMemory
    scanout,   \* the resource of scanout 0, or 0
    context,   \* whether rendering context 1 exists
    refused,   \* the commands answered with an error
    fb,        \* the memory FB.pixels points to
    content,   \* the last frame drawn in each memory, 0 for the grey fill
    host,      \* the frame in the device's copy of resource 1
    screen,    \* the frame on the screen
    frames     \* frames drawn so far

drivervars == << step, sent, answered >>
devicevars == << supports, resources, backing, scanout, context, refused,
                 host, screen >>
commandvars == << drivervars, devicevars, fb, content, frames >>

NoMemory == "none"
Optional == {"get_edid", "get_capset_info", "ctx_create", "create_3d",
             "ctx_attach", "submit_3d"}
Tasks    == {"drive", "transfer"}
Cmds     == {Script[n] : n \in 1 .. Len(Script)} \cup {NoCmd}
Started  == step > Len(Script)

CommandsTypeOK ==
    /\ step \in 1 .. Len(Script) + 1
    /\ sent \in [Tasks -> Cmds] /\ answered \in [Tasks -> BOOLEAN]
    /\ supports \subseteq {"edid", "virgl"}
    /\ resources \subseteq {1, 2}
    /\ backing \in [{1, 2} -> Memory \cup {NoMemory}]
    /\ scanout \in 0 .. 2 /\ context \in BOOLEAN /\ refused \subseteq Cmds
    /\ fb \in Memory /\ content \in [Memory -> 0 .. MaxFrames]
    /\ host \in 0 .. MaxFrames /\ screen \in 0 .. MaxFrames
    /\ frames \in 0 .. MaxFrames

CommandsInit ==
    /\ step = 1
    /\ sent = [drive |-> Script[1], transfer |-> NoCmd]
    /\ answered = [t \in Tasks |-> FALSE]
    /\ supports \in SUBSET {"edid", "virgl"}
    /\ resources = {} /\ backing = [r \in {1, 2} |-> NoMemory]
    /\ scanout = 0 /\ context = FALSE /\ refused = {}
    /\ fb = Boot /\ content = [mem \in Memory |-> 0]
    /\ host = 0 /\ screen = 0 /\ frames = 0

-----------------------------------------------------------------------------
Send(task, cmd) ==
    /\ sent' = [sent EXCEPT ![task] = cmd]
    /\ answered' = [answered EXCEPT ![task] = FALSE]

(* drive() gets its answer and runs up to its next request.  Between two   *)
(* of them it redirects FB to its pages, and fills these.                  *)
DriveStepKeepsFb ==   \* mutant: FB::update is not called
    /\ step < Len(Script) /\ answered["drive"]
    /\ step' = step + 1
    /\ Send("drive", Script[step + 1])
    /\ content' = IF step + 1 = FillAt THEN [content EXCEPT ![Page] = 0] ELSE content
    /\ UNCHANGED << devicevars, fb, frames >>

DriveStep ==
    /\ step < Len(Script) /\ answered["drive"]
    /\ step' = step + 1
    /\ Send("drive", Script[step + 1])
    /\ fb' = IF step + 1 = UpdateAt THEN Page ELSE fb
    /\ content' = IF step + 1 = FillAt THEN [content EXCEPT ![Page] = 0] ELSE content
    /\ UNCHANGED << devicevars, frames >>

(* The last answer of the start-up: the transfer task is spawned, and the  *)
(* loop begins with a flush.                                               *)
DriveStarted ==
    /\ step = Len(Script) /\ answered["drive"]
    /\ step' = step + 1
    /\ Send("drive", FlushCmd)
    /\ UNCHANGED << devicevars, fb, content, frames >>

DriveFlush ==
    /\ Started /\ answered["drive"]
    /\ Send("drive", FlushCmd)
    /\ UNCHANGED << step, devicevars, fb, content, frames >>

TransferLoop ==
    /\ Started
    /\ sent["transfer"] = NoCmd \/ answered["transfer"]
    /\ Send("transfer", TransferCmd)
    /\ UNCHANGED << step, devicevars, fb, content, frames >>

(* An application draws a frame on FB.pixels (a frame is one step: the     *)
(* device may show half of one, which no property speaks of).              *)
Draw ==
    /\ frames < MaxFrames
    /\ frames' = frames + 1
    /\ content' = [content EXCEPT ![fb] = frames + 1]
    /\ UNCHANGED << drivervars, devicevars, fb >>

-----------------------------------------------------------------------------
(* The device. *)
Accepts(cmd) ==
    LET exists == cmd.resource \in resources IN
    CASE cmd.type = "get_display_info"             -> TRUE
      [] cmd.type = "get_edid"                     -> "edid" \in supports
      [] cmd.type = "get_capset_info"              -> "virgl" \in supports
      [] cmd.type = "create_2d"                    -> ~exists
      [] cmd.type = "create_3d"                    -> ~exists /\ "virgl" \in supports
      [] cmd.type = "attach_backing"               -> exists /\ backing[cmd.resource] = NoMemory
      [] cmd.type = "transfer_to_host_2d"          -> exists /\ backing[cmd.resource] # NoMemory
      [] cmd.type \in {"set_scanout", "resource_flush"} -> exists
      [] cmd.type = "ctx_create"                   -> "virgl" \in supports /\ ~context
      [] cmd.type = "ctx_attach"                   -> context /\ exists
      [] cmd.type = "submit_3d"                    -> context

Execute(task) ==
    LET cmd == sent[task] IN
    /\ cmd # NoCmd /\ ~answered[task]
    /\ answered' = [answered EXCEPT ![task] = TRUE]
    /\ IF Accepts(cmd)
       THEN /\ resources' = IF cmd.type \in {"create_2d", "create_3d"}
                            THEN resources \cup {cmd.resource} ELSE resources
            /\ backing' = IF cmd.type = "attach_backing"
                          THEN [backing EXCEPT ![cmd.resource] = cmd.memory]
                          ELSE backing
            /\ scanout' = IF cmd.type = "set_scanout" THEN cmd.resource ELSE scanout
            /\ context' = (context \/ cmd.type = "ctx_create")
            /\ host' = IF cmd.type = "transfer_to_host_2d"
                       THEN content[backing[cmd.resource]] ELSE host
            /\ screen' = IF cmd.type = "resource_flush" /\ scanout = cmd.resource
                         THEN host ELSE screen
            /\ UNCHANGED refused
       ELSE /\ refused' = refused \cup {cmd}
            /\ UNCHANGED << resources, backing, scanout, context, host, screen >>
    /\ UNCHANGED << step, sent, supports, fb, content, frames >>

CommandsNext ==
    \/ DriveStep \/ DriveStarted \/ DriveFlush \/ TransferLoop \/ Draw
    \/ \E task \in Tasks : Execute(task)

CommandsSpec == CommandsInit /\ [][CommandsNext]_commandvars

(* Requests are answered (GpuRequests!RequestsComplete) and tasks that are *)
(* woken get to run (Executor!StarvationFree).                             *)
CommandsFairSpec ==
    /\ CommandsSpec
    /\ WF_commandvars(DriveStep) /\ WF_commandvars(DriveStarted)
    /\ WF_commandvars(DriveFlush)
    /\ WF_commandvars(TransferLoop)
    /\ \A task \in Tasks : WF_commandvars(Execute(task))

-----------------------------------------------------------------------------
(* drive() looks at no answer, so its order must be right: whatever the    *)
(* device supports, it refuses none of the commands the display needs.     *)
DisplayNeverRefused ==
    \A cmd \in refused : cmd.type \in Optional \/ cmd.resource = 2

(* The picture an application finishes, once the display is set up, gets   *)
(* to the screen, or a newer one does, though nothing synchronises the     *)
(* drawing, the transfers and the flushes, and though the pixels changed   *)
(* place under the applications in between.                                *)
FramesReachScreen ==
    \A n \in 1 .. MaxFrames :
        (step >= FillAt /\ content[fb] = n) ~> (screen >= n)
=============================================================================
