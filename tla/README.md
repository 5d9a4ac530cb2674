# Verification of usb3.device

`usb3.device` is the USB stack of this repository: host controller drivers
(xHCI, EHCI, OHCI), the stack proper, and class drivers, for AmigaOS 4. This
directory holds TLA+ models of it, the TLC configurations that check them on
small instances, and proofs, checked by TLAPS, of what holds for every
instance.

    tlc -config MCHCDTransfer_core.cfg MCHCDTransfer     # and so on, see "Runs"
    tlapm HCDTransfer_proofs.tla                         # and the other *_proofs

Paths in this file are relative to the repository's root.

## The system and its parts

One task per host controller (the *HCD task*, `Stack/HCD`) owns the hardware.
Everybody else - the hub driver and the class drivers, each in tasks of their
own, the enumerator, Exec clients - sends it IORequests and may abort them.
Objects (functions, configurations, interfaces, endpoints, requests) live in
trees under one semaphore, with reference counts that decide when they go. A
further task, the *Master*, starts and stops all the others.

| Part | State | Operations | Hard about it | What makes it correct |
|---|---|---|---|---|
| Transfer core (`Stack/HCD`, `Stack/Device/_man_*IO.c`) | begin and abort ports, active list, per endpoint `ep_Request_Active`, `ep_Request_Queue`, `ep_Stalled`; per request `req_PublicStat`, retry count, timer; `fkt_ActiveIOReq` | BeginIO, AbortIO; in the task: chip restart, events, watchdog, abort, begin, tick | users interleave with the task; a completion, a time-out, an abort and a restart compete for one request; retries re-enter the queueing code | each request is in one place and answered once; queues never strand; no wakeup lost; order kept; time-outs and aborts answer |
| xHCI transfer rings (`Drivers/XHCI/*_Build.c`, `*_Remove.c`, `XHCI_Slot.c`) | TRBs, enqueue index, cycle bit; the controller's dequeue pointer and cycle state | build, add, event, remove (stop, flush), wrap | the controller runs concurrently and nobody asks where it is; events carry slot and endpoint only | every TRB is run once, in order, for the transfer that has the endpoint |
| xHCI commands and slots (`XHCI_Command_Ring.c`, `Function_Detach.c`, `Control_Build.c`) | command ring, `CmdResult_*`, `Slots`, `SlotID_ByAddress`, `PendingDisable` | Enable Slot, Address Device, Disable Slot, Stop Endpoint, Set TR Dequeue, deferred drain | a wait polls the event handler, which drains deferred work, which waits again; one result variable | a command gets its own answer; an address leads to the slot of its device; no slot is leaked or freed in use |
| EHCI, OHCI (`Drivers/EHCI`, `Drivers/OHCI`), UHCI (stub) | queue heads, descriptors, frame lists, bandwidth, data toggles | schedule, unschedule, check, complete | unlinking what the controller may be reading; checks that come in the middle of a transfer | nothing is reused before the controller has let go; what is answered is what happened on the bus |
| Chip set-up (`Chip_*.c`, `HCD_1_Init*.c`, `HCD_3_Free.c`) | memory, signals, interrupt server, slots | reset, alloc, init, start, restart, stop, free | every step may fail; the chip restarts in the middle | the chip sees only memory that is there; all is freed |
| Root-hub ports (`Port_*.c`, `Stack/RootHUB`) | one register per port, change bits, pending interrupt requests | get and set features, report changes | bits that mean something else when written; a change between read and write | a request changes what it names; no change is lost |
| Hub driver (`Drivers/HUB`) | port states, functions, addresses | debounce, reset, enumerate, detach, stop | devices change while they are looked at; one address 0 for all hubs | ports and functions agree; an address is one device's |
| HCD task and address pool (`Stack/HCD`) | `hn_Function_Array`, task states | start, stop, obtain and release addresses | stop while requests wait | addresses are unique; the task ends with empty ports |
| Objects (`Stack/Function`, `Config`, `Interface`, `EndPoint`, `IORequest`, `Driver`, `Register`) | StructID, lock counts, detach and free marks, claims | lock, unlock, free, mark detach, claim | an object freed while somebody holds it; a free that is refused must be made up for | freed once, after the last unlock, children before parents |
| Endpoint resources (`Stack/EndPointRes`) | the endpoint's obtained flag, its request | obtain, release, destall | a request in flight when its resource goes | the request stays until it is answered |
| Enumeration and binding (`Stack/Function_Init`, `Stack/Function_Bind`) | the function's descriptors, the bound driver | read descriptors, choose a configuration, start drivers | unplug at every step | no half-initialised function is bound |
| Master and tasks (`Stack/Master`, `Stack/Task`, `Stack/TaskMsg`) | tasks, their nodes and counters, kept messages | start, stop, sweep, promote, shut down | stops overtake starts; semaphores held while waiting for the Master | owners end last; nodes live as long as somebody refers to them |
| Memory pools (`Stack/Memory`) | free lists, pages, physical addresses | alloc, free, cleanup | the address lives in the free node | one owner per node, who knows its address |
| Mass storage (`Drivers/MSD`) | units, openers, requests; tag, tries, residue | open, close, commands; command, data, status, recovery | lost and late transfers; unplug with units open; several units of one device | data is where it was asked for; a disk is freed after its last user |
| Other class drivers (`HID`, `PTP`, `Printer`, `Ethernet`, `AmigaInput`), `Programs` | their own | their protocols | - | - |

How they interact: users call `BeginIO()`, which puts the request in the HCD
task's begin port; the task calls the controller driver through the hooks of
`HCD_Functions` (`X_Build`, `X_Add`, `X_Remove`, `X_Length`, handlers); the
interrupt handler signals the task; timers come back to the watchdog port; the
hub driver marks functions detached and frees them, which calls back into the
controller driver (`Function_Detach`) from the hub's task; tasks are started and
stopped by commands to the Master, which callers wait for.

`PROJECT.json` lists the parts again with their files and what of each is
modelled, and under "hazards" what is hard to test, each at its line.

## The modules

| Module | Models |
|---|---|
| `EndpointContract` | what the transfer core promises, endpoint by endpoint |
| `HCDTransfer` (`MCHCDTransfer`) | the transfer core |
| `Queues`, `QueueLemmas` | queues without repetition, and lemmas about them |
| `TaskControl` | the tasks of one controller and the Master, from start to shutdown |
| `ObjectLocks` (`MCObjectLocks`) | the objects of one function, their locks, claims and requests |
| `Hub` (`MCHub`) | hub drivers, root hub, enumeration and addresses |
| `XHCIRing` | one xHCI transfer ring, producer and controller |
| `XHCICommandRing` | the command ring and the event ring, with the wait for a command |
| `XHCISlots` | device slots and addresses, and the commands sent for them |
| `XHCIReset` | the reset of the xHCI chip, escalating through the PCI resets |
| `MemoryPool` | the pools of nodes and DMA buffers |
| `HostSchedule` | the schedules of EHCI and OHCI, with the controller that walks them |
| `EHCITransfer`, `OHCITransfer` | the transfer descriptors of one endpoint, from build to free |
| `HostSetup` | start, restart and stop of each host driver, with every failure |
| `RootPorts` | the port functions of each host driver over one register |
| `MSDDevice` | mass storage devices, logical units, openers and requests |
| `MSDTransfer` | the commands that reach a disk, over the bulk-only transport |
| `MCXHCI`, `MCHost`, `MCMSD` | the instances of the modules of xHCI, of the host drivers and of mass storage |
| `*_proofs` | theorems, see "What is proved" |

A definition whose comment begins with "Variant:" is not used by the
specification. It is a wrong form of the definition after it, kept to show that
the properties notice: see "mutants" in `PROJECT.json`.

`MCXHCI`, `MCHost` and `MCMSD` hold several modules that share no state, so one
run checks them side by side: the constant choice `which`, made in the initial
state, says which module's behaviour this is, and the others stay as they
begin. The state space is the sum of the modules', not their product, and
nothing of a module is left out or added.

### HCDTransfer

The functions of one device, its endpoints, its requests, their users and the
HCD task. The variables are the fields of the structures, named at their
declarations. An Exec message is owned either by its user or by the stack
(`owner`); `req_PublicStat` (`stat`) is the field that AbortIO() tests.

The main loop (`__Normal`, `HCD_2_Main_1_Normal.c`) is a program counter `pc`
over the stages `Reset`, `HCD`, `WatchDog`, `Abort`, `Begin`, `Tick`, gone
through in that order for the signals of one Wait(). A user may preempt the
task between any two steps, so that a stage is not one action: one message, one
event, one request of a queue at a time. Where a routine does something others
can see before it is done, `job` says where it is:

| `job.kind` | the task is about to | code |
|---|---|---|
| `add` | put a request on the hardware, in the queue, or answer it at once | `__HCD_Add_Request()` |
| `reply` | ReplyMsg() | `Reply.c:39` |
| `finish` | write the state and count down `fkt_ActiveIOReq`, after the user has the request | `Reply.c:40-67` |
| `restart` | add the next request of the endpoint's queue | `Restart_EndPoint.c` |
| `drain` | answer the next request of a queue at a chip restart | `HCD__myHandle_Reset.c` |

The hooks of the controller drivers are atomic here. What the stack sees of
them is `BuildErrs` (X_Build answers at once), `Complete` (an event, with its
code) and `LateErrors` (EHCI and OHCI report the error in X_Length, XHCI in the
event).

`UserPreempts` says whether users run while the HCD task does. The task's
priority is one below the master's and above that of ordinary tasks
(`Controllers_Start.c:65-68`), so both happen.

### TaskControl

The processes are the application (ROMInit, ROMExit), the Master, the HCD task,
the root hub's driver and class drivers, each at a label `pc`. A TaskNode has
its locks, its parent and whether the Master's list has it; messages to the
Master are `queue`, those it keeps until a task ends are `kept`. A step goes
from one wait, or one statement that another task can fall between, to the
next. The two semaphores a caller may own while it waits for the Master are
`bind` and `fdriver`.

### ObjectLocks

`st` and `locks` of the objects of one function, from the HCD node to the
endpoint of an interface. The clients are the initialising task and drivers; what a client's
register points to is `has`. Requests go through the begin port and the HCD
task, whose promptness is a choice: `prompt` is TRUE if nothing keeps it from
its ports while lower priorities run, which is what its priority gives it as
long as it waits for no semaphore. BeginIO() is two steps, its test of fkt_Detach
and fkt_FreeMe (`Send`) and its PutMsg (`Put`), for it holds nothing between them:
`overtaken` are the requests that went in after the function had been taken out of
use. The release of a function stops what its endpoints have in hand (`StopServed`)
and waits for it. The functions X_Lock, X_Unlock, X_Valid and X_Free of each kind
of object are operators over that state.

### Hub and RootPorts

`Hub` has several hubs and their ports, with devices numbered as they are
plugged in. A driver sends one request at a time (`pc`, `at`, `stage`), so a
step is a request with what follows it until the next one; the world plugs,
unplugs and makes requests fail between any two. `Port_Chg` is in its steps:
status read, change bit cleared, function removed, function added with its
retries (`HUB__Port_FAdd_Retry`), through the stages of FUNCTION_INIT. The root
hub's interrupt request waits in a list (`req`, `sig`, Handle_Read.c,
Handle_Change.c). A driver that stops frees its functions, then (`Free`) its
interrupt request, with AbortIO() and WaitIO(): the abort answers a request on the
bus (`AbortRequest`), but not one that is listed with the root hub. Two facts are
kept beside the code's state because the properties need them: `missed` says of a
port that its driver has left it as it found it for a failed request (`kept`),
given it up after all repetitions (`failed`), or cleared the bit of a device it had
not seen (`lost`); `mixed` that one SET_ADDRESS has reached the devices of two
drivers.

`RootPorts` is one port's register, with the read-modify-write of each
Port_*() function of each host driver: what is written back is a set of ones,
and what a one does differs by controller. The hardware may change the register
between the read and the write.

### XHCIRing

One ring; a TRB is an array slot with its cycle bit in an array of its own. The
producer writes a TRB in two stores, the body and then the word with the cycle
bit (`WriteBody`, `WriteControl`), and the link TRB in a third (`WriteLink`).
The controller (`Run`, `FollowLink`, `Halt`) is concurrent with each of them.
`Remove` and `Flush` are `X_Remove` on a transfer that is not complete: Stop
Endpoint, then Set TR Dequeue to the producer's place with the producer's cycle.
"Stopped" events are left out: the aborted request is no longer in the active
list when the event is read, so that the handler finds nobody for it. `MCXHCI`
has two rings: a bulk ring (all of the above) and a control ring (`K`), which is
not flushed and may leave a Setup TRB behind for lack of memory. `MaxLeft` bounds
the TRBs on the ring when one is left; it is a bound of the model (see "Seen while
modelling").

### XHCICommandRing

Both rings with their cycle bits, indices, wraps and the link TRB, and ERDP.
`SendCommand` is `XHCI_Cmd_Enqueue()` up to the first poll of
`XHCI_Cmd_Wait()`, `ReadEvent` one turn of the loop in `XHCI_Handler_HCD()`,
`PollEnds` its end, `GiveUp` the five seconds. A command that was given up may
still be answered (`Slow`): `alone` says of the last command that no answer was to
come when it was sent, `RingNotFull` keeps the unanswered ones fewer than the ring
holds, which are 255 in the code. One wait at a time: that two may be nested is the
subject of `XHCISlots`. `Restart` is what Chip_Init does to the memory and the
registers, and what it leaves alone.

### XHCISlots

`function` is what the hub driver has under an address, `byAddress` and `slots`
the driver's tables, `hw` the controller's slots. The HCD task is at most in two
waits: `call`, the command of a request, and `drain`, the Disable Slot of a
deferred disposal inside it. `result` is the one `CmdResult` both read; `alone` is
what it is in `XHCICommandRing`, and that no Disable Slot was sent inside the wait;
`MaxLate` bounds the completions outstanding when a new request begins. The
abort of a transfer is there because it too waits for commands (`stop`,
`flush`) while devices go.

### XHCIReset, HostSetup and MemoryPool

`XHCIReset` follows `Chip_1_Reset.c` register by register; what the device can
do (power management, FLR, a bridge above it with or without a PCIe capability)
and when its bits change is left to it. `HostSetup` lists, for each driver, what
is allocated and what is freed, in the code's order; any allocation may fail,
the chip runs and interrupts meanwhile, and a host system error restarts it. A
restart goes on whatever fails (`HCD__myHandle_Reset.c:106-147`): `halfmade` says
that the last Chip_Init() did, and the label `trap` is where EHCI's Chip_Start()
follows the pointer that is then missing (`Chip_4_Start.c:113`).
`MemoryPool` has the free list of an aligned pool with the physical address
that each free node holds, and the counters of a pool that is not aligned.

### HostSchedule, EHCITransfer and OHCITransfer

`HostSchedule` has the links as the processor writes and the controller reads
them: per list, the element it is at and the link it has read. Linking and
unlinking, the door bell with its 100 ms, the stop of the periodic schedule and
OHCI's list-filled flags are steps of the HCD task (`op`). `EHCITransfer` and
`OHCITransfer` have one endpoint: the chain of TDs that `X_Build` makes, a
controller and a device that move packets with toggles, and the check that may
come between any two packets, because any interrupt makes the HCD look at all
transfers.

### MSDDevice and MSDTransfer

`MSDDevice` has a task per device, a disk per logical unit and the unit table;
clients open, send, watch and close at any time. Only the unit table is under a
semaphore: the task detaches and counts openers without it, so that Open() is two
steps (`Open`, its tests; `Opened`, its count), and a new disk can be opened before
it is announced and listed (`Place`, `Announce`, `List`). `late` is kept of a client
that was counted when the task had looked for the last time. What a command does to the
medium is in `MSDTransfer`: the loops that cut a request into SCSI commands, and
`MSD_Disk_DoBulk()` with its command, data and status phases, three tries and
recovery, against a device that keeps the state the bulk-only transport gives
it. The bus may lose each transfer, or deliver it late.

## The runs

A run's properties are named after what they are about; most are conjunctions
of named parts, each with its comment in the module.

| Run | Asks | Bounds |
|---|---|---|
| `core` | with users, stalls, time-outs and an abort interleaved step by step: `OneHolder` (no request lost or held twice), `Placement` (lists and states agree), `WorkIsSeen` (`NoStrandedQueue`: a queue always has somebody to move it on; `NoLostWakeup`: no message waits without its signal), `ActiveCount` (`fkt_ActiveIOReq` counts the requests begun and not finished), `StallHolds` (`StallFlushesQueue`, `UnstalledByDevice`) | two bulk requests with time-outs and a Clear_Feature, one abort message; symmetric in the bulk requests |
| `order` | `ImplementsContract`: the stack is an `EndpointContract`; `HardwareAgrees`: one transfer per endpoint on the hardware, timers only for those | three bulk requests, retries, failed builds, one time-out, one abort, unplug, chip restarts |
| `answered` | liveness: `TimedAnswered`, `AbortAnswered` | two bulk requests, one with a time-out, one Clear_Feature, one abort, the tick |
| `task_control` | `NodesKept` (`LocksExact`, `NodeOutlivesUse`), `OwnersLast` (`CounterExact`, `OwnerLast`, `MasterLast`), and liveness: `TasksEnd` (`StopsEnd`, `ShutdownEnds`) | the HCD task, the root hub's driver, one class driver; creations and start-ups fail; stops overtake starts; DOS comes up late |
| `object_locks` | `LocksAgree` (`LocksExact`, `ClaimsAgree`), `KeptWhileServed` (`RequestsKept`, `AddressHeld`), and liveness: `Freeing` | one function with one configuration and interface, a driver of the function and one of the interface, three requests |
| `hub` | `ChangesSeen` (`NoLostChange`, `PortAgrees`), `OneDevice` (`AddressesUnique`, `RightDevice`), and liveness: `Enumerated`, `HubEnds` | a root hub and a hub on the bus, a port each; two plug-ins and no failed request, or one and two failed requests; three repetitions, three addresses |
| `xhci` | rings: `RingInvariant`, `OwnEvents`, `RunsInOrder`, `TransfersKeptApart` (`RunsOwn`, `ConsumedWhenCompleted`, and the control ring's `RunsInOrder` and `OwnEvents`); commands: `RingsExact` (`EventsOnce`, `CommandsOnce`, `Answered`), `OwnAnswer` (of the slots too); slots: `SlotsAgree` (`AddressOfDevice`, `FreedUnused`, `NoSlotLeaked`); `ResetIsSound` (`ResetIsTrue`, `ConfigKept`, `NoBlindWrite`, `BridgesFreed`); `PoolIsSound` (`OneOwner`, `AddressTrue`, `CountersExact`, `PagesReturned`); liveness: `NothingHangs` (`TransferEnds`, `WaitEnds`, `EventsRead`, `SlotComesFree`) | bulk ring of four slots and the link, transfers of one to three TRBs, six of them; control ring of eight, six transfers, five Setup TRBs left at most before one more transfer; four commands and three events a lap, eight commands, four other events, a controller that is late; two slots, two addresses; three bridges; three pages of two nodes, one at address 0 |
| `host` | `HeldNotFreed`, `ListsAgree` (`Scheduled`, `BandwidthExact`, `BandwidthLimit`); `SetupIsSound` (`NothingLeft`, `MemoryBehindChip`, `SignalsBehindServer`, `WaitsWithPort`); `TransfersAreSound` (`MemoryFreed`, `EndIsFound`, `ControlToggles`); `AnswersAreTrue` (`NothingLost`, `ToggleAgrees`, `ZeroPacketTaken`, `QuietWhenFinished`, `DataErrorsReported`); `PortIsSound` (`WritesAreExact`, `AddedAfterReset`); liveness: `HostRests` | two requests in a schedule of three slots, one restart; every failure of the set-up, two restarts; two transfers of up to three packets or two TDs; three events at a port, one request of somebody else |
| `msd` | `UnitsAgree` (`UnitsLead`, `FreedUnused`, `NoRequestLost`, `WatchersTold`); `DataIsRight` (`ReadIsRight`, `WriteIsRight`, `InsideTheDisk`); `TransportIsSound` (`OnlyItsBlocks`, `StatusIsTheDevices`, `OneFaultIsSurvived`); `DriverEnds` (`DenouncedBeforeReuse`, `StoppingEnds`, `AlwaysAnswers`) | two devices, one with two units, two unit numbers, one client with two calls; disks of one, three and five blocks with block numbers of two bits, two requests of up to two blocks, two lost transfers |

Why the bounds are enough. The transfer core treats requests alike but for
their endpoint, time-out and setup packet; what can go wrong involves the
request on the hardware, one behind it, and the one that un-stalls the pipe, and
each is there; a third in line (`order`) makes order visible. Retries, aborts and
restarts are repeated as often as requests are sent, which is unbounded; only
the length of the abort port is bounded. The code's retry limit is
given as it is (three). The rings wrap several times in every run: a lap is
two to four slots, so that every alignment of a transfer or event with
the wrap occurs. One slot more than devices can use makes Enable Slot fail for
want of one and an address be reused.

In `task_control` a class driver's end and a new one's start overlap only
through the counters, so one is enough to have each race of a start, a stop, an
end and the sweep; the three tasks are one of each kind of owner. In
`object_locks` the two drivers are of the two kinds that claim against each
other, and the control endpoint is shared. In `hub` the two hubs are what it
takes to have two devices at address 0, and three addresses for two devices and
a hub let one be reused while the removed one still has its own. Failures
that meet a second device are beyond five minutes: `Bounded` allows two plug-ins, or
one and as many failures as there are repetitions but one; `ChangesSeen` and
`OneDevice` are proved for any number of both. In `answered` the
request with a time-out is before or behind the one without, and either may be
aborted. In `xhci` four commands on a ring are room for two unanswered ones and a
third. In `host` a
transfer of six bytes is three packets and two TDs, so that there is a TD inside
the chain, a short one and a full one; in `msd` the disk of five blocks is larger than block numbers name, and a
request of two blocks is two commands.

The other runs expect a violation; each shows one place where the code does
not do what it says. "findings" in `PROJECT.json` quotes the lines.

| Run | Shows |
|---|---|
| `retry` | The retry count is set back by each retry (`Add_Request.c:75`), and each attempt stops the timer of the one before: a request with a time-out to a device that always answers with a transaction error never comes back (EHCI, OHCI). |
| `phys0` | The xHCI driver frees its nodes with physical address 0; the pool keeps it, and the next owner takes it for its own (`Memory/Free.c:81`, `XHCI_Slot.c:57`). |
| `msd_openers` | When one logical unit does not start, all disks of the device are freed, though the first may be open (`MSD_1_Device_Alloc.c:195`). |

### Constants whose other value breaks properties

Some properties hold only for one value of a constant that describes the code's
surroundings. The runs that pass use that value; what happens otherwise:

- `RetryBuildFails` (TRUE when memory runs out at a retry): the result of the
  HCD_ADD_REQUEST() in `Transfer_Check.c:108` is ignored, the request is lost;
  `OneHolder` fails.
- `LateErrors` (TRUE for EHCI and OHCI): `Transfer_Remove.c:72` looks at
  `io_Error` before X_Length has set it, so that a refused Clear_Feature
  un-stalls the pipe (`UnstalledByDevice`); and see `retry`.
- `Flushes` (FALSE for control endpoints): a control transfer that is given up
  stays on the ring (`Control_Remove.c:16`). A control request that is aborted
  may so be completed by its predecessor's event.
- `Slow` (TRUE if the controller may take longer than five seconds for a
  command): nothing compares `CmdResult_Param` with the command sent, so that
  the late completion answers the next wait. `OwnAnswer` and `RingsExact` are
  checked and proved with it, `alone` being the case; a wait may then be
  given up, of a controller that goes on.
- `DriversEndEarly` (TRUE when a class driver ends before the binder has linked
  its TaskNode): the binder locks a node that the sweep has freed
  (`Bind_Check_for_Function.c:169`); `NodesKept` fails.
- `TakenToo` (TRUE when the mounter asks for a unit number in use): ChangeUnit
  moves the disk onto it, and the unit table leads to the wrong disk;
  `UnitsAgree` fails.
- `Careless`, an operator in `RootPorts`: the writes that do more than they are asked
  to, the end of EHCI's port reset and OHCI's set-enable, set-suspend and set-power;
  `WritesAreExact` excepts them.
- `Careless`, a constant of `MemoryPool`: owners that free with address 0;
  `AddressTrue` and `PagesReturned` except their nodes, see `phys0`.
- `prompt` FALSE in `ObjectLocks`: a request in the begin port has the state of
  one that its user has, so IORequest_Free() frees it there
  (`IORequest/Free.c:75`), and a function whose only request waits in the port
  gives up its address (`Function/Free.c:320`).

Other exceptions are no constants, but states that a property names:

- `overlapped` in `XHCISlots`: a device of another hub has gone while the HCD task
  waited for a command (the task holds the locks of its own function only). Disable
  Slot, sent for it in the middle of that wait, answers the wait
  (`XHCI_Handler_HCD.c:86`, `XHCI_Command_Ring.c:101`). `SlotsAgree` and
  `SlotComesFree` claim nothing from then on; `OwnAnswer` goes on and excepts the
  wait (`alone`), and `WaitEnds` excepts nothing.
- `overtaken` in `ObjectLocks`: a request that BeginIO() has tested while its
  function was in use, and put in the begin port when the function had been given
  up, is served without an address; if it was unplugged, the HCD task refuses it.
- `lost` in `Hub`: `HUB__Port_Chg()` reads the port status (line 70), clears the
  change bit (93) and acts on the status it has read (117); a device plugged in
  between leaves neither a change nor a function. `ChangesSeen` and `Enumerated`
  except that device, and nothing else that happens at a port in hand.
- `Parked` in `Hub` and `TaskControl`: the root hub's driver, when it stops, waits
  for an interrupt request that AbortIO() passes over (`Handle_Change.c:27-45`).
  `HubEnds` and `TasksEnd` claim that it ends unless it waits so for ever, that is
  unless no port of the root hub changes any more; what waits for it (the HCD task,
  the shutdown) likewise.
- `BehindUntimed` in `HCDTransfer`: a request's timer is sent when it reaches the
  hardware (`Add_Request.c:219`), so its time-out does not run while it is queued behind
  one that has none.
- `halfmade` in `HostSetup`: a restart whose Chip_Init() failed is only logged, and
  starts the chip without the memory (`HCD__myHandle_Reset.c:131-147`).
- `Late` in `MSDDevice`: Open() tests `msddev_Detached` and counts itself (lines 44 and
  65) with a semaphore that the task takes neither to detach
  (`MSD_2_Disk_Detach.c:74,104`) nor to look at the counters
  (`MSD_Main_2_Stopping.c:31`): an Open() between its test and its count has a disk open
  that is freed, though `MSD_1_Device_Free.c:38-39` says that no new opens can reach it.
- `OneBlockWraps` in `MSDTransfer`: a medium of one block is told to have 2^32
  (`_cmd_001C_HD_ScsiCmd.c:46`).

### Seen while modelling, not among the runs

Transfer core:

- After a chip restart `mask = 0` (`HCD_2_Main_1_Normal.c:49`) drops the other
  signals of the same Wait(), and messages in the other ports wait for the next
  one: `NoLostWakeup` is checked without restarts.
- AbortIO() of a request that is still in the begin port is dropped
  (`_man_AbortIO.c:91`): the model has it, `AbortAnswered` does not ask for it.
- The abort message carries the request, not the submission: one that is read
  late aborts the next submission of the same request
  (`HCD__myHandle_Abort.c:120`).
- `Reply.c:39-67` writes the request's state after ReplyMsg(); between the two
  the user may not yet send it again, for BeginIO() refuses it.
- `HCD_2_Main_1_Normal.c:113` says CTRL_C is ignored, and the loop ends at 115.
- A request of an unplugged device that was queued goes to the hardware
  (`Restart_EndPoint.c:52`): only the begin port looks at `fkt_Detach`.
- The loop over the begin port ends only when it is empty
  (`HCD__myHandle_Begin.c:40`).

xHCI:

- A Disable Slot that answers the wait for Enable Slot (`overlapped`) leaves its own
  slot in `CmdResult_SlotID`: `XHCI_Cmd_EnableSlot()` returns the slot that has just been
  disabled (`XHCI_Command_Ring.c:165`), and the one that was enabled belongs to nobody
  (TLC: 17 states, two slots and two addresses).
- A control request that finds no memory for its data leaves its Setup TRB on the
  ring, without a doorbell (`Control_Build.c:273`, `290`), and nobody asks whether
  the ring has room: with as many of them in a row as the ring has slots, the next
  transfer overwrites TRBs that the controller has still to run, and `RunsInOrder`
  of the control ring fails (TLC: seven requests on a ring of eight). `MaxLeft`
  keeps the model short of it.
- `Bulk_Remove.c:18` leaves a halted endpoint and its TRBs as they are;
  `ROADMAP.md:40-42` names the missing Reset Endpoint.
- After a chip restart the driver's places on the command and event rings are
  not set back (`Chip_3_Init.c:43`, `Chip_2_Alloc.c:77`), the controller's are:
  `Restart` models it, and the properties of `XHCICommandRing` end there.
- A chip restart clears the slot tables of the controller and leaves `Slots[]`
  (`Chip_3_Init.c:31`): slots of devices that were there are lost.
- The base addresses are not saved for the way through D3; a device that loses
  them stays lost, for later resets save the loss (`ConfigKept`).

EHCI, OHCI:

- A restart of the EHCI chip leaves `BandWidth[]` as it was: the endpoints
  linked before count for ever (`lost` in `HostSchedule`).
- A door bell that is not answered in 100 ms is given up, and the queue head is
  freed all the same; OHCI asks for asynchronous EDs only by waiting 3 ms
  (`unsafe`).
- The EHCI length functions leave out the status stage of a control transfer and
  all TDs behind a short one (`ShortInside`); the overlay's toggle is saved even
  if the transfer was never loaded (`ToggleAgrees`).
- OHCI's check takes any TD of less than 8 KB that is done for the end of the
  transfer, and `Bulk_Length` skips the first TD though it holds data: a bulk
  read of one TD is answered with 0 bytes.

Tasks, hubs, mass storage:

- TASK_STOP_FN() waits for the Master while it owns `usb_Bind_Semaphore`, and the
  Master obtains that semaphore in its sweep (`Stop_FN.c:32`,
  `Master__Free_TNs.c`): `Embraced` in `TaskControl` names the state, and
  `TasksEnd` excepts it, with a TaskNode that failed to become a task (`Leaked`)
  and a task that forgets who waits for its end (`Forgotten`).
- TD_REMCHANGEINT takes a request out of whatever list it is in, without asking
  whether it is in one.
- A port that is given up stays enabled: when every one of the five repetitions
  fails after SET_ADDRESS (`HUB__Port_Function_Add.c:117`, bailout of
  `HUB__Port_Function_Add3.c`), the function is freed and its address released, and
  the device goes on answering there, with the next function that gets the
  address. `OneDevice` names such ports (`Missed`).
- The addresses of two hubs' devices meet at address 0
  (`HUB__Port_Function_SetAddr.c:100`), and nothing keeps the hubs' tasks from
  being there together: one SET_ADDRESS can give both devices one address. `mixed` is
  the state after that (TLC: two devices, 25 states), and `PortAgrees` and
  `RightDevice` claim nothing there. The driver that comes second finds nobody at
  address 0 and repeats, unless a third device is there.
- When a PORT_CLR_RESET request fails the reset's change bit stays, and the hub
  reports the port again with each interrupt request until another reset of it.
- `msddisk_TotalBlocks` is the number of the last block, not of blocks
  (`MSD_2_Disk_Alloc.c:136`), so the last block of a disk is never reached, and READ
  CAPACITY tells one block less again; of a medium of one block, 0xFFFFFFFF as its last.
- NSCMD_DEVICEQUERY names TD_WRITE64 and NSCMD_TD_WRITE64 among the commands
  (`_cmd_4000_NSCmd_DeviceQuery.c:51,70`), and BeginIO() refuses both
  (`_man_BeginIO.c:59`): `Served` in `MSDTransfer`.

## Fairness

- `HCDTransfer`: weak fairness of the HCD task's steps as a whole (it is
  scheduled, and the signals it waits for are kept until it does), of the
  timers (timer.device fires what was sent to it), and of a user who has passed
  AbortIO()'s test and goes on to PutMsg(), strongly, since its step is disabled
  while the task runs in instances without `UserPreempts`. `answered` is such an
  instance: the loops over the ports end only when a port is empty, and a user
  of the same priority that sent without pause would keep the task in them. The
  device and the controller owe nothing: a transfer may never complete.
- `TaskControl`: each task runs when it can, the timer is fair, and a driver
  whose device is gone ends. Nobody makes devices come or go, a port of the root
  hub change, or the application close the device.
- `ObjectLocks`: the hub's task, the HCD task and the Master run, who is in
  BeginIO() leaves it, and a driver
  of an unplugged function closes, as TASK_STOP_FN() tells it to.
- `Hub`: each hub's task runs, the bus answers its request, and the HCD task
  handles the root hub's. Nothing makes a device come or go, a port change, or a
  driver stop.
- `XHCIRing`: the producer goes on, events are read, and a controller whose
  endpoint runs takes the TRBs it sees. The users owe nothing.
- `XHCICommandRing`, `XHCISlots`: the HCD task goes on polling, which is bounded
  in the code by 5000 turns of a millisecond, and a controller that is not
  halted runs the commands it sees. Detaching, plugging, halting and other
  events are not fair.
- `HostSchedule`: the HCD task goes on, the controller walks its lists, timers
  fire; nobody answers a door bell. `HostSetup`, `RootPorts`: the HCD task and
  the hub's driver go on; the hardware owes nothing. `XHCIReset`,
  `EHCITransfer`, `OHCITransfer`, `MemoryPool`: none.
- `MSDDevice`: the device tasks run, and who is in Open() or Close() leaves it.
  `MSDTransfer`: the task's steps happen, for each transfer has a time-out.

A module's fairness is stated for the sum modules once more, each part under its
`which`.

## What is proved

For every number of requests, endpoints, TRBs, transfers, drivers, devices and
clients that the named ASSUMEs of the modules allow:

| Theorem | Says |
|---|---|
| `PlacementInvariant` (with `TypeCorrect`) | `Spec => []Placement` |
| `HardwareAgreesAlways` | `Spec => []HardwareAgrees` |
| `OneHolderAlways` | `Spec => []OneHolder`, assuming `~ RetryBuildFails` |
| `ActiveCountAlways` | `Spec => []ActiveCount`, assuming `~ RetryBuildFails` |
| `NoQueueStranded` | `Spec => []NoStrandedQueue`, assuming `~ RetryBuildFails` |
| `WorkIsSeenAlways` | `Spec => []WorkIsSeen`, assuming `~ RetryBuildFails` and `~ CanReset` |
| `StallHoldsAlways` | `Spec => StallHolds`, assuming `~ RetryBuildFails` and `~ LateErrors` |
| `ImplementsContractAlways` | `Spec => ImplementsContract`, assuming `~ RetryBuildFails` |
| `RingInvariantAlways` | `Spec => []RingInvariant`, assuming `Flushes` |
| `OwnEventsAlways`, `RunsInOrderAlways`, `RunsOwnAlways` | the ring's properties, assuming `Flushes` |
| `OwnAnswerAlways` | `MCSpec => []OwnAnswer` of `MCXHCI`, whatever `Slow` is |
| `RingsExactAlways` | `MCSpec => RingsExact` of `MCXHCI`, likewise |
| `TransfersKeptApartAlways` | `MCSpec => TransfersKeptApart` of `MCXHCI`, assuming `Flushes` |
| `SlotsAgreeAlways` | `MCSpec => []SlotsAgree` of `MCXHCI` |
| `ResetIsSoundAlways`, `PoolIsSoundAlways` | `MCSpec => []ResetIsSound` and `MCSpec => []PoolIsSound` of `MCXHCI` |
| `SetupIsSoundAlways`, `PortIsSoundAlways`, `TransfersAreSoundAlways` | `MCSpec => []SetupIsSound`, `MCSpec => PortIsSound` and `MCSpec => []TransfersAreSound` of `MCHost` |
| `TaskInvariantAlways`, `NodesKeptAlways`, `OwnersLastAlways` | `Spec => []TaskInvariant`, `Spec => []NodesKept` and `Spec => []OwnersLast` of `TaskControl`, assuming `~ DriversEndEarly` |
| `LocksAgreeAlways`, `KeptWhileServedAlways` | `Spec => []LocksAgree` and `Spec => []KeptWhileServed` of `ObjectLocks` |
| `HubInvariantAlways`, `ChangesSeenAlways`, `OneDeviceAlways` | `Spec => []HubInvariant`, `Spec => []ChangesSeen` and `Spec => []OneDevice` of `Hub` |
| `UnitsAgreeAlways` | `Spec => []UnitsAgree` of `MSDDevice`, assuming `~ TakenToo` |
| `DataIsRightAlways`, `TransportIsSoundAlways` | `MCSpec => []DataIsRight` and `MCSpec => TransportIsSound` of `MCMSD`, assuming `MaxFaults < TagLimit` |

Each hypothesis is a value of a constant that the runs use too, and "Constants
whose other value breaks properties" says what the code does otherwise: none is
there for the proof's sake. (`MaxFaults < TagLimit`: see "The transfers of a disk". `CanReset`: `mask = 0` after a chip restart drops the signals of the round, see
"Seen while modelling", so that `NoLostWakeup` holds only where there is none;
`NoQueueStranded` holds with them.) `KeptWhileServed`
names its own condition, `prompt`.

### The transfer core

`Placement` is inductive as it stands. Its parts say where a request can be and
what its state is there: on the active list (`ActivePlace`), in an endpoint's
queue (`QueuePlace`), in the begin port (`BeginPlace`), in the hand of the task
(`JobPlace`). Each is needed for the others: that AbortIO() of a queued request
removes just that one needs queues without repetition, and those need that a
request on its way from the begin port is in no queue. `HardwareAgrees` follows.

`OneHolder` says in addition that a request of the stack is *somewhere*
(`NoneLost`). That a retry is not lost needs that its pipe is not stalled
(`StallPlace`): a stalled pipe would answer it, with the retry's result ignored.
`Kept` is the conjunction. The lemmas are one per action, most with one step per
part; `QueueLemmas` has what Append, Tail and the removal of one element do to
the elements of a queue without repetition.

`Working` adds to `Kept` that `fkt_ActiveIOReq` is the cardinality of a finite
set of requests and that no queue is stranded. The two belong together with
`NoneLost`: the request that keeps the queue going is one that is counted. Each
action changes the set by one request or by none, and the lemma of the action
names that one. `Seen` adds to `NoLostWakeup` where the task is in its round
(`StagePlace`): the stage it is in has its bit in the mask, it sleeps only with
the whole mask served, and what arrives behind its back raises a signal that the
next round sees. `StallKept` says that an event is known only of a transfer on the
hardware, and that the error it has is the request's (`EventPlace`), so that a
pipe is un-stalled by an answer of the device alone.

`ImplementsContract` is a refinement, proved step by step. The line of an endpoint
in the contract is the request on its way to the hardware, the one that
`ep_Request_Active` names, and the queue, in this order (`LineOf`); `Good` adds to
`Working` that the first two are never both there, and that a request with the
error of an abort is its user's or just being answered (`ContractKept`). Each
action of the core is then a step of `EndpointContract` for one endpoint, or
changes none of its variables.

### Tasks and their nodes

The two properties count: who holds a TaskNode, and which nodes and tasks an owner
waits for. Neither is inductive, for a step that answers a caller is right only if
the caller waits for that answer, about that task. `TaskInvariant`, at the end of
`TaskControl`, says where everybody is:

- `NodePlace(t)`: the state of a node tells where its task is, and a task that has
  to answer its starter is waited for by it (`ToAnswer`);
- `LockPlace(t)`: the locks are the sum `LockSum(t)`, which is `References(t)` with
  the callers named: only `Starter(t)` can wait for a start of t, only `Stopper(t)`
  for a stop (`ReferencesAre`);
- `QueuePlace`, `StartPlace(p)`, `StopPlace(p)`: a caller has at most one command in
  the Master's port, and none when it has its answer; one that stops a driver has
  `usb_Bind_Semaphore` and a DriverNode that stays listed until it lets go;
- `BinderPlace(d)`, `DriverPlace(d)`: a DriverNode is its binder's until it is listed
  or dropped, its driver and the one that stops it lock it, and the TaskNode is not
  freed before it;
- `HUBPlace`, `HCDPlace`, `AppPlace`, `MasterPlace`: the order in which the owners end.

`DriversEndEarly` matters in `BinderPlace`: a driver whose binder is to link or to
list it has not ended. There is one lemma per action. Most steps concern one task
and one caller, and `Whole` disposes of the others (`Apart`, `SameWith`); the three
that go over all nodes at once, the sweep, the Master's promotion and the end of
kept messages, have `ManyNodes`. In the sweep the argument is the sum again: the
DriverNode freed takes its lock along (`SweptFacts`), a TaskNode without locks is
referred to by nothing, and so is not the one that a caller still waits about. The
theorems are about `Spec`, without fairness, and so about the `LiveSpec` of the run.

### The rings of xHCI

`RingInvariant` puts the producer and the controller on one lap or on two that
follow each other: `ProducerLap` determines every cycle bit from the enqueue
index, `ControllerLap` which TRBs lie between the two, `OneTransfer` that they
all belong to the transfer in progress and that it fits. The controller takes a
slot of the ring if and only if its cycle bit is the one expected; the two
first parts show that this is so exactly for the slots between the two indices.
`1 <= MaxTRBs <= Size - 2` is used there, and one more would be too many.

The control ring has an invariant of its own, `ControlInvariant`: what the controller
has still to run is here the TRBs of the one transfer and, before them, Setup TRBs
of requests that were given up, so that a TRB need not belong to the transfer that has
the endpoint. What is kept is that the last TRB of a TD does (`SetupsLeft`), for only
such a one makes an event; and that all of it fits the ring, which is where
`MaxLeft + MaxTRBs <= Size - 2` is used.

`CommandsInvariant` says the same of the two rings of `XHCICommandRing`, until the
chip is restarted: `CommandBits` and `CommandLap` of the command ring, `EventBits` and
`EventLap` of the event ring, where the controller is the producer and ERDP, which
the task writes late, keeps it from overtaking. The controller may be any number of
commands behind, short of a lap: the commands it has still to run are those in the
slots between (`CommandBits`), and they are run in order. `AnswerComes` says that who waits has
an answer still to come, so that nobody gives up but on a controller that is late
(`Answered`). `OneAnswer` is the invariant of a command sent while no answer was to
come (`alone`): it is on its way to the controller, or exactly one of the
unread events is its completion, or the task has its result. After a restart the types are
all that is claimed, as in the properties.

The proofs about the modules of xHCI are in `MCXHCI_proofs`. There, as in
`MCHost_proofs`, a module's invariant is first shown of its own actions; the run's
specification leaves all modules but one as they are (`OneModuleSteps`), so that
each theorem about a module becomes one about `MCSpec`.

### The slots, the reset and the pools of xHCI

`OwnAnswer` has an invariant of its own, `overlapped` or not: a command sent
`alone` is in exactly one place (`AloneAnswered`), in the command ring, in the event
ring as its completion, in `result`, or lost by a controller that has halted; a
function that goes meanwhile leaves its Disable Slot pending, and one that is sent
inside the wait ends `alone`.

`SlotsInvariant` holds until `overlapped` and says more. A wait never begins while another lasts
(`OneWait`), so the command `Awaited` is in one place (`OnePlace`). What a completion
can say (`AnswerFits`) is what the controller has done to the slot, and nothing
else touches that slot meanwhile. `SlotOwned` then follows slot by slot: a used slot
has an address, or is the one that is getting it or the one being drained; one that
the controller has enabled without the driver's knowledge is in the answer under
way. Once `overlapped`, it is `OnePlace` that fails first.

`ResetInvariant` follows the reset's program counter: what may have become of the
configuration (`ConfigByPC`), of the chip (`ChipByPC`) and of the bridge
(`BridgeByPC`) at each step and tier. The base addresses can be lost on the way
through D3 only (`MayBeLost`), and what is written blindly is written after they
were lost for good (`BlindForGood`).

`PoolInvariant` says that the free list and the owners' nodes are disjoint, without
repetition, and together all nodes of all pages (`Owners`), and that a free node
says its own address or was freed with address 0. Once nodes have been freed so, a
page may count more free nodes than it has (`Counted`), never less, so that it is
not given back while a node of it is in use. The counter of the pool that is not
aligned is the cardinality of a set of pairs (`PlainNodes`).

### The host drivers' set-up, ports and transfers

`SetupInvariant` says what has been allocated at each step of the start
(`HaveByPC`): exactly the steps before it; and that the chip and the interrupt
server are at rest wherever memory comes and goes, but for a chip that did not stop
when told to. A restart keeps what the start made and may lack part of what Chip_Init()
makes (`halfmade`); from there `main` and the stop know only what was allocated
before it.

`PortsInvariant` ties each write to the read before it. `WriteFits` says what a write
may have among its ones whatever the hardware has done since the read; `ThisReset`
that a reset's end that the hub's driver sees is the end of its own reset. An
attempt to prove `PortIsSound` with OHCI's power function among the careful writes
failed: it writes back the whole register with one bit set
(`Port_Set_Power.c:71-78`), change bits included. The run, with one
request of somebody else, does not reach a write that loses a change so;
`Careless` now names it.

The invariants of the transfers say, for EHCI, that the overlay is the TD it was
loaded from (`OverlayFits`) and that a transfer under way has all the memory of its
chain (`MemoryHeld`), to the number of its pieces; for OHCI, how far the head has come
(`HeadFits`) and which toggle is next (`ControlFits`). How many TDs and packets a
length makes is an argument about quotients (`Quotient`, `Multiples`, `PiecesFit`).
The proof found two places where the model's cases overlapped, so that TLC had
explored one of two: a full last packet of an OHCI TD, and an EHCI device that is
done when the status is asked for. Both are now disjoint, as in the code.

### The objects of a function

`LocksInvariant` is `LocksAgree` with the places of requests and the validity of
objects. `LocksExact` says that the locks of an object are a sum: its children,
requests, holders and claimers. The argument is one of counting: what a step
adds to the locks of an object it adds to exactly one of the sets that refer to
it, and takes away likewise; the lemmas name the set and the element. Unlocking
an object may free it, which unlocks its parent and may free that: the step is
split where the code calls the next X_Unlock. That an object in use has not been
freed follows from the sum: it is then at least one. `ServedInvariant` adds what
`KeptWhileServed` needs beyond it: the HCD task has no request of the function
when its address is given back, if the task is prompt, but for one that was
`overtaken`; of an unplugged function it has not even that.

### Hubs and addresses

`HubInvariant` is a conjunction over hubs and over ports, besides the types,
`AddressPlace` and `NoLostChange`. `DriverPlace(h)` says what the stage a driver is
in tells of what it has in hand: the port is one of its own that has power, and
there is a new function exactly between the address's choice and the end of its
initialisation. `HandledPlace(h)` says what the driver knows of the port it handles,
whatever is plugged there meanwhile: the device it has in hand is the one that is there, or
another has come since and has set the change bit, or the device came where
the bit was about to be cleared, and is in `Missed`. An enabled port is that of the
device in hand. `FunctionPlace(p)` ties the
function of a port to the device in it and to the address the device has taken,
`PortPlace(p)` a device to its power. `AddressPlace` is `AddressesUnique` for the
places a function can be in: a port, the hand, or the list of those to be freed.
It is inductive on the strength of `Obtained` being all of them, and would fail
if a function that waits to be freed had given its address back already.

A request of one driver changes what it has and its own port, and, by
SET_ADDRESS, the address of any device at address 0: `OtherDrivers` and `OtherPorts`
dispose of the rest, and the request that two devices hear is where `mixed` begins.
No bound on plug-ins, failed requests, hubs or addresses is used, and the
hubs need not form a tree. So the theorems hold where the run does not reach: with
failures while two devices are there, and with three devices.

### The units of a disk

`UnitsInvariant` says for each device what the stage of its task tells of its
disks (`TaskPlace`), that a disk that is being freed is used at most by the
client in Close() or one that was `Late` (`LastUse`), and who was told (`Told`); that
what Open() has found is not freed before it is counted, for the free waits for
the semaphore; for each client, that it
has at most one request, which is in the port of the device it has open
(`ClientPlace`, `PortPlace`) and in no list of a freed disk (`ListsEmptied`). The
counter of openers is a cardinality, as above. A step concerns one device, and
`DeviceFrame` disposes of the others. That the port of a task that has gone is
empty is the last step: a request in it would be of a client with a unit open,
which `LastUse` says is in Close(), where it has no request. `~ TakenToo` is used
once, where the mounter changes a number: the new one leads nowhere.

### The transfers of a disk

The status that ends a command is recognised by its tag alone, and a device that has
room for a command while the status of the last one waits may answer for an old one at
any time. So the heart of `TransferInvariant` is `AgesFit`: a command that the device
still has although n later ones were sent has outlived n recoveries, each of which
lost a transfer, for a recovery that loses none empties the device. The tag comes round
after `TagLimit` commands (2^32 - 1 in the code), and so never with
`MaxFaults < TagLimit`: a status with the right tag is that of the command in hand. The
condition is needed, and short of the exact bound by one: with two tags and three lost
transfers TLC finds SCSI_GOOD reported of a command that the device failed, with two
of each it does not. `Lengths` has a largest element, as 32 bits have one.

`DataFits` says then what a device that waits for data, or has the status ready, has done
with the blocks of the command, however often a try began again; `RunFits` where the
loop is among the blocks of the request, and `BlocksDone` that those before it are done.
`FaultsMet` counts: a device that came clean into the request and passed all of it costs a
try only by a fault of its own, so that the third try that fails is the third fault. All of
it is said of a device that is there. Of one that is gone nothing is known, and nothing
is needed: it takes and gives nothing any more, and no status comes from it.

## What is only model-checked

- Liveness (`TimedAnswered`, `AbortAnswered`, `TasksEnd`, `Freeing`, `Enumerated`,
  `HubEnds`, `NothingHangs`, `HostRests`, the liveness parts of `DriverEnds`):
  beyond the prover.
- `HeldNotFreed` and `ListsAgree` of `HostSchedule`: what the controller can still
  reach, and the load of a frame, are recursive functions over a tree of
  interrupt lists whose sizes are powers of two. What such a function computes for
  every tree is an induction over data, which is beyond the prover too.
- `AnswersAreTrue` of `EHCITransfer` and `OHCITransfer`: the length answered is a sum
  over the chain, again a recursive function.

## What is not modelled, and why

`PROJECT.json` says it part by part. Within the parts modelled:

- transfer core: completion of root-hub requests inside BeginIO(), isochronous
  endpoints, data buffers and lengths (they are in `EHCITransfer`,
  `OHCITransfer` and `MSDTransfer`), a nested poll of events inside the hooks;
- xHCI: endpoint contexts, the deferred endpoint stops of
  `XHCI_Drain_Deferred()` (all removes run in the HCD task, which stops at
  once), SuperSpeed ports;
- EHCI, OHCI: isochronous transfers, split transactions, the bit layout of
  descriptors;
- root hub: its descriptors, Get_Configuration, Get_Interface and the status of
  device, interface and endpoint; hub driver: local power and over-current of a
  hub, whose handler only clears the bit;
- objects: parsing descriptors into them, the match of a driver, notifications;
- mass storage: INQUIRY, the motor and protection commands.

Left out as a whole: UHCI (a stub), HID, printer, PTP, Ethernet and joystick
drivers and the programs. They are clients of the stack, not parts of it; what
a client can do to it is in the modules of the stack.

Hazards seen that no property covers: a hub's interrupt data is asked for with
one bit per port, and the hub itself has a bit too, so that port 8 of a hub with
eight is never reported (`HUB_Init.c:146`); an endless supply of requests in the begin port, and a halted
xHCI endpoint (both in `PROJECT.json`).

## Plan

The modules above cover what was planned, and what is left to prove is in "What is
only model-checked". If the code grows: isochronous transfers in `EHCITransfer` and
`OHCITransfer`, SuperSpeed ports in `RootPorts`, and UHCI, once it is more than a
stub, beside the other two in `HostSchedule`.
