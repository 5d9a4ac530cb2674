------------------------------ MODULE HostSetup ------------------------------
(***************************************************************************)
(* How the HCD task sets its controller up, restarts it and takes it down:     *)
(* Stack/HCD/HCD_1_Init*, HCD__myHandle_Reset and HCD_3_Free*, with the         *)
(* Chip_*() functions of the host drivers.  Every allocation may fail; the      *)
(* functions that free test each pointer and clear it, and are called whatever  *)
(* was reached.  Meanwhile the chip works on the memory and interrupts.         *)
(***************************************************************************)
EXTENDS Naturals, Sequences, FiniteSets

CONSTANT MaxRestarts    \* bound: restarts after a host system error

HostSetupAssumption == MaxRestarts \in Nat

Kinds == {"EHCI", "OHCI", "XHCI"}

\* What is allocated, in this order, and what is freed.  Arrays of equal elements have two here.
__Init_1_Misc == <<"Function_Array", "EndPoint_Array", "HUB_Desc", "HUB_Signal", "Restart_Signal",
                   "Abort_Port", "Begin_Port", "Delay_Port", "WatchDog_Port", "Tick_Port">>
__Free_3_Misc == {"Function_Array", "EndPoint_Array", "HUB_Desc", "HUB_Signal", "Restart_Signal",
                  "Abort_Port", "Begin_Port", "Delay_Port", "WatchDog_Port", "Tick_Port"}

EHCI_Chip_Alloc == <<"Signal_EI", "Signal_INT", "Signal_IAA", "FrameList", "FrameList_ISlots", "PortResetChange">>
EHCI_Chip_Init == <<"ISlot0", "ISlot1", "ASync_Head">>
EHCI_Chip_Deinit == {"ASync_Head", "ISlot0", "ISlot1"}
EHCI_Chip_Dealloc == {"PortResetChange", "FrameList_ISlots", "FrameList", "Signal_IAA", "Signal_INT", "Signal_EI"}

\* OHCI makes its heads and the slots of the tree when it allocates, and frees them with Chip_Deinit().
Init_HCCABuffer == <<"HCCA_Table", "EDArray0", "EDArray1">>
OHCI_Chip_Alloc == <<"Signal_WDH", "Ctrl_Head", "Bulk_Head", "Isoc_Head">> \o Init_HCCABuffer
OHCI_Chip_Init == <<>>
OHCI_Chip_Deinit == {"Ctrl_Head", "Bulk_Head", "Isoc_Head", "EDArray0", "EDArray1"}
OHCI_Chip_Dealloc == {"HCCA_Table", "Signal_WDH"}

XHCI_Chip_Alloc == <<"Signal_Event", "Signal_Command", "DCBAA", "CmdRing", "EvtRing", "ERST",
                     "PortResetChange", "Slots">>
XHCI_Chip_Init == <<"ScratchpadArray", "ScratchpadPages", "Page0", "Page1">>
XHCI_Chip_Deinit == {"Page0", "Page1", "ScratchpadPages", "ScratchpadArray"}
XHCI_Chip_Dealloc == {"Slots", "PortResetChange", "ERST", "EvtRing", "CmdRing", "DCBAA", "Signal_Command",
                      "Signal_Event"}

AllocSteps(k) == [EHCI |-> EHCI_Chip_Alloc, OHCI |-> OHCI_Chip_Alloc, XHCI |-> XHCI_Chip_Alloc][k]
InitSteps(k) == [EHCI |-> EHCI_Chip_Init, OHCI |-> OHCI_Chip_Init, XHCI |-> XHCI_Chip_Init][k]
DeinitFrees(k) == [EHCI |-> EHCI_Chip_Deinit, OHCI |-> OHCI_Chip_Deinit, XHCI |-> XHCI_Chip_Deinit][k]
DeallocFrees(k) == [EHCI |-> EHCI_Chip_Dealloc, OHCI |-> OHCI_Chip_Dealloc, XHCI |-> XHCI_Chip_Dealloc][k]

Elements(s) == {s[j] : j \in DOMAIN s}
Everything(k) == Elements(__Init_1_Misc) \cup Elements(AllocSteps(k)) \cup Elements(InitSteps(k))
\* The memory the chip itself reads and writes.
DMA(k) ==
    [ EHCI |-> {"FrameList", "ISlot0", "ISlot1", "ASync_Head"},
      OHCI |-> {"Ctrl_Head", "Bulk_Head", "Isoc_Head", "HCCA_Table", "EDArray0", "EDArray1"},
      XHCI |-> {"DCBAA", "CmdRing", "EvtRing", "ERST", "ScratchpadArray", "Page0", "Page1"} ][k]

VARIABLES
    kind,
    pc, i,      \* the phase of the HCD task, and the step in it
    have,       \* what the pointers point to
    lost,       \* history: overwritten before it was freed
    again,      \* this is a restart, not the start
    preinit,    \* the register offsets are known
    server, callback,  \* the interrupt server and the reset callback are installed
    running,    \* the chip may work on the schedules
    ints,       \* it may interrupt
    restart,    \* the restart signal
    stuck,      \* history: a stop of the chip was not confirmed
    waited,     \* history: HCD_WAIT_MS() was called without its port
    early,      \* history: __Init_1_Misc() has failed
    halfmade,   \* history: the last Chip_Init() has failed
    devices,    \* xHCI: slots the drivers use
    known,      \* those that SlotID_ByAddress leads to
    restarts

vars == <<kind, pc, i, have, lost, again, preinit, server, callback, running, ints, restart, stuck,
          waited, early, halfmade, devices, known, restarts>>
chipVars == <<running, ints, restart, stuck>>
doneVars == <<kind, restarts>>
slotVars == <<devices, known>>
intVars  == <<server, callback>>
historyVars == <<lost, waited, early, halfmade>>

Init ==
    /\ kind \in Kinds /\ pc = "misc" /\ i = 1 /\ have = {} /\ lost = {} /\ again = FALSE
    /\ preinit = FALSE /\ server = FALSE /\ callback = FALSE /\ running = FALSE /\ ints = FALSE
    /\ restart = FALSE /\ stuck = FALSE /\ waited = FALSE /\ early = FALSE
    /\ halfmade = FALSE
    /\ devices = {} /\ known = {} /\ restarts = 0

-----------------------------------------------------------------------------

Go(p) == pc' = p /\ i' = 1

\* One allocation of a phase: it fails, or fills in its pointer.
Allocate(steps, next, failed) ==
    IF i > Len(steps) THEN Go(next) /\ UNCHANGED <<have, lost>>
    ELSE \/ /\ have' = have \cup {steps[i]} /\ pc' = pc /\ i' = i + 1
            /\ lost' = lost \cup ({steps[i]} \cap have)
         \/ Go(failed) /\ UNCHANGED <<have, lost>>

Free(set) == have' = have \ set

\* HCD_WAIT_MS() sends the delay request to its port.
Wait == waited' = (waited \/ "Delay_Port" \notin have)

\* __Init_1_Misc()
Init_Misc ==
    /\ pc = "misc" /\ Allocate(__Init_1_Misc, "preinit", "stop")
    /\ early' = (pc' = "stop")
    /\ UNCHANGED <<doneVars, slotVars, intVars, chipVars, again, preinit, waited, halfmade>>

\* Chip_Preinit() learns the registers and the number of ports; no ports is a failure.
EHCI_Chip_Preinit == Go("reset") \/ Go("stop")
OHCI_Chip_Preinit == Go("reset") \/ Go("stop")
XHCI_Chip_Preinit == Go("reset") \/ Go("stop")
Chip_Preinit ==
    /\ pc = "preinit" /\ preinit' = TRUE
    /\ CASE kind = "EHCI" -> EHCI_Chip_Preinit [] kind = "OHCI" -> OHCI_Chip_Preinit
         [] kind = "XHCI" -> XHCI_Chip_Preinit
    /\ UNCHANGED <<doneVars, slotVars, intVars, chipVars, historyVars, have, again>>

\* EHCI is told to stop and waited for, with at most 20 looks; FALSE if it goes on.
EHCI_Stops(ok, gaveup) ==
    \/ ~running /\ ok /\ UNCHANGED <<running, ints, stuck, waited>>
    \/ running /\ (Wait \/ UNCHANGED waited) /\ ok /\ running' = FALSE /\ UNCHANGED <<ints, stuck>>
    \/ running /\ Wait /\ gaveup /\ stuck' = TRUE /\ UNCHANGED <<running, ints>>
\* OHCI's interrupts are disabled, the lists too.  The answer is wrong in both of the corner
\* cases: TRUE when the chip was never seen suspended, FALSE when it was with the last look.
OHCI_Stops(answer) ==
    /\ answer /\ ints' = FALSE
    /\ \/ running' = FALSE /\ (Wait \/ UNCHANGED waited) /\ UNCHANGED stuck
       \/ running /\ Wait /\ stuck' = TRUE /\ UNCHANGED running
\* xHCI waits before it looks; the answer is always TRUE.
XHCI_Stops(answer) ==
    /\ answer /\ Wait /\ ints' = FALSE
    /\ \/ running' = FALSE /\ UNCHANGED stuck
       \/ running /\ stuck' = TRUE /\ UNCHANGED running

\* Chip_Reset(), of the start and of a restart.  A reset that succeeds stops the chip; a
\* restart goes on after one that failed.
ResetDone == Go(IF again THEN "deinit" ELSE "alloc")
ResetFailed == Go(IF again THEN "deinit" ELSE "stop")
ChipIsReset == ResetDone /\ running' = FALSE /\ ints' = FALSE /\ stuck' = FALSE
\* EHCI stops the chip first; some boards must get their PHY back.
EHCI_Chip_Reset ==
    \/ EHCI_Stops(FALSE, ResetFailed)
    \/ ~running /\ Wait /\ (ChipIsReset \/ (ResetFailed /\ UNCHANGED <<running, ints, stuck>>))
    \/ running /\ Wait
       /\ (ChipIsReset \/ (ResetFailed /\ running' = FALSE /\ UNCHANGED <<ints, stuck>>))
\* OHCI takes the chip from the firmware, waits for at most 25 s, and always succeeds.
OHCI_Chip_Reset == Wait /\ ChipIsReset
\* xHCI: see XHCIReset.
XHCI_Chip_Reset ==
    /\ Wait \/ UNCHANGED waited
    /\ \/ ChipIsReset
       \/ ResetFailed /\ running' \in {running, FALSE} /\ UNCHANGED <<ints, stuck>>
Chip_Reset ==
    /\ pc = "reset"
    /\ CASE kind = "EHCI" -> EHCI_Chip_Reset [] kind = "OHCI" -> OHCI_Chip_Reset
         [] kind = "XHCI" -> XHCI_Chip_Reset
    /\ UNCHANGED <<doneVars, slotVars, intVars, have, lost, early, halfmade, again, preinit, restart>>

Chip_Alloc ==
    /\ pc = "alloc" /\ Allocate(AllocSteps(kind), "addint", "stop")
    /\ UNCHANGED <<doneVars, slotVars, intVars, chipVars, waited, early, halfmade, again, preinit>>

\* __Init_1_Add_Int(): the interrupt server, and the callback for a reboot.
__Init_1_Add_Int ==
    /\ pc = "addint"
    /\ \/ server' = TRUE /\ callback' = TRUE /\ Go("init")
       \/ server' \in BOOLEAN /\ callback' = FALSE /\ Go("stop")
    /\ UNCHANGED <<doneVars, slotVars, chipVars, historyVars, have, again, preinit>>

\* Chip_Init(): xHCI forgets which slot a device has.  A restart only logs that it failed.
Chip_Init ==
    /\ pc = "init"
    /\ Allocate(InitSteps(kind), "start", IF again THEN "start" ELSE "stop")
    /\ halfmade' = (i <= Len(InitSteps(kind)) /\ pc' # "init")
    /\ known' = IF i = 1 THEN {} ELSE known
    /\ UNCHANGED <<doneVars, intVars, chipVars, waited, early, devices, again, preinit>>

\* Chip_Start(): nobody looks at what it returns.  EHCI gives up on a frame list of unknown
\* size before its interrupts are enabled, OHCI on a reset that does not end; EHCI and xHCI
\* answer FALSE when the chip does not begin to run.  Without its ASync_Head EHCI reads through
\* a null pointer: that ends the task in a trap, or the chip is given what was read.
EHCI_Chip_Start == Wait /\ ((running' \in BOOLEAN /\ ints' = TRUE) \/ UNCHANGED <<running, ints>>)
OHCI_Chip_Start == Wait /\ ((running' = TRUE /\ ints' = TRUE) \/ UNCHANGED <<running, ints>>)
XHCI_Chip_Start == Wait /\ running' \in BOOLEAN /\ ints' = TRUE
Chip_Start ==
    /\ pc = "start"
    /\ \/ /\ CASE kind = "EHCI" -> EHCI_Chip_Start [] kind = "OHCI" -> OHCI_Chip_Start
               [] kind = "XHCI" -> XHCI_Chip_Start
          /\ Go(IF again THEN "main" ELSE "hub")
       \/ /\ kind = "EHCI" /\ "ASync_Head" \notin have
          /\ Wait /\ Go("trap") /\ UNCHANGED <<running, ints>>
    /\ UNCHANGED <<doneVars, slotVars, intVars, lost, early, halfmade, have, again, preinit, restart, stuck>>

\* __Init_1_Add_HUB()
__Init_1_Add_HUB ==
    /\ pc = "hub" /\ (Go("main") \/ Go("stop"))
    /\ UNCHANGED <<doneVars, slotVars, intVars, chipVars, historyVars, have, again, preinit>>

-----------------------------------------------------------------------------
(* The task serves requests: devices come and go. *)

Device_Add ==
    /\ pc = "main" /\ ~restart /\ kind = "XHCI" /\ Cardinality(devices) < 2
    /\ \E d \in {"slot1", "slot2"} \ devices : devices' = devices \cup {d} /\ known' = known \cup {d}
    /\ UNCHANGED <<doneVars, intVars, chipVars, historyVars, have, again, preinit, pc, i>>

Forget(d) == known' = known \ {d}
\* A device is gone: its slot is found by its address, or is left.
Device_Remove ==
    /\ pc = "main" /\ ~restart
    /\ \E d \in devices : /\ devices' = devices \ {d} /\ Forget(d)
                          /\ lost' = IF d \in known THEN lost ELSE lost \cup {d}
    /\ UNCHANGED <<doneVars, intVars, chipVars, waited, early, halfmade, have, again, preinit, pc, i>>

\* __myHandle_Reset(): the transfers are aborted between the reset and Chip_Deinit().
Handle_Reset ==
    /\ pc = "main" /\ restart /\ restart' = FALSE /\ again' = TRUE /\ Go("reset")
    /\ UNCHANGED <<doneVars, slotVars, intVars, historyVars, have, preinit, running, ints, stuck>>

Shutdown ==
    /\ pc = "main" /\ ~restart /\ devices = {} /\ Go("stop")
    /\ again' = FALSE
    /\ UNCHANGED <<doneVars, slotVars, intVars, chipVars, historyVars, have, preinit>>

-----------------------------------------------------------------------------
(* HCD_3_Free: all of it, whatever was reached. *)

\* Chip_Stop(): its answer is not looked at.
Chip_Stop ==
    /\ pc = "stop" /\ Go("remint")
    /\ CASE kind = "EHCI" -> EHCI_Stops(TRUE, TRUE) [] kind = "OHCI" -> OHCI_Stops(TRUE)
         [] kind = "XHCI" -> XHCI_Stops(TRUE)
    /\ UNCHANGED <<doneVars, slotVars, intVars, lost, early, halfmade, have, again, preinit, restart>>

\* Variant: the server stays.
KeepServer == callback' = FALSE /\ UNCHANGED server
__Free_3_Rem_Int == callback' = FALSE /\ server' = FALSE
Free_Rem_Int ==
    /\ pc = "remint" /\ __Free_3_Rem_Int /\ Go("deinit")
    /\ UNCHANGED <<doneVars, slotVars, chipVars, historyVars, have, again, preinit>>

Chip_Deinit ==
    /\ pc = "deinit" /\ Free(DeinitFrees(kind))
    /\ Go(IF again THEN "init" ELSE "dealloc")
    /\ UNCHANGED <<doneVars, slotVars, intVars, chipVars, historyVars, again, preinit>>
Chip_Dealloc ==
    /\ pc = "dealloc" /\ Free(DeallocFrees(kind)) /\ Go("free")
    /\ UNCHANGED <<doneVars, slotVars, intVars, chipVars, historyVars, again, preinit>>
Free_Misc ==
    /\ pc = "free" /\ Free(__Free_3_Misc) /\ Go("end")
    /\ UNCHANGED <<doneVars, slotVars, intVars, chipVars, historyVars, again, preinit>>

-----------------------------------------------------------------------------
(* The chip. *)

\* A host system error halts it; the handler (not OHCI's) signals the task.
HostSystemError ==
    /\ running /\ server /\ ints /\ kind # "OHCI" /\ restarts < MaxRestarts
    /\ running' = FALSE /\ restart' = TRUE /\ restarts' = restarts + 1
    /\ UNCHANGED <<kind, slotVars, intVars, historyVars, have, again, preinit, pc, i, ints, stuck>>

Start == Init_Misc \/ Chip_Preinit \/ Chip_Reset \/ Chip_Alloc \/ __Init_1_Add_Int \/ Chip_Init \/ Chip_Start
         \/ __Init_1_Add_HUB
Stop  == Chip_Stop \/ Free_Rem_Int \/ Chip_Deinit \/ Chip_Dealloc \/ Free_Misc
Main  == Device_Add \/ Device_Remove \/ Handle_Reset \/ Shutdown

Next == Start \/ Main \/ Stop \/ HostSystemError
Spec == Init /\ [][Next]_vars /\ WF_vars(Start \/ Stop)

-----------------------------------------------------------------------------
(* Properties. *)

Phases == {"misc", "preinit", "reset", "alloc", "addint", "init", "start", "hub", "main", "stop", "remint",
           "deinit", "dealloc", "free", "end", "trap"}
TypeOK ==
    /\ kind \in Kinds /\ pc \in Phases /\ i \in 1 .. 11
    /\ have \subseteq Everything(kind) /\ lost \subseteq Everything(kind) \cup {"slot1", "slot2"}
    /\ {again, preinit, server, callback, running, ints, restart, stuck, waited, early, halfmade} \subseteq BOOLEAN
    /\ known \subseteq devices /\ devices \subseteq {"slot1", "slot2"} /\ restarts \in 0 .. MaxRestarts

\* Wherever the start failed and however often the chip was restarted, at the end everything
\* was freed; only slots of devices that a restart forgot are lost.
NothingLeft ==
    /\ pc = "end" => have = {} /\ ~server /\ ~callback
    /\ lost \subseteq IF restarts > 0 THEN {"slot1", "slot2"} ELSE {}
\* The chip works only while all the memory it knows is there, unless it did not stop when told,
\* or a restart whose Chip_Init() failed has started it all the same.
MemoryBehindChip == running => (DMA(kind) \subseteq have \/ stuck \/ (halfmade /\ restarts > 0))
\* The interrupt server runs only when the registers are known and its signals exist.
SignalsBehindServer == server => preinit /\ Elements(AllocSteps(kind)) \cap
    {"Signal_EI", "Signal_INT", "Signal_IAA", "Signal_WDH", "Signal_Event", "Signal_Command"} \subseteq have
\* A wait for the chip has its timer request, unless the start failed before that was made.
WaitsWithPort == waited => early
\* What was begun has ended: the controller works or everything is freed, or the task has run
\* into the null pointer of a restart.
Settled == pc \in {"main", "end", "trap"}

\* Memory, signals and server are there as long as the chip needs them, and no longer.
SetupIsSound == TypeOK /\ NothingLeft /\ MemoryBehindChip /\ SignalsBehindServer /\ WaitsWithPort

-----------------------------------------------------------------------------
(* Why it is so: what there is when the task is in a phase.                    *)

Misc == Elements(__Init_1_Misc)
\* What the steps of a phase before step n fill in.
Before(steps, n) == {steps[j] : j \in 1 .. n - 1}

\* What has been allocated when the start or the restart is in a phase, and what is still to
\* be freed.
HaveByPC ==
    /\ pc = "misc" => have = Before(__Init_1_Misc, i) /\ i <= Len(__Init_1_Misc) + 1
    /\ pc = "preinit" \/ (pc = "reset" /\ ~again) => have = Misc
    /\ pc = "alloc" => have = Misc \cup Before(AllocSteps(kind), i) /\ i <= Len(AllocSteps(kind)) + 1
    /\ pc = "addint" => have = Misc \cup Elements(AllocSteps(kind))
    /\ pc = "init" => /\ have = Misc \cup Elements(AllocSteps(kind)) \cup Before(InitSteps(kind), i)
                      /\ i <= Len(InitSteps(kind)) + 1
    /\ pc = "hub" \/ (pc = "start" /\ ~halfmade) => have = Everything(kind)
    /\ pc = "start" /\ halfmade => again /\ Misc \cup Elements(AllocSteps(kind)) \subseteq have
    /\ pc \in {"main", "trap"} \/ (pc \in {"reset", "deinit"} /\ again) =>
          Misc \cup Elements(AllocSteps(kind)) \subseteq have
    /\ pc = "stop" /\ ~early => Misc \subseteq have
    /\ pc \in {"dealloc", "free", "end"} => have \cap DeinitFrees(kind) = {}
    /\ pc \in {"free", "end"} => have \cap DeallocFrees(kind) = {}
    /\ pc = "end" => have = {}

\* The chip is at rest while its memory comes and goes, or has not stopped when told.
ChipByPC ==
    /\ pc \in {"misc", "preinit", "reset", "alloc", "addint", "init", "start", "trap"} => ~running /\ ~restart
    /\ pc \in {"remint", "deinit", "dealloc", "free", "end"} => ~running \/ stuck

ServerByPC ==
    /\ pc \in {"reset", "alloc", "addint", "init", "start", "hub", "main", "trap"} \/ again => preinit
    /\ pc \in {"dealloc", "free", "end"} \/ (pc = "deinit" /\ ~again) => ~server /\ ~callback

\* Only a chip with an interrupt for its errors is restarted, and only by it.
AgainByPC ==
    /\ again => pc \in {"reset", "deinit", "init", "start", "main", "trap"}
    /\ again \/ restart => kind # "OHCI" /\ restarts > 0
    /\ pc = "deinit" /\ again => ~running /\ ~restart
    /\ restart => ~running
    /\ pc = "trap" => again
    /\ halfmade /\ restarts = 0 =>
          ~running /\ pc \in {"stop", "remint", "deinit", "dealloc", "free", "end"}
    /\ ~again /\ pc \notin {"main"} => devices = {}
    /\ restarts = 0 => known = devices
    /\ pc = "misc" => ~waited

SetupInvariant ==
    /\ TypeOK /\ HaveByPC /\ ChipByPC /\ ServerByPC /\ AgainByPC
    /\ lost \subseteq IF restarts > 0 THEN {"slot1", "slot2"} ELSE {}
    /\ MemoryBehindChip /\ SignalsBehindServer /\ WaitsWithPort

=============================================================================
