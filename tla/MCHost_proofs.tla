---------------------------- MODULE MCHost_proofs ----------------------------
(***************************************************************************)
(* What MCHost checks of the start, the stop and the restart of a chip           *)
(* (HostSetup), of a port of a root hub (RootPorts) and of the transfers of EHCI *)
(* and OHCI (EHCITransfer, OHCITransfer), for every value of the constants: a    *)
(* step of the whole is a step of one module or none, so what is an invariant of *)
(* a module is one of MCSpec.                                                    *)
(***************************************************************************)
EXTENDS MCHost, TLAPS, WellFoundedInduction, SequenceTheorems

-----------------------------------------------------------------------------
(* HostSetup: what is allocated in each phase of the start and of the stop.       *)

\* The lists of __Init_1_Misc() and __Free_3_Misc() are of the same, each once.
Distinct(s) == \A j, l \in DOMAIN s : s[j] = s[l] => j = l
IsList(s) == Len(s) \in 0 .. 10 /\ DOMAIN s = 1 .. Len(s) /\ Distinct(s)

LEMMA MiscList ==
    /\ IsList(P!__Init_1_Misc) /\ Len(P!__Init_1_Misc) = 10
    /\ P!Misc = P!__Free_3_Misc /\ "Delay_Port" \in P!Misc
<1> DEFINE s == P!__Init_1_Misc
<1>1. Len(s) = 10 /\ DOMAIN s = 1 .. 10
  BY DEF P!__Init_1_Misc
<1>2. 1 .. 10 = {1, 2, 3, 4, 5, 6, 7, 8, 9, 10}
  OBVIOUS
<1>3. /\ s[1] = "Function_Array" /\ s[2] = "EndPoint_Array" /\ s[3] = "HUB_Desc" /\ s[4] = "HUB_Signal"
      /\ s[5] = "Restart_Signal" /\ s[6] = "Abort_Port" /\ s[7] = "Begin_Port" /\ s[8] = "Delay_Port"
      /\ s[9] = "WatchDog_Port" /\ s[10] = "Tick_Port"
  BY DEF P!__Init_1_Misc
<1> HIDE DEF s
<1>4. Distinct(s)
  BY <1>1, <1>2, <1>3 DEF Distinct
<1>5. P!Elements(s) = P!__Free_3_Misc
  BY <1>1, <1>2, <1>3 DEF P!Elements, P!__Free_3_Misc
<1> QED BY <1>1, <1>4, <1>5 DEF s, IsList, P!Misc, P!__Free_3_Misc

\* What the driver of a chip allocates is not allocated twice, and is freed again.
ListsFit(k) ==
    /\ IsList(P!AllocSteps(k)) /\ IsList(P!InitSteps(k))
    /\ P!Misc \cap P!Elements(P!AllocSteps(k)) = {} /\ P!Misc \cap P!Elements(P!InitSteps(k)) = {}
    /\ P!Elements(P!AllocSteps(k)) \cap P!Elements(P!InitSteps(k)) = {}
    /\ P!Elements(P!InitSteps(k)) \subseteq P!DeinitFrees(k) /\ P!Misc \cap P!DeinitFrees(k) = {}
    /\ k # "OHCI" => P!Elements(P!AllocSteps(k)) \cap P!DeinitFrees(k) = {}
    /\ P!Everything(k) \subseteq P!__Free_3_Misc \cup P!DeinitFrees(k) \cup P!DeallocFrees(k)
    /\ P!DMA(k) \subseteq P!Everything(k)
Signals == {"Signal_EI", "Signal_INT", "Signal_IAA", "Signal_WDH", "Signal_Event", "Signal_Command"}

LEMMA EHCILists == ListsFit("EHCI") /\ Signals \cap P!DeinitFrees("EHCI") = {}
<1> DEFINE a == P!AllocSteps("EHCI")
           n == P!InitSteps("EHCI")
<1>1. a = P!EHCI_Chip_Alloc /\ n = P!EHCI_Chip_Init /\ P!DeinitFrees("EHCI") = P!EHCI_Chip_Deinit
      /\ P!DeallocFrees("EHCI") = P!EHCI_Chip_Dealloc
      /\ P!DMA("EHCI") = {"FrameList", "ISlot0", "ISlot1", "ASync_Head"}
  BY DEF P!AllocSteps, P!InitSteps, P!DeinitFrees, P!DeallocFrees, P!DMA
<1>2. /\ Len(a) = 6 /\ DOMAIN a = 1 .. 6
      /\ a[1] = "Signal_EI" /\ a[2] = "Signal_INT" /\ a[3] = "Signal_IAA" /\ a[4] = "FrameList"
      /\ a[5] = "FrameList_ISlots" /\ a[6] = "PortResetChange"
  BY <1>1 DEF P!EHCI_Chip_Alloc
<1>3. /\ Len(n) = 3 /\ DOMAIN n = 1 .. 3
      /\ n[1] = "ISlot0" /\ n[2] = "ISlot1" /\ n[3] = "ASync_Head"
  BY <1>1 DEF P!EHCI_Chip_Init
<1>4. 1 .. 6 = {1, 2, 3, 4, 5, 6} /\ 1 .. 3 = {1, 2, 3}
  OBVIOUS
<1> HIDE DEF a, n
<1>5. IsList(a) /\ IsList(n)
  BY <1>2, <1>3, <1>4 DEF IsList, Distinct
<1>6. P!Elements(a) = {"Signal_EI", "Signal_INT", "Signal_IAA", "FrameList", "FrameList_ISlots", "PortResetChange"}
  BY <1>2, <1>4 DEF P!Elements
<1>7. P!Elements(n) = {"ISlot0", "ISlot1", "ASync_Head"}
  BY <1>3, <1>4 DEF P!Elements
<1>8. P!Misc = P!__Free_3_Misc /\ P!Everything("EHCI") = P!Misc \cup P!Elements(a) \cup P!Elements(n)
  BY MiscList DEF P!Everything, P!Misc, a, n
<1> QED
  BY <1>1, <1>5, <1>6, <1>7, <1>8
  DEF ListsFit, Signals, P!EHCI_Chip_Deinit, P!EHCI_Chip_Dealloc, P!__Free_3_Misc, a, n

LEMMA OHCILists == ListsFit("OHCI") /\ Signals \cap P!DeinitFrees("OHCI") = {}
<1> DEFINE a == P!AllocSteps("OHCI")
           n == P!InitSteps("OHCI")
<1>1. a = P!OHCI_Chip_Alloc /\ n = P!OHCI_Chip_Init /\ P!DeinitFrees("OHCI") = P!OHCI_Chip_Deinit
      /\ P!DeallocFrees("OHCI") = P!OHCI_Chip_Dealloc
      /\ P!DMA("OHCI") = {"Ctrl_Head", "Bulk_Head", "Isoc_Head", "HCCA_Table", "EDArray0", "EDArray1"}
  BY DEF P!AllocSteps, P!InitSteps, P!DeinitFrees, P!DeallocFrees, P!DMA
<1>2. /\ Len(a) = 7 /\ DOMAIN a = 1 .. 7
      /\ a[1] = "Signal_WDH" /\ a[2] = "Ctrl_Head" /\ a[3] = "Bulk_Head" /\ a[4] = "Isoc_Head"
      /\ a[5] = "HCCA_Table" /\ a[6] = "EDArray0" /\ a[7] = "EDArray1"
  BY <1>1 DEF P!OHCI_Chip_Alloc, P!Init_HCCABuffer
<1>3. Len(n) = 0 /\ DOMAIN n = 1 .. 0
  BY <1>1 DEF P!OHCI_Chip_Init
<1>4. 1 .. 7 = {1, 2, 3, 4, 5, 6, 7} /\ 1 .. 0 = {}
  OBVIOUS
<1> HIDE DEF a, n
<1>5. IsList(a) /\ IsList(n)
  BY <1>2, <1>3, <1>4 DEF IsList, Distinct
<1>6. P!Elements(a) = {"Signal_WDH", "Ctrl_Head", "Bulk_Head", "Isoc_Head", "HCCA_Table", "EDArray0", "EDArray1"}
  BY <1>2, <1>4 DEF P!Elements
<1>7. P!Elements(n) = {}
  BY <1>3, <1>4 DEF P!Elements
<1>8. P!Misc = P!__Free_3_Misc /\ P!Everything("OHCI") = P!Misc \cup P!Elements(a) \cup P!Elements(n)
  BY MiscList DEF P!Everything, P!Misc, a, n
<1> QED
  BY <1>1, <1>5, <1>6, <1>7, <1>8
  DEF ListsFit, Signals, P!OHCI_Chip_Deinit, P!OHCI_Chip_Dealloc, P!__Free_3_Misc, a, n

LEMMA XHCILists == ListsFit("XHCI") /\ Signals \cap P!DeinitFrees("XHCI") = {}
<1> DEFINE a == P!AllocSteps("XHCI")
           n == P!InitSteps("XHCI")
<1>1. a = P!XHCI_Chip_Alloc /\ n = P!XHCI_Chip_Init /\ P!DeinitFrees("XHCI") = P!XHCI_Chip_Deinit
      /\ P!DeallocFrees("XHCI") = P!XHCI_Chip_Dealloc
      /\ P!DMA("XHCI") = {"DCBAA", "CmdRing", "EvtRing", "ERST", "ScratchpadArray", "Page0", "Page1"}
  BY DEF P!AllocSteps, P!InitSteps, P!DeinitFrees, P!DeallocFrees, P!DMA
<1>2. /\ Len(a) = 8 /\ DOMAIN a = 1 .. 8
      /\ a[1] = "Signal_Event" /\ a[2] = "Signal_Command" /\ a[3] = "DCBAA" /\ a[4] = "CmdRing"
      /\ a[5] = "EvtRing" /\ a[6] = "ERST" /\ a[7] = "PortResetChange" /\ a[8] = "Slots"
  BY <1>1 DEF P!XHCI_Chip_Alloc
<1>3. /\ Len(n) = 4 /\ DOMAIN n = 1 .. 4
      /\ n[1] = "ScratchpadArray" /\ n[2] = "ScratchpadPages" /\ n[3] = "Page0" /\ n[4] = "Page1"
  BY <1>1 DEF P!XHCI_Chip_Init
<1>4. 1 .. 8 = {1, 2, 3, 4, 5, 6, 7, 8} /\ 1 .. 4 = {1, 2, 3, 4}
  OBVIOUS
<1> HIDE DEF a, n
<1>5. IsList(a) /\ IsList(n)
  BY <1>2, <1>3, <1>4 DEF IsList, Distinct
<1>6. P!Elements(a) = {"Signal_Event", "Signal_Command", "DCBAA", "CmdRing", "EvtRing", "ERST",
                     "PortResetChange", "Slots"}
  BY <1>2, <1>4 DEF P!Elements
<1>7. P!Elements(n) = {"ScratchpadArray", "ScratchpadPages", "Page0", "Page1"}
  BY <1>3, <1>4 DEF P!Elements
<1>8. P!Misc = P!__Free_3_Misc /\ P!Everything("XHCI") = P!Misc \cup P!Elements(a) \cup P!Elements(n)
  BY MiscList DEF P!Everything, P!Misc, a, n
<1> QED
  BY <1>1, <1>5, <1>6, <1>7, <1>8
  DEF ListsFit, Signals, P!XHCI_Chip_Deinit, P!XHCI_Chip_Dealloc, P!__Free_3_Misc, a, n

LEMMA ChipLists == ASSUME NEW k \in P!Kinds PROVE ListsFit(k) /\ Signals \cap P!DeinitFrees(k) = {}
BY EHCILists, OHCILists, XHCILists DEF P!Kinds

\* A step of a phase that allocates: one more is there, or the phase ends.
LEMMA AllocateStep ==
    ASSUME NEW steps, IsList(steps), NEW base, base \cap P!Elements(steps) = {},
           p_i \in 1 .. 11, p_i <= Len(steps) + 1, p_have = base \cup P!Before(steps, p_i),
           NEW after, NEW failed, P!Allocate(steps, after, failed)
    PROVE  /\ p_lost' = p_lost /\ p_i' \in 1 .. 11
           /\ p_have \subseteq p_have' /\ p_have' \subseteq base \cup P!Elements(steps)
           /\ \/ p_pc' = p_pc /\ p_i' <= Len(steps) + 1 /\ p_have' = base \cup P!Before(steps, p_i')
              \/ p_pc' = after /\ p_i' = 1 /\ p_have' = base \cup P!Elements(steps) /\ ~ (p_i <= Len(steps))
              \/ p_pc' = failed /\ p_i' = 1 /\ p_have' = p_have /\ p_i <= Len(steps)
<1>0. Len(steps) \in 0 .. 10 /\ DOMAIN steps = 1 .. Len(steps) /\ Distinct(steps)
  BY DEF IsList
<1>1. P!Before(steps, p_i) \subseteq P!Elements(steps)
  BY <1>0 DEF P!Before, P!Elements
<1>2. CASE p_i > Len(steps)
  <2>1. P!Before(steps, p_i) = P!Elements(steps)
    BY <1>0, <1>2 DEF P!Before, P!Elements
  <2> QED BY <1>0, <1>2, <2>1 DEF P!Allocate, P!Go
<1>3. CASE ~ (p_i > Len(steps)) /\ P!Go(failed) /\ UNCHANGED <<p_have, p_lost>>
  BY <1>0, <1>1, <1>3 DEF P!Go
<1>4. CASE ~ (p_i > Len(steps)) /\ ~ (P!Go(failed) /\ UNCHANGED <<p_have, p_lost>>)
  <2>1. /\ p_have' = p_have \cup {steps[p_i]} /\ p_pc' = p_pc /\ p_i' = p_i + 1
        /\ p_lost' = p_lost \cup ({steps[p_i]} \cap p_have)
    BY <1>4 DEF P!Allocate
  <2>2. p_i \in 1 .. Len(steps)
    BY <1>0, <1>4
  <2>3. steps[p_i] \in P!Elements(steps) /\ steps[p_i] \notin P!Before(steps, p_i)
    BY <1>0, <2>2 DEF P!Elements, P!Before, Distinct
  <2>4. P!Before(steps, p_i + 1) = P!Before(steps, p_i) \cup {steps[p_i]}
    BY <1>0, <2>2 DEF P!Before
  <2>5. p_lost' = p_lost
    BY <2>1, <2>3
  <2>6. p_i' \in 1 .. 11 /\ p_i' <= Len(steps) + 1
    BY <1>0, <2>1, <2>2
  <2> QED BY <1>1, <2>1, <2>3, <2>4, <2>5, <2>6
<1> QED BY <1>2, <1>3, <1>4

\* Nothing is there before the start.
LEMMA SetupInit == ASSUME P!HostSetupAssumption, P!Init PROVE P!SetupInvariant
<1>1. P!Before(P!__Init_1_Misc, p_i) = {} /\ p_i <= Len(P!__Init_1_Misc) + 1
  BY MiscList DEF P!Init, P!Before
<1>2. P!TypeOK
  <2>1. p_i \in 1 .. 11 /\ p_restarts \in 0 .. MaxSetupRestarts
    BY DEF P!Init, P!HostSetupAssumption
  <2>2. {p_again, p_preinit, p_server, p_callback, p_running, p_ints, p_restart, p_stuck, p_waited,
       p_early, p_halfmade} \subseteq BOOLEAN
    BY DEF P!Init
  <2> QED BY <2>1, <2>2 DEF P!Init, P!TypeOK, P!Phases
<1>3. P!HaveByPC
  BY <1>1 DEF P!Init, P!HaveByPC
<1> QED
  BY <1>2, <1>3 DEF P!Init, P!SetupInvariant, P!ChipByPC, P!ServerByPC, P!AgainByPC, P!MemoryBehindChip,
      P!SignalsBehindServer, P!WaitsWithPort

\* The allocations of __Init_1_Misc().
LEMMA InitMiscStep == ASSUME P!SetupInvariant, P!Init_Misc PROVE P!SetupInvariant'
<1> DEFINE L == P!__Init_1_Misc
<1>0. p_pc = "misc" /\ p_kind \in P!Kinds /\ p_kind' = p_kind
  BY DEF P!SetupInvariant, P!TypeOK, P!Init_Misc, P!doneVars
<1>1. /\ p_lost' = p_lost /\ p_i' \in 1 .. 11 /\ p_have \subseteq p_have' /\ p_have' \subseteq P!Misc
      /\ \/ p_pc' = "misc" /\ p_i' <= Len(L) + 1 /\ p_have' = P!Before(L, p_i')
         \/ p_pc' = "preinit" /\ p_i' = 1 /\ p_have' = P!Misc
         \/ p_pc' = "stop" /\ p_i' = 1 /\ p_have' = p_have
  <2>1. IsList(L) /\ {} \cap P!Elements(L) = {} /\ P!Misc = P!Elements(L)
    BY MiscList DEF P!Misc
  <2>2. p_i \in 1 .. 11 /\ p_i <= Len(L) + 1 /\ p_have = {} \cup P!Before(L, p_i)
    BY <1>0 DEF P!SetupInvariant, P!TypeOK, P!HaveByPC
  <2>3. P!Allocate(L, "preinit", "stop")
    BY DEF P!Init_Misc
  <2> HIDE DEF L
  <2>4. /\ p_lost' = p_lost /\ p_i' \in 1 .. 11
        /\ p_have \subseteq p_have' /\ p_have' \subseteq {} \cup P!Elements(L)
        /\ \/ p_pc' = p_pc /\ p_i' <= Len(L) + 1 /\ p_have' = {} \cup P!Before(L, p_i')
           \/ p_pc' = "preinit" /\ p_i' = 1 /\ p_have' = {} \cup P!Elements(L)
           \/ p_pc' = "stop" /\ p_i' = 1 /\ p_have' = p_have
    BY <2>1, <2>2, <2>3, AllocateStep, Zenon
  <2> QED BY <1>0, <2>1, <2>4
<1>2. P!TypeOK'
  BY <1>0, <1>1 DEF P!SetupInvariant, P!TypeOK, P!Phases, P!Init_Misc, P!Everything, P!Misc, P!doneVars,
      P!slotVars,
      P!intVars, P!chipVars
<1>3. P!HaveByPC'
  BY <1>0, <1>1 DEF P!HaveByPC, P!Init_Misc, P!SetupInvariant, P!AgainByPC
<1>4. P!ChipByPC' /\ P!ServerByPC' /\ P!AgainByPC'
  BY <1>0, <1>1 DEF P!SetupInvariant, P!Init_Misc, P!ChipByPC, P!ServerByPC, P!AgainByPC, P!doneVars,
      P!slotVars,
      P!intVars, P!chipVars
<1>6. P!MemoryBehindChip' /\ P!SignalsBehindServer'
  BY <1>0, <1>1 DEF P!SetupInvariant, P!Init_Misc, P!ChipByPC, P!MemoryBehindChip,
      P!SignalsBehindServer, P!doneVars, P!slotVars, P!intVars, P!chipVars
<1>5. P!WaitsWithPort'
  BY <1>0 DEF P!SetupInvariant, P!AgainByPC, P!Init_Misc, P!WaitsWithPort
<1> QED
  BY <1>0, <1>1, <1>2, <1>3, <1>4, <1>5, <1>6 DEF P!SetupInvariant, P!Init_Misc, P!doneVars

\* Chip_Preinit() finds the registers.
LEMMA PreinitStep == ASSUME P!SetupInvariant, P!Chip_Preinit PROVE P!SetupInvariant'
<1>0. p_pc = "preinit" /\ p_pc' \in {"reset", "stop"} /\ p_i' = 1 /\ p_preinit' = TRUE
  BY DEF P!Chip_Preinit, P!EHCI_Chip_Preinit, P!OHCI_Chip_Preinit, P!XHCI_Chip_Preinit, P!Go,
      P!SetupInvariant,
      P!TypeOK, P!Kinds
<1>1. UNCHANGED <<P!doneVars, P!slotVars, P!intVars, P!chipVars, P!historyVars, p_have, p_again>>
  BY DEF P!Chip_Preinit
<1>2. UNCHANGED <<p_kind, p_restarts, p_devices, p_known, p_server, p_callback, p_running, p_ints,
                  p_restart, p_stuck, p_lost,
                  p_waited, p_early, p_halfmade, p_have, p_again>>
  BY <1>1 DEF P!doneVars, P!slotVars, P!intVars, P!chipVars, P!historyVars
<1>3. P!TypeOK'
  BY <1>0, <1>2 DEF P!SetupInvariant, P!TypeOK, P!Phases
<1>4. P!HaveByPC'
  BY <1>0, <1>2 DEF P!HaveByPC, P!SetupInvariant, P!AgainByPC
<1>5. P!ChipByPC' /\ P!ServerByPC' /\ P!AgainByPC'
  BY <1>0, <1>2 DEF P!SetupInvariant, P!ChipByPC, P!ServerByPC, P!AgainByPC
<1>6. P!MemoryBehindChip' /\ P!SignalsBehindServer' /\ P!WaitsWithPort'
  BY <1>0, <1>2 DEF P!SetupInvariant, P!MemoryBehindChip, P!SignalsBehindServer, P!WaitsWithPort
<1> QED BY <1>2, <1>3, <1>4, <1>5, <1>6 DEF P!SetupInvariant

\* A wait is one with its port as long as that is there.
LEMMA WaitHasPort ==
    ASSUME P!SetupInvariant, "Delay_Port" \in p_have \/ p_early, P!Wait \/ UNCHANGED p_waited, p_early' = p_early
    PROVE  p_waited' \in BOOLEAN /\ P!WaitsWithPort'
BY DEF P!SetupInvariant, P!TypeOK, P!WaitsWithPort, P!Wait

\* Chip_Reset(): a chip that has been reset is at rest; one that has not goes on or has stopped.
LEMMA ResetStep == ASSUME P!SetupInvariant, P!Chip_Reset PROVE P!SetupInvariant'
<1>0. p_pc = "reset" /\ p_kind \in P!Kinds /\ p_again \in BOOLEAN
  BY DEF P!Chip_Reset, P!SetupInvariant, P!TypeOK
<1>1. UNCHANGED <<p_kind, p_restarts, p_devices, p_known, p_server, p_callback, p_have, p_lost, p_early, p_halfmade,
                  p_again, p_preinit, p_restart>>
  BY DEF P!Chip_Reset, P!doneVars, P!slotVars, P!intVars
<1>2. P!Wait \/ UNCHANGED p_waited
  <2>1. CASE p_kind = "EHCI"
    BY <1>0, <2>1 DEF P!Chip_Reset, P!EHCI_Chip_Reset, P!EHCI_Stops, P!Kinds
  <2>2. CASE p_kind = "OHCI"
    BY <1>0, <2>2 DEF P!Chip_Reset, P!OHCI_Chip_Reset, P!Kinds
  <2>3. CASE p_kind = "XHCI"
    BY <1>0, <2>3 DEF P!Chip_Reset, P!XHCI_Chip_Reset, P!Kinds
  <2> QED BY <1>0, <2>1, <2>2, <2>3 DEF P!Kinds
<1>3. \/ P!ChipIsReset
      \/ /\ P!ResetFailed /\ p_running' \in {p_running, FALSE} /\ p_ints' = p_ints
         /\ p_stuck' = p_stuck \/ p_stuck' = TRUE
  <2>1. CASE p_kind = "EHCI"
    BY <1>0, <2>1 DEF P!Chip_Reset, P!EHCI_Chip_Reset, P!EHCI_Stops, P!Kinds
  <2>2. CASE p_kind = "OHCI"
    BY <1>0, <2>2 DEF P!Chip_Reset, P!OHCI_Chip_Reset, P!Kinds
  <2>3. CASE p_kind = "XHCI"
    BY <1>0, <2>3 DEF P!Chip_Reset, P!XHCI_Chip_Reset, P!Kinds
  <2> QED BY <1>0, <2>1, <2>2, <2>3 DEF P!Kinds
<1>4. /\ p_i' = 1
      /\ \/ /\ p_pc' = IF p_again THEN "deinit" ELSE "alloc"
            /\ p_running' = FALSE /\ p_ints' = FALSE /\ p_stuck' = FALSE
         \/ /\ p_pc' = IF p_again THEN "deinit" ELSE "stop"
            /\ p_running' \in {p_running, FALSE} /\ p_ints' = p_ints /\ (p_stuck' = p_stuck \/ p_stuck' = TRUE)
  BY <1>3 DEF P!ChipIsReset, P!ResetDone, P!ResetFailed, P!Go
<1>a. /\ {p_running', p_ints', p_stuck'} \subseteq BOOLEAN /\ p_pc' \in {"deinit", "alloc", "stop"}
      /\ p_running' => p_running /\ (p_stuck => p_stuck')
  <2>1. p_running \in BOOLEAN /\ p_ints \in BOOLEAN /\ p_stuck \in BOOLEAN
    BY DEF P!SetupInvariant, P!TypeOK
  <2>2. CASE p_running' = FALSE /\ p_ints' = FALSE /\ p_stuck' = FALSE
    BY <1>4, <2>2
  <2>3. CASE p_running' \in {p_running, FALSE} /\ p_ints' = p_ints /\ (p_stuck' = p_stuck \/ p_stuck' = TRUE)
    <3>1. CASE p_running' = FALSE
      BY <1>4, <2>1, <2>3, <3>1
    <3>2. CASE p_running' = p_running
      <4>1. p_running' \in BOOLEAN /\ p_ints' \in BOOLEAN /\ p_stuck' \in BOOLEAN
        BY <2>1, <2>3, <3>2, Zenon
      <4>2. p_stuck => p_stuck'
        BY <2>3, Zenon
      <4>3. p_running' => p_running
        BY <3>2, Zenon
      <4> QED BY <1>4, <4>1, <4>2, <4>3
    <3> QED BY <2>3, <3>1, <3>2
  <2> QED BY <1>4, <2>2, <2>3
<1>5. "Delay_Port" \in p_have
  BY <1>0, MiscList DEF P!SetupInvariant, P!HaveByPC
<1>6. p_waited' \in BOOLEAN /\ P!WaitsWithPort'
  BY <1>1, <1>2, <1>5, WaitHasPort
<1>7. P!TypeOK'
  BY <1>1, <1>4, <1>6, <1>a DEF P!SetupInvariant, P!TypeOK, P!Phases
<1>8. P!HaveByPC'
  <2>1. P!Before(P!AllocSteps(p_kind), 1) = {} /\ 1 <= Len(P!AllocSteps(p_kind)) + 1
    BY <1>0, ChipLists DEF P!Before, ListsFit, IsList
  <2> QED BY <1>0, <1>1, <1>4, <2>1 DEF P!HaveByPC, P!SetupInvariant
<1>b. ~p_running /\ ~p_running' /\ ~p_restart /\ ~p_restart'
  BY <1>0, <1>1, <1>a DEF P!SetupInvariant, P!ChipByPC
<1>9. P!ChipByPC' /\ P!ServerByPC' /\ P!AgainByPC'
  BY <1>0, <1>1, <1>4, <1>b DEF P!SetupInvariant, P!ChipByPC, P!ServerByPC, P!AgainByPC
<1>10. P!MemoryBehindChip' /\ P!SignalsBehindServer'
  BY <1>1, <1>a DEF P!SetupInvariant, P!MemoryBehindChip, P!SignalsBehindServer
<1> QED BY <1>1, <1>6, <1>7, <1>8, <1>9, <1>10 DEF P!SetupInvariant

\* The allocations of Chip_Alloc().
LEMMA AllocStep == ASSUME P!SetupInvariant, P!Chip_Alloc PROVE P!SetupInvariant'
<1> DEFINE L == P!AllocSteps(p_kind)
<1>0. /\ p_pc = "alloc" /\ p_kind \in P!Kinds /\ ListsFit(p_kind)
      /\ UNCHANGED <<p_kind, p_restarts, p_devices, p_known, p_server, p_callback, p_running, p_ints,
                     p_restart, p_stuck, p_waited,
                     p_early, p_halfmade, p_again, p_preinit>>
  BY ChipLists DEF P!SetupInvariant, P!TypeOK, P!Chip_Alloc, P!doneVars, P!slotVars, P!intVars, P!chipVars
<1>1. /\ p_lost' = p_lost /\ p_i' \in 1 .. 11 /\ p_have \subseteq p_have' /\ p_have' \subseteq P!Misc \cup P!Elements(L)
      /\ \/ p_pc' = p_pc /\ p_i' <= Len(L) + 1 /\ p_have' = P!Misc \cup P!Before(L, p_i')
         \/ p_pc' = "addint" /\ p_i' = 1 /\ p_have' = P!Misc \cup P!Elements(L)
         \/ p_pc' = "stop" /\ p_i' = 1 /\ p_have' = p_have
  <2>1. IsList(L) /\ P!Misc \cap P!Elements(L) = {}
    BY <1>0 DEF ListsFit
  <2>2. p_i \in 1 .. 11 /\ p_i <= Len(L) + 1 /\ p_have = P!Misc \cup P!Before(L, p_i)
    BY <1>0 DEF P!SetupInvariant, P!TypeOK, P!HaveByPC
  <2>3. P!Allocate(L, "addint", "stop")
    BY DEF P!Chip_Alloc
  <2> HIDE DEF L
  <2> QED BY <2>1, <2>2, <2>3, AllocateStep, Zenon
<1>2. P!TypeOK'
  BY <1>0, <1>1 DEF P!SetupInvariant, P!TypeOK, P!Phases, P!Everything, P!Misc
<1>3. P!HaveByPC'
  BY <1>0, <1>1 DEF P!HaveByPC, P!SetupInvariant, P!AgainByPC
<1>4. P!ChipByPC' /\ P!ServerByPC' /\ P!AgainByPC'
  BY <1>0, <1>1 DEF P!SetupInvariant, P!ChipByPC, P!ServerByPC, P!AgainByPC
<1>5. P!MemoryBehindChip' /\ P!SignalsBehindServer' /\ P!WaitsWithPort'
  BY <1>0, <1>1 DEF P!SetupInvariant, P!MemoryBehindChip, P!SignalsBehindServer, P!WaitsWithPort
<1> QED BY <1>0, <1>1, <1>2, <1>3, <1>4, <1>5 DEF P!SetupInvariant

\* The interrupt server comes when its signals are there.
LEMMA AddIntStep == ASSUME P!SetupInvariant, P!__Init_1_Add_Int PROVE P!SetupInvariant'
<1>0. /\ p_pc = "addint" /\ p_kind \in P!Kinds /\ ListsFit(p_kind) /\ p_pc' \in {"init", "stop"} /\ p_i' = 1
      /\ p_server' \in BOOLEAN /\ p_callback' \in BOOLEAN
      /\ UNCHANGED <<p_kind, p_restarts, p_devices, p_known, p_running, p_ints, p_restart, p_stuck, p_lost,
                     p_waited, p_early, p_halfmade, p_have,
                     p_again, p_preinit>>
  BY ChipLists DEF P!SetupInvariant, P!TypeOK, P!__Init_1_Add_Int, P!doneVars, P!slotVars, P!chipVars,
      P!historyVars, P!Go
<1>1. p_have = P!Misc \cup P!Elements(P!AllocSteps(p_kind)) /\ p_preinit
  BY <1>0 DEF P!SetupInvariant, P!HaveByPC, P!ServerByPC
<1>2. P!TypeOK'
  BY <1>0 DEF P!SetupInvariant, P!TypeOK, P!Phases
<1>3. P!HaveByPC'
  <2>1. P!Before(P!InitSteps(p_kind), 1) = {} /\ 1 <= Len(P!InitSteps(p_kind)) + 1
    BY <1>0 DEF P!Before, ListsFit, IsList
  <2> QED BY <1>0, <1>1, <2>1 DEF P!HaveByPC, P!SetupInvariant, P!AgainByPC
<1>4. P!ChipByPC' /\ P!ServerByPC' /\ P!AgainByPC'
  BY <1>0, <1>1 DEF P!SetupInvariant, P!ChipByPC, P!ServerByPC, P!AgainByPC
<1>5. P!MemoryBehindChip' /\ P!SignalsBehindServer' /\ P!WaitsWithPort'
  BY <1>0, <1>1 DEF P!SetupInvariant, P!MemoryBehindChip, P!SignalsBehindServer, P!WaitsWithPort
<1> QED BY <1>0, <1>2, <1>3, <1>4, <1>5 DEF P!SetupInvariant

\* The allocations of Chip_Init(), of the start and of a restart.
LEMMA ChipInitStep == ASSUME P!SetupInvariant, P!Chip_Init PROVE P!SetupInvariant'
<1> DEFINE L == P!InitSteps(p_kind)
           B == P!Misc \cup P!Elements(P!AllocSteps(p_kind))
<1>0. /\ p_pc = "init" /\ p_kind \in P!Kinds /\ ListsFit(p_kind)
      /\ p_known' = IF p_i = 1 THEN {} ELSE p_known
      /\ UNCHANGED <<p_kind, p_restarts, p_devices, p_server, p_callback, p_running, p_ints, p_restart,
                     p_stuck, p_waited,
                     p_early, p_again, p_preinit>>
      /\ p_halfmade' = (p_i <= Len(L) /\ p_pc' # "init")
  BY ChipLists DEF P!SetupInvariant, P!TypeOK, P!Chip_Init, P!doneVars, P!intVars, P!chipVars
<1>1. /\ p_lost' = p_lost /\ p_i' \in 1 .. 11 /\ p_have \subseteq p_have' /\ p_have' \subseteq B \cup P!Elements(L)
      /\ \/ p_pc' = p_pc /\ p_i' <= Len(L) + 1 /\ p_have' = B \cup P!Before(L, p_i')
         \/ p_pc' = "start" /\ p_i' = 1 /\ p_have' = B \cup P!Elements(L) /\ ~ (p_i <= Len(L))
         \/ p_pc' = (IF p_again THEN "start" ELSE "stop") /\ p_i' = 1 /\ p_have' = p_have /\ p_i <= Len(L)
  <2>1. IsList(L) /\ B \cap P!Elements(L) = {}
    BY <1>0 DEF ListsFit
  <2>2. p_i \in 1 .. 11 /\ p_i <= Len(L) + 1 /\ p_have = B \cup P!Before(L, p_i)
    BY <1>0 DEF P!SetupInvariant, P!TypeOK, P!HaveByPC
  <2>3. P!Allocate(L, "start", IF p_again THEN "start" ELSE "stop")
    BY DEF P!Chip_Init
  <2> HIDE DEF L, B
  <2> QED BY <2>1, <2>2, <2>3, AllocateStep, Zenon
<1>2. p_known' \subseteq p_devices /\ (p_restarts = 0 => p_known' = p_devices)
  <2>1. p_known \subseteq p_devices /\ (p_restarts = 0 => p_known = p_devices /\ p_devices = {})
    BY <1>0 DEF P!SetupInvariant, P!TypeOK, P!AgainByPC
  <2>2. CASE p_i = 1
    BY <1>0, <2>1, <2>2
  <2>3. CASE p_i # 1
    BY <1>0, <2>1, <2>3
  <2> QED BY <2>2, <2>3
<1>3. P!TypeOK'
  <2>1. p_have' \subseteq P!Everything(p_kind)
    BY <1>1 DEF P!Everything, P!Misc
  <2>2. p_pc' \in P!Phases
    BY <1>0, <1>1 DEF P!Phases
  <2> QED BY <1>0, <1>1, <1>2, <2>1, <2>2 DEF P!SetupInvariant, P!TypeOK
<1>4. P!HaveByPC'
  <2>1. B \subseteq p_have /\ P!Misc \subseteq B /\ B \cup P!Elements(L) = P!Everything(p_kind)
    BY <1>0 DEF P!SetupInvariant, P!HaveByPC, P!Everything, P!Misc
  <2>2. CASE p_pc' = "init"
    BY <1>0, <1>1, <2>2 DEF P!HaveByPC
  <2>3. CASE p_pc' = "start"
    BY <1>0, <1>1, <2>1, <2>3 DEF P!HaveByPC
  <2>5. CASE p_pc' = "stop"
    BY <1>0, <1>1, <2>1, <2>5 DEF P!HaveByPC
  <2> QED BY <1>0, <1>1, <2>2, <2>3, <2>5
<1>5. P!ChipByPC' /\ P!ServerByPC'
  BY <1>0, <1>1 DEF P!SetupInvariant, P!ChipByPC, P!ServerByPC
<1>a. p_halfmade' \in BOOLEAN /\ (p_halfmade' => p_pc' \in {"start", "stop"} /\ (p_pc' = "start" => p_again))
  BY <1>0, <1>1
<1>b. ~p_running /\ ~p_restart
  BY <1>0 DEF P!SetupInvariant, P!ChipByPC
<1>6. P!AgainByPC'
  BY <1>0, <1>1, <1>2, <1>a, <1>b DEF P!SetupInvariant, P!AgainByPC
<1>7. P!MemoryBehindChip' /\ P!SignalsBehindServer' /\ P!WaitsWithPort'
  BY <1>0, <1>1 DEF P!SetupInvariant, P!ChipByPC, P!MemoryBehindChip, P!SignalsBehindServer, P!WaitsWithPort
<1> QED BY <1>0, <1>1, <1>3, <1>4, <1>5, <1>6, <1>7 DEF P!SetupInvariant

\* Chip_Start(): the chip begins to work when everything is there.
LEMMA StartStep == ASSUME P!SetupInvariant, P!Chip_Start PROVE P!SetupInvariant'
<1>0. /\ p_pc = "start" /\ p_kind \in P!Kinds /\ ListsFit(p_kind) /\ p_i' = 1
      /\ p_pc' = (IF p_again THEN "main" ELSE "hub") \/ (p_pc' = "trap" /\ p_running' = p_running /\ p_kind = "EHCI")
      /\ p_pc' = "trap" => "ASync_Head" \notin p_have
      /\ UNCHANGED <<p_kind, p_restarts, p_devices, p_known, p_server, p_callback, p_lost, p_early, p_halfmade, p_have,
                     p_again, p_preinit,
                     p_restart, p_stuck>>
  BY ChipLists DEF P!SetupInvariant, P!TypeOK, P!Chip_Start, P!doneVars, P!slotVars, P!intVars, P!Go
<1>1. P!Wait /\ p_running' \in {p_running, TRUE, FALSE} /\ p_ints' \in {p_ints, TRUE}
  <2>1. CASE p_kind = "EHCI"
    BY <2>1 DEF P!Chip_Start, P!EHCI_Chip_Start, P!Kinds
  <2>2. CASE p_kind = "OHCI"
    BY <2>2 DEF P!Chip_Start, P!OHCI_Chip_Start, P!Kinds
  <2>3. CASE p_kind = "XHCI"
    BY <2>3 DEF P!Chip_Start, P!XHCI_Chip_Start, P!Kinds
  <2> QED BY <1>0, <2>1, <2>2, <2>3 DEF P!Kinds
<1>2. p_running' \in BOOLEAN /\ p_ints' \in BOOLEAN
  BY <1>1 DEF P!SetupInvariant, P!TypeOK
<1>3. /\ P!Misc \cup P!Elements(P!AllocSteps(p_kind)) \subseteq p_have /\ "Delay_Port" \in p_have
      /\ ~p_halfmade => p_have = P!Everything(p_kind)
      /\ p_halfmade => p_again /\ p_restarts > 0
  BY <1>0, MiscList DEF P!SetupInvariant, P!HaveByPC, P!Everything, P!Misc, P!AgainByPC
<1>a. p_pc' = "trap" => p_again
  <2>1. CASE p_halfmade
    BY <1>3, <2>1
  <2>2. CASE ~p_halfmade /\ p_pc' = "trap"
    <3>1. p_kind = "EHCI" /\ "ASync_Head" \in P!Everything(p_kind)
      BY <1>0, <2>2 DEF ListsFit, P!DMA
    <3> QED BY <1>0, <1>3, <2>2, <3>1
  <2> QED BY <2>1, <2>2
<1>4. p_waited' \in BOOLEAN /\ P!WaitsWithPort'
  BY <1>0, <1>1, <1>3, WaitHasPort
<1>5. P!TypeOK'
  BY <1>0, <1>2, <1>4 DEF P!SetupInvariant, P!TypeOK, P!Phases
<1>6. P!HaveByPC'
  BY <1>0, <1>3, <1>a DEF P!SetupInvariant, P!AgainByPC, P!HaveByPC, P!Everything, P!Misc
<1>7. P!ChipByPC' /\ P!ServerByPC' /\ P!AgainByPC'
  BY <1>0, <1>3, <1>a DEF P!SetupInvariant, P!ChipByPC, P!ServerByPC, P!AgainByPC
<1>8. P!MemoryBehindChip' /\ P!SignalsBehindServer'
  BY <1>0, <1>3 DEF P!SetupInvariant, P!MemoryBehindChip, P!SignalsBehindServer, ListsFit
<1> QED BY <1>0, <1>4, <1>5, <1>6, <1>7, <1>8 DEF P!SetupInvariant

\* The root hub is there, or the start has failed in the end.
LEMMA AddHUBStep == ASSUME P!SetupInvariant, P!__Init_1_Add_HUB PROVE P!SetupInvariant'
<1>0. /\ p_pc = "hub" /\ p_pc' \in {"main", "stop"} /\ p_i' = 1
      /\ UNCHANGED <<p_kind, p_restarts, p_devices, p_known, p_server, p_callback, p_running, p_ints,
                     p_restart, p_stuck, p_lost,
                     p_waited, p_early, p_halfmade, p_have, p_again, p_preinit>>
  BY DEF P!__Init_1_Add_HUB, P!Go, P!doneVars, P!slotVars, P!intVars, P!chipVars, P!historyVars
<1>1. P!TypeOK'
  BY <1>0 DEF P!SetupInvariant, P!TypeOK, P!Phases
<1>2. P!HaveByPC'
  BY <1>0 DEF P!HaveByPC, P!SetupInvariant, P!AgainByPC, P!Everything, P!Misc
<1>3. P!ChipByPC' /\ P!ServerByPC' /\ P!AgainByPC'
  BY <1>0 DEF P!SetupInvariant, P!ChipByPC, P!ServerByPC, P!AgainByPC
<1>4. P!MemoryBehindChip' /\ P!SignalsBehindServer' /\ P!WaitsWithPort'
  BY <1>0 DEF P!SetupInvariant, P!MemoryBehindChip, P!SignalsBehindServer, P!WaitsWithPort
<1> QED BY <1>0, <1>1, <1>2, <1>3, <1>4 DEF P!SetupInvariant

\* What a step leaves alone that changes neither the phase nor the chip.
Rest == UNCHANGED <<p_kind, p_have, p_again, p_preinit, p_server, p_callback, p_running, p_ints, p_stuck,
                    p_waited, p_early, p_halfmade, p_pc, p_i, p_restart, p_restarts>>
LEMMA RestStep ==
    ASSUME P!SetupInvariant, Rest
    PROVE  P!HaveByPC' /\ P!ChipByPC' /\ P!ServerByPC' /\ P!MemoryBehindChip' /\ P!SignalsBehindServer' /\ P!WaitsWithPort'
<1>1. P!HaveByPC'
  BY DEF P!SetupInvariant, P!HaveByPC, Rest
<1>2. P!ChipByPC' /\ P!ServerByPC'
  BY DEF P!SetupInvariant, P!ChipByPC, P!ServerByPC, Rest
<1>3. P!MemoryBehindChip' /\ P!SignalsBehindServer' /\ P!WaitsWithPort'
  BY DEF P!SetupInvariant, P!MemoryBehindChip, P!SignalsBehindServer, P!WaitsWithPort, Rest
<1> QED BY <1>1, <1>2, <1>3

\* A device comes.
LEMMA DeviceAddStep == ASSUME P!SetupInvariant, P!Device_Add PROVE P!SetupInvariant'
<1>0. /\ p_pc = "main" /\ Rest /\ UNCHANGED <<p_restarts, p_restart, p_lost>>
      /\ \E d \in {"slot1", "slot2"} \ p_devices : p_devices' = p_devices \cup {d} /\ p_known' = p_known \cup {d}
  BY DEF P!Device_Add, Rest, P!doneVars, P!intVars, P!chipVars, P!historyVars
<1>1. P!TypeOK'
  BY <1>0 DEF P!SetupInvariant, P!TypeOK, Rest
<1>2. P!AgainByPC'
  BY <1>0 DEF P!SetupInvariant, P!AgainByPC, Rest
<1> QED BY <1>0, <1>1, <1>2, RestStep DEF P!SetupInvariant

\* A device goes: its slot is lost only if it was there before a restart.
LEMMA DeviceRemoveStep == ASSUME P!SetupInvariant, P!Device_Remove PROVE P!SetupInvariant'
<1>0. /\ p_pc = "main" /\ Rest /\ UNCHANGED <<p_restarts, p_restart>>
  BY DEF P!Device_Remove, Rest, P!doneVars, P!intVars, P!chipVars
<1>1. PICK d \in p_devices : /\ p_devices' = p_devices \ {d} /\ p_known' = p_known \ {d}
                             /\ p_lost' = IF d \in p_known THEN p_lost ELSE p_lost \cup {d}
  BY DEF P!Device_Remove, P!Forget
<1>2. p_devices \subseteq {"slot1", "slot2"} /\ p_known \subseteq p_devices /\ (p_restarts = 0 => p_known = p_devices)
      /\ p_restarts \in Nat
  BY DEF P!SetupInvariant, P!TypeOK, P!AgainByPC
<1>3. p_lost' \subseteq IF p_restarts > 0 THEN {"slot1", "slot2"} ELSE {}
  BY <1>1, <1>2 DEF P!SetupInvariant
<1>4. P!TypeOK'
  <2>1. p_lost' \subseteq P!Everything(p_kind) \cup {"slot1", "slot2"}
    BY <1>1, <1>2 DEF P!SetupInvariant, P!TypeOK
  <2>2. p_known' \subseteq p_devices' /\ p_devices' \subseteq {"slot1", "slot2"}
    BY <1>1, <1>2
  <2> QED BY <1>0, <2>1, <2>2 DEF P!SetupInvariant, P!TypeOK, Rest
<1>5. P!AgainByPC'
  BY <1>0, <1>1, <1>2 DEF P!SetupInvariant, P!AgainByPC, Rest
<1> QED BY <1>0, <1>3, <1>4, <1>5, RestStep DEF P!SetupInvariant

\* A restart is begun for an error of the chip.
LEMMA HandleResetStep == ASSUME P!SetupInvariant, P!Handle_Reset PROVE P!SetupInvariant'
<1>0. /\ p_pc = "main" /\ p_restart /\ p_restart' = FALSE /\ p_again' = TRUE /\ p_pc' = "reset" /\ p_i' = 1
      /\ UNCHANGED <<p_kind, p_restarts, p_devices, p_known, p_server, p_callback, p_running, p_ints,
                     p_stuck, p_lost,
                     p_waited, p_early, p_halfmade, p_have, p_preinit>>
  BY DEF P!Handle_Reset, P!Go, P!doneVars, P!slotVars, P!intVars, P!historyVars
<1>1. P!TypeOK'
  <2>1. {p_again', p_preinit', p_server', p_callback', p_running', p_ints', p_restart', p_stuck', p_waited',
       p_early', p_halfmade'} \subseteq BOOLEAN
    BY <1>0 DEF P!SetupInvariant, P!TypeOK
  <2> QED BY <1>0, <2>1 DEF P!SetupInvariant, P!TypeOK, P!Phases
<1>2. P!HaveByPC'
  BY <1>0 DEF P!HaveByPC, P!SetupInvariant
<1>3. P!ChipByPC' /\ P!ServerByPC' /\ P!AgainByPC'
  BY <1>0 DEF P!SetupInvariant, P!ChipByPC, P!ServerByPC, P!AgainByPC
<1>4. P!MemoryBehindChip' /\ P!SignalsBehindServer' /\ P!WaitsWithPort'
  BY <1>0 DEF P!SetupInvariant, P!MemoryBehindChip, P!SignalsBehindServer, P!WaitsWithPort
<1> QED BY <1>0, <1>1, <1>2, <1>3, <1>4 DEF P!SetupInvariant

LEMMA ShutdownStep == ASSUME P!SetupInvariant, P!Shutdown PROVE P!SetupInvariant'
<1>0. /\ p_pc = "main" /\ p_devices = {} /\ p_pc' = "stop" /\ p_i' = 1 /\ p_again' = FALSE
      /\ UNCHANGED <<p_kind, p_restarts, p_devices, p_known, p_server, p_callback, p_running, p_ints,
                     p_restart, p_stuck, p_lost,
                     p_waited, p_early, p_halfmade, p_have, p_preinit>>
  BY DEF P!Shutdown, P!Go, P!doneVars, P!slotVars, P!intVars, P!chipVars, P!historyVars
<1>1. P!TypeOK'
  <2>1. {p_again', p_preinit', p_server', p_callback', p_running', p_ints', p_restart', p_stuck', p_waited',
       p_early', p_halfmade'} \subseteq BOOLEAN
    BY <1>0 DEF P!SetupInvariant, P!TypeOK
  <2> QED BY <1>0, <2>1 DEF P!SetupInvariant, P!TypeOK, P!Phases
<1>2. P!HaveByPC'
  BY <1>0 DEF P!HaveByPC, P!SetupInvariant
<1>3. P!ChipByPC' /\ P!ServerByPC' /\ P!AgainByPC'
  BY <1>0 DEF P!SetupInvariant, P!ChipByPC, P!ServerByPC, P!AgainByPC
<1>4. P!MemoryBehindChip' /\ P!SignalsBehindServer' /\ P!WaitsWithPort'
  BY <1>0 DEF P!SetupInvariant, P!MemoryBehindChip, P!SignalsBehindServer, P!WaitsWithPort
<1> QED BY <1>0, <1>1, <1>2, <1>3, <1>4 DEF P!SetupInvariant

\* Chip_Stop(): the chip rests, or is seen not to.
LEMMA StopStep == ASSUME P!SetupInvariant, P!Chip_Stop PROVE P!SetupInvariant'
<1>0. /\ p_pc = "stop" /\ p_kind \in P!Kinds /\ p_pc' = "remint" /\ p_i' = 1
      /\ UNCHANGED <<p_kind, p_restarts, p_devices, p_known, p_server, p_callback, p_lost, p_early, p_halfmade, p_have,
                     p_again, p_preinit,
                     p_restart>>
  BY DEF P!SetupInvariant, P!TypeOK, P!Chip_Stop, P!doneVars, P!slotVars, P!intVars, P!Go
<1>1. /\ P!Wait \/ UNCHANGED p_waited
      /\ p_ints' \in {p_ints, FALSE}
      /\ \/ p_running' = p_running /\ ~p_running /\ p_stuck' = p_stuck
         \/ p_running' = FALSE /\ p_stuck' = p_stuck
         \/ p_running' = p_running /\ p_stuck' = TRUE
  <2>1. CASE p_kind = "EHCI"
    BY <2>1 DEF P!Chip_Stop, P!EHCI_Stops, P!Kinds
  <2>2. CASE p_kind = "OHCI"
    BY <2>2 DEF P!Chip_Stop, P!OHCI_Stops, P!Kinds
  <2>3. CASE p_kind = "XHCI"
    BY <2>3 DEF P!Chip_Stop, P!XHCI_Stops, P!Kinds
  <2> QED BY <1>0, <2>1, <2>2, <2>3 DEF P!Kinds
<1>2. p_running' \in BOOLEAN /\ p_ints' \in BOOLEAN /\ p_stuck' \in BOOLEAN /\ (~p_running' \/ p_stuck')
  <2>1. p_running \in BOOLEAN /\ p_ints \in BOOLEAN /\ p_stuck \in BOOLEAN
    BY DEF P!SetupInvariant, P!TypeOK
  <2>2. p_ints' \in BOOLEAN
    BY <1>1, <2>1, Zenon
  <2>3. p_running' \in BOOLEAN /\ p_stuck' \in BOOLEAN /\ (~p_running' \/ p_stuck')
    <3>1. CASE p_running' = p_running /\ ~p_running /\ p_stuck' = p_stuck
      BY <2>1, <3>1, Zenon
    <3>2. CASE p_running' = FALSE /\ p_stuck' = p_stuck
      BY <2>1, <3>2
    <3>3. CASE p_running' = p_running /\ p_stuck' = TRUE
      BY <2>1, <3>3, Zenon
    <3> QED BY <1>1, <3>1, <3>2, <3>3
  <2> QED BY <2>2, <2>3
<1>a. p_running' => p_running
  <2>1. CASE p_running' = p_running
    BY <2>1, Zenon
  <2>2. CASE p_running' = FALSE
    BY <2>2
  <2> QED BY <1>1, <2>1, <2>2
<1>3. "Delay_Port" \in p_have \/ p_early
  BY <1>0, MiscList DEF P!SetupInvariant, P!HaveByPC
<1>4. p_waited' \in BOOLEAN /\ P!WaitsWithPort'
  BY <1>0, <1>1, <1>3, WaitHasPort
<1>5. P!TypeOK'
  BY <1>0, <1>2, <1>4 DEF P!SetupInvariant, P!TypeOK, P!Phases
<1>6. P!HaveByPC'
  BY <1>0 DEF P!SetupInvariant, P!HaveByPC
<1>7. P!ChipByPC' /\ P!ServerByPC' /\ P!AgainByPC'
  BY <1>0, <1>2, <1>a DEF P!SetupInvariant, P!ChipByPC, P!ServerByPC, P!AgainByPC
<1>8. P!MemoryBehindChip' /\ P!SignalsBehindServer'
  BY <1>0, <1>2 DEF P!SetupInvariant, P!MemoryBehindChip, P!SignalsBehindServer
<1> QED BY <1>0, <1>4, <1>5, <1>6, <1>7, <1>8 DEF P!SetupInvariant

\* The server goes before its signals do.
LEMMA RemIntStep == ASSUME P!SetupInvariant, P!Free_Rem_Int PROVE P!SetupInvariant'
<1>0. /\ p_pc = "remint" /\ p_pc' = "deinit" /\ p_i' = 1 /\ p_server' = FALSE /\ p_callback' = FALSE
      /\ UNCHANGED <<p_kind, p_restarts, p_devices, p_known, p_running, p_ints, p_restart, p_stuck, p_lost,
                     p_waited, p_early, p_halfmade, p_have, p_again, p_preinit>>
  BY DEF P!Free_Rem_Int, P!__Free_3_Rem_Int, P!Go, P!doneVars, P!slotVars, P!chipVars, P!historyVars
<1>1. P!TypeOK'
  <2>1. {p_again', p_preinit', p_server', p_callback', p_running', p_ints', p_restart', p_stuck', p_waited',
       p_early', p_halfmade'} \subseteq BOOLEAN
    BY <1>0 DEF P!SetupInvariant, P!TypeOK
  <2> QED BY <1>0, <2>1 DEF P!SetupInvariant, P!TypeOK, P!Phases
<1>2. P!HaveByPC'
  BY <1>0 DEF P!HaveByPC, P!SetupInvariant, P!AgainByPC
<1>3. P!ChipByPC' /\ P!ServerByPC' /\ P!AgainByPC'
  BY <1>0 DEF P!SetupInvariant, P!ChipByPC, P!ServerByPC, P!AgainByPC
<1>4. P!MemoryBehindChip' /\ P!SignalsBehindServer' /\ P!WaitsWithPort'
  BY <1>0 DEF P!SetupInvariant, P!MemoryBehindChip, P!SignalsBehindServer, P!WaitsWithPort
<1> QED BY <1>0, <1>1, <1>2, <1>3, <1>4 DEF P!SetupInvariant

\* Chip_Deinit() leaves what Chip_Alloc() made, which a restart still needs.
LEMMA DeinitStep == ASSUME P!SetupInvariant, P!Chip_Deinit PROVE P!SetupInvariant'
<1>0. /\ p_pc = "deinit" /\ p_kind \in P!Kinds /\ ListsFit(p_kind) /\ Signals \cap P!DeinitFrees(p_kind) = {}
      /\ p_have' = p_have \ P!DeinitFrees(p_kind) /\ p_pc' = (IF p_again THEN "init" ELSE "dealloc") /\ p_i' = 1
      /\ UNCHANGED <<p_kind, p_restarts, p_devices, p_known, p_server, p_callback, p_running, p_ints,
                     p_restart, p_stuck, p_lost,
                     p_waited, p_early, p_halfmade, p_again, p_preinit>>
  BY ChipLists DEF P!SetupInvariant, P!TypeOK, P!Chip_Deinit, P!Free, P!Go, P!doneVars, P!slotVars,
      P!intVars, P!chipVars,
      P!historyVars
<1>1. P!TypeOK'
  BY <1>0 DEF P!SetupInvariant, P!TypeOK, P!Phases
<1>2. P!HaveByPC'
  <2>1. CASE p_again
    <3>1. /\ P!Misc \cup P!Elements(P!AllocSteps(p_kind)) \subseteq p_have /\ p_kind # "OHCI"
          /\ p_have \subseteq P!Misc \cup P!Elements(P!AllocSteps(p_kind)) \cup P!Elements(P!InitSteps(p_kind))
      BY <1>0, <2>1 DEF P!SetupInvariant, P!TypeOK, P!HaveByPC, P!AgainByPC, P!Everything, P!Misc
    <3>2. p_have' = P!Misc \cup P!Elements(P!AllocSteps(p_kind))
      BY <1>0, <3>1 DEF ListsFit
    <3>3. P!Before(P!InitSteps(p_kind), 1) = {} /\ 1 <= Len(P!InitSteps(p_kind)) + 1
      BY <1>0 DEF P!Before, ListsFit, IsList
    <3> QED BY <1>0, <2>1, <3>2, <3>3 DEF P!HaveByPC
  <2>2. CASE ~ p_again
    BY <1>0, <2>2 DEF P!HaveByPC
  <2> QED BY <2>1, <2>2
<1>3. P!ChipByPC' /\ P!ServerByPC'
  BY <1>0 DEF P!SetupInvariant, P!ChipByPC, P!ServerByPC, P!AgainByPC
<1>4. P!AgainByPC'
  BY <1>0 DEF P!SetupInvariant, P!AgainByPC
<1>5. P!MemoryBehindChip'
  BY <1>0 DEF P!SetupInvariant, P!MemoryBehindChip, P!ChipByPC
<1>6. P!SignalsBehindServer' /\ P!WaitsWithPort'
  BY <1>0 DEF P!SetupInvariant, P!SignalsBehindServer, P!WaitsWithPort, Signals
<1> QED BY <1>0, <1>1, <1>2, <1>3, <1>4, <1>5, <1>6 DEF P!SetupInvariant

LEMMA DeallocStep == ASSUME P!SetupInvariant, P!Chip_Dealloc PROVE P!SetupInvariant'
<1>0. /\ p_pc = "dealloc" /\ p_pc' = "free" /\ p_i' = 1 /\ p_have' = p_have \ P!DeallocFrees(p_kind)
      /\ UNCHANGED <<p_kind, p_restarts, p_devices, p_known, p_server, p_callback, p_running, p_ints,
                     p_restart, p_stuck, p_lost,
                     p_waited, p_early, p_halfmade, p_again, p_preinit>>
  BY DEF P!Chip_Dealloc, P!Free, P!Go, P!doneVars, P!slotVars, P!intVars, P!chipVars, P!historyVars
<1>1. P!TypeOK'
  BY <1>0 DEF P!SetupInvariant, P!TypeOK, P!Phases
<1>2. P!HaveByPC'
  BY <1>0 DEF P!SetupInvariant, P!HaveByPC
<1>3. P!ChipByPC' /\ P!ServerByPC' /\ P!AgainByPC'
  BY <1>0 DEF P!SetupInvariant, P!ChipByPC, P!ServerByPC, P!AgainByPC
<1>4. P!MemoryBehindChip' /\ P!SignalsBehindServer' /\ P!WaitsWithPort'
  BY <1>0 DEF P!SetupInvariant, P!MemoryBehindChip, P!SignalsBehindServer, P!WaitsWithPort, P!ChipByPC,
      P!ServerByPC
<1> QED BY <1>0, <1>1, <1>2, <1>3, <1>4 DEF P!SetupInvariant

\* After __Free_3_Misc() there is nothing left.
LEMMA FreeMiscStep == ASSUME P!SetupInvariant, P!Free_Misc PROVE P!SetupInvariant'
<1>0. /\ p_pc = "free" /\ p_kind \in P!Kinds /\ ListsFit(p_kind) /\ p_pc' = "end" /\ p_i' = 1
      /\ p_have' = p_have \ P!__Free_3_Misc
      /\ UNCHANGED <<p_kind, p_restarts, p_devices, p_known, p_server, p_callback, p_running, p_ints,
                     p_restart, p_stuck, p_lost,
                     p_waited, p_early, p_halfmade, p_again, p_preinit>>
  BY ChipLists DEF P!SetupInvariant, P!TypeOK, P!Free_Misc, P!Free, P!Go, P!doneVars, P!slotVars,
      P!intVars, P!chipVars, P!historyVars
<1>1. P!TypeOK'
  BY <1>0 DEF P!SetupInvariant, P!TypeOK, P!Phases
<1>2. p_have' = {}
  <2>1. p_have \subseteq P!__Free_3_Misc \cup P!DeinitFrees(p_kind) \cup P!DeallocFrees(p_kind)
    BY <1>0 DEF P!SetupInvariant, P!TypeOK, ListsFit
  <2>2. p_have \cap P!DeinitFrees(p_kind) = {} /\ p_have \cap P!DeallocFrees(p_kind) = {}
    BY <1>0 DEF P!SetupInvariant, P!HaveByPC
  <2> QED BY <1>0, <2>1, <2>2
<1>3. P!HaveByPC'
  BY <1>0, <1>2 DEF P!HaveByPC
<1>4. P!ChipByPC' /\ P!ServerByPC' /\ P!AgainByPC'
  BY <1>0 DEF P!SetupInvariant, P!ChipByPC, P!ServerByPC, P!AgainByPC
<1>5. P!MemoryBehindChip' /\ P!SignalsBehindServer' /\ P!WaitsWithPort'
  BY <1>0 DEF P!SetupInvariant, P!MemoryBehindChip, P!SignalsBehindServer, P!WaitsWithPort, P!ChipByPC,
      P!ServerByPC
<1> QED BY <1>0, <1>1, <1>3, <1>4, <1>5 DEF P!SetupInvariant

\* An error stops the chip and asks for a restart.
LEMMA ErrorStep ==
    ASSUME P!HostSetupAssumption, P!SetupInvariant, P!HostSystemError
    PROVE P!SetupInvariant'
<1>0. /\ p_kind # "OHCI" /\ p_restarts < MaxSetupRestarts /\ p_running /\ p_running' = FALSE /\ p_restart' = TRUE
      /\ p_restarts' = p_restarts + 1
      /\ UNCHANGED <<p_kind, p_devices, p_known, p_server, p_callback, p_ints, p_stuck, p_lost, p_waited,
                     p_early, p_halfmade, p_have, p_again,
                     p_preinit, p_pc, p_i>>
  BY DEF P!HostSystemError, P!slotVars, P!intVars, P!historyVars
<1>1. p_restarts \in Nat /\ p_restarts' \in 0 .. MaxSetupRestarts /\ p_restarts' > 0
  BY <1>0 DEF P!SetupInvariant, P!TypeOK, P!HostSetupAssumption
<1>2. P!TypeOK'
  BY <1>0, <1>1 DEF P!SetupInvariant, P!TypeOK
<1>3. P!HaveByPC'
  BY <1>0 DEF P!SetupInvariant, P!HaveByPC
<1>4. P!ChipByPC' /\ P!ServerByPC' /\ P!AgainByPC'
  BY <1>0, <1>1 DEF P!SetupInvariant, P!ChipByPC, P!ServerByPC, P!AgainByPC
<1>5. P!MemoryBehindChip' /\ P!SignalsBehindServer' /\ P!WaitsWithPort'
  BY <1>0 DEF P!SetupInvariant, P!MemoryBehindChip, P!SignalsBehindServer, P!WaitsWithPort
<1>6. p_lost' \subseteq {"slot1", "slot2"}
  BY <1>0 DEF P!SetupInvariant
<1> QED BY <1>1, <1>2, <1>3, <1>4, <1>5, <1>6 DEF P!SetupInvariant

\* Nothing changes.
LEMMA SetupStutters == ASSUME P!SetupInvariant, UNCHANGED P!vars PROVE P!SetupInvariant'
<1>1. Rest /\ UNCHANGED <<p_restarts, p_restart, p_devices, p_known, p_lost>>
  BY DEF P!vars, Rest
<1>2. P!TypeOK' /\ P!AgainByPC'
  BY <1>1 DEF P!SetupInvariant, P!TypeOK, P!AgainByPC, Rest
<1> QED BY <1>1, <1>2, RestStep DEF P!SetupInvariant

LEMMA SetupNext ==
    ASSUME P!HostSetupAssumption, P!SetupInvariant, [P!Next]_(P!vars)
    PROVE P!SetupInvariant'
<1>1. CASE P!Start
  BY <1>1, InitMiscStep, PreinitStep, ResetStep, AllocStep, AddIntStep, ChipInitStep, StartStep, AddHUBStep
  DEF P!Start
<1>2. CASE P!Main
  BY <1>2, DeviceAddStep, DeviceRemoveStep, HandleResetStep, ShutdownStep DEF P!Main
<1>3. CASE P!Stop
  BY <1>3, StopStep, RemIntStep, DeinitStep, DeallocStep, FreeMiscStep DEF P!Stop
<1>4. CASE P!HostSystemError
  BY <1>4, ErrorStep
<1>5. CASE UNCHANGED P!vars
  BY <1>5, SetupStutters
<1> QED BY <1>1, <1>2, <1>3, <1>4, <1>5 DEF P!Next

\* What the invariant is for.
LEMMA SetupGood == ASSUME P!SetupInvariant PROVE P!SetupIsSound
BY DEF P!SetupInvariant, P!SetupIsSound, P!NothingLeft, P!HaveByPC, P!ServerByPC

-----------------------------------------------------------------------------
(* A port of a root hub (RootPorts). *)

Bits == R!StateBits \cup R!ChgBits
PortTypes == r_st \subseteq R!StateBits /\ r_chg \subseteq R!ChgBits /\ r_dev \in R!Speeds
FunctionTypes ==
    /\ r_flag \in BOOLEAN /\ r_cached \in R!Speeds /\ r_fn \in DOMAIN R!OHCIFunctions({}) \cup {"none"}
    /\ r_by \in {"hub", "other"} /\ r_ones \subseteq Bits
    /\ r_stage \in {"write", "wait", "release", "settle", "disown", "clear"}
DriverTypes ==
    /\ r_pc \in DOMAIN R!HubRequest \cup DOMAIN R!SetupOrder \cup {"wait", "add3"}
    /\ r_seen \subseteq Bits /\ r_tries \in 0..(Polls - 1) /\ r_retry \in 0..(Retries - 1) /\ r_late \in BOOLEAN
OtherTypes ==
    r_kind \in R!Kinds /\ r_configNr \in {0, R!HUB_Cfg_Nr} /\ r_events \in 0..MaxEvents /\ r_others \in 0..MaxOthers

LEMMA PortsTypes == R!TypeOK <=> PortTypes /\ FunctionTypes /\ DriverTypes /\ OtherTypes
BY DEF R!TypeOK, PortTypes, FunctionTypes, DriverTypes, OtherTypes, Bits
LEMMA PortsTypesNext == ASSUME PortTypes', FunctionTypes', DriverTypes', OtherTypes' PROVE R!TypeOK'
BY DEF R!TypeOK, PortTypes, FunctionTypes, DriverTypes, OtherTypes, Bits

\* Whatever is written, the register has its bits.
LEMMA WriteKeepsTypes ==
    ASSUME PortTypes, NEW w \in SUBSET Bits, R!HardwareWrite(w) PROVE PortTypes'
<1>1. CASE r_kind = "EHCI" /\ R!EHCI_Write(w)
  <2>1. r_chg' \subseteq R!ChgBits /\ r_dev' \in R!Speeds
    BY <1>1 DEF PortTypes, R!EHCI_Write, R!ChgBits
  <2>2. r_st' \subseteq R!StateBits
    BY <1>1 DEF PortTypes, R!EHCI_Write, R!StateBits
  <2> QED BY <2>1, <2>2 DEF PortTypes
<1>2. CASE r_kind = "OHCI" /\ R!OHCI_Write(w)
  <2>1. r_chg' \subseteq R!ChgBits /\ r_dev' \in R!Speeds
    BY <1>2 DEF PortTypes, R!OHCI_Write, R!Speeds
  <2>2. r_st' \subseteq R!StateBits
    BY <1>2 DEF PortTypes, R!OHCI_Write, R!StateBits
  <2> QED BY <2>1, <2>2 DEF PortTypes
<1>3. CASE r_kind = "XHCI" /\ R!XHCI_Write(w)
  BY <1>3 DEF PortTypes, R!XHCI_Write, R!StateBits
<1> QED BY <1>1, <1>2, <1>3 DEF R!HardwareWrite

\* Every driver has functions of the same names, and they write bits of the register.
LEMMA WritesAreBits ==
    ASSUME NEW v \in SUBSET Bits
    PROVE  /\ R!EHCI_Port_Clr_Connect_Chg(v) \subseteq Bits /\ R!EHCI_Port_Set_Power(v) \subseteq Bits
           /\ R!EHCI_Port_Set_Reset(v) \subseteq Bits /\ R!EHCI_Port_Disown(v) \subseteq Bits
           /\ R!EHCI_Reset_End(v) \subseteq Bits
           /\ R!XHCI_Port_Clr_Connect_Chg(v) \subseteq Bits /\ R!XHCI_Port_Set_Power(v) \subseteq Bits
           /\ R!XHCI_Reset_Start(v) \subseteq Bits /\ R!XHCI_Clear_PRC(v) \subseteq Bits
           /\ R!OHCI_Port_Clr_Enable(v) \subseteq Bits /\ R!OHCI_Port_Set_Enable(v) \subseteq Bits
           /\ R!OHCI_Port_Clr_Suspend(v) \subseteq Bits /\ R!OHCI_Port_Set_Suspend(v) \subseteq Bits
           /\ R!OHCI_Port_Clr_Power(v) \subseteq Bits /\ R!OHCI_Port_Set_Power(v) \subseteq Bits
<1>0. {"CSC", "PEC", "PSSC", "OCC", "PRSC", "PES", "PSS", "PPS", "PO", "PRS"} \subseteq Bits
  BY DEF Bits, R!StateBits, R!ChgBits
<1>1. /\ R!EHCI_Port_Clr_Connect_Chg(v) \subseteq Bits /\ R!EHCI_Port_Set_Power(v) \subseteq Bits
      /\ R!EHCI_Port_Disown(v) \subseteq Bits /\ R!EHCI_Reset_Start(v) \subseteq Bits
      /\ R!EHCI_Reset_End(v) \subseteq Bits
  BY <1>0 DEF R!EHCI_Port_Clr_Connect_Chg, R!EHCI_Port_Set_Power, R!EHCI_Port_Disown, R!EHCI_Reset_Start,
      R!EHCI_Reset_End
<1>2. R!EHCI_Port_Set_Reset(v) \subseteq Bits
  BY <1>1 DEF R!EHCI_Port_Set_Reset
<1>3. /\ R!XHCI_Port_Clr_Connect_Chg(v) \subseteq Bits /\ R!XHCI_Port_Set_Power(v) \subseteq Bits
      /\ R!XHCI_Reset_Start(v) \subseteq Bits /\ R!XHCI_Clear_PRC(v) \subseteq Bits
  BY <1>0 DEF R!XHCI_Port_Clr_Connect_Chg, R!XHCI_Port_Set_Power, R!XHCI_Reset_Start, R!XHCI_Clear_PRC
<1>4. /\ R!OHCI_Port_Clr_Enable(v) \subseteq Bits /\ R!OHCI_Port_Set_Enable(v) \subseteq Bits
      /\ R!OHCI_Port_Clr_Suspend(v) \subseteq Bits /\ R!OHCI_Port_Set_Suspend(v) \subseteq Bits
      /\ R!OHCI_Port_Clr_Power(v) \subseteq Bits /\ R!OHCI_Port_Set_Power(v) \subseteq Bits
  BY <1>0 DEF R!OHCI_Port_Clr_Enable, R!OHCI_Port_Set_Enable, R!OHCI_Port_Clr_Suspend,
      R!OHCI_Port_Set_Suspend,
      R!OHCI_Port_Clr_Power, R!OHCI_Port_Set_Power
<1> QED BY <1>1, <1>2, <1>3, <1>4

LEMMA FunctionsKeepTypes ==
    ASSUME r_kind \in R!Kinds, NEW v \in SUBSET Bits, NEW f, R!HasFunction(f)
    PROVE  f \in DOMAIN R!OHCIFunctions({}) /\ R!Functions(v)[f] \subseteq Bits
<1>1. CASE r_kind = "EHCI"
  <2>1. R!Functions({}) = R!EHCIFunctions({}) /\ R!Functions(v) = R!EHCIFunctions(v)
    BY <1>1 DEF R!Functions
  <2>2. f \in {"Port_Clr_Connection_Chg", "Port_Clr_Reset_Chg", "Port_Get_Status", "Port_Set_Power",
               "Port_Set_Reset"}
    BY <2>1 DEF R!HasFunction, R!EHCIFunctions
  <2>3. f \in DOMAIN R!OHCIFunctions({})
    BY <2>2 DEF R!OHCIFunctions
  <2>4. R!EHCIFunctions(v)[f] \subseteq Bits
    BY <2>2, WritesAreBits DEF R!EHCIFunctions
  <2> QED BY <2>1, <2>3, <2>4
<1>2. CASE r_kind = "OHCI"
  <2>1. R!Functions({}) = R!OHCIFunctions({}) /\ R!Functions(v) = R!OHCIFunctions(v)
    BY <1>2 DEF R!Functions
  <2>2. f \in DOMAIN R!OHCIFunctions({})
    BY <2>1 DEF R!HasFunction
  <2>3. R!OHCIFunctions(v)[f] \subseteq Bits
    <3>1. {"CSC", "PEC", "PSSC", "OCC", "PRSC", "PRS"} \subseteq Bits
      BY DEF Bits, R!StateBits, R!ChgBits
    <3> QED BY <2>2, <3>1, WritesAreBits
      DEF R!OHCIFunctions, R!OHCI_Port_Clr_Connect_Chg, R!OHCI_Port_Clr_Enable_Chg,
      R!OHCI_Port_Clr_Suspend_Chg,
          R!OHCI_Port_Clr_OverCurrent_Chg, R!OHCI_Port_Clr_Reset_Chg, R!OHCI_Port_Set_Reset,
          R!OHCI_Port_Clr_Indicator, R!OHCI_Port_Set_Indicator
  <2> QED BY <2>1, <2>2, <2>3
<1>3. CASE r_kind = "XHCI"
  <2>1. R!Functions({}) = R!XHCIFunctions({}) /\ R!Functions(v) = R!XHCIFunctions(v)
    BY <1>3 DEF R!Functions
  <2>2. f \in {"Port_Clr_Connection_Chg", "Port_Clr_Reset_Chg", "Port_Get_Status", "Port_Set_Power",
               "Port_Set_Reset"}
    BY <2>1 DEF R!HasFunction, R!XHCIFunctions
  <2>3. f \in DOMAIN R!OHCIFunctions({})
    BY <2>2 DEF R!OHCIFunctions
  <2>4. R!XHCIFunctions(v)[f] \subseteq Bits
    BY <2>2, WritesAreBits DEF R!XHCIFunctions
  <2> QED BY <2>1, <2>3, <2>4
<1> QED BY <1>1, <1>2, <1>3 DEF R!Kinds

LEMMA StatusKeepsTypes ==
    ASSUME r_kind \in R!Kinds, NEW v \in SUBSET Bits PROVE R!Port_Get_Status(v) \subseteq Bits
<1>1. R!EHCI_Port_Get_Status(v) \subseteq Bits /\ R!OHCI_Port_Get_Status(v) \subseteq Bits
      /\ R!XHCI_Port_Get_Status(v) \subseteq Bits
  BY DEF R!EHCI_Port_Get_Status, R!OHCI_Port_Get_Status, R!XHCI_Port_Get_Status, Bits, R!StateBits,
      R!ChgBits
<1> QED BY <1>1 DEF R!Port_Get_Status, R!Kinds

\* The driver goes on with any answer, in the setup of the hub with one without an error.
LEMMA HubGetsKeepsTypes ==
    ASSUME R!RootPortsAssumption, DriverTypes, NEW err, NEW status \in SUBSET Bits, R!HubGets(err, status),
           r_pc \in DOMAIN R!SetupOrder => err = "NoError"
    PROVE  DriverTypes'
<1>0. Polls \in Nat \ {0} /\ Retries \in Nat \ {0}
  BY DEF R!RootPortsAssumption
<1>1. DOMAIN R!HubRequest = {"power", "status", "clear", "add", "disable", "reset", "poll", "clrreset", "look"}
      /\ DOMAIN R!SetupOrder = {"device", "configuration", "config", "hub"}
  BY DEF R!HubRequest, R!SetupOrder
<1> DEFINE Pcs == DOMAIN R!HubRequest \cup DOMAIN R!SetupOrder \cup {"wait", "add3"}
<1>2. /\ r_seen \subseteq Bits /\ r_late \in BOOLEAN
      /\ r_tries \in Nat /\ 0 <= r_tries /\ r_tries <= Polls - 1
      /\ r_retry \in Nat /\ 0 <= r_retry /\ r_retry <= Retries - 1
  <2>1. r_seen \subseteq Bits /\ r_late \in BOOLEAN /\ r_tries \in 0..(Polls - 1) /\ r_retry \in 0..(Retries - 1)
    BY DEF DriverTypes
  <2> QED BY <1>0, <2>1
<1>3. SUFFICES r_pc' \in Pcs /\ r_seen' \subseteq Bits /\ r_tries' \in 0..(Polls - 1) /\ r_retry' \in 0..(Retries - 1)
               /\ r_late' \in BOOLEAN
  BY DEF DriverTypes
<1>4. ASSUME NEW p \in Pcs, R!Hub(p)
      PROVE  r_pc' \in Pcs /\ r_seen' \subseteq Bits /\ r_tries' \in 0..(Polls - 1) /\ r_retry' \in 0..(Retries - 1)
             /\ r_late' \in BOOLEAN
  BY <1>0, <1>2, <1>4 DEF R!Hub
<1>5. ASSUME R!Again
      PROVE  r_pc' \in Pcs /\ r_seen' \subseteq Bits /\ r_tries' \in 0..(Polls - 1) /\ r_retry' \in 0..(Retries - 1)
             /\ r_late' \in BOOLEAN
  BY <1>0, <1>1, <1>2, <1>5 DEF R!Again
<1>a. {"wait", "status", "clear", "add", "reset", "disable", "poll", "clrreset", "look", "add3", "power"} \subseteq Pcs
  BY <1>1
<1> HIDE DEF Pcs
<1>6. CASE r_pc \in DOMAIN R!SetupOrder /\ R!Hub(IF err = "NoError" THEN R!SetupOrder[r_pc] ELSE "stopped")
  <2>1. R!SetupOrder[r_pc] \in Pcs
    BY <1>1, <1>6 DEF R!SetupOrder, Pcs
  <2> QED BY <1>4, <1>6, <2>1
<1>7. CASE r_pc = "power" /\ R!Hub("wait")
  BY <1>4, <1>7, <1>a
<1>8. CASE r_pc = "status" /\ R!Port_Chg(status)
  BY <1>0, <1>2, <1>8, <1>a DEF R!Port_Chg
<1>9. CASE r_pc = "clear" /\ IF err = "NoError" /\ "CCS" \in r_seen THEN R!Hub("add") ELSE
                             r_pc' = "wait" /\ r_seen' = {} /\ UNCHANGED <<r_tries, r_retry, r_late>>
  <2>1. CASE R!Hub("add")
    BY <1>4, <1>a, <2>1
  <2>2. CASE r_pc' = "wait" /\ r_seen' = {} /\ UNCHANGED <<r_tries, r_retry, r_late>>
    BY <1>0, <1>2, <1>a, <2>2
  <2> QED BY <1>9, <2>1, <2>2
<1>10. CASE r_pc = "add" /\ R!Function_Add(status)
  BY <1>4, <1>10, <1>a DEF R!Function_Add
<1>11. CASE r_pc = "disable" /\ IF err # "NoError" THEN R!Hub("wait") ELSE R!Hub("reset")
  BY <1>4, <1>11, <1>a
<1>12. CASE r_pc = "reset" /\ IF err = "NoError" THEN R!Hub("poll") ELSE R!Again
  BY <1>4, <1>5, <1>12, <1>a
<1>13. CASE r_pc = "poll" /\ R!Poll(status)
  <2>1. CASE "PRSC" \in status \/ r_tries + 1 = Polls
    <3>1. r_late' \in BOOLEAN
      BY <1>2, <1>13, <2>1 DEF R!Poll
    <3> QED BY <1>0, <1>2, <1>13, <1>a, <2>1, <3>1 DEF R!Poll
  <2>2. CASE ~ ("PRSC" \in status \/ r_tries + 1 = Polls)
    BY <1>0, <1>2, <1>13, <1>a, <2>2 DEF R!Poll
  <2> QED BY <2>1, <2>2
<1>14. CASE r_pc = "clrreset" /\ IF err = "NoError" THEN R!Hub("look") ELSE R!Again
  BY <1>4, <1>5, <1>14, <1>a
<1>15. CASE r_pc = "look" /\ IF "CCS" \in status THEN R!Hub("add3") ELSE R!Again
  BY <1>4, <1>5, <1>15, <1>a
<1> QED
  BY <1>6, <1>7, <1>8, <1>9, <1>10, <1>11, <1>12, <1>13, <1>14, <1>15 DEF R!HubGets

\* The function that each request of the hub's driver is for.
LEMMA HubFunctions ==
    /\ DOMAIN R!HubRequest = {"power", "status", "clear", "add", "disable", "reset", "poll", "clrreset", "look"}
    /\ R!FunctionOf(R!HubRequest["power"]) = "Port_Set_Power"
    /\ R!FunctionOf(R!HubRequest["status"]) = "Port_Get_Status"
    /\ R!FunctionOf(R!HubRequest["clear"]) = "Port_Clr_Connection_Chg"
    /\ R!FunctionOf(R!HubRequest["add"]) = "Port_Get_Status"
    /\ R!FunctionOf(R!HubRequest["disable"]) = "none"
    /\ R!FunctionOf(R!HubRequest["reset"]) = "Port_Set_Reset"
    /\ R!FunctionOf(R!HubRequest["poll"]) = "Port_Get_Status"
    /\ R!FunctionOf(R!HubRequest["clrreset"]) = "Port_Clr_Reset_Chg"
    /\ R!FunctionOf(R!HubRequest["look"]) = "Port_Get_Status"
    /\ \A p \in DOMAIN R!HubRequest : R!HubRequest[p] \in R!Requests
<1>1. R!FunctionOf(<<"Set", "PORT_POWER">>) = "Port_Set_Power" /\ R!FunctionOf(<<"Set", "PORT_RESET">>) = "Port_Set_Reset"
  BY DEF R!FunctionOf, R!Set_Feature
<1>2. /\ R!FunctionOf(<<"Clear", "PORT_CLR_CONNECTION">>) = "Port_Clr_Connection_Chg"
      /\ R!FunctionOf(<<"Clear", "PORT_CLR_RESET">>) = "Port_Clr_Reset_Chg"
      /\ R!FunctionOf(<<"Clear", "PORT_ENABLE">>) = "none"
  BY DEF R!FunctionOf, R!Clr_Feature
<1>3. R!FunctionOf(<<"Get", "PORT_STATUS">>) = "Port_Get_Status"
  BY DEF R!FunctionOf, R!Get_Status
<1>4. DOMAIN R!HubRequest = {"power", "status", "clear", "add", "disable", "reset", "poll", "clrreset", "look"}
  BY DEF R!HubRequest
<1>5. /\ R!HubRequest["power"] = <<"Set", "PORT_POWER">> /\ R!HubRequest["status"] = <<"Get", "PORT_STATUS">>
      /\ R!HubRequest["clear"] = <<"Clear", "PORT_CLR_CONNECTION">> /\ R!HubRequest["add"] = <<"Get", "PORT_STATUS">>
      /\ R!HubRequest["disable"] = <<"Clear", "PORT_ENABLE">> /\ R!HubRequest["reset"] = <<"Set", "PORT_RESET">>
      /\ R!HubRequest["poll"] = <<"Get", "PORT_STATUS">> /\ R!HubRequest["clrreset"] = <<"Clear", "PORT_CLR_RESET">>
      /\ R!HubRequest["look"] = <<"Get", "PORT_STATUS">>
  BY DEF R!HubRequest
<1>6. /\ <<"Set", "PORT_POWER">> \in R!Requests /\ <<"Set", "PORT_RESET">> \in R!Requests
      /\ <<"Clear", "PORT_CLR_CONNECTION">> \in R!Requests /\ <<"Clear", "PORT_CLR_RESET">> \in R!Requests
      /\ <<"Clear", "PORT_ENABLE">> \in R!Requests /\ <<"Get", "PORT_STATUS">> \in R!Requests
  BY DEF R!Requests, R!Set_Feature, R!Clr_Feature
<1> QED BY <1>1, <1>2, <1>3, <1>4, <1>5, <1>6

\* The functions that a request can be for.
LEMMA RequestFunctions ==
    ASSUME NEW r \in R!Requests
    PROVE  R!FunctionOf(r) \in {"none", "Port_Set_Enable", "Port_Set_Suspend", "Port_Set_Reset", "Port_Set_Power",
                              "Port_Clr_Connection_Chg", "Port_Clr_Enable_Chg", "Port_Clr_Suspend_Chg",
                              "Port_Clr_OverCurrent_Chg", "Port_Clr_Reset_Chg", "Port_Get_Status"}
<1>1. CASE \E f \in DOMAIN R!Set_Feature : r = <<"Set", f>>
  BY <1>1 DEF R!FunctionOf, R!Set_Feature
<1>2. CASE \E f \in DOMAIN R!Clr_Feature : r = <<"Clear", f>>
  BY <1>2 DEF R!FunctionOf, R!Clr_Feature
<1>3. CASE r = <<"Get", "PORT_STATUS">>
  BY <1>3 DEF R!FunctionOf, R!Get_Status
<1>4. CASE r = <<"Clear", "PORT_ENABLE">>
  BY <1>4 DEF R!FunctionOf, R!Clr_Feature
<1> QED BY <1>1, <1>2, <1>3, <1>4 DEF R!Requests

\* Where the driver goes with an answer: it looks at the device it has reset after it has seen
\* the end of the reset.
LEMMA HubGoes ==
    ASSUME NEW err, NEW status, R!HubGets(err, status), r_late \in BOOLEAN
    PROVE  /\ r_pc' = "poll" => r_pc \in {"reset", "poll"}
           /\ r_pc = "poll" => r_pc' \in {"poll", "clrreset"}
           /\ r_pc' = "clrreset" => r_pc = "poll" /\ (~r_late' => "PRSC" \in status)
           /\ r_pc' = "look" => r_pc = "clrreset"
           /\ r_pc' = "add3" => r_pc = "look"
           /\ r_pc = "reset" /\ err = "NoError" => r_pc' = "poll"
           /\ ~r_late' => ~r_late
           /\ r_pc # "wait" /\ r_pc # "add3"
<1> DEFINE Goes ==
           /\ r_pc' = "poll" => r_pc \in {"reset", "poll"}
           /\ r_pc = "poll" => r_pc' \in {"poll", "clrreset"}
           /\ r_pc' = "clrreset" => r_pc = "poll" /\ (~r_late' => "PRSC" \in status)
           /\ r_pc' = "look" => r_pc = "clrreset"
           /\ r_pc' = "add3" => r_pc = "look"
           /\ r_pc = "reset" /\ err = "NoError" => r_pc' = "poll"
           /\ ~r_late' => ~r_late
           /\ r_pc # "wait" /\ r_pc # "add3"
<1>1. CASE r_pc \in DOMAIN R!SetupOrder /\ R!Hub(IF err = "NoError" THEN R!SetupOrder[r_pc] ELSE "stopped")
  <2>1. r_pc \in {"device", "configuration", "config", "hub"} /\ r_pc' \in {"configuration", "config", "hub", "power", "stopped"}
    BY <1>1 DEF R!SetupOrder, R!Hub
  <2> QED BY <1>1, <2>1 DEF R!Hub
<1>2. CASE \/ r_pc = "power" /\ R!Hub("wait")
           \/ r_pc = "disable" /\ IF err # "NoError" THEN R!Hub("wait") ELSE R!Hub("reset")
  BY <1>2 DEF R!Hub
<1>3. CASE \/ r_pc = "status" /\ R!Port_Chg(status)
           \/ r_pc = "clear" /\ IF err = "NoError" /\ "CCS" \in r_seen THEN R!Hub("add") ELSE
                                r_pc' = "wait" /\ r_seen' = {} /\ UNCHANGED <<r_tries, r_retry, r_late>>
           \/ r_pc = "add" /\ R!Function_Add(status)
  BY <1>3 DEF R!Hub, R!Port_Chg, R!Function_Add
<1>4. CASE \/ r_pc = "reset" /\ IF err = "NoError" THEN R!Hub("poll") ELSE R!Again
           \/ r_pc = "clrreset" /\ IF err = "NoError" THEN R!Hub("look") ELSE R!Again
           \/ r_pc = "look" /\ IF "CCS" \in status THEN R!Hub("add3") ELSE R!Again
  BY <1>4 DEF R!Hub, R!Again
<1>5. CASE r_pc = "poll" /\ R!Poll(status)
  BY <1>5 DEF R!Poll
<1> QED BY <1>1, <1>2, <1>3, <1>4, <1>5 DEF R!HubGets

\* Whatever is written, the register is one that the driver can find.
LEMMA WrittenRegister ==
    ASSUME r_kind \in R!Kinds, PortTypes, R!RegisterFits, NEW w \in SUBSET Bits, R!HardwareWrite(w), r_kind' = r_kind
    PROVE  R!RegisterFits'
<1>1. "PSSC" \notin r_chg' /\ (r_kind = "EHCI" => "PRSC" \notin r_chg')
  <2>1. r_chg' \subseteq r_chg \cup {"CSC"}
    BY DEF R!HardwareWrite, R!EHCI_Write, R!OHCI_Write, R!XHCI_Write
  <2> QED BY <2>1 DEF R!RegisterFits
<1>2. r_kind = "EHCI" /\ "PES" \in r_st' => r_st' \cap {"PRS", "PO"} = {}
  <2> SUFFICES ASSUME r_kind = "EHCI", "PES" \in r_st' PROVE r_st' \cap {"PRS", "PO"} = {}
    OBVIOUS
  <2>1. R!EHCI_Write(w)
    BY DEF R!HardwareWrite
  <2> DEFINE rw == {"PSS", "PPS", "PO"}
             kept == (r_st \ rw) \cup (rw \cap w)
             gone == IF "PO" \in w THEN {"CCS", "PES"} ELSE {}
  <2>2. CASE "PRS" \in w /\ r_st' = (kept \ ({"PES"} \cup gone)) \cup {"PRS"}
    BY <2>2
  <2>3. CASE /\ "PRS" \in r_st \ w
             /\ r_st' \in {kept, (kept \ {"PRS"}) \cup IF r_dev = "high" /\ gone = {} THEN {"PES"} ELSE {}}
    <3>1. "PES" \notin kept
      BY <2>3 DEF R!RegisterFits
    <3>2. r_st' = (kept \ {"PRS"}) \cup {"PES"} /\ gone = {}
      BY <2>3, <3>1
    <3> QED BY <3>2
  <2>4. CASE "PRS" \notin r_st \cup w /\ r_st' = kept \ (gone \cup IF "PES" \in w THEN {} ELSE {"PES"})
    BY <2>4
  <2> QED BY <2>1, <2>2, <2>3, <2>4 DEF R!EHCI_Write
<1>3. r_kind = "OHCI" /\ "PPS" \notin r_st' => r_st' = {}
  BY DEF R!HardwareWrite, R!OHCI_Write
<1> QED BY <1>1, <1>2, <1>3 DEF R!RegisterFits

\* A write that is not careless clears and keeps what it should.
LEMMA WriteExact ==
    ASSUME r_kind \in R!Kinds, PortTypes, R!RegisterFits, NEW w \in SUBSET Bits, R!HardwareWrite(w),
           NEW f, R!WriteFits(f, w)
    PROVE  /\ r_chg \ r_chg' \subseteq R!ClearedBy(f)
           /\ "PES" \in r_st \ r_st' => f = "Port_Set_Reset"
           /\ "PPS" \in r_st => "PPS" \in r_st'
<1>0. /\ w \cap R!ChgBits \subseteq R!ClearedBy(f)
      /\ r_kind # "OHCI" /\ "PPS" \in r_st => "PPS" \in w
      /\ r_kind = "OHCI" => w \cap {"CCS", "LSDA"} = {}
      /\ f # "Port_Set_Reset" /\ "PES" \in r_st =>
            /\ r_kind = "EHCI" => "PES" \in w /\ w \cap {"PRS", "PO"} = {}
            /\ r_kind = "XHCI" => w \cap {"PES", "PRS"} = {}
  BY DEF R!WriteFits
<1>1. r_chg \ r_chg' \subseteq R!ClearedBy(f)
  <2>1. r_chg \ r_chg' \subseteq w /\ r_chg \subseteq R!ChgBits
    BY DEF R!HardwareWrite, R!EHCI_Write, R!OHCI_Write, R!XHCI_Write, PortTypes
  <2> QED BY <1>0, <2>1
<1>2. CASE r_kind = "EHCI"
  <2>1. "PPS" \in r_st => "PPS" \in r_st'
    BY <1>0, <1>2 DEF R!HardwareWrite, R!EHCI_Write
  <2>2. ASSUME f # "Port_Set_Reset", "PES" \in r_st PROVE "PES" \in r_st'
    <3>1. "PES" \in w /\ "PRS" \notin w /\ "PO" \notin w /\ "PRS" \notin r_st
      BY <1>0, <1>2, <2>2 DEF R!RegisterFits
    <3> QED BY <1>2, <2>2, <3>1 DEF R!HardwareWrite, R!EHCI_Write
  <2> QED BY <1>1, <2>1, <2>2
<1>3. CASE r_kind = "OHCI"
  <2>1. R!OHCI_Write(w) /\ "CCS" \notin w /\ "LSDA" \notin w
    BY <1>0, <1>3 DEF R!HardwareWrite
  <2>2. PICK enabled \in R!OneOf("PES" \in w /\ "CCS" \in r_st, "CCS" \in w, "PES" \in r_st),
             power \in R!OneOf("PPS" \in w, "LSDA" \in w, "PPS" \in r_st) :
               r_st' = IF ~power THEN {}
                     ELSE (r_st \ {"PES"}) \cup {"PPS"} \cup (IF enabled THEN {"PES"} ELSE {})
                          \cup IF "CCS" \in r_st THEN w \cap {"PSS", "PRS"} ELSE {}
    BY <2>1, Zenon DEF R!OHCI_Write
  <2>3. ("PES" \in r_st => enabled = TRUE) /\ ("PPS" \in r_st => power = TRUE)
    BY <2>1, <2>2 DEF R!OneOf
  <2>4. "PES" \in r_st => "PPS" \in r_st
    BY <1>3 DEF R!RegisterFits
  <2> QED BY <1>1, <2>2, <2>3, <2>4
<1>4. CASE r_kind = "XHCI"
  <2>1. R!XHCI_Write(w)
    BY <1>4 DEF R!HardwareWrite
  <2> QED BY <1>0, <1>1, <1>4, <2>1 DEF R!XHCI_Write
<1> QED BY <1>2, <1>3, <1>4 DEF R!Kinds

\* What the functions of the host drivers are about to write when they have read v.
LEMMA FunctionsFit ==
    ASSUME R!TypeOK, R!RegisterFits, NEW f, f \in {R!FunctionOf(r) : r \in R!Requests}, R!HasFunction(f), ~R!AtOnce(f),
           NEW w, w = R!Functions(r_st \cup r_chg)[f],
           ~ (r_kind = "OHCI" /\ f \in {"Port_Set_Enable", "Port_Set_Suspend"}),
           ~ (r_kind = "OHCI" /\ f = "Port_Set_Power" /\ w # {})
    PROVE  R!WriteFits(f, w)
<1> DEFINE v == r_st \cup r_chg
<1>0. /\ r_st \cap R!ChgBits = {} /\ r_chg \cap R!StateBits = {} /\ r_st \subseteq R!StateBits /\ r_chg \subseteq R!ChgBits
      /\ "PSSC" \notin r_chg /\ r_kind \in R!Kinds
  BY DEF R!TypeOK, R!RegisterFits, R!StateBits, R!ChgBits
<1>1. CASE r_kind = "EHCI"
  <2>1. f \in {"Port_Clr_Connection_Chg", "Port_Set_Power", "Port_Set_Reset"} /\ w = R!EHCIFunctions(v)[f]
    BY <1>1 DEF R!HasFunction, R!Functions, R!EHCIFunctions, R!AtOnce
  <2>2. "PRSC" \notin r_chg /\ ("PES" \in r_st => "PRS" \notin r_st /\ "PO" \notin r_st)
    BY <1>1 DEF R!RegisterFits
  <2>3. CASE f = "Port_Clr_Connection_Chg"
    <3>1. w = (v \ {"OCC", "PEC", "CSC"}) \cup {"CSC"} /\ "CSC" \in R!ClearedBy(f)
      BY <2>1, <2>3 DEF R!EHCIFunctions, R!EHCI_Port_Clr_Connect_Chg, R!EHCI_PS_CLEAR, R!ClearedBy
    <3> QED BY <1>0, <1>1, <2>2, <3>1 DEF R!StateBits, R!ChgBits, R!WriteFits
  <2>4. CASE f = "Port_Set_Power"
    <3>1. w = (v \ {"OCC", "PEC", "CSC"}) \cup {"PPS"}
      BY <2>1, <2>4 DEF R!EHCIFunctions, R!EHCI_Port_Set_Power, R!EHCI_PS_CLEAR
    <3> QED BY <1>0, <1>1, <2>2, <3>1 DEF R!StateBits, R!ChgBits, R!WriteFits
  <2>5. CASE f = "Port_Set_Reset"
    <3>1. \/ w = (v \ {"OCC", "PEC", "CSC"}) \cup {"PO"}
          \/ w = (v \ {"OCC", "PEC", "CSC", "PES"}) \cup {"PRS"}
      BY <2>1, <2>5 DEF R!EHCIFunctions, R!EHCI_Port_Set_Reset, R!EHCI_Port_Disown, R!EHCI_Reset_Start,
          R!EHCI_PS_CLEAR
    <3> QED BY <1>0, <1>1, <2>2, <2>5, <3>1 DEF R!StateBits, R!ChgBits, R!WriteFits
  <2> QED BY <2>1, <2>3, <2>4, <2>5
<1>2. CASE r_kind = "OHCI"
  <2>1. f \in {"Port_Set_Reset", "Port_Set_Power", "Port_Clr_Connection_Chg", "Port_Clr_Enable_Chg",
               "Port_Clr_Suspend_Chg", "Port_Clr_OverCurrent_Chg", "Port_Clr_Reset_Chg"}
    <3>1. f # "none"
      BY <1>2 DEF R!HasFunction, R!Functions, R!OHCIFunctions
    <3> QED BY <1>2, <3>1, RequestFunctions DEF R!AtOnce
  <2>2. w = R!OHCIFunctions(v)[f]
    BY <1>2 DEF R!Functions
  <2>3. w \cap R!ChgBits \subseteq R!ClearedBy(f) /\ w \cap {"CCS", "LSDA"} = {}
    <3>1. CASE f = "Port_Set_Reset"
      BY <2>2, <3>1 DEF R!OHCIFunctions, R!OHCI_Port_Set_Reset, R!ChgBits
    <3>2. CASE f = "Port_Set_Power"
      BY <1>2, <3>2
    <3>3. CASE f = "Port_Clr_Connection_Chg"
      BY <2>2, <3>3 DEF R!OHCIFunctions, R!OHCI_Port_Clr_Connect_Chg, R!ClearedBy
    <3>4. CASE f = "Port_Clr_Enable_Chg"
      BY <2>2, <3>4 DEF R!OHCIFunctions, R!OHCI_Port_Clr_Enable_Chg, R!ClearedBy
    <3>5. CASE f = "Port_Clr_Suspend_Chg"
      BY <2>2, <3>5 DEF R!OHCIFunctions, R!OHCI_Port_Clr_Suspend_Chg, R!ClearedBy
    <3>6. CASE f = "Port_Clr_OverCurrent_Chg"
      BY <2>2, <3>6 DEF R!OHCIFunctions, R!OHCI_Port_Clr_OverCurrent_Chg, R!ClearedBy
    <3>7. CASE f = "Port_Clr_Reset_Chg"
      BY <2>2, <3>7 DEF R!OHCIFunctions, R!OHCI_Port_Clr_Reset_Chg, R!ClearedBy
    <3> QED BY <2>1, <3>1, <3>2, <3>3, <3>4, <3>5, <3>6, <3>7
  <2> QED BY <1>2, <2>3 DEF R!WriteFits
<1>3. CASE r_kind = "XHCI"
  <2>1. f \in {"Port_Clr_Connection_Chg", "Port_Set_Power", "Port_Set_Reset"} /\ w = R!XHCIFunctions(v)[f]
    BY <1>3 DEF R!HasFunction, R!Functions, R!XHCIFunctions, R!AtOnce
  <2>2. \E b \in {"CSC", "PPS", "PRS"} :
           /\ w = (v \ {"CSC", "PEC", "OCC", "PRSC", "PES", "PRS"}) \cup {b}
           /\ b = "CSC" => "CSC" \in R!ClearedBy(f)
           /\ b = "PRS" => f = "Port_Set_Reset"
    BY <2>1 DEF R!XHCIFunctions, R!XHCI_Port_Clr_Connect_Chg, R!XHCI_Port_Set_Power, R!XHCI_Reset_Start,
        R!XHCI_PS_WRITE_STRIP_MASK, R!ClearedBy
  <2> QED BY <1>0, <1>3, <2>2 DEF R!StateBits, R!ChgBits, R!WriteFits
<1> QED BY <1>0, <1>1, <1>2, <1>3 DEF R!Kinds

\* What depends on the host driver alone.
LEMMA KindStays ==
    ASSUME r_kind' = r_kind, NEW f, f' = f
    PROVE  /\ R!HasFunction(f)' = R!HasFunction(f) /\ R!AtOnce(f)' = R!AtOnce(f)
           /\ R!ClearedBy(f)' = R!ClearedBy(f)
BY DEF R!HasFunction, R!Functions, R!AtOnce, R!ClearedBy

LEMMA PortsInit == ASSUME R!RootPortsAssumption, R!Init PROVE R!PortsInvariant
<1>1. R!TypeOK
  <2>1. 0 \in 0 .. Polls - 1 /\ 0 \in 0 .. Retries - 1 /\ 0 \in 0 .. MaxEvents /\ 0 \in 0 .. MaxOthers
    <3>1. Polls \in Nat \ {0} /\ Retries \in Nat \ {0} /\ MaxEvents \in Nat /\ MaxOthers \in Nat
      BY DEF R!RootPortsAssumption
    <3> QED BY <3>1
  <2>2. "device" \in DOMAIN R!SetupOrder
    BY DEF R!SetupOrder
  <2> QED BY <2>1, <2>2 DEF R!Init, R!TypeOK, R!Speeds
<1>2. R!FunctionFits /\ R!RegisterFits /\ R!OnesFit
  BY DEF R!Init, R!FunctionFits, R!RegisterFits, R!OnesFit
<1>3. R!ThisReset
  BY DEF R!Init, R!ThisReset
<1> QED BY <1>1, <1>2, <1>3 DEF R!PortsInvariant

\* The hardware does not clear a change, and says with one that the port is not as it was.
LEMMA HardwareStep ==
    ASSUME R!RootPortsAssumption, R!PortsInvariant, R!Hardware
    PROVE R!PortsInvariant'
<1>0. /\ UNCHANGED <<r_kind, R!hcdVars, R!hubVars, r_configNr, r_others>>
      /\ r_events' \in 0 .. MaxEvents
      /\ R!TypeOK /\ R!RegisterFits
  BY DEF R!Hardware, R!Connect, R!Disconnect, R!PortError, R!ResetDone, R!PortsInvariant, R!TypeOK,
      R!RootPortsAssumption
<1>1. /\ PortTypes' /\ r_chg \subseteq r_chg' /\ r_chg' \subseteq r_chg \cup {"CSC", "PEC", "OCC", "PRSC"}
      /\ "PPS" \in r_st' <=> "PPS" \in r_st
      /\ "PRS" \in r_st' => "PRS" \in r_st
      /\ r_kind = "EHCI" => ("PRS" \in r_st' <=> "PRS" \in r_st)
  <2>1. CASE R!Connect
    BY <1>0, <2>1 DEF R!Connect, PortTypes, R!TypeOK, R!StateBits, R!ChgBits, R!Speeds, R!SpeedBit
  <2>2. CASE R!Disconnect
    BY <1>0, <2>2 DEF R!Disconnect, PortTypes, R!TypeOK, R!StateBits, R!ChgBits, R!Speeds
  <2>3. CASE R!PortError
    BY <1>0, <2>3 DEF R!PortError, PortTypes, R!TypeOK, R!StateBits, R!ChgBits, R!Speeds
  <2>4. CASE R!ResetDone
    BY <1>0, <2>4 DEF R!ResetDone, PortTypes, R!TypeOK, R!StateBits, R!ChgBits, R!Speeds
  <2> QED BY <2>1, <2>2, <2>3, <2>4 DEF R!Hardware
<1>2. R!TypeOK'
  <2>1. FunctionTypes /\ DriverTypes /\ OtherTypes
    BY <1>0, PortsTypes
  <2>2. FunctionTypes' /\ DriverTypes' /\ OtherTypes'
    BY <1>0, <2>1 DEF FunctionTypes, DriverTypes, OtherTypes, R!hcdVars, R!hubVars
  <2> QED BY <1>1, <2>2, PortsTypesNext
<1>3. R!FunctionFits'
  BY <1>0, KindStays DEF R!PortsInvariant, R!FunctionFits, R!hcdVars, R!hubVars
<1>4. /\ "PES" \in r_st' /\ "PES" \notin r_st => R!ResetDone
      /\ ~ R!ResetDone => ("PRSC" \in r_chg' <=> "PRSC" \in r_chg)
      /\ r_dev' # r_dev => "CSC" \in r_chg'
      /\ "PES" \in r_st /\ "PES" \notin r_st' => r_chg' \cap {"CSC", "PEC"} # {}
  <2>1. CASE R!Connect
    BY <2>1 DEF R!Connect, R!SpeedBit
  <2>2. CASE R!Disconnect
    BY <2>2 DEF R!Disconnect
  <2>3. CASE R!PortError
    BY <2>3 DEF R!PortError
  <2>4. CASE R!ResetDone
    BY <2>4 DEF R!ResetDone
  <2> QED BY <2>1, <2>2, <2>3, <2>4 DEF R!Hardware
<1>e. r_kind = "EHCI" => ~ R!ResetDone
  BY DEF R!ResetDone
<1>5. R!RegisterFits'
  <2>1. "PSSC" \notin r_chg' /\ (r_kind = "EHCI" => "PRSC" \notin r_chg')
    BY <1>0, <1>1, <1>4, <1>e DEF R!RegisterFits
  <2>2. r_kind = "EHCI" /\ "PES" \in r_st' => r_st' \cap {"PRS", "PO"} = {}
    <3>1. r_kind = "EHCI" /\ "PO" \in r_st' => "PO" \in r_st
      BY <1>0 DEF R!Hardware, R!Connect, R!Disconnect, R!PortError, R!ResetDone, R!SpeedBit
    <3> QED BY <1>0, <1>1, <1>4, <1>e, <3>1 DEF R!RegisterFits
  <2>3. r_kind = "OHCI" /\ "PPS" \notin r_st' => r_st' = {}
    <3> SUFFICES ASSUME r_kind = "OHCI", "PPS" \notin r_st' PROVE r_st' = {}
      OBVIOUS
    <3>1. r_st = {}
      BY <1>0, <1>1 DEF R!RegisterFits
    <3> QED BY <3>1 DEF R!Hardware, R!Connect, R!Disconnect, R!PortError, R!ResetDone
  <2> QED BY <1>0, <2>1, <2>2, <2>3 DEF R!RegisterFits
<1>6. R!OnesFit'
  <2> SUFFICES ASSUME r_fn # "none", r_stage \in {"write", "disown", "clear"}, ~R!Careless PROVE R!OnesFit'
    BY <1>0 DEF R!OnesFit, R!Careless, R!hcdVars
  <2>1. r_kind = "EHCI" /\ "PES" \in r_st' => "PES" \in r_st
    BY <1>4, <1>e
  <2>2. R!ClearedBy(r_fn)' = R!ClearedBy(r_fn)
    BY <1>0, KindStays DEF R!hcdVars
  <2>3. R!WriteFits(r_fn, r_ones)
    BY DEF R!PortsInvariant, R!OnesFit
  <2>4. R!WriteFits(r_fn, r_ones)'
    BY <1>0, <1>1, <2>1, <2>2, <2>3 DEF R!WriteFits, R!hcdVars
  <2> QED BY <2>4 DEF R!OnesFit
<1>7. ASSUME r_others' = 0, ~r_late' PROVE R!ThisReset'
  <2>1. R!ThisReset
    BY <1>0, <1>7 DEF R!PortsInvariant, R!hubVars
  <2>2. R!AsReset => R!AsReset'
    BY <1>0, <1>1, <1>4 DEF R!AsReset, R!hcdVars
  <2>3. CASE R!ResetDone
    <3>1. /\ r_kind # "EHCI" /\ "PRS" \in r_st /\ "PRS" \notin r_st' /\ "PES" \in r_st' /\ r_dev' = r_dev
          /\ "PRSC" \notin r_chg
      BY <2>1, <2>3 DEF R!ResetDone, R!ThisReset
    <3>2. CASE r_kind = "OHCI"
      <4>1. r_pc = "poll" /\ R!AsReset'
        BY <1>0, <2>1, <3>1, <3>2 DEF R!ThisReset, R!AsReset
      <4>2. ~ r_flag
        BY <2>1, <3>2 DEF R!ThisReset
      <4> QED BY <1>0, <2>1, <3>1, <3>2, <4>1, <4>2 DEF R!ThisReset, R!hcdVars, R!hubVars
    <3>3. CASE r_kind = "XHCI"
      <4>1. (r_fn = "Port_Set_Reset" /\ r_stage = "wait") \/ (r_pc = "poll" /\ ~r_flag)
        BY <2>1, <3>1, <3>3 DEF R!ThisReset
      <4>2. r_stage # "clear"
        BY <2>1, <3>1, <3>3 DEF R!ThisReset
      <4> QED BY <1>0, <2>1, <2>2, <3>1, <3>3, <4>1, <4>2 DEF R!ThisReset, R!hcdVars, R!hubVars
    <3> QED BY <1>0, <3>1, <3>2, <3>3 DEF R!TypeOK, R!Kinds
  <2>4. CASE ~ R!ResetDone
    <3>1. "PRSC" \in r_chg' <=> "PRSC" \in r_chg
      BY <1>4, <2>4
    <3>2. "PES" \in r_st \/ r_chg \cap {"CSC", "PEC"} # {} => "PES" \in r_st' \/ r_chg' \cap {"CSC", "PEC"} # {}
      BY <1>1, <1>4
    <3> QED BY <1>0, <1>1, <2>1, <2>2, <3>1, <3>2 DEF R!ThisReset, R!hcdVars, R!hubVars
  <2> QED BY <2>3, <2>4
<1> QED BY <1>2, <1>3, <1>5, <1>6, <1>7 DEF R!PortsInvariant

\* A request is answered: no function goes on, and the hub's driver has what it may have.
LEMMA ReplyStep ==
    ASSUME R!RootPortsAssumption, R!TypeOK, r_kind' = r_kind, NEW who, NEW err, NEW status \in SUBSET Bits,
           R!Reply(who, err, status), who = "hub" /\ r_pc \in DOMAIN R!SetupOrder => err = "NoError"
    PROVE  /\ r_fn' = "none" /\ r_by' = "hub" /\ r_ones' = {} /\ r_stage' = "write"
           /\ who = "hub" => R!HubGets(err, status)
           /\ who # "hub" => UNCHANGED R!hubVars
           /\ DriverTypes' /\ R!FunctionFits' /\ R!OnesFit'
<1>1. /\ r_fn' = "none" /\ r_by' = "hub" /\ r_ones' = {} /\ r_stage' = "write"
      /\ who = "hub" => R!HubGets(err, status)
      /\ who # "hub" => UNCHANGED R!hubVars
  BY DEF R!Reply
<1>2. DriverTypes'
  <2>1. DriverTypes
    BY PortsTypes
  <2>2. who # "hub" => DriverTypes'
    BY <1>1, <2>1 DEF DriverTypes, R!hubVars
  <2>3. who = "hub" => DriverTypes'
    BY <1>1, <2>1, HubGetsKeepsTypes
  <2> QED BY <2>2, <2>3
<1>3. R!FunctionFits' /\ R!OnesFit'
  BY <1>1 DEF R!FunctionFits, R!OnesFit
<1> QED BY <1>1, <1>2, <1>3

\* Clearing PRC on the way leaves the rest of the port as it is.
LEMMA ClearPRC ==
    ASSUME R!TypeOK, R!RegisterFits, r_kind = "XHCI", R!HardwareWrite(R!XHCI_Clear_PRC(r_st \cup r_chg))
    PROVE  /\ r_chg' = r_chg \ {"PRSC"} /\ r_dev' = r_dev /\ r_st' = r_st
<1>0. r_st \subseteq R!StateBits /\ r_chg \subseteq R!ChgBits /\ r_st \cap R!ChgBits = {} /\ r_chg \cap R!StateBits = {}
  BY DEF R!TypeOK, R!StateBits, R!ChgBits
<1> DEFINE w == R!XHCI_Clear_PRC(r_st \cup r_chg)
<1>1. w = ((r_st \cup r_chg) \ {"CSC", "PEC", "OCC", "PRSC", "PES", "PRS"}) \cup {"PRSC"}
  BY DEF R!XHCI_Clear_PRC, R!XHCI_PS_WRITE_STRIP_MASK
<1>2. R!XHCI_Write(w)
  BY DEF R!HardwareWrite
<1>3. w \cap {"PES", "PRS"} = {} /\ ("PPS" \in w <=> "PPS" \in r_st)
  BY <1>0, <1>1 DEF R!StateBits, R!ChgBits
<1>4. r_chg \ w = r_chg \ {"PRSC"}
  <2>1. "PSSC" \notin r_chg
    BY DEF R!RegisterFits
  <2> QED BY <1>0, <1>1, <2>1 DEF R!ChgBits
<1> HIDE DEF w
<1>5. r_st' = r_st /\ r_dev' = r_dev /\ r_chg' = r_chg \ w
  BY <1>2, <1>3 DEF R!XHCI_Write
<1> QED BY <1>4, <1>5

\* A request comes: of the hub's driver the one that this is at, or of another.
LEMMA ServeStep ==
    ASSUME R!RootPortsAssumption, R!PortsInvariant, NEW who, NEW r \in R!Requests, NEW inRange, R!Serve(who, r, inRange),
           \/ who = "hub" /\ r_pc \in DOMAIN R!HubRequest /\ r = R!HubRequest[r_pc] /\ inRange = TRUE /\ r_others' = r_others
           \/ who = "other" /\ r_others' = r_others + 1 /\ r_others' \in 0 .. MaxOthers
    PROVE  R!PortsInvariant'
<1> DEFINE f == R!FunctionOf(r)
           v == r_st \cup r_chg
<1>0. /\ R!TypeOK /\ R!FunctionFits /\ R!RegisterFits /\ R!OnesFit
      /\ r_fn = "none" /\ UNCHANGED <<r_kind, r_cached, r_configNr, r_events>>
      /\ v \in SUBSET Bits /\ r_kind \in R!Kinds /\ R!Port_Get_Status(v) \in SUBSET Bits
      /\ r_others \in Nat /\ r_others' \in 0 .. MaxOthers
      /\ r_others' = 0 => who = "hub" /\ r_others = 0
  <2>1. R!TypeOK /\ r_kind \in R!Kinds /\ v \in SUBSET Bits
    BY DEF R!PortsInvariant, R!TypeOK, Bits
  <2>2. R!Port_Get_Status(v) \in SUBSET Bits
    BY <2>1, StatusKeepsTypes
  <2>3. r_others \in Nat /\ r_others \in 0 .. MaxOthers
    BY <2>1 DEF R!TypeOK, R!RootPortsAssumption
  <2>4. R!TypeOK /\ R!FunctionFits /\ R!RegisterFits /\ R!OnesFit
    BY DEF R!PortsInvariant
  <2>5. r_fn = "none" /\ UNCHANGED <<r_kind, r_cached, r_configNr, r_events>>
    BY DEF R!Serve
  <2>6. r_others' \in 0 .. MaxOthers /\ (r_others' = 0 => who = "hub" /\ r_others = 0)
    <3>1. CASE who = "hub" /\ r_others' = r_others
      BY <2>3, <3>1
    <3>2. CASE r_others' = r_others + 1 /\ r_others' \in 0 .. MaxOthers
      BY <2>3, <3>2
    <3> QED BY <3>1, <3>2
  <2> QED BY <2>1, <2>2, <2>3, <2>4, <2>5, <2>6
<1>h. r_pc \in DOMAIN R!HubRequest => r_pc \notin DOMAIN R!SetupOrder
  BY HubFunctions DEF R!SetupOrder
<1>1. OtherTypes'
  <2>1. OtherTypes
    BY <1>0, PortsTypes
  <2> QED BY <1>0, <2>1 DEF OtherTypes
<1>2. PortTypes /\ FunctionTypes /\ DriverTypes
  BY <1>0, PortsTypes
\* What is answered without a look at the register.
<1>3. ASSUME NEW err, R!Reply(who, err, {}), UNCHANGED <<R!regVars, r_flag>>,
             ~ R!HasFunction(f) \/ ~ inRange
      PROVE  R!PortsInvariant'
  <2>1. who = "hub" /\ r_pc \in DOMAIN R!SetupOrder => err = "NoError"
    BY <1>h
  <2>2. /\ r_fn' = "none" /\ r_by' = "hub" /\ r_ones' = {} /\ r_stage' = "write"
        /\ who = "hub" => R!HubGets(err, {})
        /\ DriverTypes' /\ R!FunctionFits' /\ R!OnesFit'
    BY <1>0, <1>3, <2>1, ReplyStep
  <2>3. R!TypeOK'
    <3>1. PortTypes' /\ FunctionTypes'
      BY <1>0, <1>2, <1>3, <2>2 DEF PortTypes, FunctionTypes, R!regVars
    <3> QED BY <1>1, <2>2, <3>1, PortsTypesNext
  <2>4. R!RegisterFits'
    BY <1>0, <1>3 DEF R!RegisterFits, R!regVars
  <2>5. ASSUME r_others' = 0, ~r_late' PROVE R!ThisReset'
    <3>1. who = "hub" /\ R!HubGets(err, {}) /\ r_late \in BOOLEAN
      BY <1>0, <1>2, <2>2, <2>5 DEF DriverTypes
    <3>2. ~r_late /\ R!ThisReset
      BY <1>0, <2>5, <3>1, HubGoes DEF R!PortsInvariant
    <3>3. r_pc = "disable"
      <4>1. r_pc \in DOMAIN R!HubRequest /\ f = R!FunctionOf(R!HubRequest[r_pc]) /\ ~ R!HasFunction(f)
        BY <1>3, <3>1
      <4>2. R!HasFunction("Port_Set_Power") /\ R!HasFunction("Port_Get_Status") /\ R!HasFunction("Port_Set_Reset")
            /\ R!HasFunction("Port_Clr_Connection_Chg") /\ R!HasFunction("Port_Clr_Reset_Chg")
        BY <1>0 DEF R!HasFunction, R!Functions, R!EHCIFunctions, R!OHCIFunctions, R!XHCIFunctions, R!Kinds
      <4> QED BY <4>1, <4>2, HubFunctions
    <3>4. r_pc' \notin {"poll", "clrreset", "look", "add3"}
      BY <3>1, <3>3, HubGoes
    <3> QED BY <1>0, <1>3, <2>2, <3>2, <3>3, <3>4 DEF R!ThisReset, R!regVars
  <2> QED BY <2>2, <2>3, <2>4, <2>5 DEF R!PortsInvariant
\* What is answered at once.
<1>4. ASSUME R!HasFunction(f), inRange, R!AtOnce(f),
             R!Reply(who, IF R!ClearResetFlag(f) /\ r_kind = "EHCI" /\ ~r_flag THEN "Stall" ELSE "NoError",
                   R!Port_Get_Status(v)),
             r_flag' = (r_flag /\ ~R!ClearResetFlag(f)),
             IF r_kind = "XHCI" /\ ~R!ClearResetFlag(f) /\ "PRSC" \in r_chg
             THEN R!HardwareWrite(R!XHCI_Clear_PRC(v)) ELSE UNCHANGED R!regVars
      PROVE  R!PortsInvariant'
  <2> DEFINE err == IF R!ClearResetFlag(f) /\ r_kind = "EHCI" /\ ~r_flag THEN "Stall" ELSE "NoError"
             status == R!Port_Get_Status(v)
  <2>1. who = "hub" /\ r_pc \in DOMAIN R!SetupOrder => err = "NoError"
    BY <1>h
  <2>2. /\ r_fn' = "none" /\ r_by' = "hub" /\ r_ones' = {} /\ r_stage' = "write"
        /\ who = "hub" => R!HubGets(err, status)
        /\ DriverTypes' /\ R!FunctionFits' /\ R!OnesFit'
    BY <1>0, <1>4, <2>1, ReplyStep
  <2>3. /\ r_st' = r_st /\ r_dev' = r_dev /\ r_chg' \in {r_chg, r_chg \ {"PRSC"}}
        /\ r_kind # "XHCI" => r_chg' = r_chg
    BY <1>0, <1>4, ClearPRC DEF R!regVars
  <2>4. R!TypeOK'
    <3>1. r_flag \in BOOLEAN /\ r_flag' \in BOOLEAN
      BY <1>2, <1>4 DEF FunctionTypes
    <3>2. PortTypes' /\ FunctionTypes'
      BY <1>0, <1>2, <2>2, <2>3, <3>1 DEF PortTypes, FunctionTypes
    <3> QED BY <1>1, <2>2, <3>2, PortsTypesNext
  <2>5. R!RegisterFits'
    BY <1>0, <2>3 DEF R!RegisterFits
  <2>6. ASSUME r_others' = 0, ~r_late' PROVE R!ThisReset'
    <3>1. who = "hub" /\ R!HubGets(err, status) /\ r_late \in BOOLEAN /\ r_pc \in DOMAIN R!HubRequest
          /\ f = R!FunctionOf(R!HubRequest[r_pc])
      BY <1>0, <1>2, <2>2, <2>6 DEF DriverTypes
    <3>2. ~r_late /\ R!ThisReset
      BY <1>0, <2>6, <3>1, HubGoes DEF R!PortsInvariant
    <3>3. R!AsReset => R!AsReset'
      BY <1>0, <2>3 DEF R!AsReset
    <3>4. /\ r_pc \in {"status", "add", "poll", "look", "clrreset"}
          /\ r_pc = "clrreset" => r_kind # "OHCI" /\ R!ClearResetFlag(f)
          /\ r_pc # "clrreset" => ~ R!ClearResetFlag(f)
      BY <1>4, <3>1, HubFunctions DEF R!AtOnce, R!ClearResetFlag
    <3>5. "PRSC" \in status => r_flag \/ (r_kind = "OHCI" /\ "PRSC" \in r_chg)
      <4>1. "PRSC" \notin r_st
        BY <1>0 DEF R!TypeOK, R!StateBits
      <4> QED BY <1>0, <4>1 DEF R!Port_Get_Status, R!EHCI_Port_Get_Status, R!OHCI_Port_Get_Status,
                R!XHCI_Port_Get_Status, R!Kinds
    <3>6. r_pc' = "clrreset" => R!AsReset
      <4> SUFFICES ASSUME r_pc' = "clrreset" PROVE R!AsReset
        OBVIOUS
      <4>1. "PRSC" \in status
        BY <2>6, <3>1, HubGoes
      <4> QED BY <3>2, <3>5, <4>1 DEF R!ThisReset
    <3>7. r_pc' \in {"look", "add3"} => R!AsReset
      BY <3>1, <3>2, HubGoes DEF R!ThisReset
    <3>8. r_flag' => r_pc = "poll" /\ r_pc' \in {"poll", "clrreset"} /\ r_kind # "OHCI" /\ R!AsReset
      <4> SUFFICES ASSUME r_flag' PROVE r_pc = "poll" /\ r_pc' \in {"poll", "clrreset"} /\ r_kind # "OHCI" /\ R!AsReset
        OBVIOUS
      <4>1. r_flag /\ ~R!ClearResetFlag(f)
        BY <1>4
      <4>2. r_pc = "poll" /\ r_kind # "OHCI" /\ R!AsReset
        BY <3>2, <3>4, <4>1 DEF R!ThisReset
      <4> QED BY <3>1, <4>2, HubGoes
    <3>9. r_kind = "OHCI" /\ ("PRSC" \in r_chg' \/ "PRS" \in r_st') => r_pc = "poll"
      BY <2>3, <3>2, <3>4 DEF R!ThisReset
    <3>10. r_kind = "XHCI" /\ ("PRS" \in r_st' \/ "PRSC" \in r_chg') => r_pc = "poll" /\ ~r_flag /\ ~r_flag'
      BY <1>0, <1>4, <2>3, <3>2 DEF R!ThisReset
    <3>11. r_pc = "poll" => r_pc' = "poll" \/ (r_pc' = "clrreset" /\ "PRSC" \in status)
      BY <2>6, <3>1, HubGoes
    <3>12. "PRS" \in r_st' => "PRSC" \notin r_chg'
      BY <2>3, <3>2 DEF R!ThisReset
    <3>13. r_kind = "OHCI" /\ "PRS" \in r_st' => r_pc' = "poll"
      BY <2>3, <3>2, <3>5, <3>9, <3>11 DEF R!ThisReset
    <3>14. r_kind = "OHCI" /\ "PRSC" \in r_chg' => r_pc' \in {"poll", "clrreset"} /\ R!AsReset'
      BY <2>3, <3>2, <3>3, <3>9, <3>11 DEF R!ThisReset
    <3>15. r_kind = "XHCI" /\ ("PRS" \in r_st' \/ "PRSC" \in r_chg') => r_pc' = "poll" /\ ~r_flag'
      BY <3>5, <3>10, <3>11
    <3> QED BY <1>0, <2>2, <3>3, <3>6, <3>7, <3>8, <3>12, <3>13, <3>14, <3>15 DEF R!ThisReset
  <2> QED BY <2>2, <2>4, <2>5, <2>6 DEF R!PortsInvariant
\* What goes on to write the register.
<1>5. ASSUME R!HasFunction(f), inRange, ~R!AtOnce(f), r_fn' = f, r_by' = who, r_ones' = R!Functions(v)[f], r_stage' = "write",
             UNCHANGED <<R!regVars, R!hubVars, r_flag>>
      PROVE  R!PortsInvariant'
  <2>1. f \in DOMAIN R!OHCIFunctions({}) /\ r_ones' \subseteq Bits /\ f # "none"
    <3>1. f \in DOMAIN R!OHCIFunctions({}) /\ r_ones' \subseteq Bits
      BY <1>0, <1>5, FunctionsKeepTypes
    <3> QED BY <3>1 DEF R!OHCIFunctions
  <2>2. R!TypeOK'
    <3>1. PortTypes' /\ FunctionTypes' /\ DriverTypes'
      BY <1>0, <1>2, <1>5, <2>1 DEF PortTypes, FunctionTypes, DriverTypes, R!regVars, R!hubVars
    <3> QED BY <1>1, <3>1, PortsTypesNext
  <2>3. R!FunctionFits'
    <3>1. R!HasFunction(f)' /\ ~R!AtOnce(f)'
      BY <1>0, <1>5, KindStays
    <3>2. R!HasFunction(r_fn') /\ R!AtOnce(r_fn') = R!AtOnce(f)
      BY <1>5
    <3>3. R!HasFunction(r_fn)' /\ ~R!AtOnce(r_fn)'
      BY <1>0, <1>5 DEF R!HasFunction, R!Functions, R!AtOnce
    <3>4. who = "hub" => r_pc' \in DOMAIN R!HubRequest /\ f = R!FunctionOf(R!HubRequest[r_pc'])
      BY <1>5 DEF R!hubVars
    <3> QED BY <1>0, <1>5, <3>3, <3>4 DEF R!FunctionFits
  <2>4. R!RegisterFits'
    BY <1>0, <1>5 DEF R!RegisterFits, R!regVars
  <2>5. R!OnesFit'
    <3> SUFFICES ASSUME ~ R!Careless' PROVE R!WriteFits(r_fn, r_ones)'
      BY DEF R!OnesFit
    <3>1. /\ ~ (r_kind = "OHCI" /\ f \in {"Port_Set_Enable", "Port_Set_Suspend"})
          /\ ~ (r_kind = "OHCI" /\ f = "Port_Set_Power" /\ r_ones' # {})
      BY <1>0, <1>5 DEF R!Careless
    <3>2. R!WriteFits(f, r_ones')
      BY <1>0, <1>5, <3>1, FunctionsFit
    <3> QED BY <1>0, <1>5, <3>2 DEF R!WriteFits, R!ClearedBy, R!regVars
  <2>6. ASSUME r_others' = 0, ~r_late' PROVE R!ThisReset'
    <3>1. R!ThisReset /\ who = "hub"
      BY <1>0, <1>5, <2>6 DEF R!PortsInvariant, R!hubVars
    <3>2. R!AsReset => R!AsReset'
      BY <1>0, <1>5 DEF R!AsReset, R!regVars
    <3>3. r_fn # "Port_Set_Reset"
      BY <1>0
    <3>4. r_stage = "write"
      BY <1>0 DEF R!FunctionFits
    <3>5. r_kind = "OHCI" => /\ "PRS" \in r_ones' => f = "Port_Set_Reset"
                             /\ f = "Port_Clr_Reset_Chg" => "PRSC" \in r_ones'
      <4> SUFFICES ASSUME r_kind = "OHCI" PROVE /\ "PRS" \in r_ones' => f = "Port_Set_Reset"
                                                /\ f = "Port_Clr_Reset_Chg" => "PRSC" \in r_ones'
        OBVIOUS
      <4>1. r_ones' = R!OHCIFunctions(v)[f]
        BY <1>5 DEF R!Functions
      <4>2. f \in {"Port_Set_Power", "Port_Clr_Connection_Chg", "Port_Set_Reset", "Port_Clr_Reset_Chg"}
        <5>1. r_pc \in DOMAIN R!HubRequest /\ f = R!FunctionOf(R!HubRequest[r_pc])
          BY <3>1
        <5>2. f # "Port_Get_Status" /\ f # "none"
          BY <1>5, <2>1 DEF R!AtOnce
        <5> QED BY <5>1, <5>2, HubFunctions
      <4>3. CASE f = "Port_Set_Power"
        <5>1. "PRS" \notin r_st /\ "PRS" \notin r_chg
          BY <1>0, <3>1, <4>3, HubFunctions DEF R!ThisReset, R!TypeOK, R!ChgBits
        <5>2. r_ones' \subseteq v \cup {"PPS"}
          BY <4>1, <4>3 DEF R!OHCIFunctions, R!OHCI_Port_Set_Power
        <5> QED BY <4>3, <5>1, <5>2
      <4>4. CASE f = "Port_Clr_Connection_Chg"
        BY <4>1, <4>4 DEF R!OHCIFunctions, R!OHCI_Port_Clr_Connect_Chg
      <4>5. CASE f = "Port_Set_Reset"
        BY <4>5
      <4>6. CASE f = "Port_Clr_Reset_Chg"
        BY <4>1, <4>6 DEF R!OHCIFunctions, R!OHCI_Port_Clr_Reset_Chg
      <4> QED BY <4>2, <4>3, <4>4, <4>5, <4>6
    <3> QED BY <1>0, <1>5, <3>1, <3>2, <3>3, <3>4, <3>5 DEF R!ThisReset, R!regVars, R!hubVars
  <2> QED BY <2>2, <2>3, <2>4, <2>5, <2>6 DEF R!PortsInvariant
<1> QED BY <1>3, <1>4, <1>5 DEF R!Serve

\* A function that has read the register writes it, and is done.
LEMMA PortWriteStep ==
    ASSUME R!RootPortsAssumption, R!PortsInvariant, R!PortWrite PROVE R!PortsInvariant'
<1>0. /\ R!TypeOK /\ R!FunctionFits /\ R!RegisterFits /\ R!OnesFit
      /\ r_fn # "none" /\ r_stage = "write" /\ R!HardwareWrite(r_ones) /\ r_kind \in R!Kinds
      /\ ~ (r_fn = "Port_Set_Reset" /\ r_kind # "OHCI")
      /\ R!Reply(r_by, "NoError", {})
      /\ UNCHANGED <<r_kind, r_flag, r_cached, r_configNr, r_events, r_others>>
      /\ r_others = 0 => r_by = "hub"
      /\ r_ones \in SUBSET Bits
  BY DEF R!PortsInvariant, R!PortWrite, R!Write, R!TypeOK, R!FunctionFits, Bits
<1>1. PortTypes /\ FunctionTypes /\ DriverTypes /\ OtherTypes
  BY <1>0, PortsTypes
<1>2. /\ r_fn' = "none" /\ r_by' = "hub" /\ r_ones' = {} /\ r_stage' = "write"
      /\ r_by = "hub" => R!HubGets("NoError", {})
      /\ DriverTypes' /\ R!FunctionFits' /\ R!OnesFit'
  <2>1. {} \in SUBSET Bits
    OBVIOUS
  <2> QED BY <1>0, <2>1, ReplyStep
<1>3. R!TypeOK'
  <2>1. PortTypes'
    BY <1>0, <1>1, WriteKeepsTypes
  <2>2. FunctionTypes' /\ OtherTypes'
    BY <1>0, <1>1, <1>2 DEF FunctionTypes, OtherTypes
  <2> QED BY <1>2, <2>1, <2>2, PortsTypesNext
<1>4. R!RegisterFits'
  BY <1>0, <1>1, WrittenRegister
<1>5. ASSUME r_others' = 0, ~r_late' PROVE R!ThisReset'
  <2>1. r_by = "hub" /\ R!HubGets("NoError", {}) /\ r_late \in BOOLEAN
    BY <1>0, <1>1, <1>2, <1>5 DEF DriverTypes
  <2>2. R!ThisReset
    BY <1>0, <1>5, <2>1, HubGoes DEF R!PortsInvariant
  <2>3. r_pc \in DOMAIN R!HubRequest /\ r_fn = R!FunctionOf(R!HubRequest[r_pc]) /\ ~R!AtOnce(r_fn)
    BY <1>0, <2>1 DEF R!FunctionFits
  <2>4. /\ r_pc \in {"power", "clear", "reset", "clrreset"}
        /\ r_pc = "reset" => r_kind = "OHCI" /\ r_fn = "Port_Set_Reset"
        /\ r_pc = "clrreset" => r_kind = "OHCI" /\ r_fn = "Port_Clr_Reset_Chg"
        /\ r_fn = "Port_Set_Reset" => r_pc = "reset"
    BY <1>0, <2>3, HubFunctions DEF R!AtOnce
  <2>5. ~ r_flag' /\ ~ r_flag
    <3>1. ~ r_flag
      BY <2>2, <2>4 DEF R!ThisReset
    <3> QED BY <1>0, <3>1
  <2>6. r_pc' \notin {"clrreset", "add3"} /\ (r_pc' = "poll" => r_pc = "reset") /\ (r_pc' = "look" => r_pc = "clrreset")
        /\ (r_pc = "reset" => r_pc' = "poll")
    BY <2>1, <2>4, HubGoes
  <2>7. r_kind = "OHCI" => r_chg' = r_chg \ r_ones /\ (r_fn # "Port_Set_Reset" => "PRS" \notin r_st')
    <3> SUFFICES ASSUME r_kind = "OHCI"
                 PROVE  r_chg' = r_chg \ r_ones /\ (r_fn # "Port_Set_Reset" => "PRS" \notin r_st')
      OBVIOUS
    <3>1. R!OHCI_Write(r_ones)
      BY <1>0 DEF R!HardwareWrite
    <3>2. "PRS" \notin r_st /\ ("PRS" \in r_ones => r_fn = "Port_Set_Reset")
      BY <2>2, <2>4 DEF R!ThisReset
    <3> QED BY <3>1, <3>2 DEF R!OHCI_Write
  <2>8. r_kind = "OHCI" => "PRSC" \notin r_chg'
    <3>1. r_kind = "OHCI" /\ "PRSC" \in r_chg => r_pc = "clrreset"
      BY <2>2, <2>4 DEF R!ThisReset
    <3>2. r_kind = "OHCI" /\ r_pc = "clrreset" => "PRSC" \in r_ones
      BY <2>2, <2>4 DEF R!ThisReset
    <3> QED BY <2>7, <3>1, <3>2
  <2>9. r_kind = "XHCI" => "PRSC" \notin r_chg' /\ "PRS" \notin r_st'
    <3> SUFFICES ASSUME r_kind = "XHCI" PROVE "PRSC" \notin r_chg' /\ "PRS" \notin r_st'
      OBVIOUS
    <3>1. "PRSC" \notin r_chg /\ "PRS" \notin r_st
      BY <1>0, <2>2, <2>4 DEF R!ThisReset
    <3>2. R!WriteFits(r_fn, r_ones)
      BY <1>0 DEF R!OnesFit, R!Careless
    <3>3. "PRS" \notin r_ones
      BY <2>4, <3>2 DEF R!WriteFits
    <3> QED BY <1>0, <3>1, <3>3 DEF R!HardwareWrite, R!XHCI_Write
  <2>10. r_pc' = "look" => R!AsReset'
    <3> SUFFICES ASSUME r_pc' = "look" PROVE R!AsReset'
      OBVIOUS
    <3>1. r_kind = "OHCI" /\ r_fn = "Port_Clr_Reset_Chg" /\ R!AsReset
      BY <2>2, <2>4, <2>6 DEF R!ThisReset
    <3>2. R!WriteFits(r_fn, r_ones)
      BY <1>0, <3>1 DEF R!OnesFit, R!Careless
    <3>3. r_chg \ r_chg' \subseteq R!ClearedBy(r_fn) /\ ("PES" \in r_st => "PES" \in r_st')
      BY <1>0, <1>1, <3>1, <3>2, WriteExact
    <3>4. R!ClearedBy(r_fn) = {"PRSC"}
      BY <3>1 DEF R!ClearedBy
    <3> QED BY <1>0, <3>1, <3>3, <3>4 DEF R!AsReset
  <2>11. "PRSC" \notin r_chg'
    BY <1>0, <1>4, <2>8, <2>9 DEF R!RegisterFits, R!Kinds
  <2> QED BY <1>0, <1>2, <2>4, <2>5, <2>6, <2>7, <2>8, <2>9, <2>10, <2>11 DEF R!ThisReset
<1> QED BY <1>2, <1>3, <1>4, <1>5 DEF R!PortsInvariant

\* While a reset goes on the hub's driver waits for it.
LEMMA ResetWaits ==
    ASSUME R!FunctionFits, r_fn = "Port_Set_Reset", r_by = "hub" PROVE r_pc = "reset"
BY HubFunctions DEF R!FunctionFits

\* What a function that goes on is answered with.
LEMMA AnswerStep ==
    ASSUME R!RootPortsAssumption, R!TypeOK, R!FunctionFits, r_fn # "none", r_kind' = r_kind, NEW err, R!Reply(r_by, err, {})
    PROVE  /\ r_fn' = "none" /\ r_by' = "hub" /\ r_ones' = {} /\ r_stage' = "write"
           /\ r_by = "hub" => R!HubGets(err, {})
           /\ DriverTypes' /\ R!FunctionFits' /\ R!OnesFit'
<1>1. {} \in SUBSET Bits
  OBVIOUS
<1>2. r_by = "hub" /\ r_pc \in DOMAIN R!SetupOrder => err = "NoError"
  BY HubFunctions DEF R!FunctionFits, R!SetupOrder
<1> QED BY <1>1, <1>2, ReplyStep

\* EHCI's reset, until it is done, has no effect on what is known of the port.
LEMMA EHCIResets ==
    ASSUME R!TypeOK, R!FunctionFits, r_kind = "EHCI", r_kind' = r_kind, R!RegisterFits', R!OnesFit', R!FunctionFits', R!TypeOK',
           r_fn = "Port_Set_Reset", r_others' = r_others, r_flag' = r_flag,
           r_others = 0 /\ ~r_late => R!ThisReset,
           \/ UNCHANGED R!hubVars
           \/ r_by # "hub"
           \/ \E err : R!HubGets(err, {})
    PROVE  R!PortsInvariant'
<1>1. ASSUME r_others' = 0, ~r_late' PROVE R!ThisReset'
  <2>1. r_by = "hub" /\ r_pc = "reset"
    BY <1>1, ResetWaits DEF R!FunctionFits
  <2>2. r_pc' \notin {"clrreset", "look", "add3"} /\ ~r_late
    <3>1. CASE UNCHANGED R!hubVars
      BY <1>1, <2>1, <3>1 DEF R!hubVars
    <3>2. CASE \E err : R!HubGets(err, {})
      <4>1. PICK err : R!HubGets(err, {})
        BY <3>2
      <4>2. r_late \in BOOLEAN
        BY DEF R!TypeOK
      <4> QED BY <1>1, <2>1, <4>1, <4>2, HubGoes
    <3> QED BY <2>1, <3>1, <3>2
  <2>3. R!ThisReset /\ ~r_flag
    BY <1>1, <2>1, <2>2 DEF R!ThisReset
  <2> QED BY <2>2, <2>3 DEF R!ThisReset, R!RegisterFits
<1> QED BY <1>1 DEF R!PortsInvariant

LEMMA DisownedStep ==
    ASSUME R!RootPortsAssumption, R!PortsInvariant, R!Disowned
    PROVE R!PortsInvariant'
<1>0. /\ R!TypeOK /\ R!FunctionFits /\ R!RegisterFits /\ R!OnesFit /\ (r_others = 0 /\ ~r_late => R!ThisReset)
      /\ r_fn = "Port_Set_Reset" /\ r_stage = "write" /\ R!HardwareWrite(r_ones) /\ r_kind = "EHCI"
      /\ R!Reply(r_by, "OwnershipChange", {})
      /\ UNCHANGED <<r_kind, r_flag, r_cached, r_configNr, r_events, r_others>>
      /\ r_ones \in SUBSET Bits
  BY DEF R!PortsInvariant, R!Disowned, R!Write, R!TypeOK, Bits
<1>1. PortTypes /\ FunctionTypes /\ DriverTypes /\ OtherTypes
  BY <1>0, PortsTypes
<1>2. /\ r_fn' = "none" /\ r_by' = "hub" /\ r_ones' = {} /\ r_stage' = "write"
      /\ r_by = "hub" => R!HubGets("OwnershipChange", {})
      /\ DriverTypes' /\ R!FunctionFits' /\ R!OnesFit'
  BY <1>0, AnswerStep
<1>3. R!TypeOK'
  <2>1. PortTypes'
    BY <1>0, <1>1, WriteKeepsTypes
  <2>2. FunctionTypes' /\ OtherTypes'
    BY <1>0, <1>1, <1>2 DEF FunctionTypes, OtherTypes
  <2> QED BY <1>2, <2>1, <2>2, PortsTypesNext
<1>4. R!RegisterFits'
  BY <1>0, <1>1, WrittenRegister DEF R!Kinds
<1> QED BY <1>0, <1>2, <1>3, <1>4, EHCIResets

LEMMA ResetStartedStep ==
    ASSUME R!RootPortsAssumption, R!PortsInvariant, R!ResetStarted
    PROVE R!PortsInvariant'
<1>0. /\ R!TypeOK /\ R!FunctionFits /\ R!RegisterFits /\ R!OnesFit /\ (r_others = 0 /\ ~r_late => R!ThisReset)
      /\ r_fn = "Port_Set_Reset" /\ r_stage = "write" /\ R!HardwareWrite(r_ones) /\ r_kind # "OHCI" /\ r_kind \in R!Kinds
      /\ r_stage' = "wait" /\ UNCHANGED <<r_fn, r_by, r_ones>>
      /\ UNCHANGED <<r_kind, r_flag, r_cached, r_configNr, R!hubVars, r_events, r_others>>
      /\ r_ones \in SUBSET Bits
  BY DEF R!PortsInvariant, R!ResetStarted, R!Stage, R!Write, R!TypeOK, Bits
<1>1. PortTypes /\ FunctionTypes /\ DriverTypes /\ OtherTypes
  BY <1>0, PortsTypes
<1>2. R!TypeOK'
  <2>1. PortTypes'
    BY <1>0, <1>1, WriteKeepsTypes
  <2>2. FunctionTypes' /\ OtherTypes' /\ DriverTypes'
    BY <1>0, <1>1 DEF FunctionTypes, OtherTypes, DriverTypes, R!hubVars
  <2> QED BY <2>1, <2>2, PortsTypesNext
<1>3. R!FunctionFits'
  BY <1>0, KindStays DEF R!FunctionFits, R!hubVars, R!Kinds
<1>4. R!RegisterFits' /\ R!OnesFit'
  BY <1>0, <1>1, WrittenRegister DEF R!OnesFit
<1>5. CASE r_kind = "EHCI"
  BY <1>0, <1>2, <1>3, <1>4, <1>5, EHCIResets
<1>6. CASE r_kind = "XHCI"
  <2>1. ASSUME r_others' = 0, ~r_late' PROVE R!ThisReset'
    <3>1. r_by = "hub" /\ r_pc = "reset" /\ R!ThisReset
      BY <1>0, <2>1, ResetWaits DEF R!FunctionFits, R!hubVars
    <3>2. ~r_flag /\ "PRSC" \notin r_chg
      BY <1>0, <1>6, <3>1 DEF R!ThisReset
    <3>3. "PRSC" \notin r_chg'
      BY <1>0, <1>6, <3>2 DEF R!HardwareWrite, R!XHCI_Write
    <3> QED BY <1>0, <1>6, <3>1, <3>2, <3>3 DEF R!ThisReset, R!hubVars
  <2> QED BY <1>2, <1>3, <1>4, <2>1 DEF R!PortsInvariant
<1> QED BY <1>0, <1>5, <1>6 DEF R!Kinds

LEMMA EHCIResetReadStep ==
    ASSUME R!RootPortsAssumption, R!PortsInvariant, R!EHCI_ResetRead
    PROVE R!PortsInvariant'
<1>0. /\ R!TypeOK /\ R!FunctionFits /\ R!RegisterFits /\ R!OnesFit /\ (r_others = 0 /\ ~r_late => R!ThisReset)
      /\ r_fn = "Port_Set_Reset" /\ r_kind = "EHCI"
      /\ r_ones' = R!EHCI_Reset_End(r_st \cup r_chg) /\ r_stage' = "release" /\ UNCHANGED <<r_fn, r_by>>
      /\ UNCHANGED <<r_kind, R!regVars, r_flag, r_cached, r_configNr, R!hubVars, r_events, r_others>>
      /\ r_st \cup r_chg \in SUBSET Bits
  BY DEF R!PortsInvariant, R!EHCI_ResetRead, R!FunctionFits, R!TypeOK, Bits
<1>1. PortTypes /\ FunctionTypes /\ DriverTypes /\ OtherTypes
  BY <1>0, PortsTypes
<1>2. R!TypeOK'
  <2>1. r_ones' \subseteq Bits
    BY <1>0, WritesAreBits
  <2>2. PortTypes' /\ FunctionTypes' /\ OtherTypes' /\ DriverTypes'
    BY <1>0, <1>1, <2>1 DEF PortTypes, FunctionTypes, OtherTypes, DriverTypes, R!hubVars, R!regVars
  <2> QED BY <2>2, PortsTypesNext
<1>3. R!FunctionFits'
  BY <1>0, KindStays DEF R!FunctionFits, R!hubVars
<1>4. R!RegisterFits' /\ R!OnesFit'
  BY <1>0 DEF R!RegisterFits, R!OnesFit, R!regVars
<1> QED BY <1>0, <1>2, <1>3, <1>4, EHCIResets

LEMMA EHCIResetWriteStep ==
    ASSUME R!RootPortsAssumption, R!PortsInvariant, R!EHCI_ResetWrite
    PROVE R!PortsInvariant'
<1>0. /\ R!TypeOK /\ R!FunctionFits /\ R!RegisterFits /\ R!OnesFit /\ (r_others = 0 /\ ~r_late => R!ThisReset)
      /\ r_fn = "Port_Set_Reset" /\ r_kind = "EHCI" /\ R!HardwareWrite(r_ones)
      /\ r_ones' = {} /\ r_stage' = "settle" /\ UNCHANGED <<r_fn, r_by>>
      /\ UNCHANGED <<r_kind, r_flag, r_cached, r_configNr, R!hubVars, r_events, r_others>>
      /\ r_ones \in SUBSET Bits
  BY DEF R!PortsInvariant, R!EHCI_ResetWrite, R!FunctionFits, R!TypeOK, Bits
<1>1. PortTypes /\ FunctionTypes /\ DriverTypes /\ OtherTypes
  BY <1>0, PortsTypes
<1>2. R!TypeOK'
  <2>1. PortTypes'
    BY <1>0, <1>1, WriteKeepsTypes
  <2>2. FunctionTypes' /\ OtherTypes' /\ DriverTypes'
    BY <1>0, <1>1 DEF FunctionTypes, OtherTypes, DriverTypes, R!hubVars
  <2> QED BY <2>1, <2>2, PortsTypesNext
<1>3. R!FunctionFits'
  BY <1>0, KindStays DEF R!FunctionFits, R!hubVars
<1>4. R!RegisterFits' /\ R!OnesFit'
  BY <1>0, <1>1, WrittenRegister DEF R!OnesFit, R!Kinds
<1> QED BY <1>0, <1>2, <1>3, <1>4, EHCIResets

LEMMA EHCIResetCheckStep ==
    ASSUME R!RootPortsAssumption, R!PortsInvariant, R!EHCI_ResetCheck
    PROVE R!PortsInvariant'
<1>0. /\ R!TypeOK /\ R!FunctionFits /\ R!RegisterFits /\ R!OnesFit /\ (r_others = 0 /\ ~r_late => R!ThisReset)
      /\ r_fn = "Port_Set_Reset" /\ r_kind = "EHCI"
      /\ UNCHANGED <<r_kind, R!regVars, r_cached, r_configNr, r_events, r_others>>
      /\ r_st \cup r_chg \in SUBSET Bits
  BY DEF R!PortsInvariant, R!EHCI_ResetCheck, R!FunctionFits, R!TypeOK, Bits
<1>1. PortTypes /\ FunctionTypes /\ DriverTypes /\ OtherTypes
  BY <1>0, PortsTypes
<1>2. PortTypes' /\ OtherTypes' /\ R!RegisterFits'
  BY <1>0, <1>1 DEF PortTypes, OtherTypes, R!RegisterFits, R!regVars
<1>3. CASE \E err \in {"Timeout", "NoError"} :
              /\ R!Reply(r_by, err, {}) /\ r_flag' \in BOOLEAN
              /\ \/ r_flag' = r_flag
                 \/ err = "NoError" /\ R!EHCI_Enabled /\ r_flag' = TRUE
  <2>1. PICK err \in {"Timeout", "NoError"} :
              /\ R!Reply(r_by, err, {}) /\ r_flag' \in BOOLEAN
              /\ \/ r_flag' = r_flag
                 \/ err = "NoError" /\ R!EHCI_Enabled /\ r_flag' = TRUE
    BY <1>3
  <2>2. /\ r_fn' = "none" /\ r_by' = "hub" /\ r_ones' = {} /\ r_stage' = "write"
        /\ r_by = "hub" => R!HubGets(err, {})
        /\ DriverTypes' /\ R!FunctionFits' /\ R!OnesFit'
    BY <1>0, <2>1, AnswerStep
  <2>3. R!TypeOK'
    <3>1. FunctionTypes'
      BY <1>0, <1>1, <2>1, <2>2 DEF FunctionTypes
    <3> QED BY <1>2, <2>2, <3>1, PortsTypesNext
  <2>4. CASE r_flag' = r_flag
    BY <1>0, <1>2, <2>2, <2>3, <2>4, EHCIResets
  <2>5. CASE err = "NoError" /\ R!EHCI_Enabled /\ r_flag' = TRUE
    <3>1. ASSUME r_others' = 0, ~r_late' PROVE R!ThisReset'
      <4>1. r_by = "hub" /\ r_pc = "reset"
        BY <1>0, <3>1, ResetWaits DEF R!FunctionFits
      <4>2. r_pc' = "poll"
        BY <1>1, <2>2, <2>5, <4>1, HubGoes DEF DriverTypes
      <4>3. R!AsReset'
        BY <1>0, <2>5 DEF R!AsReset, R!EHCI_Enabled, R!regVars
      <4> QED BY <1>0, <1>2, <4>2, <4>3 DEF R!ThisReset, R!RegisterFits
    <3> QED BY <1>2, <2>2, <2>3, <3>1 DEF R!PortsInvariant
  <2> QED BY <2>1, <2>4, <2>5
<1>4. CASE /\ r_flag' = r_flag /\ r_ones' = R!EHCI_Port_Disown(r_st \cup r_chg) /\ r_stage' = "disown"
           /\ UNCHANGED <<r_fn, r_by, R!hubVars>>
  <2>1. R!TypeOK'
    <3>1. r_ones' \subseteq Bits
      BY <1>0, <1>4, WritesAreBits
    <3>2. FunctionTypes' /\ DriverTypes'
      BY <1>0, <1>1, <1>4, <3>1 DEF FunctionTypes, DriverTypes, R!hubVars
    <3> QED BY <1>2, <3>2, PortsTypesNext
  <2>2. R!FunctionFits'
    BY <1>0, <1>4, KindStays DEF R!FunctionFits, R!hubVars
  <2>3. R!OnesFit'
    <3>1. r_ones' = ((r_st \cup r_chg) \ {"OCC", "PEC", "CSC"}) \cup {"PO"}
      BY <1>4 DEF R!EHCI_Port_Disown, R!EHCI_PS_CLEAR
    <3>2. r_st \cap R!ChgBits = {} /\ r_chg \subseteq {"OCC", "PEC", "CSC"} /\ "PO" \notin R!ChgBits
      BY <1>0 DEF R!TypeOK, R!RegisterFits, R!StateBits, R!ChgBits
    <3>3. r_ones' \cap R!ChgBits = {} /\ ("PPS" \in r_st => "PPS" \in r_ones')
      BY <3>1, <3>2
    <3> QED BY <1>0, <1>4, <3>3 DEF R!OnesFit, R!WriteFits, R!regVars
  <2> QED BY <1>0, <1>2, <1>4, <2>1, <2>2, <2>3, EHCIResets
<1> QED
  <2>1. r_flag \in BOOLEAN
    BY <1>1 DEF FunctionTypes
  <2> QED BY <1>3, <1>4, <2>1 DEF R!EHCI_ResetCheck

LEMMA EHCIResetDisownStep ==
    ASSUME R!RootPortsAssumption, R!PortsInvariant, R!EHCI_ResetDisown
    PROVE R!PortsInvariant'
<1>0. /\ R!TypeOK /\ R!FunctionFits /\ R!RegisterFits /\ R!OnesFit /\ (r_others = 0 /\ ~r_late => R!ThisReset)
      /\ r_fn = "Port_Set_Reset" /\ R!HardwareWrite(r_ones) /\ r_kind = "EHCI"
      /\ R!Reply(r_by, "OwnershipChange", {})
      /\ UNCHANGED <<r_kind, r_flag, r_cached, r_configNr, r_events, r_others>>
      /\ r_ones \in SUBSET Bits
  BY DEF R!PortsInvariant, R!EHCI_ResetDisown, R!FunctionFits, R!TypeOK, Bits
<1>1. PortTypes /\ FunctionTypes /\ DriverTypes /\ OtherTypes
  BY <1>0, PortsTypes
<1>2. /\ r_fn' = "none" /\ r_by' = "hub" /\ r_ones' = {} /\ r_stage' = "write"
      /\ r_by = "hub" => R!HubGets("OwnershipChange", {})
      /\ DriverTypes' /\ R!FunctionFits' /\ R!OnesFit'
  BY <1>0, AnswerStep
<1>3. R!TypeOK'
  <2>1. PortTypes'
    BY <1>0, <1>1, WriteKeepsTypes
  <2>2. FunctionTypes' /\ OtherTypes'
    BY <1>0, <1>1, <1>2 DEF FunctionTypes, OtherTypes
  <2> QED BY <1>2, <2>1, <2>2, PortsTypesNext
<1>4. R!RegisterFits'
  BY <1>0, <1>1, WrittenRegister DEF R!Kinds
<1> QED BY <1>0, <1>2, <1>3, <1>4, EHCIResets

LEMMA XHCIResetWaitStep ==
    ASSUME R!RootPortsAssumption, R!PortsInvariant, R!XHCI_ResetWait
    PROVE R!PortsInvariant'
<1>0. /\ R!TypeOK /\ R!FunctionFits /\ R!RegisterFits /\ R!OnesFit /\ (r_others = 0 /\ ~r_late => R!ThisReset)
      /\ r_fn = "Port_Set_Reset" /\ r_kind = "XHCI" /\ r_stage = "wait"
      /\ UNCHANGED <<r_kind, R!regVars, r_configNr, r_events, r_others>>
      /\ r_st \cup r_chg \in SUBSET Bits
  BY DEF R!PortsInvariant, R!XHCI_ResetWait, R!FunctionFits, R!TypeOK, Bits
<1>1. PortTypes /\ FunctionTypes /\ DriverTypes /\ OtherTypes
  BY <1>0, PortsTypes
<1>2. PortTypes' /\ OtherTypes' /\ R!RegisterFits'
  BY <1>0, <1>1 DEF PortTypes, OtherTypes, R!RegisterFits, R!regVars
<1>3. CASE "PRSC" \notin r_chg /\ R!Reply(r_by, "NoError", {}) /\ UNCHANGED <<r_flag, r_cached>>
  <2>2. /\ r_fn' = "none" /\ r_by' = "hub" /\ r_ones' = {} /\ r_stage' = "write"
        /\ r_by = "hub" => R!HubGets("NoError", {})
        /\ DriverTypes' /\ R!FunctionFits' /\ R!OnesFit'
    BY <1>0, <1>3, AnswerStep
  <2>3. R!TypeOK'
    <3>1. FunctionTypes'
      BY <1>0, <1>1, <1>3, <2>2 DEF FunctionTypes
    <3> QED BY <1>2, <2>2, <3>1, PortsTypesNext
  <2>4. ASSUME r_others' = 0, ~r_late' PROVE R!ThisReset'
    <3>1. r_by = "hub" /\ r_pc = "reset"
      BY <1>0, <2>4, ResetWaits DEF R!FunctionFits
    <3>2. r_pc' = "poll" /\ ~r_late
      BY <1>1, <2>2, <2>4, <3>1, HubGoes DEF DriverTypes
    <3>3. R!ThisReset /\ ~r_flag /\ ~r_flag'
      BY <1>0, <1>3, <2>4, <3>1, <3>2 DEF R!ThisReset
    <3> QED BY <1>0, <1>3, <2>2, <3>2, <3>3 DEF R!ThisReset, R!regVars
  <2> QED BY <1>2, <2>2, <2>3, <2>4 DEF R!PortsInvariant
<1>4. CASE /\ "PRSC" \in r_chg
           /\ r_ones' = R!XHCI_Clear_PRC(r_st \cup r_chg) /\ r_stage' = "clear"
           /\ r_cached' = IF "PES" \in r_st THEN r_dev ELSE r_cached
           /\ UNCHANGED <<r_fn, r_by, r_flag, R!hubVars>>
  <2>1. R!TypeOK'
    <3>1. r_ones' \subseteq Bits
      BY <1>0, <1>4, WritesAreBits
    <3>2. r_cached' \in R!Speeds
      BY <1>1, <1>4 DEF FunctionTypes, PortTypes
    <3>3. FunctionTypes' /\ DriverTypes'
      BY <1>0, <1>1, <1>4, <3>1, <3>2 DEF FunctionTypes, DriverTypes, R!hubVars
    <3> QED BY <1>2, <3>3, PortsTypesNext
  <2>2. R!FunctionFits'
    BY <1>0, <1>4, KindStays DEF R!FunctionFits, R!hubVars
  <2>3. R!OnesFit'
    <3>1. r_ones' = ((r_st \cup r_chg) \ {"CSC", "PEC", "OCC", "PRSC", "PES", "PRS"}) \cup {"PRSC"}
      BY <1>4 DEF R!XHCI_Clear_PRC, R!XHCI_PS_WRITE_STRIP_MASK
    <3>2. r_st \cap R!ChgBits = {} /\ r_chg \subseteq {"CSC", "PEC", "OCC", "PRSC"}
      BY <1>0 DEF R!TypeOK, R!RegisterFits, R!StateBits, R!ChgBits
    <3>3. r_ones' \cap R!ChgBits \subseteq {"PRSC"} /\ ("PPS" \in r_st => "PPS" \in r_ones')
      BY <3>1, <3>2
    <3>4. "PRSC" \in R!ClearedBy(r_fn)'
      BY <1>0 DEF R!ClearedBy
    <3> QED BY <1>0, <1>4, <3>3, <3>4 DEF R!OnesFit, R!WriteFits, R!regVars
  <2>4. ASSUME r_others' = 0, ~r_late' PROVE R!ThisReset'
    <3>1. r_by = "hub" /\ r_pc = "reset" /\ R!ThisReset
      BY <1>0, <1>4, <2>4, ResetWaits DEF R!FunctionFits, R!hubVars
    <3>2. ~r_flag /\ "PRS" \notin r_st /\ ("PES" \in r_st \/ r_chg \cap {"CSC", "PEC"} # {})
      BY <1>0, <1>4, <3>1 DEF R!ThisReset
    <3>3. R!AsReset'
      BY <1>0, <1>4, <3>2 DEF R!AsReset, R!regVars
    <3>4. "PRSC" \in r_ones' /\ r_ones' \cap {"PES", "PRS"} = {}
      BY <1>4 DEF R!XHCI_Clear_PRC, R!XHCI_PS_WRITE_STRIP_MASK
    <3> QED BY <1>0, <1>4, <3>1, <3>2, <3>3, <3>4 DEF R!ThisReset, R!regVars, R!hubVars
  <2> QED BY <1>2, <2>1, <2>2, <2>3, <2>4 DEF R!PortsInvariant
<1> QED BY <1>3, <1>4 DEF R!XHCI_ResetWait

LEMMA XHCIResetClearStep ==
    ASSUME R!RootPortsAssumption, R!PortsInvariant, R!XHCI_ResetClear
    PROVE R!PortsInvariant'
<1>0. /\ R!TypeOK /\ R!FunctionFits /\ R!RegisterFits /\ R!OnesFit /\ (r_others = 0 /\ ~r_late => R!ThisReset)
      /\ r_fn = "Port_Set_Reset" /\ r_kind = "XHCI" /\ r_stage = "clear" /\ R!HardwareWrite(r_ones)
      /\ r_flag' = TRUE /\ R!Reply(r_by, "NoError", {})
      /\ UNCHANGED <<r_kind, r_cached, r_configNr, r_events, r_others>>
      /\ r_ones \in SUBSET Bits
  BY DEF R!PortsInvariant, R!XHCI_ResetClear, R!FunctionFits, R!TypeOK, Bits
<1>1. PortTypes /\ FunctionTypes /\ DriverTypes /\ OtherTypes
  BY <1>0, PortsTypes
<1>2. /\ r_fn' = "none" /\ r_by' = "hub" /\ r_ones' = {} /\ r_stage' = "write"
      /\ r_by = "hub" => R!HubGets("NoError", {})
      /\ DriverTypes' /\ R!FunctionFits' /\ R!OnesFit'
  BY <1>0, AnswerStep
<1>3. R!TypeOK'
  <2>1. PortTypes'
    BY <1>0, <1>1, WriteKeepsTypes
  <2>2. FunctionTypes' /\ OtherTypes'
    BY <1>0, <1>1, <1>2 DEF FunctionTypes, OtherTypes
  <2> QED BY <1>2, <2>1, <2>2, PortsTypesNext
<1>4. R!RegisterFits'
  BY <1>0, <1>1, WrittenRegister DEF R!Kinds
<1>5. ASSUME r_others' = 0, ~r_late' PROVE R!ThisReset'
  <2>1. r_by = "hub" /\ r_pc = "reset"
    BY <1>0, <1>5, ResetWaits DEF R!FunctionFits
  <2>2. r_pc' = "poll" /\ ~r_late
    BY <1>1, <1>2, <1>5, <2>1, HubGoes DEF DriverTypes
  <2>3. R!ThisReset /\ "PRSC" \in r_chg /\ R!AsReset /\ "PRS" \notin r_st
    BY <1>0, <1>5, <2>1, <2>2 DEF R!ThisReset
  <2>4. R!XHCI_Write(r_ones) /\ r_ones \cap {"PES", "PRS"} = {} /\ "PRSC" \in r_ones /\ r_ones \cap {"CSC", "PEC"} = {}
    <3>1. R!XHCI_Write(r_ones)
      BY <1>0 DEF R!HardwareWrite
    <3>2. r_ones \cap {"PES", "PRS"} = {} /\ "PRSC" \in r_ones
      BY <1>0, <2>3 DEF R!ThisReset
    <3>3. R!WriteFits(r_fn, r_ones)
      BY <1>0 DEF R!OnesFit, R!Careless
    <3>4. r_ones \cap {"CSC", "PEC"} = {}
      BY <1>0, <3>3 DEF R!WriteFits, R!ClearedBy, R!ChgBits
    <3> QED BY <3>1, <3>2, <3>4
  <2>5. r_chg' = r_chg \ r_ones /\ r_dev' = r_dev /\ ("PES" \in r_st => "PES" \in r_st') /\ "PRS" \notin r_st'
    BY <2>3, <2>4 DEF R!XHCI_Write
  <2>6. R!AsReset' /\ "PRSC" \notin r_chg'
    BY <1>0, <2>3, <2>4, <2>5 DEF R!AsReset
  <2> QED BY <1>0, <1>2, <2>2, <2>5, <2>6 DEF R!ThisReset
<1> QED BY <1>2, <1>3, <1>4, <1>5 DEF R!PortsInvariant

\* The hub's driver goes on without a request to the port.
LEMMA HubMoves ==
    ASSUME R!TypeOK, R!FunctionFits, R!RegisterFits, R!OnesFit, r_others = 0 /\ ~r_late => R!ThisReset,
           r_fn = "none", UNCHANGED <<r_kind, R!regVars, R!hcdVars, r_events, r_others>>, r_configNr' \in {0, R!HUB_Cfg_Nr},
           DriverTypes', ~r_late' => ~r_late,
           r_pc \notin {"poll", "clrreset"}, r_pc' \notin {"poll", "clrreset", "look", "add3"}
    PROVE  R!PortsInvariant'
<1>1. PortTypes /\ FunctionTypes /\ DriverTypes /\ OtherTypes
  BY PortsTypes
<1>2. R!TypeOK'
  <2>1. PortTypes' /\ FunctionTypes' /\ OtherTypes'
    BY <1>1 DEF PortTypes, FunctionTypes, OtherTypes, R!regVars, R!hcdVars
  <2> QED BY <2>1, PortsTypesNext
<1>3. R!FunctionFits' /\ R!RegisterFits' /\ R!OnesFit'
  BY DEF R!FunctionFits, R!RegisterFits, R!OnesFit, R!regVars, R!hcdVars
<1>4. ASSUME r_others' = 0, ~r_late' PROVE R!ThisReset'
  BY <1>4 DEF R!ThisReset, R!regVars, R!hcdVars
<1> QED BY <1>2, <1>3, <1>4 DEF R!PortsInvariant

LEMMA AddedStep == ASSUME R!RootPortsAssumption, R!PortsInvariant, R!Added PROVE R!PortsInvariant'
<1>0. /\ R!TypeOK /\ R!FunctionFits /\ R!RegisterFits /\ R!OnesFit /\ (r_others = 0 /\ ~r_late => R!ThisReset)
      /\ r_fn = "none" /\ r_pc = "add3" /\ UNCHANGED <<r_kind, R!regVars, R!hcdVars, r_configNr, r_events,
                                                       r_others>>
      /\ DriverTypes /\ r_configNr \in {0, R!HUB_Cfg_Nr} /\ r_late \in BOOLEAN
      /\ Polls \in Nat \ {0} /\ Retries \in Nat \ {0}
  BY PortsTypes DEF R!PortsInvariant, R!Added, R!TypeOK, R!RootPortsAssumption
<1>1. {"wait", "reset"} \subseteq DOMAIN R!HubRequest \cup DOMAIN R!SetupOrder \cup {"wait", "add3"}
  BY HubFunctions
<1>2. r_retry \in Nat /\ r_retry <= Retries - 1
  <2>1. r_retry \in 0 .. (Retries - 1)
    BY <1>0 DEF DriverTypes
  <2> QED BY <1>0, <2>1
<1>3. /\ r_pc' \in {"wait", "reset"} /\ r_late' = r_late /\ r_seen' = {} /\ r_tries' = 0 /\ r_retry' \in 0 .. (Retries - 1)
  <2>1. CASE r_pc' = "wait" /\ r_retry' = 0 /\ r_seen' = {} /\ r_tries' = 0 /\ r_late' = r_late
    BY <1>0, <2>1
  <2>2. CASE R!Again
    BY <1>0, <1>2, <2>2 DEF R!Again
  <2> QED BY <2>1, <2>2 DEF R!Added
<1>4. DriverTypes'
  BY <1>0, <1>1, <1>3 DEF DriverTypes
<1> QED BY <1>0, <1>3, <1>4, HubMoves

LEMMA InterruptReadStep ==
    ASSUME R!RootPortsAssumption, R!PortsInvariant, R!Interrupt_Read
    PROVE R!PortsInvariant'
<1>0. /\ R!TypeOK /\ R!FunctionFits /\ R!RegisterFits /\ R!OnesFit /\ (r_others = 0 /\ ~r_late => R!ThisReset)
      /\ r_fn = "none" /\ r_pc = "wait" /\ UNCHANGED <<r_kind, R!regVars, R!hcdVars, r_configNr, r_events,
                                                       r_others>>
      /\ DriverTypes /\ r_configNr \in {0, R!HUB_Cfg_Nr}
      /\ r_pc' = "status" /\ UNCHANGED <<r_seen, r_tries, r_retry, r_late>>
  BY PortsTypes DEF R!PortsInvariant, R!Interrupt_Read, R!Hub, R!TypeOK
<1>1. DriverTypes'
  BY <1>0, HubFunctions DEF DriverTypes
<1> QED BY <1>0, <1>1, HubMoves

LEMMA ControlStep ==
    ASSUME R!RootPortsAssumption, R!PortsInvariant, R!Control_Read \/ R!Control_Write(R!HUB_Cfg_Nr) PROVE R!PortsInvariant'
<1>0. /\ R!TypeOK /\ R!FunctionFits /\ R!RegisterFits /\ R!OnesFit /\ (r_others = 0 /\ ~r_late => R!ThisReset)
      /\ r_fn = "none" /\ r_pc \in {"device", "configuration", "config", "hub"}
      /\ UNCHANGED <<r_kind, R!regVars, R!hcdVars, r_events, r_others>>
      /\ DriverTypes /\ r_configNr \in {0, R!HUB_Cfg_Nr} /\ r_late \in BOOLEAN
  BY PortsTypes DEF R!PortsInvariant, R!Control_Read, R!Control_Write, R!TypeOK, R!DescLength
<1>1. R!HubGets("NoError", {}) /\ r_configNr' \in {0, R!HUB_Cfg_Nr}
  <2>1. CASE R!Control_Read
    <3>1. R!Get_Descriptor(r_pc, 255) = R!DescLength[r_pc]
      BY <2>1 DEF R!Control_Read, R!Get_Descriptor, R!DescLength
    <3> QED BY <1>0, <2>1, <3>1 DEF R!Control_Read
  <2>2. CASE R!Control_Write(R!HUB_Cfg_Nr)
    <3>1. R!Set_Config(R!HUB_Cfg_Nr, 0, 0) = "NoError"
      BY DEF R!Set_Config
    <3> QED BY <2>2, <3>1 DEF R!Control_Write
  <2> QED BY <2>1, <2>2
<1>2. DriverTypes'
  BY <1>0, <1>1, HubGetsKeepsTypes
<1>3. (~r_late' => ~r_late) /\ r_pc' \notin {"poll", "clrreset", "look", "add3"}
  BY <1>0, <1>1, HubGoes
<1> QED BY <1>0, <1>1, <1>2, <1>3, HubMoves

LEMMA PortsStutter == ASSUME R!PortsInvariant, UNCHANGED R!vars PROVE R!PortsInvariant'
<1>1. PortTypes' /\ FunctionTypes' /\ DriverTypes' /\ OtherTypes'
  BY PortsTypes DEF R!PortsInvariant, R!vars, R!regVars, R!hcdVars, R!hubVars, PortTypes, FunctionTypes,
      DriverTypes, OtherTypes
<1>2. R!FunctionFits' /\ R!RegisterFits'
  BY KindStays DEF R!PortsInvariant, R!vars, R!regVars, R!hcdVars, R!hubVars, R!FunctionFits, R!RegisterFits
<1>3. R!OnesFit'
  <2>1. R!WriteFits(r_fn, r_ones) => R!WriteFits(r_fn, r_ones)'
    BY KindStays DEF R!vars, R!regVars, R!hcdVars, R!WriteFits
  <2> QED BY <2>1 DEF R!PortsInvariant, R!OnesFit, R!Careless, R!vars, R!regVars, R!hcdVars, R!hubVars
<1>4. ASSUME r_others' = 0, ~r_late' PROVE R!ThisReset'
  BY <1>4 DEF R!PortsInvariant, R!vars, R!regVars, R!hcdVars, R!hubVars, R!ThisReset, R!AsReset
<1> QED BY <1>1, <1>2, <1>3, <1>4, PortsTypesNext DEF R!PortsInvariant

LEMMA PortsNext ==
    ASSUME R!RootPortsAssumption, R!PortsInvariant, [R!Next]_(R!vars)
    PROVE R!PortsInvariant'
<1>1. ASSUME R!Hub_Request PROVE R!PortsInvariant'
  <2>1. r_pc \in DOMAIN R!HubRequest /\ R!HubRequest[r_pc] \in R!Requests /\ R!Serve("hub", R!HubRequest[r_pc], TRUE) /\ r_others' = r_others
    BY <1>1, HubFunctions DEF R!Hub_Request
  <2> QED BY <2>1, ServeStep
<1>2. ASSUME R!Other_Request PROVE R!PortsInvariant'
  <2>1. r_others' = r_others + 1 /\ r_others' \in 0 .. MaxOthers
    BY <1>2 DEF R!Other_Request, R!PortsInvariant, R!TypeOK, R!RootPortsAssumption
  <2>2. PICK r \in R!Requests, inRange \in BOOLEAN : R!Serve("other", r, inRange)
    BY <1>2 DEF R!Other_Request
  <2> QED BY <2>1, <2>2, ServeStep
<1>3. ASSUME R!Port_Set_Reset PROVE R!PortsInvariant'
  BY <1>3, DisownedStep, ResetStartedStep, EHCIResetReadStep, EHCIResetWriteStep, EHCIResetCheckStep,
     EHCIResetDisownStep, XHCIResetWaitStep, XHCIResetClearStep DEF R!Port_Set_Reset
<1> QED BY <1>1, <1>2, <1>3, PortWriteStep, InterruptReadStep, AddedStep, ControlStep, HardwareStep, PortsStutter
        DEF R!Next, R!HCDTask, R!HubTask

\* What the invariant is for: a write does what its function is for, and no more.
LEMMA WritesExact ==
    ASSUME R!PortsInvariant, R!HCDTask \/ R!Hub_Request \/ R!Other_Request, ~R!Careless
    PROVE  /\ r_chg \ r_chg' \subseteq R!ClearedBy(r_fn)
           /\ "PES" \in r_st \ r_st' => r_fn = "Port_Set_Reset"
           /\ "PPS" \in r_st => "PPS" \in r_st'
<1>0. /\ R!TypeOK /\ R!FunctionFits /\ R!RegisterFits /\ R!OnesFit /\ PortTypes /\ r_kind \in R!Kinds
      /\ r_ones \in SUBSET Bits
  BY PortsTypes DEF R!PortsInvariant, OtherTypes, FunctionTypes
<1> DEFINE Exact == /\ r_chg \ r_chg' \subseteq R!ClearedBy(r_fn)
                    /\ "PES" \in r_st \ r_st' => r_fn = "Port_Set_Reset"
                    /\ "PPS" \in r_st => "PPS" \in r_st'
<1>1. ASSUME UNCHANGED R!regVars PROVE Exact
  BY <1>1 DEF R!regVars
<1>2. ASSUME r_fn # "none", R!HardwareWrite(r_ones), r_stage \in {"write", "disown", "clear"} PROVE Exact
  BY <1>0, <1>2, WriteExact DEF R!OnesFit
<1>3. ASSUME NEW who, NEW r, NEW inRange, R!Serve(who, r, inRange) PROVE Exact
  <2>1. CASE r_kind = "XHCI" /\ R!HardwareWrite(R!XHCI_Clear_PRC(r_st \cup r_chg))
    BY <1>0, <2>1, ClearPRC DEF R!ClearedBy
  <2> QED BY <1>1, <1>3, <2>1 DEF R!Serve
<1>4. CASE R!HCDTask
  <2>1. CASE R!PortWrite \/ R!Disowned \/ R!ResetStarted
    BY <1>2, <2>1 DEF R!PortWrite, R!Disowned, R!ResetStarted, R!Write
  <2>2. CASE R!EHCI_ResetRead \/ R!EHCI_ResetCheck \/ R!XHCI_ResetWait \/ R!Interrupt_Read
    BY <1>1, <2>2 DEF R!EHCI_ResetRead, R!EHCI_ResetCheck, R!XHCI_ResetWait, R!Interrupt_Read
  <2>3. CASE R!EHCI_ResetWrite
    BY <2>3 DEF R!EHCI_ResetWrite, R!Careless
  <2>4. CASE R!EHCI_ResetDisown \/ R!XHCI_ResetClear
    <3>1. r_fn = "Port_Set_Reset"
      BY <1>0, <2>4 DEF R!EHCI_ResetDisown, R!XHCI_ResetClear, R!FunctionFits
    <3> QED BY <1>2, <2>4, <3>1 DEF R!EHCI_ResetDisown, R!XHCI_ResetClear
  <2> QED BY <1>4, <2>1, <2>2, <2>3, <2>4 DEF R!HCDTask, R!Port_Set_Reset
<1>5. CASE R!Hub_Request \/ R!Other_Request
  BY <1>3, <1>5 DEF R!Hub_Request, R!Other_Request
<1> QED BY <1>4, <1>5

LEMMA ResetFirst == ASSUME R!PortsInvariant PROVE R!AddedAfterReset
BY DEF R!PortsInvariant, R!ThisReset, R!AsReset, R!AddedAfterReset

-----------------------------------------------------------------------------
(* What the proofs about transfers need of numbers. *)

\* Of a quotient, and of the multiples up to it.
LEMMA Quotient ==
    ASSUME NEW a \in Nat, NEW t \in Nat \ {0}, a >= t
    PROVE  (a \div t) \in Nat /\ (a \div t) >= 1 /\ (a \div t) * t <= a
BY SMTT(30)

LEMMA Multiples ==
    ASSUME NEW t \in Nat, NEW i \in Nat, NEW j \in Nat, i <= j
    PROVE  i * t <= j * t
BY SMTT(30)

\* Some numbers have a least.
LEMMA LeastOf ==
    ASSUME NEW S \in SUBSET Nat, S # {}
    PROVE  \E x \in S : \A y \in S : x <= y
<1> DEFINE Less == {p \in Nat \X Nat : p[1] < p[2]}
<1>1. IsWellFoundedOn(Less, Nat)
  BY NatLessThanWellFounded DEF OpToRel
<1>2. \A p, q \in Nat : <<p, q>> \in Less <=> p < q
  OBVIOUS
<1> HIDE DEF Less
<1>3. PICK x \in S : \A y \in S : ~ (<<y, x>> \in Less)
  BY <1>1, WFMin
<1>4. \A y \in S : x <= y
  <2>1. TAKE y \in S
  <2>2. x \in Nat /\ y \in Nat /\ ~ (y < x)
    BY <1>2, <1>3
  <2> QED BY <2>2
<1> QED BY <1>4

\* What TDs of t bytes before the last one of len bytes hold is no more than those.
LEMMA PiecesFit ==
    ASSUME NEW t \in Nat \ {0}, NEW len \in Nat \ {0}
    PROVE  LET n == (len + t - 1) \div t
           IN  n \in Nat /\ n >= 1 /\ \A i \in 1 .. n : (i - 1) * t \in Nat /\ (i - 1) * t <= len
<1> DEFINE n == (len + t - 1) \div t
<1>1. len + t - 1 \in Nat /\ len + t - 1 >= t
  OBVIOUS
<1>2. n \in Nat /\ n >= 1 /\ n * t <= len + t - 1
  BY <1>1, Quotient
<1> HIDE DEF n
<1>3. ASSUME NEW i \in 1 .. n PROVE (i - 1) * t \in Nat /\ (i - 1) * t <= len
  <2>1. i - 1 \in Nat /\ n - 1 \in Nat /\ i - 1 <= n - 1
    BY <1>2
  <2>2. (i - 1) * t <= (n - 1) * t
    BY <2>1, Multiples
  <2>3. (n - 1) * t = n * t - t
    BY <1>2
  <2>4. (i - 1) * t \in Nat /\ (n - 1) * t \in Nat /\ n * t \in Nat
    BY <1>2, <2>1
  <2> QED BY <1>2, <2>2, <2>3, <2>4
<1> QED BY <1>2, <1>3 DEF n

-----------------------------------------------------------------------------
(* The transfers of EHCI (EHCITransfer). *)

\* The first TD that stops the walk is one of the chain, or there is none.
LEMMA EHCIFirstFits ==
    ASSUME NEW a \in Nat, NEW b \in Nat, NEW stops
    PROVE  E!FirstOf(a, b, stops) = b + 1 \/ E!FirstOf(a, b, stops) \in a .. b
<1> DEFINE S == {i \in a .. b : e_chain[i] \in stops} \cup {b + 1}
<1>1. S \in SUBSET Nat /\ S # {}
  OBVIOUS
<1>2. E!Min(S) \in S
  BY <1>1, LeastOf DEF E!Min
<1> QED BY <1>2 DEF E!FirstOf

LEMMA EHCIAnswerFits ==
    ASSUME e_chain \in Seq(E!TDs), e_chain # <<>>
    PROVE  E!Length.err \in E!Errors
<1>1. Len(e_chain) \in Nat \ {0} /\ \A i \in 1 .. Len(e_chain) : e_chain[i].err \in E!Errors
  <2>1. \A i \in 1 .. Len(e_chain) : e_chain[i] \in E!TDs
    OBVIOUS
  <2>2. Len(e_chain) \in Nat /\ Len(e_chain) # 0
    OBVIOUS
  <2> QED BY <2>1, <2>2 DEF E!TDs
<1>2. ASSUME NEW a \in Nat \ {0}, NEW b \in Nat, b <= Len(e_chain) PROVE E!LengthOf(a, b).err \in E!Errors
  <2> DEFINE stops == {td \in E!Range(e_chain) : td.active \/ td.err # "NoError" \/ td.left # 0}
             i == E!FirstOf(a, b, stops)
  <2>1. i = b + 1 \/ i \in a .. b
    BY EHCIFirstFits
  <2> HIDE DEF i
  <2>2. (IF i <= b THEN e_chain[i].err ELSE "NoError") \in E!Errors
    BY <1>1, <1>2, <2>1 DEF E!Errors
  <2>3. E!LengthOf(a, b).err = IF i <= b THEN e_chain[i].err ELSE "NoError"
    BY DEF E!LengthOf, i
  <2> QED BY <2>2, <2>3
<1>3. E!LengthOf(1, Len(e_chain)).err \in E!Errors /\ E!LengthOf(2, Len(e_chain) - 1).err \in E!Errors
  <2>1. Len(e_chain) - 1 \in Nat /\ Len(e_chain) - 1 <= Len(e_chain)
    BY <1>1
  <2> QED BY <1>1, <1>2, <2>1
<1>4. E!Control_Length.err \in E!Errors
  BY <1>1, <1>3 DEF E!Control_Length
<1> QED BY <1>3, <1>4 DEF E!Length, E!Bulk_Length, E!Interrupt_Length

(* The chain. *)

LEMMA EHCITDFits ==
    ASSUME NEW pid \in {"setup", "in", "out"}, NEW len \in Nat, NEW d \in 0 .. 1
    PROVE  E!TD(pid, len, d) \in {t \in E!TDs : t.left = t.size}
BY DEF E!TD, E!TDs, E!Errors

\* The TDs that a chain is built of.
EHCIFresh == {t \in E!TDs : t.left = t.size}

LEMMA EHCIDataFits ==
    ASSUME E!EHCITransferAssumption, NEW pid \in {"in", "out"}, NEW len \in Nat, NEW d \in 0 .. 1
    PROVE  E!DataTDs(pid, len, d) \in Seq(EHCIFresh) /\ E!DataTDs(pid, len, d) # <<>>
<1> DEFINE n == IF len = 0 THEN 1 ELSE (len + TDSize - 1) \div TDSize
<1>0. TDSize \in Nat \ {0}
  BY DEF E!EHCITransferAssumption
<1>1. /\ n \in Nat /\ n >= 1
      /\ \A i \in 1 .. n : (i - 1) * TDSize \in Nat /\ (i - 1) * TDSize <= len
  <2>1. CASE len = 0
    <3>1. 0 * TDSize = 0
      BY <1>0
    <3>2. n = 1
      BY <2>1
    <3>3. \A i \in 1 .. n : i = 1 /\ i - 1 = 0
      BY <3>2
    <3> QED BY <2>1, <3>1, <3>2, <3>3
  <2>2. CASE len # 0
    BY <1>0, <2>2, PiecesFit
  <2> QED BY <2>1, <2>2
<1> HIDE DEF n
<1>2. ASSUME NEW i \in 1 .. n PROVE E!Lower(TDSize, len - (i - 1) * TDSize) \in Nat
  <2>1. len - (i - 1) * TDSize \in Nat
    BY <1>1
  <2> QED BY <1>0, <2>1 DEF E!Lower
<1>3. E!DataTDs(pid, len, d) = [i \in 1 .. n |-> E!TD(pid, E!Lower(TDSize, len - (i - 1) * TDSize), d)]
  BY DEF E!DataTDs, n
<1>4. \A i \in 1 .. n : E!TD(pid, E!Lower(TDSize, len - (i - 1) * TDSize), d) \in EHCIFresh
  BY <1>2, EHCITDFits DEF EHCIFresh
<1>5. E!DataTDs(pid, len, d) \in Seq(EHCIFresh)
  BY <1>1, <1>3, <1>4
<1>6. Len(E!DataTDs(pid, len, d)) = n
  BY <1>1, <1>3
<1> QED BY <1>1, <1>5, <1>6

LEMMA EHCIBuildFits ==
    ASSUME E!EHCITransferAssumption, NEW r \in E!Requests, e_ep.dt \in 0 .. 1
    PROVE  E!Build(r) \in Seq(EHCIFresh) /\ E!Build(r) # <<>>
<1>0. r.length \in Nat /\ r.type \in E!Types /\ MaxPacket \in Nat
  BY DEF E!Requests, E!EHCITransferAssumption
<1>1. ASSUME NEW d \in 0 .. 1 PROVE E!Bulk_Build(r, d) \in Seq(EHCIFresh) /\ E!Bulk_Build(r, d) # <<>>
  <2> DEFINE data == E!DataTDs(IF r.read THEN "in" ELSE "out", r.length, d)
             zero == E!ZeroTD(r, d)
  <2>1. data \in Seq(EHCIFresh) /\ data # <<>>
    BY <1>0, EHCIDataFits
  <2>2. E!TD("out", 0, d) \in EHCIFresh
    BY EHCITDFits DEF EHCIFresh
  <2>3. zero \in Seq(EHCIFresh)
    BY <2>2 DEF E!ZeroTD
  <2>4. E!Bulk_Build(r, d) = data \o zero
    BY DEF E!Bulk_Build
  <2> HIDE DEF data, zero
  <2> QED BY <2>1, <2>3, <2>4
<1>2. E!Control_Build(r) \in Seq(EHCIFresh) /\ E!Control_Build(r) # <<>>
  <2> DEFINE first == <<E!TD("setup", MaxPacket, 0)>>
             data == E!ControlData(r)
             last == <<E!TD(IF r.read THEN "out" ELSE "in", 0, 1)>>
  <2>1. first \in Seq(EHCIFresh) /\ Len(first) = 1
    <3>1. E!TD("setup", MaxPacket, 0) \in EHCIFresh
      BY <1>0, EHCITDFits DEF EHCIFresh
    <3> QED BY <3>1
  <2>2. last \in Seq(EHCIFresh)
    <3>1. E!TD(IF r.read THEN "out" ELSE "in", 0, 1) \in EHCIFresh
      BY EHCITDFits DEF EHCIFresh
    <3> QED BY <3>1
  <2>3. data \in Seq(EHCIFresh)
    <3>1. CASE r.length = 0
      BY <3>1 DEF E!ControlData
    <3>2. CASE r.length # 0
      <4> DEFINE full == E!DataTDs(IF r.read THEN "in" ELSE "out", r.length, 1)
                 n == Len(full)
      <4>1. full \in Seq(EHCIFresh)
        <5>1. (IF r.read THEN "in" ELSE "out") \in {"in", "out"} /\ 1 \in 0 .. 1
          OBVIOUS
        <5> QED BY <1>0, <5>1, EHCIDataFits
      <4>2. data = [i \in DOMAIN full |-> [full[i] EXCEPT !.alt = TRUE]]
        BY <3>2 DEF E!ControlData
      <4> HIDE DEF full
      <4>3. n \in Nat /\ DOMAIN full = 1 .. n /\ \A i \in 1 .. n : full[i] \in EHCIFresh
        BY <4>1
      <4> HIDE DEF n, data
      <4>4. \A i \in 1 .. n : [full[i] EXCEPT !.alt = TRUE] \in EHCIFresh
        BY <4>3 DEF EHCIFresh, E!TDs
      <4>5. data = [i \in 1 .. n |-> [full[i] EXCEPT !.alt = TRUE]]
        BY <4>2, <4>3
      <4> QED BY <4>3, <4>4, <4>5
    <3> QED BY <3>1, <3>2
  <2>4. E!Control_Build(r) = first \o data \o last
    BY DEF E!Control_Build
  <2> HIDE DEF first, data, last
  <2>5. first \o data \in Seq(EHCIFresh) /\ Len(first \o data) = Len(first) + Len(data)
    BY <2>1, <2>3, ConcatProperties
  <2>6. Len(data) \in Nat /\ Len(last) \in Nat
    BY <2>2, <2>3
  <2>7. E!Control_Build(r) \in Seq(EHCIFresh) /\ Len(E!Control_Build(r)) = Len(first \o data) + Len(last)
    BY <2>2, <2>4, <2>5
  <2> QED BY <2>1, <2>5, <2>6, <2>7
<1> QED BY <1>0, <1>1, <1>2 DEF E!Build, E!Interrupt_Build, E!Types

(* The steps. *)

LEMMA EHCIInit == ASSUME E!EHCITransferAssumption, E!Init PROVE E!TransferInvariant
<1>1. E!TypeOK
  BY DEF E!Init, E!TypeOK, E!NoRequest, E!NoOverlay, E!Types, E!Errors
<1>2. e_chain \in Seq(E!TDs) /\ DOMAIN e_io = {"err", "actual"}
  BY DEF E!Init
<1>3. E!OverlayFits
  BY DEF E!Init, E!OverlayFits, E!NoOverlay, E!Errors
<1>4. E!DeviceFits
  BY DEF E!Init, E!DeviceFits
<1>5. E!MemoryFreed /\ E!MemoryHeld
  BY DEF E!Init, E!MemoryFreed, E!MemoryHeld
<1> QED BY <1>1, <1>2, <1>3, <1>4, <1>5 DEF E!TransferInvariant

LEMMA EHCIAddStep == ASSUME E!EHCITransferAssumption, E!TransferInvariant, E!Add_Request PROVE E!TransferInvariant'
<1>0. PICK r \in E!Requests :
        /\ e_req' = r
        /\ \/ /\ e_ep.stalled /\ e_io' = [err |-> "Stall", actual |-> 0]
              /\ UNCHANGED <<e_phase, e_chain, e_ov, e_ep, e_dev, e_live>>
           \/ \E offer \in E!Offers(r), fast \in BOOLEAN : E!Start(r, offer, fast)
           \/ \E k \in Nat : E!Refuse(r, k, "NoMemory")
           \/ E!Refuse(r, 0, "NoBandWidth")
  <2>1. PICK r \in E!Requests :
        /\ e_req' = r
        /\ \/ /\ e_ep.stalled /\ e_io' = [err |-> "Stall", actual |-> 0]
              /\ UNCHANGED <<e_phase, e_chain, e_ov, e_ep, e_dev, e_live>>
           \/ \E offer \in E!Offers(r), fast \in BOOLEAN : E!Start(r, offer, fast)
           \/ \E k \in 0 .. Len(E!AllocOrder(r.type, Len(E!Build(r)))) - 1 : E!Refuse(r, k, "NoMemory")
           \/ E!Refuse(r, 0, "NoBandWidth")
    BY DEF E!Add_Request
  <2>2. \A k \in 0 .. Len(E!AllocOrder(r.type, Len(E!Build(r)))) - 1 : k \in Nat
    OBVIOUS
  <2> QED BY <2>1, <2>2
<1>1. e_phase = "idle" /\ E!TypeOK /\ e_chain \in Seq(E!TDs) /\ E!OverlayFits /\ E!DeviceFits /\ e_live = {}
  BY DEF E!Add_Request, E!TransferInvariant, E!MemoryFreed
<1>2. e_req' \in [type : E!Types, read : BOOLEAN, length : Lengths \cup {0}, zero : BOOLEAN]
  BY <1>0 DEF E!Requests
<1>3. CASE \E offer \in E!Offers(r), fast \in BOOLEAN : E!Start(r, offer, fast)
  <2>1. PICK offer \in E!Offers(r), fast \in BOOLEAN : E!Start(r, offer, fast)
    BY <1>3
  <2>2. e_ep.dt \in 0 .. 1 /\ E!Build(r) \in Seq(EHCIFresh) /\ E!Build(r) # <<>>
    BY <1>1, EHCIBuildFits DEF E!TypeOK
  <2>3. e_chain' \in Seq(EHCIFresh) /\ e_chain' # <<>> /\ e_phase' = "linked" /\ e_ov' = E!NoOverlay
        /\ e_io' = [err |-> "NoError", actual |-> 0] /\ e_ep' = e_ep
    BY <2>1, <2>2 DEF E!Start
  <2>4. e_chain' \in Seq(E!TDs) /\ Len(e_chain') \in Nat
    BY <2>3 DEF EHCIFresh
  <2>5. \A i \in DOMAIN e_chain' : e_chain'[i].left \in 0 .. e_chain'[i].size
    <3>1. \A i \in DOMAIN e_chain' : e_chain'[i] \in EHCIFresh
      BY <2>3
    <3> QED BY <3>1 DEF EHCIFresh, E!TDs
  <2>6. E!TypeOK'
    BY <1>1, <1>2, <2>3, <2>4, <2>5 DEF E!TypeOK, E!NoOverlay, E!Errors
  <2>7. E!OverlayFits'
    BY <2>3 DEF E!OverlayFits, E!NoOverlay, E!Errors
  <2>8. E!DeviceFits'
    <3>1. offer \in Nat
      <4>1. r.length \in Nat
        BY DEF E!Requests, E!EHCITransferAssumption
      <4> QED BY <4>1 DEF E!Offers
    <3> QED BY <1>1, <2>1, <3>1 DEF E!Start, E!DeviceFits
  <2>9. E!MemoryHeld' /\ E!MemoryFreed'
    BY <1>0, <2>1, <2>3 DEF E!Start, E!MemoryHeld, E!MemoryFreed
  <2> QED BY <2>3, <2>4, <2>6, <2>7, <2>8, <2>9 DEF E!TransferInvariant
<1>4. CASE ~ \E offer \in E!Offers(r), fast \in BOOLEAN : E!Start(r, offer, fast)
  <2>1. /\ UNCHANGED <<e_phase, e_chain, e_ov, e_ep, e_dev>> /\ DOMAIN e_io' = {"err", "actual"}
        /\ e_io'.err \in E!Errors
    BY <1>0, <1>4 DEF E!Refuse, E!Errors
  <2>2. e_live' = {}
    BY <1>0, <1>1, <1>4 DEF E!Refuse, E!Reached
  <2> QED BY <1>1, <1>2, <2>1, <2>2
      DEF E!TransferInvariant, E!TypeOK, E!OverlayFits, E!DeviceFits, E!MemoryHeld, E!MemoryFreed
<1> QED BY <1>3, <1>4

LEMMA EHCIDestallStep == ASSUME E!TransferInvariant, E!Destall PROVE E!TransferInvariant'
<1>1. /\ e_ep' = [dt |-> 0, stalled |-> FALSE] /\ e_dev' = [e_dev EXCEPT !.dt = 0]
      /\ UNCHANGED <<e_phase, e_req, e_chain, e_ov, e_live, e_io>>
  BY DEF E!Destall
<1>2. E!TypeOK'
  BY <1>1 DEF E!TransferInvariant, E!TypeOK
<1>3. E!DeviceFits'
  BY <1>1 DEF E!TransferInvariant, E!DeviceFits
<1> QED BY <1>1, <1>2, <1>3 DEF E!TransferInvariant, E!OverlayFits, E!MemoryHeld, E!MemoryFreed

LEMMA EHCILoadStep == ASSUME E!TransferInvariant, E!Load PROVE E!TransferInvariant'
<1> DEFINE f == E!Following
<1>0. e_chain \in Seq(E!TDs) /\ E!OverlayFits /\ f \in DOMAIN e_chain
  BY DEF E!TransferInvariant, E!Load
<1>1. f \in 1 .. Len(e_chain) /\ Len(e_chain) \in Nat /\ e_chain[f] \in E!TDs
  BY <1>0
<1>2. E!ToggleOf(f) \in 0 .. 1
  BY <1>0, <1>1 DEF E!ToggleOf, E!OverlayFits, E!TDs
<1>3. /\ e_ov' = [cur |-> f, active |-> TRUE, err |-> "NoError", left |-> e_chain[f].left, dt |-> E!ToggleOf(f)]
      /\ UNCHANGED <<e_phase, e_req, e_chain, e_ep, e_dev, e_live, e_io>>
  BY DEF E!Load
<1> HIDE DEF f
<1>4. E!TypeOK'
  BY <1>1, <1>3 DEF E!TransferInvariant, E!TypeOK
<1>5. E!OverlayFits'
  BY <1>1, <1>2, <1>3 DEF E!OverlayFits, E!TDs, E!Errors
<1> QED BY <1>3, <1>4, <1>5 DEF E!TransferInvariant, E!DeviceFits, E!MemoryHeld, E!MemoryFreed

\* The TD of the overlay, while a packet of it is sent or awaited.
LEMMA EHCINowFits ==
    ASSUME E!TransferInvariant, e_ov.active
    PROVE  /\ e_ov.cur \in 1 .. Len(e_chain) /\ e_chain[e_ov.cur] \in E!TDs /\ e_ov.left = e_chain[e_ov.cur].left
           /\ e_ov.left \in Nat /\ e_ov.left <= e_chain[e_ov.cur].size /\ e_ov.dt \in 0 .. 1
<1>1. e_ov.cur \in 0 .. Len(e_chain) /\ e_ov.cur # 0 /\ Len(e_chain) \in Nat /\ e_ov.left = e_chain[e_ov.cur].left
  BY DEF E!TransferInvariant, E!TypeOK, E!OverlayFits
<1>2. e_ov.cur \in 1 .. Len(e_chain)
  BY <1>1
<1>3. e_chain[e_ov.cur] \in E!TDs /\ e_chain[e_ov.cur].left \in 0 .. e_chain[e_ov.cur].size
  BY <1>2 DEF E!TransferInvariant, E!TypeOK
<1> QED BY <1>1, <1>2, <1>3 DEF E!TransferInvariant, E!OverlayFits, E!TDs

LEMMA EHCIWriteBack ==
    ASSUME E!TransferInvariant, e_ov.active, UNCHANGED <<e_phase, e_req, e_ep, e_live, e_io>>,
           NEW left \in Nat, left <= e_ov.left, NEW done \in BOOLEAN, NEW err \in E!Errors, NEW d \in 0 .. 1,
           E!Step(left, done, err, d), E!DeviceFits'
    PROVE  E!TransferInvariant'
<1> DEFINE c == e_ov.cur
<1>1. c \in 1 .. Len(e_chain) /\ e_chain[c] \in E!TDs /\ left <= e_chain[c].size /\ e_chain \in Seq(E!TDs)
  BY EHCINowFits DEF E!TransferInvariant, E!TDs
<1>2. e_ov' = [e_ov EXCEPT !.left = left, !.active = ~done, !.err = err, !.dt = d]
  BY DEF E!Step
<1>3. /\ e_ov'.cur = c /\ e_ov'.left = left
      /\ e_ov' \in [cur : Nat, active : BOOLEAN, err : E!Errors, left : Nat, dt : 0 .. 1]
  BY <1>2 DEF E!TransferInvariant, E!OverlayFits
<1> DEFINE t == [e_chain[c] EXCEPT !.left = left, !.active = ~done, !.err = err]
<1>4. t \in E!TDs /\ t.left = left /\ t.size = e_chain[c].size
  BY <1>1 DEF E!TDs
<1>5. e_chain' = [e_chain EXCEPT ![c] = t]
  BY <1>1 DEF E!Step
<1> HIDE DEF t, c
<1>6. e_chain' \in Seq(E!TDs) /\ Len(e_chain') = Len(e_chain) /\ e_chain'[c] = t
      /\ DOMAIN e_chain' = DOMAIN e_chain /\ \A i \in DOMAIN e_chain : i # c => e_chain'[i] = e_chain[i]
  BY <1>1, <1>4, <1>5
<1>7. \A i \in DOMAIN e_chain' : e_chain'[i].left \in 0 .. e_chain'[i].size
  <2>1. t.left \in 0 .. t.size
    <3>1. e_chain[c].size \in Nat
      BY <1>1 DEF E!TDs
    <3> QED BY <1>1, <1>4, <3>1
  <2>2. \A i \in DOMAIN e_chain : e_chain[i].left \in 0 .. e_chain[i].size
    BY DEF E!TransferInvariant, E!TypeOK
  <2> QED BY <1>1, <1>6, <2>1, <2>2
<1>8. E!TypeOK'
  BY <1>1, <1>3, <1>6, <1>7 DEF E!TransferInvariant, E!TypeOK
<1>9. E!OverlayFits'
  BY <1>1, <1>3, <1>4, <1>6 DEF E!OverlayFits
<1>10. E!MemoryHeld' /\ E!MemoryFreed'
  <2>1. e_chain' # <<>> <=> e_chain # <<>>
    BY <1>1, <1>6
  <2> QED BY <1>6, <2>1 DEF E!TransferInvariant, E!MemoryHeld, E!MemoryFreed
<1> QED BY <1>6, <1>8, <1>9, <1>10 DEF E!TransferInvariant

LEMMA EHCISentFits ==
    ASSUME E!EHCITransferAssumption, E!TransferInvariant, E!Sent
    PROVE  E!DeviceFits' /\ E!NextPacket \in Nat
<1>0. MaxPacket \in Nat \ {0} /\ E!DeviceFits
  BY DEF E!EHCITransferAssumption, E!TransferInvariant
<1>1. E!NextPacket \in Nat /\ (~e_dev.over => E!NextPacket <= e_dev.offer - e_dev.sent)
  BY <1>0 DEF E!NextPacket, E!DeviceFits, E!Lower
<1>2. /\ e_dev'.dt = E!Flip(e_dev.dt) /\ e_dev'.sent = e_dev.sent + E!NextPacket /\ e_dev'.offer = e_dev.offer
      /\ e_dev'.got = e_dev.got /\ e_dev'.over = (e_dev.over \/ E!NextPacket < MaxPacket) /\ DOMAIN e_dev' = DOMAIN e_dev
  BY <1>0 DEF E!Sent, E!DeviceFits
<1>3. E!Flip(e_dev.dt) \in 0 .. 1
  BY <1>0 DEF E!DeviceFits, E!Flip
<1> QED BY <1>0, <1>1, <1>2, <1>3 DEF E!DeviceFits

LEMMA EHCITransactStep == ASSUME E!EHCITransferAssumption, E!TransferInvariant, E!Transact PROVE E!TransferInvariant'
<1>0. e_ov.active /\ UNCHANGED <<e_phase, e_req, e_ep, e_live, e_io>>
  BY DEF E!Transact
<1>1. /\ e_ov.cur \in 1 .. Len(e_chain) /\ e_ov.left \in Nat /\ e_ov.dt \in 0 .. 1 /\ MaxPacket \in Nat \ {0}
  BY <1>0, EHCINowFits DEF E!EHCITransferAssumption
<1>2. E!Flip(e_ov.dt) \in 0 .. 1 /\ "NoError" \in E!Errors /\ E!DeviceFits
  BY <1>1 DEF E!Flip, E!Errors, E!TransferInvariant
<1>3. CASE E!Out
  <2> DEFINE n == E!Lower(MaxPacket, e_ov.left)
  <2>1. n \in Nat /\ n <= e_ov.left
    BY <1>1 DEF E!Lower
  <2>2. E!Step(e_ov.left - n, e_ov.left = n, "NoError", E!Flip(e_ov.dt))
    BY <1>3 DEF E!Out
  <2>3. PICK a \in 0 .. 1, g \in Nat, z \in BOOLEAN : e_dev' = [e_dev EXCEPT !.dt = a, !.got = g, !.zlp = z]
    <3>1. E!Flip(e_dev.dt) \in 0 .. 1 /\ e_dev.dt \in 0 .. 1 /\ e_dev.got \in Nat /\ e_dev.got + n \in Nat
      BY <1>2, <2>1 DEF E!DeviceFits, E!Flip
    <3> DEFINE setup == e_chain[e_ov.cur].pid = "setup"
               new == setup \/ E!Expected = e_ov.dt
               a == IF setup THEN 1 ELSE IF new THEN E!Flip(e_dev.dt) ELSE e_dev.dt
               g == IF new /\ ~setup THEN e_dev.got + n ELSE e_dev.got
    <3>2. a \in 0 .. 1 /\ g \in Nat /\ (new /\ n = 0) \in BOOLEAN
      BY <3>1
    <3>3. e_dev' = [e_dev EXCEPT !.dt = a, !.got = g, !.zlp = new /\ n = 0]
      BY <1>3 DEF E!Out
    <3> QED BY <3>2, <3>3
  <2>4. E!DeviceFits'
    BY <1>2, <2>3 DEF E!DeviceFits
  <2> HIDE DEF n
  <2>5. e_ov.left - n \in Nat /\ e_ov.left - n <= e_ov.left /\ (e_ov.left = n) \in BOOLEAN
    BY <1>1, <2>1
  <2> QED BY <1>0, <1>2, <2>2, <2>4, <2>5, EHCIWriteBack
<1>4. CASE E!In
  <2>1. CASE E!Step(e_ov.left, TRUE, "Overflow", e_ov.dt) /\ UNCHANGED e_dev
    <3>1. E!DeviceFits' /\ "Overflow" \in E!Errors
      BY <1>2, <2>1 DEF E!DeviceFits, E!Errors
    <3>2. e_ov.left <= e_ov.left /\ TRUE \in BOOLEAN
      BY <1>1
    <3>3. E!Step(e_ov.left, TRUE, "Overflow", e_ov.dt)
      BY <2>1
    <3> QED BY <1>0, <1>1, <3>1, <3>2, <3>3, EHCIWriteBack, Zenon
  <2>2. CASE UNCHANGED <<e_ov, e_chain>> /\ E!Sent
    <3>1. E!DeviceFits'
      BY <2>2, EHCISentFits
    <3> QED BY <1>0, <2>2, <3>1 DEF E!TransferInvariant, E!TypeOK, E!OverlayFits, E!MemoryHeld, E!MemoryFreed
  <2>3. CASE /\ E!NextPacket <= e_ov.left /\ E!Sent
             /\ E!Step(e_ov.left - E!NextPacket, E!NextPacket = e_ov.left \/ E!NextPacket < MaxPacket, "NoError", E!Flip(e_ov.dt))
    <3>1. E!DeviceFits' /\ E!NextPacket \in Nat
      BY <2>3, EHCISentFits
    <3> DEFINE n == E!NextPacket
               done == n = e_ov.left \/ n < MaxPacket
    <3> HIDE DEF n
    <3>2. e_ov.left - n \in Nat /\ e_ov.left - n <= e_ov.left /\ done \in BOOLEAN
      BY <1>1, <2>3, <3>1 DEF n
    <3>3. E!Step(e_ov.left - n, done, "NoError", E!Flip(e_ov.dt))
      BY <2>3 DEF n
    <3> QED BY <1>0, <1>2, <3>1, <3>2, <3>3, EHCIWriteBack
  <2> QED BY <1>4, <2>1, <2>2, <2>3 DEF E!In
<1>5. CASE E!Fail("Stall") \/ E!Fail("Timeout")
  <2>1. E!DeviceFits' /\ {"Stall", "Timeout"} \subseteq E!Errors
    BY <1>2, <1>5 DEF E!Fail, E!DeviceFits, E!Errors
  <2>2. E!Step(e_ov.left, TRUE, "Stall", e_ov.dt) \/ E!Step(e_ov.left, TRUE, "Timeout", e_ov.dt)
    BY <1>5 DEF E!Fail
  <2>3. e_ov.left <= e_ov.left /\ TRUE \in BOOLEAN /\ "Stall" \in E!Errors /\ "Timeout" \in E!Errors
    BY <1>1, <2>1
  <2> QED BY <1>0, <1>1, <2>1, <2>2, <2>3, EHCIWriteBack, Zenon
<1> QED BY <1>3, <1>4, <1>5 DEF E!Transact

LEMMA EHCIUnlinkStep ==
    ASSUME E!TransferInvariant, NEW err \in E!Errors, E!Unlink(err)
    PROVE  E!TransferInvariant'
<1>1. /\ e_phase = "linked" /\ e_phase' = "unlinked" /\ e_io' = [e_io EXCEPT !.err = err]
      /\ UNCHANGED <<e_req, e_chain, e_ov, e_ep, e_dev, e_live>>
  BY DEF E!Unlink
<1>2. e_io'.err = err /\ DOMAIN e_io' = {"err", "actual"}
  BY <1>1 DEF E!TransferInvariant
<1>3. E!TypeOK'
  BY <1>1, <1>2 DEF E!TransferInvariant, E!TypeOK
<1> QED BY <1>1, <1>2, <1>3 DEF E!TransferInvariant, E!OverlayFits, E!DeviceFits, E!MemoryHeld, E!MemoryFreed

LEMMA EHCIRemoveStep == ASSUME E!TransferInvariant, E!Transfer_Remove PROVE E!TransferInvariant'
<1> DEFINE n == Len(e_chain)
           ended == IF e_io.err = "NoError" THEN E!Length ELSE [actual |-> 0, err |-> e_io.err]
<1>1. /\ e_phase = "unlinked" /\ e_phase' = "idle" /\ e_io' = [err |-> ended.err, actual |-> ended.actual]
      /\ e_ep' = [dt |-> E!SavedToggle, stalled |-> ended.err = "Stall"]
      /\ e_live' = e_live \ E!First(E!AllocOrder(e_req.type, n), 2 * n + 1)
      /\ UNCHANGED <<e_req, e_chain, e_ov, e_dev>>
  BY DEF E!Transfer_Remove, E!Reached
<1>2. e_chain \in Seq(E!TDs) /\ e_chain # <<>> /\ e_live = E!First(E!AllocOrder(e_req.type, n), 2 * n + 1)
  BY <1>1 DEF E!TransferInvariant, E!MemoryHeld
<1>3. ended.err \in E!Errors
  BY <1>2, EHCIAnswerFits DEF E!TransferInvariant, E!TypeOK
<1> HIDE DEF ended
<1>4. E!SavedToggle \in 0 .. 1
  BY DEF E!SavedToggle, E!TransferInvariant, E!TypeOK, E!OverlayFits
<1>5. e_io'.err \in E!Errors /\ DOMAIN e_io' = {"err", "actual"} /\ e_ep' \in [dt : 0 .. 1, stalled : BOOLEAN]
  BY <1>1, <1>3, <1>4
<1>6. e_live' = {}
  BY <1>1, <1>2
<1>7. E!TypeOK'
  BY <1>1, <1>5 DEF E!TransferInvariant, E!TypeOK
<1> QED BY <1>1, <1>5, <1>6, <1>7 DEF E!TransferInvariant, E!OverlayFits, E!DeviceFits, E!MemoryHeld, E!MemoryFreed

LEMMA EHCINext == ASSUME E!EHCITransferAssumption, E!TransferInvariant, [E!Next]_(E!vars) PROVE E!TransferInvariant'
<1>1. CASE E!Add_Request
  BY <1>1, EHCIAddStep
<1>2. CASE E!Destall
  BY <1>2, EHCIDestallStep
<1>3. CASE E!Load
  BY <1>3, EHCILoadStep
<1>4. CASE E!Transact
  BY <1>4, EHCITransactStep
<1>5. CASE E!Transfer_Check \/ E!Abort
  BY <1>5, EHCIUnlinkStep DEF E!Transfer_Check, E!Abort, E!Errors
<1>6. CASE E!Transfer_Remove
  BY <1>6, EHCIRemoveStep
<1>7. CASE UNCHANGED E!vars
  BY <1>7 DEF E!vars, E!TransferInvariant, E!TypeOK, E!OverlayFits, E!DeviceFits, E!MemoryHeld,
      E!MemoryFreed
<1> QED BY <1>1, <1>2, <1>3, <1>4, <1>5, <1>6, <1>7 DEF E!Next

-----------------------------------------------------------------------------
(* The transfers of OHCI (OHCITransfer). *)

\* The errors a request may end with.
OHCIErrors ==
    {"NoError", "Stall", "Timeout", "Overflow", "RuntPacket", "HostError", "NoMemory", "Aborted"}

\* The TDs that a chain is built of.
OHCIFresh == {t \in O!TDs : t.left = t.size}

LEMMA OHCITDFits ==
    ASSUME NEW r \in O!Requests, NEW pid \in {"setup", "in", "out"}, NEW len \in Nat, NEW d \in 0 .. 1
    PROVE  O!TD(r, pid, len, d) \in OHCIFresh
<1>1. (r.read /\ r.flag /\ pid = "in") \in BOOLEAN
  OBVIOUS
<1> QED BY <1>1 DEF O!TD, O!TDs, OHCIFresh

LEMMA BlankFits == O!Blank \in OHCIFresh /\ O!Blank.cc = "ok" /\ O!Blank.pid = "setup"
BY DEF O!Blank, O!TDs, OHCIFresh

LEMMA OHCIDataFits ==
    ASSUME O!OHCITransferAssumption, NEW r \in O!Requests, o_dt.ep \in 0 .. 1
    PROVE  O!DataTDs(r) \in Seq(OHCIFresh)
<1> DEFINE n == IF r.length = 0 THEN 1 ELSE (r.length + TDSize - 1) \div TDSize
           pid == IF r.read THEN "in" ELSE "out"
<1>0. TDSize \in Nat \ {0} /\ r.length \in Nat
  <2>1. TDSize \in Nat /\ MaxPacket \in Nat /\ MaxPacket < TDSize /\ Lengths \subseteq Nat
    BY DEF O!OHCITransferAssumption
  <2>2. TDSize # 0
    BY <2>1
  <2> QED BY <2>1, <2>2 DEF O!Requests
<1>1. /\ n \in Nat /\ n >= 1
      /\ \A i \in 1 .. n : (i - 1) * TDSize \in Nat /\ (i - 1) * TDSize <= r.length
  <2>1. CASE r.length = 0
    <3>1. 0 * TDSize = 0
      BY <1>0
    <3>2. n = 1
      BY <2>1
    <3>3. \A i \in 1 .. n : i = 1 /\ i - 1 = 0
      BY <3>2
    <3> QED BY <2>1, <3>1, <3>2, <3>3
  <2>2. CASE r.length # 0
    BY <1>0, <2>2, PiecesFit
  <2> QED BY <2>1, <2>2
<1> HIDE DEF n
<1>2. ASSUME NEW i \in 1 .. n
      PROVE  /\ O!Lower(TDSize, r.length - (i - 1) * TDSize) \in Nat
             /\ (o_dt.ep + i - 1) % 2 \in 0 .. 1
  <2>1. r.length - (i - 1) * TDSize \in Nat
    BY <1>0, <1>1
  <2>2. o_dt.ep + i - 1 \in Nat
    OBVIOUS
  <2>3. \A x \in Nat : x % 2 \in 0 .. 1
    OBVIOUS
  <2> QED BY <1>0, <2>1, <2>2, <2>3 DEF O!Lower
<1>3. pid \in {"setup", "in", "out"}
  OBVIOUS
<1>4. O!DataTDs(r) = [i \in 1 .. n |-> O!TD(r, pid, O!Lower(TDSize, r.length - (i - 1) * TDSize),
                                       (o_dt.ep + i - 1) % 2)]
  BY DEF O!DataTDs, n
<1>5. \A i \in 1 .. n : O!TD(r, pid, O!Lower(TDSize, r.length - (i - 1) * TDSize),
                          (o_dt.ep + i - 1) % 2) \in OHCIFresh
  BY <1>2, <1>3, OHCITDFits
<1> QED BY <1>1, <1>4, <1>5

LEMMA Joined ==
    ASSUME NEW S, NEW a \in S, NEW b \in S, NEW c \in S, NEW d \in S
    PROVE  /\ LET s == <<a>> \o <<>> \o <<c, d>>
              IN  s \in Seq(S) /\ Len(s) = 3 /\ s[1] = a /\ s[2] = c /\ s[3] = d
           /\ LET s == <<a>> \o <<b>> \o <<c, d>>
              IN  s \in Seq(S) /\ Len(s) = 4 /\ s[1] = a /\ s[2] = b /\ s[3] = c /\ s[4] = d
<1>1. ASSUME NEW x \in Seq(S), NEW y \in Seq(S) PROVE
        /\ x \o y \in Seq(S) /\ Len(x \o y) = Len(x) + Len(y)
        /\ \A i \in 1 .. Len(x) + Len(y) : (x \o y)[i] = IF i <= Len(x) THEN x[i] ELSE y[i - Len(x)]
  BY <1>1, ConcatProperties
<1> DEFINE one == <<a>>  none == <<>>  two == <<b>>  rest == <<c, d>>
<1>2. /\ one \in Seq(S) /\ Len(one) = 1 /\ one[1] = a /\ none \in Seq(S) /\ Len(none) = 0
      /\ two \in Seq(S) /\ Len(two) = 1 /\ two[1] = b
      /\ rest \in Seq(S) /\ Len(rest) = 2 /\ rest[1] = c /\ rest[2] = d
  OBVIOUS
<1> HIDE DEF one, none, two, rest
<1>3. one \o none \in Seq(S) /\ Len(one \o none) = 1 /\ (one \o none)[1] = a
  BY <1>1, <1>2
<1>4. one \o two \in Seq(S) /\ Len(one \o two) = 2 /\ (one \o two)[1] = a /\ (one \o two)[2] = b
  BY <1>1, <1>2
<1> DEFINE p == one \o none  q == one \o two
<1> HIDE DEF p, q
<1>5. LET s == p \o rest IN s \in Seq(S) /\ Len(s) = 3 /\ s[1] = a /\ s[2] = c /\ s[3] = d
  BY <1>1, <1>2, <1>3 DEF p
<1>6. LET s == q \o rest IN s \in Seq(S) /\ Len(s) = 4 /\ s[1] = a /\ s[2] = b /\ s[3] = c /\ s[4] = d
  <2>1. q \in Seq(S) /\ Len(q) = 2 /\ q[1] = a /\ q[2] = b
    BY <1>4 DEF q
  <2>2. q \o rest \in Seq(S) /\ Len(q \o rest) = Len(q) + Len(rest)
    BY <1>1, <1>2, <2>1
  <2>3. /\ (q \o rest)[1] = q[1] /\ (q \o rest)[2] = q[2]
        /\ (q \o rest)[3] = rest[1] /\ (q \o rest)[4] = rest[2]
    <3>1. \A i \in 1 .. Len(q) + Len(rest) :
             (q \o rest)[i] = IF i <= Len(q) THEN q[i] ELSE rest[i - Len(q)]
      BY <1>1, <1>2, <2>1
    <3>2. Len(q) = 2 /\ Len(rest) = 2 /\ 1 .. 2 + 2 = 1 .. 4
      BY <1>2, <2>1
    <3>3. \A i \in 1 .. 4 : (q \o rest)[i] = IF i <= 2 THEN q[i] ELSE rest[i - 2]
      BY <3>1, <3>2
    <3> DEFINE s == q \o rest
    <3>6. \A i \in 1 .. 4 : s[i] = IF i <= 2 THEN q[i] ELSE rest[i - 2]
      BY <3>3
    <3> HIDE DEF s
    <3>4. /\ s[1] = q[1] /\ s[2] = q[2] /\ s[3] = rest[3 - 2] /\ s[4] = rest[4 - 2]
      BY <3>6
    <3>5. 3 - 2 = 1 /\ 4 - 2 = 2
      OBVIOUS
    <3> QED BY <3>4, <3>5 DEF s
  <2> QED BY <1>2, <2>1, <2>2, <2>3
<1> QED BY <1>5, <1>6 DEF p, q, one, none, two, rest

\* A chain ends with the dummy; that of a control transfer is the setup, the data and the status.
LEMMA OHCIBuildFits ==
    ASSUME O!OHCITransferAssumption, NEW r \in O!Requests, o_dt.ep \in 0 .. 1
    PROVE  LET c == O!Build(r)
           IN  /\ c \in Seq(OHCIFresh) /\ Len(c) \in Nat /\ 1 <= Len(c) /\ c[Len(c)].cc = "ok"
               /\ r.type = "Control" =>
                     /\ Len(c) \in 3 .. 4 /\ c[1].pid = "setup" /\ c[1].left = MaxPacket
                     /\ c[Len(c) - 1].left = 0
                     /\ \A i \in 2 .. Len(c) - 1 : c[i].pid # "setup" /\ c[i].dt = 1
<1>0. /\ r.length \in Nat /\ r.type \in {"Control", "Bulk", "Interrupt"} /\ MaxPacket \in Nat
  BY DEF O!OHCITransferAssumption, O!Requests
<1>1. O!Bulk_Build(r) \in Seq(OHCIFresh) /\ Len(O!Bulk_Build(r)) \in Nat /\ 1 <= Len(O!Bulk_Build(r))
      /\ O!Bulk_Build(r)[Len(O!Bulk_Build(r))] = O!Blank
  <2> DEFINE data == O!DataTDs(r)
             all  == data \o O!ZeroTD(r)
             c    == all \o <<O!Blank>>
  <2>1. data \in Seq(OHCIFresh) /\ O!ZeroTD(r) \in Seq(OHCIFresh)
    BY OHCIDataFits, BlankFits DEF O!ZeroTD
  <2> HIDE DEF data
  <2>2. all \in Seq(OHCIFresh) /\ Len(all) \in Nat
    BY <2>1, ConcatProperties
  <2> HIDE DEF all
  <2>3. <<O!Blank>> \in Seq(OHCIFresh) /\ Len(<<O!Blank>>) = 1 /\ <<O!Blank>>[1] = O!Blank
    BY BlankFits
  <2>4. c \in Seq(OHCIFresh) /\ Len(c) = Len(all) + 1 /\ c[Len(all) + 1] = O!Blank
    BY <2>2, <2>3, ConcatProperties
  <2>5. O!Bulk_Build(r) = c
    BY DEF O!Bulk_Build, all, data
  <2> HIDE DEF c
  <2> QED BY <2>2, <2>4, <2>5
<1>2. LET c == O!Control_Build(r)
      IN  /\ c \in Seq(OHCIFresh) /\ Len(c) \in 3 .. 4 /\ c[Len(c)] = O!Blank
          /\ c[1].pid = "setup" /\ c[1].left = MaxPacket /\ c[Len(c) - 1].left = 0
          /\ \A i \in 2 .. Len(c) - 1 : c[i].pid # "setup" /\ c[i].dt = 1
  <2> DEFINE setup == O!TD(r, "setup", MaxPacket, 0)
             data  == O!TD(r, IF r.read THEN "in" ELSE "out", r.length, 1)
             last  == O!StatusTD(r)
             c     == O!Control_Build(r)
  <2>1. setup \in OHCIFresh /\ setup.pid = "setup" /\ setup.left = MaxPacket
    <3>1. setup \in OHCIFresh
      BY <1>0, OHCITDFits
    <3> QED BY <3>1 DEF O!TD
  <2>2. data \in OHCIFresh /\ data.pid # "setup" /\ data.dt = 1
    <3>1. (IF r.read THEN "in" ELSE "out") \in {"setup", "in", "out"} /\ 1 \in 0 .. 1
      OBVIOUS
    <3>2. data \in OHCIFresh
      BY <1>0, <3>1, OHCITDFits
    <3> QED BY <3>2 DEF O!TD
  <2>3. last \in OHCIFresh /\ last.pid # "setup" /\ last.dt = 1 /\ last.left = 0
    <3> DEFINE t == O!TD(r, IF r.read THEN "out" ELSE "in", 0, 1)
    <3>1. (IF r.read THEN "out" ELSE "in") \in {"setup", "in", "out"} /\ 1 \in 0 .. 1
      OBVIOUS
    <3>2. t \in OHCIFresh
      BY <3>1, OHCITDFits
    <3>3. t.pid # "setup" /\ t.dt = 1 /\ t.left = 0
      BY DEF O!TD
    <3>4. last = [t EXCEPT !.buf = FALSE, !.round = FALSE]
      BY DEF O!StatusTD
    <3> HIDE DEF t, last
    <3> QED BY <3>2, <3>3, <3>4 DEF OHCIFresh, O!TDs
  <2>4. CASE r.length = 0
    <3>1. c = <<setup>> \o <<>> \o <<last, O!Blank>>
      BY <2>4 DEF O!Control_Build
    <3> HIDE DEF setup, last, c
    <3>2. c \in Seq(OHCIFresh) /\ Len(c) = 3 /\ c[1] = setup /\ c[2] = last /\ c[3] = O!Blank
      BY <2>1, <2>3, <3>1, BlankFits, Joined
    <3>3. \A i \in 2 .. Len(c) - 1 : i = 2
      BY <3>2
    <3> QED BY <2>1, <2>3, <3>2, <3>3 DEF c
  <2>5. CASE r.length # 0
    <3>1. c = <<setup>> \o <<data>> \o <<last, O!Blank>>
      BY <2>5 DEF O!Control_Build
    <3> HIDE DEF setup, data, last, c
    <3>2. c \in Seq(OHCIFresh) /\ Len(c) = 4 /\ c[1] = setup /\ c[2] = data /\ c[3] = last /\ c[4] = O!Blank
      BY <2>1, <2>2, <2>3, <3>1, BlankFits, Joined
    <3>3. \A i \in 2 .. Len(c) - 1 : i = 2 \/ i = 3
      BY <3>2
    <3> QED BY <2>1, <2>2, <2>3, <3>2, <3>3 DEF c
  <2> QED BY <2>4, <2>5
<1>3. CASE r.type = "Control"
  <2>1. O!Build(r) = O!Control_Build(r)
    BY <1>3 DEF O!Build
  <2> QED BY <1>2, <2>1, BlankFits
<1>4. CASE r.type # "Control"
  <2>1. O!Build(r) = O!Bulk_Build(r)
    BY <1>0, <1>4 DEF O!Build, O!Interrupt_Build
  <2> QED BY <1>1, <1>4, <2>1, BlankFits
<1> QED BY <1>3, <1>4

\* The answer has an error of those, whatever the chain.
LEMMA OHCIAnswerFits ==
    ASSUME o_req.type \in {"Control", "Bulk", "Interrupt"}
    PROVE  O!Length.err \in OHCIErrors /\ DOMAIN O!Length = {"err", "actual"}
<1>1. \A cc : O!ErrorOf(cc) \in OHCIErrors
  BY DEF O!ErrorOf, OHCIErrors
<1>2. \A a : O!LengthFrom(a).err \in OHCIErrors /\ DOMAIN O!LengthFrom(a) = {"err", "actual"}
  BY <1>1 DEF O!LengthFrom, OHCIErrors
<1>3. O!AfterFirst.err \in OHCIErrors /\ DOMAIN O!AfterFirst = {"err", "actual"}
  BY <1>1, <1>2 DEF O!AfterFirst, OHCIErrors
<1> QED BY <1>2, <1>3 DEF O!Length, O!Control_Length, O!Bulk_Length, O!Interrupt_Length

(* The steps. *)

LEMMA OHCIInit == ASSUME O!OHCITransferAssumption, O!Init PROVE O!TransferInvariant
<1>1. O!TypeOK
  <2>1. Len(o_chain) = 0 /\ DOMAIN o_chain = {} /\ o_head \in 0 .. Len(o_chain)
    BY DEF O!Init
  <2>2. o_dt \in [ep : 0 .. 1, dev : 0 .. 1, carry : 0 .. 1] /\ o_io.err = "NoError"
    BY DEF O!Init
  <2> QED BY <2>1, <2>2 DEF O!Init, O!TypeOK
<1>2. O!DeviceFits /\ O!MemoryFreed
  BY DEF O!Init, O!DeviceFits, O!MemoryFreed
<1> QED BY <1>1, <1>2 DEF O!Init, O!TransferInvariant

\* A chain is made of the same when its TDs are in the same places and have the same buffers.
LEMMA SamePieces ==
    ASSUME NEW c, NEW d, DOMAIN c = DOMAIN d, \A i \in DOMAIN d : c[i].buf = d[i].buf
    PROVE  O!Pieces(c) = O!Pieces(d)
BY DEF O!Pieces

LEMMA OHCIAddStep == ASSUME O!OHCITransferAssumption, O!TransferInvariant, O!Add_Request PROVE O!TransferInvariant'
<1>0. PICK r \in O!Requests :
        /\ o_req' = r
        /\ \/ \E offer \in (IF r.read THEN 0 .. r.length + 1 ELSE {0}) : O!Start(r, O!Build(r), offer)
           \/ \E n \in 0 .. Len(O!Build(r)), buffer \in BOOLEAN : O!Refuse(O!Build(r), n, buffer)
  BY DEF O!Add_Request
<1>1. o_phase = "idle" /\ O!TypeOK /\ o_chain \in Seq(O!TDs) /\ O!DeviceFits /\ o_live = {}
  BY DEF O!Add_Request, O!TransferInvariant, O!MemoryFreed
<1>2. o_req'.type \in {"Control", "Bulk", "Interrupt"} /\ r.length \in Nat
  BY <1>0 DEF O!Requests, O!OHCITransferAssumption
<1>3. CASE \E offer \in (IF r.read THEN 0 .. r.length + 1 ELSE {0}) : O!Start(r, O!Build(r), offer)
  <2>1. PICK offer \in (IF r.read THEN 0 .. r.length + 1 ELSE {0}) : O!Start(r, O!Build(r), offer)
    BY <1>3
  <2>2. offer \in Nat
    BY <1>2
  <2> DEFINE c == O!Build(r)
  <2>3. o_dt.ep \in 0 .. 1 /\ o_dt.dev \in 0 .. 1 /\ DOMAIN o_dt = {"ep", "dev", "carry"}
    BY <1>1 DEF O!TypeOK
  <2>4. /\ c \in Seq(OHCIFresh) /\ Len(c) \in Nat /\ 1 <= Len(c) /\ c[Len(c)].cc = "ok"
        /\ r.type = "Control" =>
              /\ Len(c) \in 3 .. 4 /\ c[1].pid = "setup" /\ c[1].left = MaxPacket
              /\ c[Len(c) - 1].left = 0
              /\ \A i \in 2 .. Len(c) - 1 : c[i].pid # "setup" /\ c[i].dt = 1
    BY <2>3, OHCIBuildFits
  <2>5. /\ o_chain' = c /\ o_head' = 1 /\ o_halted' = FALSE /\ o_phase' = "linked" /\ o_live' = O!Pieces(c)
        /\ o_io' = [err |-> "NoError", actual |-> 0] /\ o_dt' = [o_dt EXCEPT !.carry = 0]
        /\ o_dev' = [sent |-> 0, got |-> 0, offer |-> offer, skewed |-> r.type # "Control" /\ o_dt.dev # o_dt.ep]
    BY <1>1, <2>1 DEF O!Start
  <2> HIDE DEF c
  <2>6. c \in Seq(O!TDs) /\ \A i \in DOMAIN c : c[i].left \in 0 .. c[i].size
    <3>1. \A i \in DOMAIN c : c[i] \in OHCIFresh
      BY <2>4
    <3>2. c \in Seq(O!TDs)
      BY <2>4 DEF OHCIFresh
    <3> QED BY <3>1, <3>2 DEF OHCIFresh, O!TDs
  <2>7. o_dt' \in [ep : 0 .. 1, dev : 0 .. 1, carry : 0 .. 1]
    BY <1>1, <2>5 DEF O!TypeOK
  <2>8. O!TypeOK'
    <3>1. 1 \in 0 .. Len(c) /\ o_io'.err = "NoError"
      BY <2>4, <2>5
    <3> QED BY <2>5, <2>6, <2>7, <3>1 DEF O!TypeOK
  <2>9. O!DeviceFits' /\ O!MemoryFreed'
    BY <2>2, <2>5 DEF O!DeviceFits, O!MemoryFreed
  <2>10. O!HeadFits'
    BY <2>4, <2>5 DEF O!HeadFits
  <2>11. o_req'.type = "Control" => Len(o_chain') \in 3 .. 4 /\ O!ControlFits'
    BY <1>0, <2>4, <2>5 DEF O!ControlFits
  <2> QED BY <1>2, <2>5, <2>6, <2>8, <2>9, <2>10, <2>11 DEF O!TransferInvariant
<1>4. CASE \E n \in 0 .. Len(O!Build(r)), buffer \in BOOLEAN : O!Refuse(O!Build(r), n, buffer)
  <2>1. UNCHANGED <<o_phase, o_chain, o_head, o_halted, o_dt, o_dev>> /\ o_io' = [err |-> "NoMemory", actual |-> 0] /\ o_live' = {}
    BY <1>1, <1>4 DEF O!Refuse, O!Transfer_Free
  <2> QED BY <1>1, <1>2, <2>1 DEF O!TransferInvariant, O!TypeOK, O!DeviceFits, O!MemoryFreed
<1> QED BY <1>0, <1>3, <1>4

\* The TD at the head, while there is one to execute.
LEMMA OHCINowFits ==
    ASSUME O!TransferInvariant, O!Runs
    PROVE  /\ O!Now \in O!TDs /\ O!Now.left \in Nat /\ O!Now.left <= O!Now.size /\ o_head \in Nat /\ 1 <= o_head
           /\ o_head \in 1 .. Len(o_chain) - 1 /\ Len(o_chain) \in Nat /\ O!HeadFits /\ ~o_halted /\ o_phase # "idle"
           /\ o_dt.dev \in 0 .. 1 /\ o_dt.carry \in 0 .. 1 /\ DOMAIN o_dt = {"ep", "dev", "carry"}
           /\ o_req.type = "Control" => Len(o_chain) \in 3 .. 4 /\ O!ControlFits
<1>1. O!HeadFits /\ Len(o_chain) \in Nat /\ o_phase # "idle" /\ ~o_halted /\ o_head < Len(o_chain)
      /\ (o_req.type = "Control" => Len(o_chain) \in 3 .. 4 /\ O!ControlFits)
  BY DEF O!TransferInvariant, O!Runs
<1>2. o_head \in 1 .. Len(o_chain)
  BY <1>1 DEF O!HeadFits
<1>3. O!Now \in O!TDs /\ O!Now.left \in 0 .. O!Now.size
  BY <1>2 DEF O!Now, O!TransferInvariant, O!TypeOK
<1>4. o_dt.dev \in 0 .. 1 /\ o_dt.carry \in 0 .. 1 /\ DOMAIN o_dt = {"ep", "dev", "carry"}
  BY DEF O!TransferInvariant, O!TypeOK
<1> QED BY <1>1, <1>2, <1>3, <1>4 DEF O!TDs

\* A packet of a control transfer leaves the TD with the toggle that the device has then, retires
\* it and the next has 1, or fails.
OHCIToggles(n, cc, t, d) ==
    o_req.type = "Control" =>
        \/ cc \notin {"ok", "none"} /\ (o_head = 1 => n = 0)
        \/ cc = "ok" /\ (o_head = 1 => d = 1) /\ (o_head + 1 < Len(o_chain) - 1 => o_head = 1)
        \/ cc = "none" /\ t = d /\ 1 < o_head /\ o_head # Len(o_chain) - 1

LEMMA OHCIWriteBack ==
    ASSUME O!TransferInvariant, O!Runs, UNCHANGED <<o_phase, o_req, o_live, o_io>>,
           NEW n \in Nat, n <= O!Now.left, NEW t \in 0 .. 1, NEW d \in 0 .. 1,
           NEW cc \in {"none", "ok", "stall", "noanswer", "overrun", "underrun", "toggle"},
           O!Step(n, cc, t, d), OHCIToggles(n, cc, t, d), O!DeviceFits'
    PROVE  O!TransferInvariant'
<1>1. /\ O!Now \in O!TDs /\ O!Now.left \in Nat /\ O!Now.left <= O!Now.size /\ o_head \in 1 .. Len(o_chain) - 1
      /\ Len(o_chain) \in Nat /\ O!HeadFits /\ ~o_halted /\ o_phase # "idle"
      /\ DOMAIN o_dt = {"ep", "dev", "carry"} /\ o_chain \in Seq(O!TDs)
      /\ o_req.type = "Control" => Len(o_chain) \in 3 .. 4 /\ O!ControlFits
  BY OHCINowFits DEF O!TransferInvariant
<1> DEFINE td == [O!Now EXCEPT !.left = @ - n, !.cc = cc, !.dt = t]
<1>2. /\ td \in O!TDs /\ td.left \in 0 .. td.size /\ td.buf = O!Now.buf /\ td.cc = cc /\ td.dt = t
      /\ td.pid = O!Now.pid /\ td.left = O!Now.left - n
  <2> DEFINE left == O!Now.left  size == O!Now.size
  <2>1. left \in Nat /\ left <= size /\ size \in Nat /\ n <= left
    BY <1>1 DEF O!TDs
  <2> HIDE DEF left, size
  <2>2. left - n \in 0 .. size /\ left - n \in Nat
    BY <2>1
  <2>3. td.left = left - n /\ td.size = size /\ td.buf = O!Now.buf /\ td.cc = cc /\ td.dt = t /\ td.pid = O!Now.pid
    BY <1>1 DEF O!TDs, left, size
  <2>4. td \in O!TDs
    BY <1>1, <2>2 DEF O!TDs, left
  <2> HIDE DEF td
  <2> QED BY <2>2, <2>3, <2>4 DEF left
<1>3. o_chain' = [o_chain EXCEPT ![o_head] = td]
  BY <1>1 DEF O!Step, O!Now
<1> HIDE DEF td
<1>4. /\ o_chain' \in Seq(O!TDs) /\ Len(o_chain') = Len(o_chain) /\ o_chain'[o_head] = td
      /\ DOMAIN o_chain' = 1 .. Len(o_chain) /\ DOMAIN o_chain = 1 .. Len(o_chain)
      /\ \A i \in 1 .. Len(o_chain) : i # o_head => o_chain'[i] = o_chain[i]
  BY <1>1, <1>2, <1>3
<1>5. /\ o_head' = (IF cc = "ok" THEN o_head + 1 ELSE o_head) /\ o_halted' = (cc \notin {"ok", "none"})
      /\ o_dt' = [o_dt EXCEPT !.dev = d, !.carry = IF cc = "none" THEN @ ELSE t]
  BY DEF O!Step
<1>6. o_head' \in 1 .. Len(o_chain)
  BY <1>1, <1>5
<1>7. o_dt' \in [ep : 0 .. 1, dev : 0 .. 1, carry : 0 .. 1] /\ o_dt'.dev = d
  BY <1>5 DEF O!TransferInvariant, O!TypeOK
<1>8. \A i \in DOMAIN o_chain' : o_chain'[i].left \in 0 .. o_chain'[i].size
  BY <1>2, <1>4 DEF O!TransferInvariant, O!TypeOK
<1>9. O!TypeOK'
  BY <1>4, <1>5, <1>6, <1>7, <1>8 DEF O!TransferInvariant, O!TypeOK
<1>10. O!HeadFits'
  <2>1. O!Pieces(o_chain') = O!Pieces(o_chain)
    <3>1. \A i \in DOMAIN o_chain : o_chain'[i].buf = o_chain[i].buf
      BY <1>2, <1>4 DEF O!Now
    <3> QED BY <1>4, <3>1, SamePieces
  <2>2. o_chain'[Len(o_chain')].cc = "ok"
    BY <1>1, <1>4 DEF O!HeadFits
  <2>3. ASSUME NEW i \in 1 .. o_head' - 1 PROVE o_chain'[i].cc = "ok"
    <3>1. i \in 1 .. o_head - 1 \/ (i = o_head /\ cc = "ok")
      BY <1>1, <1>5
    <3>2. i \in 1 .. Len(o_chain) /\ (i \in 1 .. o_head - 1 => i # o_head)
      BY <1>1, <3>1
    <3> QED BY <1>1, <1>2, <1>4, <3>1, <3>2 DEF O!HeadFits
  <2>4. o_halted' => o_head' < Len(o_chain') /\ o_chain'[o_head'].cc \notin {"ok", "none"}
    <3> SUFFICES ASSUME o_halted' PROVE o_head' < Len(o_chain') /\ o_chain'[o_head'].cc \notin {"ok", "none"}
      OBVIOUS
    <3>1. cc \notin {"ok", "none"} /\ o_head' = o_head
      BY <1>5
    <3> QED BY <1>1, <1>2, <1>4, <3>1
  <2> QED BY <1>1, <1>4, <1>6, <2>1, <2>2, <2>3, <2>4 DEF O!HeadFits
<1>11. ASSUME o_req.type = "Control" PROVE Len(o_chain') \in 3 .. 4 /\ O!ControlFits'
  <2>1. Len(o_chain) \in 3 .. 4 /\ O!ControlFits
    BY <1>1, <1>11
  <2>2. \A i \in 1 .. Len(o_chain) : o_chain'[i].pid = o_chain[i].pid
    BY <1>2, <1>4 DEF O!Now
  <2>3. o_chain'[1].pid = "setup"
    BY <2>1, <2>2 DEF O!ControlFits
  <2>4. o_head' = 1 => o_chain'[1].left = MaxPacket
    <3> SUFFICES ASSUME o_head' = 1 PROVE o_chain'[1].left = MaxPacket
      OBVIOUS
    <3>1. o_head = 1 /\ cc # "ok"
      BY <1>1, <1>5
    <3>2. n = 0
      BY <1>11, <3>1, <2>1 DEF OHCIToggles
    <3> QED BY <1>1, <1>2, <1>4, <2>1, <3>1, <3>2 DEF O!ControlFits, O!Now
  <2>7. o_chain'[Len(o_chain') - 1].left = 0
    <3>1. o_chain[Len(o_chain) - 1].left = 0 /\ Len(o_chain) - 1 \in 1 .. Len(o_chain)
      BY <1>1, <2>1 DEF O!ControlFits
    <3>2. CASE o_head = Len(o_chain) - 1
      <4>1. O!Now.left = 0 /\ n = 0
        BY <3>1, <3>2 DEF O!Now
      <4>2. td.left = 0
        BY <1>2, <4>1
      <4> QED BY <1>4, <3>2, <4>2
    <3>3. CASE o_head # Len(o_chain) - 1
      BY <1>4, <3>1, <3>3
    <3> QED BY <3>2, <3>3
  <2>5. ASSUME NEW i \in 2 .. Len(o_chain') - 1
        PROVE  o_chain'[i].pid # "setup" /\ (i > o_head' => o_chain'[i].dt = 1)
    <3>1. i \in 1 .. Len(o_chain) /\ i \in 2 .. Len(o_chain) - 1
      BY <1>1, <1>4
    <3>2. i > o_head' => i > o_head /\ i # o_head
      BY <1>1, <1>5
    <3> QED BY <1>4, <2>1, <2>2, <3>1, <3>2 DEF O!ControlFits
  <2>6. ~o_halted' /\ 1 < o_head' /\ o_head' < Len(o_chain') =>
           o_chain'[o_head'].dt = IF o_head' = Len(o_chain') - 1 THEN 1 ELSE o_dt'.dev
    <3> SUFFICES ASSUME ~o_halted', 1 < o_head', o_head' < Len(o_chain)
                 PROVE  o_chain'[o_head'].dt = IF o_head' = Len(o_chain) - 1 THEN 1 ELSE o_dt'.dev
      BY <1>4
    <3>1. CASE cc = "ok"
      <4>1. o_head' = o_head + 1 /\ o_head + 1 \in 2 .. Len(o_chain) - 1 /\ o_head + 1 \in 1 .. Len(o_chain) /\ o_head + 1 # o_head
        BY <1>1, <1>5, <3>1
      <4>2. o_chain'[o_head + 1] = o_chain[o_head + 1] /\ o_chain[o_head + 1].dt = 1
        <5>1. o_head + 1 > o_head
          BY <1>1
        <5> QED BY <1>4, <2>1, <4>1, <5>1 DEF O!ControlFits
      <4>3. o_head + 1 # Len(o_chain) - 1 => d = 1
        BY <1>1, <1>11, <3>1, <4>1 DEF OHCIToggles
      <4> QED BY <1>7, <4>1, <4>2, <4>3
    <3>2. CASE cc = "none"
      <4>1. o_head' = o_head /\ t = d /\ o_head # Len(o_chain) - 1
        BY <1>5, <1>11, <3>2 DEF OHCIToggles
      <4> QED BY <1>2, <1>4, <1>7, <4>1
    <3> QED BY <1>5, <3>1, <3>2
  <2> QED BY <1>4, <2>1, <2>3, <2>4, <2>5, <2>6, <2>7 DEF O!ControlFits
<1> QED BY <1>1, <1>4, <1>9, <1>10, <1>11 DEF O!TransferInvariant, O!MemoryFreed

\* A TD of a control transfer goes with the toggle that the device expects.
LEMMA OHCIControlNow ==
    ASSUME O!TransferInvariant, O!Runs, o_req.type = "Control"
    PROVE  /\ o_head = 1 => O!Now.pid = "setup" /\ O!Now.left = MaxPacket
           /\ o_head # 1 => /\ O!Now.pid # "setup" /\ O!Now.dt = O!Expected /\ o_head + 1 >= Len(o_chain) - 1
                            /\ o_head # Len(o_chain) - 1 => O!Expected = o_dt.dev
                            /\ o_head = Len(o_chain) - 1 => O!Now.left = 0
<1>1. /\ o_head \in 1 .. Len(o_chain) - 1 /\ Len(o_chain) \in 3 .. 4 /\ O!ControlFits /\ ~o_halted
  BY OHCINowFits
<1>2. o_head = 1 => O!Now.pid = "setup" /\ O!Now.left = MaxPacket
  BY <1>1 DEF O!ControlFits, O!Now
<1>3. ASSUME o_head # 1
      PROVE  /\ O!Now.pid # "setup" /\ O!Now.dt = O!Expected /\ o_head + 1 >= Len(o_chain) - 1
             /\ o_head # Len(o_chain) - 1 => O!Expected = o_dt.dev
             /\ o_head = Len(o_chain) - 1 => O!Now.left = 0
  <2>1. o_head \in 2 .. Len(o_chain) - 1 /\ o_head + 1 >= Len(o_chain) - 1 /\ 1 < o_head /\ o_head < Len(o_chain)
    <3>1. o_head \in Nat /\ o_head >= 2 /\ o_head <= Len(o_chain) - 1 /\ Len(o_chain) \in {3, 4}
      BY <1>1, <1>3
    <3>2. CASE Len(o_chain) = 3
      BY <3>1, <3>2
    <3>3. CASE Len(o_chain) = 4
      BY <3>1, <3>3
    <3> QED BY <3>1, <3>2, <3>3
  <2>2. O!Now.pid # "setup" /\ (o_head = Len(o_chain) - 1 => O!Now.left = 0)
    BY <1>1, <2>1 DEF O!ControlFits, O!Now
  <2>3. O!Now.dt = IF o_head = Len(o_chain) - 1 THEN 1 ELSE o_dt.dev
    BY <1>1, <2>1 DEF O!ControlFits, O!Now
  <2> QED BY <2>1, <2>2, <2>3 DEF O!Expected, O!Status
<1> QED BY <1>2, <1>3

LEMMA OHCIOutStep ==
    ASSUME O!OHCITransferAssumption, O!TransferInvariant, O!Runs, O!Out, UNCHANGED <<o_phase, o_req,
                                                                                     o_live, o_io>>
    PROVE  O!TransferInvariant'
<1> DEFINE n == O!Lower(MaxPacket, O!Now.left)
           setup == O!Now.pid = "setup"
           new == setup \/ O!Expected = O!Now.dt
           cc == IF O!Now.left = n THEN "ok" ELSE "none"
           t == O!Flip(O!Now.dt)
           d == IF setup THEN 1 ELSE IF new THEN O!Flip(o_dt.dev) ELSE o_dt.dev
<1>0. /\ O!Now \in O!TDs /\ O!Now.left \in Nat /\ o_head \in 1 .. Len(o_chain) - 1 /\ Len(o_chain) \in Nat
      /\ o_dt.dev \in 0 .. 1 /\ MaxPacket \in Nat \ {0}
  BY OHCINowFits DEF O!OHCITransferAssumption
<1>1. n \in Nat /\ n <= O!Now.left /\ (O!Now.left <= MaxPacket => n = O!Now.left)
  BY <1>0 DEF O!Lower
<1>2. t \in 0 .. 1 /\ O!Flip(o_dt.dev) \in 0 .. 1
  BY <1>0 DEF O!Flip, O!TDs
<1>3. d \in 0 .. 1 /\ cc \in {"none", "ok", "stall", "noanswer", "overrun", "underrun", "toggle"}
  BY <1>0, <1>2
<1>4. O!Step(n, cc, t, d)
  BY DEF O!Out
<1>5. O!DeviceFits'
  <2>1. O!DeviceFits
    BY DEF O!TransferInvariant
  <2>2. o_dev' = [o_dev EXCEPT !.got = IF new /\ ~setup THEN @ + n ELSE @]
    BY DEF O!Out
  <2>3. o_dev.got + n \in Nat
    BY <1>1, <2>1 DEF O!DeviceFits
  <2> HIDE DEF n, new, setup
  <2> QED BY <2>1, <2>2, <2>3 DEF O!DeviceFits
<1>6. OHCIToggles(n, cc, t, d)
  <2> SUFFICES ASSUME o_req.type = "Control"
      PROVE  \/ cc = "ok" /\ (o_head = 1 => d = 1) /\ (o_head + 1 < Len(o_chain) - 1 => o_head = 1)
             \/ cc = "none" /\ t = d /\ 1 < o_head /\ o_head # Len(o_chain) - 1
    BY DEF OHCIToggles
  <2>1. CASE o_head = 1
    <3>1. setup /\ O!Now.left = MaxPacket
      BY <2>1, OHCIControlNow
    <3>2. n = O!Now.left
      BY <1>0, <1>1, <3>1
    <3>3. cc = "ok" /\ d = 1
      BY <3>1, <3>2
    <3> QED BY <2>1, <3>3
  <2>2. CASE o_head # 1
    <3>1. /\ ~setup /\ O!Now.dt = O!Expected /\ ~ (o_head + 1 < Len(o_chain) - 1) /\ 1 < o_head
          /\ o_head # Len(o_chain) - 1 => O!Expected = o_dt.dev
          /\ o_head = Len(o_chain) - 1 => O!Now.left = 0
      BY <1>0, <2>2, OHCIControlNow
    <3>2. d = O!Flip(o_dt.dev)
      BY <3>1
    <3>3. CASE O!Now.left = n
      BY <2>2, <3>1, <3>3
    <3>4. CASE O!Now.left # n
      <4>1. o_head # Len(o_chain) - 1
        BY <1>0, <1>1, <3>1, <3>4
      <4>2. t = d
        BY <3>1, <3>2, <4>1
      <4> QED BY <3>1, <3>4, <4>1, <4>2
    <3> QED BY <3>3, <3>4
  <2> QED BY <2>1, <2>2
<1> HIDE DEF n, cc, t, d, setup, new
<1> QED BY <1>1, <1>2, <1>3, <1>4, <1>5, <1>6, OHCIWriteBack

LEMMA OHCIInStep ==
    ASSUME O!OHCITransferAssumption, O!TransferInvariant, O!Runs, O!In, UNCHANGED <<o_phase, o_req, o_live,
                                                                                    o_io>>
    PROVE  O!TransferInvariant'
<1> DEFINE n == IF O!Status THEN 0 ELSE O!Lower(MaxPacket, o_dev.offer - o_dev.sent)
           cc == CASE n = O!Now.left -> "ok" [] n # O!Now.left /\ n = MaxPacket -> "none"
                   [] OTHER -> IF O!Now.round THEN "ok" ELSE "underrun"
<1>0. /\ O!Now \in O!TDs /\ O!Now.left \in Nat /\ o_head \in 1 .. Len(o_chain) - 1 /\ Len(o_chain) \in Nat
      /\ o_dt.dev \in 0 .. 1 /\ MaxPacket \in Nat \ {0} /\ O!DeviceFits /\ O!Now.pid = "in"
  BY OHCINowFits DEF O!OHCITransferAssumption, O!TransferInvariant, O!In
<1>1. n \in Nat /\ n <= o_dev.offer - o_dev.sent
  BY <1>0 DEF O!Lower, O!DeviceFits
<1>2. O!Now.dt \in 0 .. 1 /\ O!Flip(O!Now.dt) \in 0 .. 1 /\ O!Flip(o_dt.dev) \in 0 .. 1
  BY <1>0 DEF O!Flip, O!TDs
<1>3. o_req.type = "Control" =>
        /\ O!Now.dt = O!Expected /\ o_head # 1 /\ 1 < o_head /\ ~ (o_head + 1 < Len(o_chain) - 1)
        /\ o_head # Len(o_chain) - 1 => O!Expected = o_dt.dev
        /\ o_head = Len(o_chain) - 1 => O!Now.left = 0
  <2>1. o_req.type = "Control" => o_head # 1
    BY <1>0, OHCIControlNow
  <2> QED BY <1>0, <2>1, OHCIControlNow
<1>4. CASE O!Expected = O!Now.dt /\ n > O!Now.left /\ O!Step(0, "overrun", O!Now.dt, o_dt.dev) /\ UNCHANGED o_dev
  <2>1. O!DeviceFits' /\ OHCIToggles(0, "overrun", O!Now.dt, o_dt.dev) /\ 0 \in Nat /\ 0 <= O!Now.left
    BY <1>0, <1>4 DEF O!DeviceFits, OHCIToggles
  <2> QED BY <1>0, <1>2, <1>4, <2>1, OHCIWriteBack
<1>5. ASSUME o_dev' = [o_dev EXCEPT !.sent = @ + n] PROVE O!DeviceFits'
  <2>1. o_dev.sent + n \in Nat /\ o_dev.sent + n <= o_dev.offer
    BY <1>0, <1>1 DEF O!DeviceFits
  <2> HIDE DEF n
  <2> QED BY <1>0, <1>5, <2>1 DEF O!DeviceFits
<1>6. CASE /\ O!Expected # O!Now.dt /\ \E code \in {"none", "toggle"} : O!Step(0, code, O!Now.dt, O!Flip(o_dt.dev))
           /\ o_dev' = [o_dev EXCEPT !.sent = @ + n]
  <2>1. PICK code \in {"none", "toggle"} : O!Step(0, code, O!Now.dt, O!Flip(o_dt.dev))
    BY <1>6
  <2>2. O!DeviceFits' /\ OHCIToggles(0, code, O!Now.dt, O!Flip(o_dt.dev)) /\ 0 \in Nat /\ 0 <= O!Now.left
    BY <1>0, <1>3, <1>5, <1>6 DEF OHCIToggles
  <2> QED BY <1>2, <2>1, <2>2, OHCIWriteBack
<1>7. CASE /\ O!Expected = O!Now.dt /\ n <= O!Now.left /\ O!Step(n, cc, O!Flip(O!Now.dt), O!Flip(o_dt.dev))
           /\ o_dev' = [o_dev EXCEPT !.sent = @ + n]
  <2>1. O!DeviceFits'
    BY <1>5, <1>7
  <2>2. cc \in {"none", "ok", "underrun"} /\ (cc = "none" => n # O!Now.left)
    <3>1. CASE n = O!Now.left
      BY <3>1
    <3>2. CASE n # O!Now.left /\ n = MaxPacket
      BY <3>2
    <3>3. CASE n # O!Now.left /\ n # MaxPacket
      BY <3>3
    <3> QED BY <3>1, <3>2, <3>3
  <2>4. OHCIToggles(n, cc, O!Flip(O!Now.dt), O!Flip(o_dt.dev))
    <3> SUFFICES ASSUME o_req.type = "Control"
        PROVE  \/ cc = "underrun" /\ o_head # 1
               \/ cc = "ok" /\ o_head # 1 /\ ~ (o_head + 1 < Len(o_chain) - 1)
               \/ cc = "none" /\ O!Flip(O!Now.dt) = O!Flip(o_dt.dev) /\ 1 < o_head /\ o_head # Len(o_chain) - 1
      BY DEF OHCIToggles
    <3>1. ASSUME cc = "none" PROVE o_head # Len(o_chain) - 1
      <4>1. n # O!Now.left /\ n <= O!Now.left /\ n \in Nat
        BY <1>1, <1>7, <2>2, <3>1
      <4> HIDE DEF n, cc
      <4> QED BY <1>0, <1>3, <4>1
    <3>2. cc = "none" => O!Flip(O!Now.dt) = O!Flip(o_dt.dev)
      BY <1>3, <3>1
    <3> HIDE DEF cc
    <3> QED BY <1>3, <2>2, <3>1, <3>2
  <2> HIDE DEF n, cc
  <2> QED BY <1>1, <1>2, <1>7, <2>1, <2>2, <2>4, OHCIWriteBack
<1> QED BY <1>4, <1>6, <1>7 DEF O!In

LEMMA OHCITransactStep ==
    ASSUME O!OHCITransferAssumption, O!TransferInvariant, O!Transact
    PROVE  O!TransferInvariant'
<1>0. O!Runs /\ UNCHANGED <<o_phase, o_req, o_live, o_io>>
  BY DEF O!Transact
<1>1. CASE O!Out
  BY <1>0, <1>1, OHCIOutStep
<1>2. CASE O!In
  BY <1>0, <1>2, OHCIInStep
<1>3. CASE \E cc \in {"stall", "noanswer"} : O!Step(0, cc, O!Now.dt, o_dt.dev) /\ UNCHANGED o_dev
  <2>1. PICK cc \in {"stall", "noanswer"} : O!Step(0, cc, O!Now.dt, o_dt.dev) /\ UNCHANGED o_dev
    BY <1>3
  <2>2. O!Now.dt \in 0 .. 1 /\ o_dt.dev \in 0 .. 1 /\ 0 \in Nat /\ 0 <= O!Now.left
    BY <1>0, OHCINowFits DEF O!TDs
  <2>3. O!DeviceFits' /\ OHCIToggles(0, cc, O!Now.dt, o_dt.dev)
    BY <2>1 DEF O!TransferInvariant, O!DeviceFits, OHCIToggles
  <2> QED BY <1>0, <2>1, <2>2, <2>3, OHCIWriteBack
<1> QED BY <1>1, <1>2, <1>3 DEF O!Transact

LEMMA OHCIUnlinkStep ==
    ASSUME O!TransferInvariant, NEW err \in OHCIErrors, O!Unlink(err)
    PROVE  O!TransferInvariant'
<1>1. /\ o_phase = "linked" /\ o_phase' = "unlinked" /\ o_io' = [o_io EXCEPT !.err = err]
      /\ UNCHANGED <<o_req, o_chain, o_head, o_halted, o_dt, o_dev, o_live>>
  BY DEF O!Unlink
<1>2. o_io'.err = err /\ DOMAIN o_io' = {"err", "actual"}
  BY <1>1 DEF O!TransferInvariant
<1>3. O!TypeOK'
  BY <1>1, <1>2 DEF O!TransferInvariant, O!TypeOK, OHCIErrors
<1>4. O!HeadFits' /\ (o_req'.type = "Control" => Len(o_chain') \in 3 .. 4 /\ O!ControlFits')
  BY <1>1 DEF O!TransferInvariant, O!HeadFits, O!ControlFits
<1> QED BY <1>1, <1>2, <1>3, <1>4 DEF O!TransferInvariant, O!DeviceFits, O!MemoryFreed

LEMMA OHCIRemoveStep == ASSUME O!TransferInvariant, O!Transfer_Remove PROVE O!TransferInvariant'
<1>1. /\ o_phase = "unlinked" /\ o_phase' = "idle" /\ o_live' = o_live \ O!Pieces(o_chain)
      /\ o_io' = (IF o_io.err = "NoError" THEN O!Length ELSE [actual |-> 0, err |-> o_io.err])
      /\ o_dt' = [o_dt EXCEPT !.ep = O!SavedToggle] /\ UNCHANGED <<o_req, o_chain, o_head, o_halted, o_dev>>
  BY DEF O!Transfer_Remove, O!Transfer_Free
<1>2. o_live' = {}
  BY <1>1 DEF O!TransferInvariant, O!HeadFits
<1>3. o_io'.err \in OHCIErrors /\ DOMAIN o_io' = {"err", "actual"}
  BY <1>1, OHCIAnswerFits DEF O!TransferInvariant, O!TypeOK, OHCIErrors
<1>4. o_dt' \in [ep : 0 .. 1, dev : 0 .. 1, carry : 0 .. 1]
  BY <1>1 DEF O!TransferInvariant, O!TypeOK, O!SavedToggle
<1>5. O!TypeOK'
  BY <1>1, <1>3, <1>4 DEF O!TransferInvariant, O!TypeOK, OHCIErrors
<1> QED BY <1>1, <1>2, <1>3, <1>5 DEF O!TransferInvariant, O!DeviceFits, O!MemoryFreed

LEMMA OHCIDestallStep == ASSUME O!TransferInvariant, O!Destall PROVE O!TransferInvariant'
<1>1. /\ o_phase = "idle" /\ o_dt' = [o_dt EXCEPT !.ep = 0, !.dev = 0]
      /\ UNCHANGED <<o_phase, o_req, o_chain, o_head, o_halted, o_dev, o_live, o_io>>
  BY DEF O!Destall
<1>2. o_dt' \in [ep : 0 .. 1, dev : 0 .. 1, carry : 0 .. 1]
  <2>1. o_dt \in [ep : 0 .. 1, dev : 0 .. 1, carry : 0 .. 1]
    BY DEF O!TransferInvariant, O!TypeOK
  <2>2. o_dt' = [ep |-> 0, dev |-> 0, carry |-> o_dt.carry] /\ o_dt.carry \in 0 .. 1
    BY <1>1, <2>1
  <2> QED BY <2>2
<1>3. O!TypeOK'
  BY <1>1, <1>2 DEF O!TransferInvariant, O!TypeOK
<1> QED BY <1>1, <1>3 DEF O!TransferInvariant, O!DeviceFits, O!MemoryFreed

LEMMA OHCINext == ASSUME O!OHCITransferAssumption, O!TransferInvariant, [O!Next]_(O!vars) PROVE O!TransferInvariant'
<1>1. CASE O!Add_Request
  BY <1>1, OHCIAddStep
<1>2. CASE O!Transact
  BY <1>2, OHCITransactStep
<1>3. CASE O!Transfer_Check \/ O!Abort
  BY <1>3, OHCIUnlinkStep DEF O!Transfer_Check, O!Abort, OHCIErrors
<1>4. CASE O!Transfer_Remove
  BY <1>4, OHCIRemoveStep
<1>5. CASE O!Destall
  BY <1>5, OHCIDestallStep
<1>6. CASE UNCHANGED O!vars
  BY <1>6 DEF O!vars, O!TransferInvariant, O!TypeOK, O!DeviceFits, O!MemoryFreed, O!HeadFits, O!ControlFits
<1> QED BY <1>1, <1>2, <1>3, <1>4, <1>5, <1>6 DEF O!Next

\* The walk of the check over a chain that the controller is done with ends at the TD that failed or
\* behind the dummy: every TD before that was executed.
LEMMA OHCIEndFound == ASSUME O!TransferInvariant PROVE O!EndIsFound
<1> SUFFICES ASSUME o_phase = "linked", ~O!Runs PROVE O!__is_ED_Finished
  BY DEF O!EndIsFound
<1> DEFINE Left(td) == IF td.left # 0 THEN td.left ELSE td.size
           stops == {td \in O!Range(o_chain) : td.cc # "ok" \/ (td.buf /\ Left(td) < TDSize)}
           S == {i \in 1 .. Len(o_chain) : o_chain[i] \in stops} \cup {Len(o_chain) + 1}
           i == O!FirstOf(1, stops)
<1>1. /\ O!HeadFits /\ Len(o_chain) \in Nat /\ DOMAIN o_chain = 1 .. Len(o_chain) /\ o_chain \in Seq(O!TDs)
      /\ o_head \in 1 .. Len(o_chain)
  BY DEF O!TransferInvariant, O!HeadFits
<1>2. o_halted \/ o_head = Len(o_chain)
  <2>1. o_halted \/ ~ (o_head < Len(o_chain))
    BY DEF O!Runs
  <2>2. o_head \in Nat /\ o_head <= Len(o_chain) /\ Len(o_chain) \in Nat
    BY <1>1
  <2>3. \A a, b \in Nat : a <= b /\ ~ (a < b) => a = b
    OBVIOUS
  <2> QED BY <2>1, <2>2, <2>3, Zenon
<1>3. i \in S /\ \A y \in S : i <= y
  <2>1. S \in SUBSET Nat /\ S # {}
    BY <1>1
  <2> HIDE DEF stops
  <2>2. i = O!Min(S)
    BY DEF O!FirstOf
  <2> HIDE DEF S
  <2>3. \E x \in S : \A y \in S : x <= y
    BY <2>1, LeastOf
  <2> QED BY <2>2, <2>3 DEF O!Min
<1> HIDE DEF i
<1> SUFFICES ASSUME i \in DOMAIN o_chain PROVE o_chain[i].cc # "none"
  BY DEF O!__is_ED_Finished, i
<1>4. i \in 1 .. Len(o_chain)
  BY <1>1
<1>5. ASSUME o_halted PROVE i \in 1 .. o_head
  <2>1. o_head \in 1 .. Len(o_chain) /\ o_chain[o_head].cc # "ok" /\ o_chain[o_head] \in O!Range(o_chain)
    BY <1>1, <1>5 DEF O!HeadFits, O!Range
  <2>2. o_head \in S
    BY <2>1
  <2> HIDE DEF S
  <2> QED BY <1>1, <1>3, <1>4, <2>2
<1>6. CASE i \in 1 .. o_head - 1
  BY <1>1, <1>6 DEF O!HeadFits
<1>7. CASE i = o_head
  <2>1. CASE o_halted
    BY <1>1, <1>7, <2>1 DEF O!HeadFits
  <2>2. CASE o_head = Len(o_chain)
    BY <1>1, <1>7, <2>2 DEF O!HeadFits
  <2> QED BY <1>2, <2>1, <2>2
<1>8. i \in 1 .. o_head - 1 \/ i = o_head
  <2>1. i \in 1 .. o_head
    BY <1>2, <1>4, <1>5
  <2> QED BY <1>1, <2>1
<1> QED BY <1>6, <1>7, <1>8

LEMMA OHCIGood == ASSUME O!TransferInvariant PROVE O!TransferIsSound
<1>1. O!ControlToggles
  <2> SUFFICES ASSUME O!Runs, o_req.type = "Control", O!Now.pid # "setup" PROVE O!Now.dt = O!Expected
    BY DEF O!ControlToggles
  <2>1. o_head = 1 => O!Now.pid = "setup"
    BY OHCIControlNow
  <2>2. o_head # 1 => O!Now.dt = O!Expected
    BY OHCIControlNow
  <2> QED BY <2>1, <2>2
<1> QED BY <1>1, OHCIEndFound DEF O!TransferInvariant, O!TransferIsSound

-----------------------------------------------------------------------------
(* The theorems. *)

\* A step of the whole is one of each module, or leaves what the module models alone.
LEMMA OneModuleSteps ==
    ASSUME MCNext \/ UNCHANGED allVars
    PROVE  /\ P!Next \/ UNCHANGED P!vars
           /\ R!Next \/ UNCHANGED R!vars
           /\ E!Next \/ UNCHANGED E!vars
           /\ O!Next \/ UNCHANGED O!vars
           /\ which' = which
<1>1. UNCHANGED p_vars => UNCHANGED P!vars
  BY DEF p_vars, P!vars
<1>2. UNCHANGED r_vars => UNCHANGED R!vars
  BY DEF r_vars, R!vars, R!regVars, R!hcdVars, R!hubVars
<1>3. (UNCHANGED e_vars => UNCHANGED E!vars) /\ (UNCHANGED o_vars => UNCHANGED O!vars)
  BY DEF e_vars, E!vars, o_vars, O!vars
<1> QED BY <1>1, <1>2, <1>3 DEF MCNext, allVars

\* The chip's memory is there before it runs and until it has stopped, its signals as long as its
\* interrupt server, its timers as long as the port they answer to, and a task that ends has
\* given everything back, wherever the start fails and however often the chip is restarted; only a
\* restart whose Chip_Init() has failed runs the chip without the memory.
THEOREM SetupIsSoundAlways == MCSpec => []SetupIsSound
<1>0. P!HostSetupAssumption
  BY ComponentAssumptions
<1>1. MCInit => P!SetupInvariant
  BY <1>0, SetupInit DEF MCInit
<1>2. P!SetupInvariant /\ [MCNext]_allVars => P!SetupInvariant'
  BY <1>0, OneModuleSteps, SetupNext
<1>3. P!SetupInvariant => SetupIsSound
  BY SetupGood DEF SetupIsSound
<1> QED BY <1>1, <1>2, <1>3, PTL DEF MCSpec

\* A write of the port's register clears no change bit but the one it is there to clear and neither
\* disables the port nor switches it off, careless writes aside; and a device is added only to a
\* port that its reset has enabled, or that has a change to report: for every number of steps of
\* the port's hardware, of the hub's driver and of the driver's other functions.
THEOREM PortIsSoundAlways == MCSpec => PortIsSound
<1> DEFINE Exact == (R!HCDTask \/ R!Hub_Request \/ R!Other_Request) /\ ~R!Careless =>
                      /\ r_chg \ r_chg' \subseteq R!ClearedBy(r_fn)
                      /\ "PES" \in r_st \ r_st' => r_fn = "Port_Set_Reset"
                      /\ "PPS" \in r_st => "PPS" \in r_st'
           First == R!AddedAfterReset'
<1>0. R!RootPortsAssumption
  BY ComponentAssumptions
<1>1. MCInit => R!PortsInvariant
  BY <1>0, PortsInit DEF MCInit
<1>2. R!PortsInvariant /\ [MCNext]_allVars => R!PortsInvariant'
  BY <1>0, OneModuleSteps, PortsNext
<1>3. R!PortsInvariant => Exact
  BY WritesExact
<1>4. R!PortsInvariant => R!AddedAfterReset
  BY ResetFirst
<1>5. MCSpec => [][Exact]_(R!vars) /\ [][First]_(R!vars)
  BY <1>1, <1>2, <1>3, <1>4, PTL DEF MCSpec
<1> QED BY <1>5 DEF PortIsSound, R!PortIsSound, R!WritesAreExact

\* However a transfer of EHCI or OHCI ends and whichever allocation of it fails, all its memory is
\* given back and no descriptor holds more than it was made for; OHCI's check sees that the
\* controller is done, and a control transfer goes with the toggles that the device expects: for
\* every length, packet size and number of requests.
THEOREM TransfersAreSoundAlways == MCSpec => []TransfersAreSound
<1> DEFINE Inv == E!TransferInvariant /\ O!TransferInvariant /\ R!PortsInvariant
<1>0. E!EHCITransferAssumption /\ O!OHCITransferAssumption /\ R!RootPortsAssumption
  BY ComponentAssumptions
<1>1. MCInit => Inv
  BY <1>0, EHCIInit, OHCIInit, PortsInit DEF MCInit
<1>2. Inv /\ [MCNext]_allVars => Inv'
  BY <1>0, OneModuleSteps, EHCINext, OHCINext, PortsNext
<1>3. Inv => TransfersAreSound
  BY OHCIGood DEF TransfersAreSound, E!TransferInvariant, R!PortsInvariant
<1> QED BY <1>1, <1>2, <1>3, PTL DEF MCSpec

=============================================================================
