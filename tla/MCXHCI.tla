-------------------------------- MODULE MCXHCI --------------------------------
(***************************************************************************)
(* The instances of the xHCI driver's modules that TLC checks.  What they     *)
(* model shares no state, so each behaviour is one of `which': the others stay *)
(* as they begin.                                                            *)
(***************************************************************************)
EXTENDS XHCIRing, FiniteSets

CONSTANTS
    ControlSize, ControlTDs, ControlLeft,               \* the ring of a control endpoint
    CmdSize, EvtSize, CanRestart, Slow, MaxCommands, MaxOthers,
    MaxSlots, MaxAddr, MaxLate,
    MaxIdx, MaxBridges,
    Users, Careless, Pages, PerPage, Free_Max, MaxHeld

VARIABLES
    which,  \* the module of this behaviour: "bulk" (XHCIRing), "control", ...
    k_trb, k_bit, k_enqueue, k_cycle, k_step, k_left, k_td, k_request, k_hw,
    k_hwDequeue, k_hwCycle, k_events, k_sent, k_ran,
    c_cmdRing, c_cmdEnq, c_cmdCycle, c_evtRing, c_evtDeq, c_evtCycle, c_erdp, c_pc,
    c_call, c_result, c_hwCmd, c_hwCmdCycle, c_hwEvt, c_hwEvtCycle, c_sent, c_ran,
    c_made, c_read, c_others, c_restarted, c_alone,
    s_function, s_byAddress, s_slots, s_call, s_drain, s_result, s_hw, s_cmds, s_events,
    s_halted, s_alone, s_overlapped,
    r_pc, r_tier, r_caps, r_bridge, r_bridges, r_idx, r_owned, r_run, r_hch, r_hce,
    r_cnr, r_hcrst, r_bars, r_decode, r_saved, r_held, r_blind,
    m_free, m_mfn_Addr, m_pages, m_mpn_Free, m_held, m_plain, m_list, m_Free_Count,
    m_Total_Count, m_forgotten, m_returned, m_up

k_vars == <<k_trb, k_bit, k_enqueue, k_cycle, k_step, k_left, k_td, k_request, k_hw,
              k_hwDequeue, k_hwCycle, k_events, k_sent, k_ran>>
c_vars == <<c_cmdRing, c_cmdEnq, c_cmdCycle, c_evtRing, c_evtDeq, c_evtCycle, c_erdp,
              c_pc, c_call, c_result, c_hwCmd, c_hwCmdCycle, c_hwEvt, c_hwEvtCycle,
              c_sent, c_ran, c_made, c_read, c_others, c_restarted, c_alone>>
s_vars == <<s_function, s_byAddress, s_slots, s_call, s_drain, s_result, s_hw, s_cmds,
              s_events, s_halted, s_alone, s_overlapped>>
r_vars == <<r_pc, r_tier, r_caps, r_bridge, r_bridges, r_idx, r_owned, r_run, r_hch,
              r_hce, r_cnr, r_hcrst, r_bars, r_decode, r_saved, r_held, r_blind>>
m_vars == <<m_free, m_mfn_Addr, m_pages, m_mpn_Free, m_held, m_plain, m_list,
              m_Free_Count, m_Total_Count, m_forgotten, m_returned, m_up>>
allVars == <<which, vars, k_vars, c_vars, s_vars, r_vars, m_vars>>

K == INSTANCE XHCIRing WITH
    trb <- k_trb, bit <- k_bit, enqueue <- k_enqueue, cycle <- k_cycle, step <- k_step,
    left <- k_left, td <- k_td, request <- k_request, hw <- k_hw,
    hwDequeue <- k_hwDequeue, hwCycle <- k_hwCycle, events <- k_events, sent <- k_sent,
    ran <- k_ran, Size <- ControlSize, MaxTDs <- ControlTDs, MaxLeft <- ControlLeft,
    Flushes <- FALSE, CanHalt <- FALSE, CanAbort <- FALSE, NoMemory <- TRUE
C == INSTANCE XHCICommandRing WITH
    cmdRing <- c_cmdRing, cmdEnq <- c_cmdEnq, cmdCycle <- c_cmdCycle,
    evtRing <- c_evtRing, evtDeq <- c_evtDeq, evtCycle <- c_evtCycle, erdp <- c_erdp,
    pc <- c_pc, call <- c_call, result <- c_result, hwCmd <- c_hwCmd,
    hwCmdCycle <- c_hwCmdCycle, hwEvt <- c_hwEvt, hwEvtCycle <- c_hwEvtCycle,
    sent <- c_sent, ran <- c_ran, made <- c_made, read <- c_read, others <- c_others,
    restarted <- c_restarted, alone <- c_alone
S == INSTANCE XHCISlots WITH
    function <- s_function, byAddress <- s_byAddress, slots <- s_slots, call <- s_call,
    drain <- s_drain, result <- s_result, hw <- s_hw, cmds <- s_cmds,
    events <- s_events, halted <- s_halted, alone <- s_alone, overlapped <- s_overlapped,
    CanHalt <- TRUE
R == INSTANCE XHCIReset WITH
    pc <- r_pc, tier <- r_tier, caps <- r_caps, bridge <- r_bridge,
    bridges <- r_bridges, idx <- r_idx, owned <- r_owned, run <- r_run, hch <- r_hch,
    hce <- r_hce, cnr <- r_cnr, hcrst <- r_hcrst, bars <- r_bars, decode <- r_decode,
    saved <- r_saved, held <- r_held, blind <- r_blind
M == INSTANCE MemoryPool WITH
    free <- m_free, mfn_Addr <- m_mfn_Addr, pages <- m_pages, mpn_Free <- m_mpn_Free,
    held <- m_held, plain <- m_plain, list <- m_list, Free_Count <- m_Free_Count,
    Total_Count <- m_Total_Count, forgotten <- m_forgotten, returned <- m_returned,
    up <- m_up

ASSUME ComponentAssumptions ==
    /\ K!RingAssumption /\ C!CommandRingAssumption /\ S!SlotsAssumption
    /\ R!XHCIResetAssumption /\ M!MemoryPoolAssumption

MCInit ==
    /\ which \in {"bulk", "control", "command", "slots", "reset", "pool"}
    /\ Init /\ K!Init /\ C!Init /\ S!Init /\ R!Init /\ M!Init
    /\ which # "reset" => r_caps = {} /\ r_bridges = 0 /\ r_run = FALSE /\ r_hce = FALSE /\ r_cnr = FALSE

MCNext ==
    \/ which = "bulk" /\ Next /\ UNCHANGED <<which, k_vars, c_vars, s_vars, r_vars, m_vars>>
    \/ which = "control" /\ K!Next /\ UNCHANGED <<which, vars, c_vars, s_vars, r_vars, m_vars>>
    \/ which = "command" /\ C!Next /\ UNCHANGED <<which, vars, k_vars, s_vars, r_vars, m_vars>>
    \/ which = "slots" /\ S!Next /\ UNCHANGED <<which, vars, k_vars, c_vars, r_vars, m_vars>>
    \/ which = "reset" /\ R!Next /\ UNCHANGED <<which, vars, k_vars, c_vars, s_vars, m_vars>>
    \/ which = "pool" /\ M!Next /\ UNCHANGED <<which, vars, k_vars, c_vars, s_vars, r_vars>>

MCSpec ==
    /\ MCInit /\ [][MCNext]_allVars
    /\ Fairness /\ C!Fairness /\ S!Fairness

-----------------------------------------------------------------------------
(* The modules' properties; RingInvariant, OwnEvents and RunsInOrder of        *)
(* XHCIRing are checked under their own names.                                 *)

\* Transfers keep to themselves: the controller runs only those of their own endpoint, on the
\* control ring in order even where a setup TRB was left, and events find their own requests.
TransfersKeptApart ==
    RunsOwn /\ K!RunsInOrder /\ [][(ConsumedWhenCompleted /\ K!OwnEvents)']_<<vars, k_vars>>
\* Who waits for a command gets the answer to that command, if when it was sent no earlier one
\* was still to be answered and no Disable Slot has been sent in between (XHCI_Cmd_Wait()).
OwnAnswer ==
    /\ which = "command" => C!AnswersAgree
    /\ which = "slots" => S!OwnAnswer
\* No command and no event is lost or repeated on any lap, and none is waited for in vain.
RingsExact == C!RingsExact
\* The driver, the controller and the functions agree about the slots.
SlotsAgree == which = "slots" => S!SlotsAgree
\* The HCD task never hangs: transfers end, waits for commands end, events are read and slots
\* come free.
NothingHangs == TransferEnds /\ C!WaitEnds /\ C!EventsRead /\ S!WaitEnds /\ S!SlotComesFree
\* A reset leaves the device as it was, and its answer is true.
ResetIsSound == which = "reset" => R!ResetIsSound
\* Each node of the pools has one owner, who knows its address.
PoolIsSound == which = "pool" => M!PoolIsSound
===============================================================================
