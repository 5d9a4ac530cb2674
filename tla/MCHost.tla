-------------------------------- MODULE MCHost --------------------------------
(***************************************************************************)
(* The instances of the host drivers' modules that TLC checks.  What they      *)
(* model shares no state, so each behaviour is one of `which': the others stay *)
(* as they begin.                                                            *)
(***************************************************************************)
EXTENDS HostSchedule, Sequences

CONSTANTS
    MaxSetupRestarts,
    Lengths, MaxPacket, TDSize, Rounds,
    MaxEvents, MaxOthers, Polls, Retries

VARIABLES
    which,  \* the module of this behaviour: "schedule" (HostSchedule), "setup", ...
    p_kind, p_pc, p_i, p_have, p_lost, p_again, p_preinit, p_server, p_callback,
    p_running, p_ints, p_restart, p_stuck, p_waited, p_early, p_halfmade, p_devices, p_known,
    p_restarts,
    e_phase, e_req, e_chain, e_ov, e_ep, e_dev, e_live, e_io, e_rounds,
    o_phase, o_req, o_chain, o_head, o_halted, o_dt, o_dev, o_live, o_io, o_rounds,
    r_kind, r_st, r_chg, r_dev, r_flag, r_cached, r_configNr, r_fn, r_by, r_ones,
    r_stage, r_pc, r_seen, r_tries, r_retry, r_late, r_events, r_others

p_vars == <<p_kind, p_pc, p_i, p_have, p_lost, p_again, p_preinit, p_server,
              p_callback, p_running, p_ints, p_restart, p_stuck, p_waited, p_early, p_halfmade,
              p_devices, p_known, p_restarts>>
e_vars == <<e_phase, e_req, e_chain, e_ov, e_ep, e_dev, e_live, e_io, e_rounds>>
o_vars == <<o_phase, o_req, o_chain, o_head, o_halted, o_dt, o_dev, o_live, o_io,
              o_rounds>>
r_vars == <<r_kind, r_st, r_chg, r_dev, r_flag, r_cached, r_configNr, r_fn, r_by,
              r_ones, r_stage, r_pc, r_seen, r_tries, r_retry, r_late, r_events,
              r_others>>

P == INSTANCE HostSetup WITH
    kind <- p_kind, pc <- p_pc, i <- p_i, have <- p_have, lost <- p_lost,
    again <- p_again, preinit <- p_preinit, server <- p_server, callback <- p_callback,
    running <- p_running, ints <- p_ints, restart <- p_restart, stuck <- p_stuck,
    waited <- p_waited, early <- p_early, halfmade <- p_halfmade, devices <- p_devices, known <- p_known,
    restarts <- p_restarts, MaxRestarts <- MaxSetupRestarts
E == INSTANCE EHCITransfer WITH
    phase <- e_phase, req <- e_req, chain <- e_chain, ov <- e_ov, ep <- e_ep,
    dev <- e_dev, live <- e_live, io <- e_io, rounds <- e_rounds
O == INSTANCE OHCITransfer WITH
    phase <- o_phase, req <- o_req, chain <- o_chain, head <- o_head,
    halted <- o_halted, dt <- o_dt, dev <- o_dev, live <- o_live, io <- o_io,
    rounds <- o_rounds
R == INSTANCE RootPorts WITH
    kind <- r_kind, st <- r_st, chg <- r_chg, dev <- r_dev, flag <- r_flag,
    cached <- r_cached, configNr <- r_configNr, fn <- r_fn, by <- r_by, ones <- r_ones,
    stage <- r_stage, pc <- r_pc, seen <- r_seen, tries <- r_tries, retry <- r_retry,
    late <- r_late, events <- r_events, others <- r_others

ASSUME ComponentAssumptions ==
    /\ P!HostSetupAssumption /\ E!EHCITransferAssumption /\ O!OHCITransferAssumption
    /\ R!RootPortsAssumption

MCInit ==
    /\ which \in {"schedule", "setup", "ehci", "ohci", "ports"}
    /\ Init /\ P!Init /\ E!Init /\ O!Init /\ R!Init
    /\ which # "schedule" => kind = "EHCI" /\ used = {"interrupt"}
    /\ which # "setup" => p_kind = "EHCI"
    /\ which # "ports" => r_kind = "EHCI"

MCNext ==
    \/ which = "schedule" /\ Next /\ UNCHANGED <<which, p_vars, e_vars, o_vars, r_vars>>
    \/ which = "setup" /\ P!Next /\ UNCHANGED <<which, vars, e_vars, o_vars, r_vars>>
    \/ which = "ehci" /\ E!Next /\ UNCHANGED <<which, vars, p_vars, o_vars, r_vars>>
    \/ which = "ohci" /\ O!Next /\ UNCHANGED <<which, vars, p_vars, e_vars, r_vars>>
    \/ which = "ports" /\ R!Next /\ UNCHANGED <<which, vars, p_vars, e_vars, o_vars>>

\* The fairness of the modules' specifications.
MCFairness ==
    /\ WF_vars(which = "schedule" /\ HCDWork) /\ WF_vars(which = "schedule" /\ TimerExpires)
    /\ WF_vars(which = "schedule" /\ RestartChip)
    /\ \A l \in Lists : WF_vars(which = "schedule" /\ Walks(l))
    /\ WF_p_vars(which = "setup" /\ (P!Start \/ P!Stop))
    /\ WF_r_vars(which = "ports" /\ (R!HCDTask \/ R!HubTask))

allVars == <<which, vars, p_vars, e_vars, o_vars, r_vars>>
MCSpec == MCInit /\ [][MCNext]_allVars /\ MCFairness

-----------------------------------------------------------------------------
(* The modules' properties; HeldNotFreed and ListsAgree of HostSchedule are     *)
(* checked under their own names.                                               *)

\* Memory, signals and server are there as long as the chip needs them, and no longer.
SetupIsSound == which = "setup" => P!SetupIsSound
\* A transfer gives its memory back; OHCI sees its end and sends the toggles of the device.
TransfersAreSound ==
    /\ which = "ehci" => E!TypeOK /\ E!MemoryFreed
    /\ which = "ohci" => O!TransferIsSound
    /\ which = "ports" => R!TypeOK
\* What a request is answered with is what happened on the bus.
AnswersAreTrue == E!AnswersAreTrue /\ O!AnswersAreTrue
\* A port's register is written with care, and a reset is one before a device is addressed.
PortIsSound == R!PortIsSound
\* The drivers come to rest: EHCI's schedule, a start or stop of the chip, and the root hub.
HostRests ==
    /\ Returns
    /\ []<>(which = "setup" => P!Settled)
    /\ <>[](which = "ports" => R!Resting) \/ <>[](which = "ports" => R!Unhandled)
===============================================================================
