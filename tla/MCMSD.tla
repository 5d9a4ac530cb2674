--------------------------------- MODULE MCMSD ---------------------------------
(***************************************************************************)
(* The instances of the mass storage driver's modules that TLC checks: each    *)
(* behaviour is of the units (MSDDevice) or of the transfers of one of them    *)
(* (MSDTransfer); the other module stays as it begins.                         *)
(***************************************************************************)
EXTENDS MSDDevice

CONSTANTS
    BlockCounts, BlockSize, LBALimit, CountLimit, ChunkBlocks, TagLimit,
    Sent, Offsets, Lengths, MaxFaults, Rounds

VARIABLES
    which,  \* the module of this behaviour: "units" or "transfers"
    t_pc, t_req, t_run, t_bulk, t_dev, t_disk, t_buf, t_total, t_detached, t_io,
    t_faults, t_rounds

t_vars == <<t_pc, t_req, t_run, t_bulk, t_dev, t_disk, t_buf, t_total, t_detached,
              t_io, t_faults, t_rounds>>

T == INSTANCE MSDTransfer WITH
    pc <- t_pc, req <- t_req, run <- t_run, bulk <- t_bulk, dev <- t_dev,
    disk <- t_disk, buf <- t_buf, total <- t_total, detached <- t_detached, io <- t_io,
    faults <- t_faults, rounds <- t_rounds, Commands <- Sent

ASSUME TransferAssumption == T!MSDTransferAssumption

MCInit ==
    /\ which \in {"units", "transfers"}
    /\ Init /\ T!Init
    /\ which = "units" => t_dev.blocks = 5

MCNext ==
    \/ which = "units" /\ Next /\ UNCHANGED <<which, t_vars>>
    \/ which = "transfers" /\ T!Next /\ UNCHANGED <<which, vars>>

\* The fairness of the two specifications.
MCFairness ==
    /\ \A d \in Devices : WF_vars(which = "units" /\ Task(d))
    /\ \A c \in Clients : WF_vars(which = "units" /\ (Opened(c) \/ Closed(c)))
    /\ WF_t_vars(which = "transfers" /\ T!Serve)

MCSpec == MCInit /\ [][MCNext]_<<which, vars, t_vars>> /\ MCFairness

-----------------------------------------------------------------------------
(* The modules' properties; UnitsAgree of MSDDevice is checked under its own     *)
(* name.                                                                        *)

\* The blocks that are answered for are right, and those of the disk.
DataIsRight == which = "transfers" => T!DataIsRight
\* A late, lost or repeated step of the transport changes nothing that it should not.
TransportIsSound == T!TransportIsSound
\* Devices come down in order and to their end, and every request is answered.
DriverEnds == ComesDown /\ T!AlwaysAnswers
================================================================================
