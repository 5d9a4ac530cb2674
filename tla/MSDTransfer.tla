------------------------------ MODULE MSDTransfer ------------------------------
(***************************************************************************)
(* Drivers/MSD: the commands of usb3disk.device that reach the medium, over the *)
(* bulk-only transport.  The driver's task serves one request at a time: it is *)
(* cut into SCSI commands, and each of these into a command, a data and a      *)
(* status phase, tried three times with a recovery in between.  The device is  *)
(* honest, but the bus loses and delays transfers, and the device may halt an  *)
(* endpoint, end a transfer early, fail, or be unplugged at any point.         *)
(***************************************************************************)
EXTENDS Integers, FiniteSets, FiniteSetsExt

CONSTANTS
    BlockCounts,  \* blocks a disk may have
    BlockSize,    \* msddisk_Block_Size, a power of two
    LBALimit,     \* blocks that a 10 byte command reaches (2^32)
    CountLimit,   \* blocks that one 10 byte command moves (2^16 - 1)
    ChunkBlocks,  \* blocks in 100 KB, the most that one command moves here
    TagLimit,     \* the largest tag (2^32 - 1)
    Commands,     \* commands that are sent: two that lead to the same SCSI function are alike
    Offsets,      \* io_Offset, with io_Actual as its upper half
    Lengths,      \* io_Length
    MaxFaults,    \* bound: transfers that the bus loses
    Rounds        \* bound: requests in a behaviour

Advertised ==
    {"CMD_READ", "CMD_WRITE", "TD_READ64", "TD_WRITE64", "TD_GETGEOMETRY",
     "NSCMD_GETGEOMETRY64", "HD_SCSICMD", "HD_READCAPACITY", "NSCMD_READ64", "NSCMD_WRITE64"}

MSDTransferAssumption ==
    /\ BlockCounts \subseteq Nat \ {0} /\ BlockSize \in Nat \ {0} /\ LBALimit \in Nat \ {0}
    /\ TagLimit \in Nat \ {0} /\ CountLimit \in Nat \ {0} /\ ChunkBlocks \in 1 .. CountLimit
    /\ Commands \subseteq Advertised /\ Offsets \subseteq Nat /\ MaxFaults \in Nat /\ Rounds \in Nat
    /\ Lengths \subseteq Nat /\ \E m \in Lengths : \A l \in Lengths : l <= m

VARIABLES
    pc,     \* "idle", or the phase MSD_Disk_DoBulk() is in
    req,    \* the request: cmd, off, len, and how many faults it met
    run,    \* the SCSI function and its loop: op, wide, short, start, left
    bulk,   \* msddev_Bulk_TagID, tries, and the stall the status phase met
    dev,    \* the device: the command it took, a status that waits to be read before that
            \* of this command, its halted endpoints; "fair" remembers that it came clean
            \* into this request and passed all of it
    disk,   \* the number of the request that wrote a block last
    buf,    \* io_Data
    total,  \* msddisk_TotalBlocks
    detached,
    io,     \* io_Error, io_Actual in blocks, scsi_Status, and the size that was told
    faults, rounds
vars == <<pc, req, run, bulk, dev, disk, buf, total, detached, io, faults, rounds>>

Lower(a, b) == IF a < b THEN a ELSE b
Unread == Rounds + 1
Slots == 0 .. (Max(Lengths) \div BlockSize) - 1

\* What READ CAPACITY (10) answers: the last block, or all ones.
LastBlock(n) == Lower(n, LBALimit) - 1
AllOnes == LBALimit - 1

NoRequest == [cmd |-> "none", off |-> 0, len |-> 0, met |-> 0]
NoRun == [op |-> "none", wide |-> FALSE, short |-> FALSE, start |-> 0, left |-> 0]
NoBulk(t) == [tag |-> t, tries |-> 0, stalled |-> FALSE]
Ready == [state |-> "ready", tag |-> 0, op |-> "none", at |-> 0, todo |-> 0, miss |-> 0, halt |-> FALSE, verdict |-> "passed"]

\* MSD_Disk_Alloc() takes the last block for the number of blocks.
Init ==
    \E n \in BlockCounts :
        /\ pc = "idle" /\ req = NoRequest /\ run = NoRun /\ bulk = NoBulk(0)
        /\ dev = [cmd |-> Ready, blocks |-> n, in |-> FALSE, out |-> FALSE, gone |-> FALSE, stale |-> Ready, fair |-> TRUE]
        /\ disk = [b \in 0 .. n - 1 |-> 0] /\ buf = [s \in Slots |-> Unread]
        /\ total = LastBlock(n) /\ detached = FALSE /\ io = [err |-> "NoError", actual |-> 0, status |-> "none", told |-> 0]
        /\ faults = 0 /\ rounds = 0

-----------------------------------------------------------------------------
(* The requests: MSD_Manager_BeginIO() and MSD_Main__myHandle_Begin() *)

\* The 64 bit writes are commented out.
Served == Advertised \ {"TD_WRITE64", "NSCMD_WRITE64"}

Blocks(r) == r.len \div BlockSize
First(r) == r.off \div BlockSize
Aligned(r) == r.off % BlockSize = 0 /\ r.len % BlockSize = 0
Accepted(r) == r.len > 0 /\ Aligned(r) /\ First(r) + Blocks(r) <= total

SCSI_Read10(r) == [op |-> "read", wide |-> FALSE, short |-> TRUE, start |-> First(r), left |-> Blocks(r)]
SCSI_Write10(r) == [op |-> "write", wide |-> FALSE, short |-> FALSE, start |-> First(r), left |-> Blocks(r)]
SCSI_Read16(r) == [SCSI_Read10(r) EXCEPT !.wide = TRUE]
SCSI_Write16(r) == [SCSI_Write10(r) EXCEPT !.wide = TRUE]
SCSI_ReadCapacity10 == [NoRun EXCEPT !.op = "capacity", !.short = TRUE]
SCSI_RequestSense == [NoRun EXCEPT !.op = "sense", !.short = TRUE]
__HDSCSI_Default == [NoRun EXCEPT !.op = "other"]

CMD_Read(r) == SCSI_Read10(r)
CMD_Write(r) == SCSI_Write10(r)
Long(r) == First(r) >= LBALimit \/ Blocks(r) > CountLimit
TD_Read64(r) == IF Long(r) THEN SCSI_Read16(r) ELSE SCSI_Read10(r)
NSCmd_Read64(r) == TD_Read64(r)
TD_Write64(r) == IF Long(r) THEN SCSI_Write16(r) ELSE SCSI_Write10(r)

RunOf(r) ==
    CASE r.cmd = "CMD_READ" -> CMD_Read(r)
      [] r.cmd = "CMD_WRITE" -> CMD_Write(r)
      [] r.cmd = "TD_READ64" -> TD_Read64(r)
      [] r.cmd = "NSCMD_READ64" -> NSCmd_Read64(r)
      [] r.cmd \in {"TD_WRITE64", "NSCMD_WRITE64"} -> TD_Write64(r)
      [] r.cmd = "TD_GETGEOMETRY" -> SCSI_ReadCapacity10
      [] r.cmd = "HD_SCSICMD" -> __HDSCSI_Default
OnBlocks(r) == r.cmd \notin {"TD_GETGEOMETRY", "NSCMD_GETGEOMETRY64", "HD_SCSICMD", "HD_READCAPACITY"}

\* The tag counts up, and 0 is left out.
NextTag == (bulk.tag % TagLimit) + 1
Try(t, n) == bulk' = [tag |-> t, tries |-> n, stalled |-> FALSE] /\ pc' = "command"

Requests ==
    LET sized == {c \in Commands : OnBlocks([cmd |-> c])}
    IN  {[cmd |-> c, off |-> o, len |-> l, met |-> 0] : c \in sized, o \in Offsets, l \in Lengths}
        \cup {[NoRequest EXCEPT !.cmd = c] : c \in Commands \ sized}

Refusal(r) ==
    IF r.cmd \notin Served THEN "NoCmd"
    ELSE IF detached THEN "DiskChanged"
    ELSE IF OnBlocks(r) /\ ~Accepted(r) THEN "BadLength" ELSE "none"

Refuse(r) ==
    /\ Refusal(r) # "none"
    /\ io' = [err |-> Refusal(r), actual |-> 0, status |-> "none", told |-> 0] /\ UNCHANGED <<pc, run, bulk>>

\* What is answered from the disk structure: __HDSCSI_ReadCap10() tells the last block, in 32
\* bits, and NSCmd_GetGeometry64() the number of blocks.
ReadCap10 == IF total > AllOnes THEN AllOnes ELSE (total - 1) % LBALimit
GetGeometry64 == total
Local == {"HD_READCAPACITY", "NSCMD_GETGEOMETRY64"}
Tell(r) ==
    /\ r.cmd \in Local /\ Refusal(r) = "none"
    /\ io' = [err |-> "NoError", actual |-> 0, status |-> "none",
              told |-> IF r.cmd = "HD_READCAPACITY" THEN ReadCap10 + 1 ELSE GetGeometry64]
    /\ UNCHANGED <<pc, run, bulk>>

Start(r) ==
    /\ r.cmd \notin Local /\ Refusal(r) = "none"
    /\ run' = RunOf(r) /\ io' = [err |-> "Pending", actual |-> 0, status |-> "none", told |-> 0] /\ Try(NextTag, 0)

BeginIO ==
    /\ pc = "idle" /\ rounds < Rounds /\ rounds' = rounds + 1
    /\ \E r \in Requests : req' = r /\ (Refuse(r) \/ Tell(r) \/ Start(r))
    /\ buf' = [s \in Slots |-> Unread]
    /\ dev' = [dev EXCEPT !.fair = dev.cmd = Ready /\ dev.stale = Ready /\ ~dev.in /\ ~dev.out] /\ UNCHANGED <<disk, total, detached, faults>>

-----------------------------------------------------------------------------
(* The device *)

IsWrite(c) == c.op = "write"
Count == IF run.op \in {"read", "write"} THEN Lower(ChunkBlocks, run.left)
         ELSE IF run.op = "other" THEN 0 ELSE 1
WireLBA == IF run.wide THEN run.start ELSE run.start % LBALimit
Done == Blocks(req) - run.left

\* The commands that an honest device makes of the block it took: it moves "todo" of the
\* "Count" data, and where it moves less it may halt the endpoint.
Taken ==
    {c \in [state : {IF Count = 0 THEN "status" ELSE "data"}, tag : {bulk.tag}, op : {run.op}, at : {WireLBA},
            todo : 0 .. Count, miss : 0 .. Count, halt : BOOLEAN, verdict : {"passed", "failed", "phase"}] :
        /\ c.todo + c.miss = Count
        /\ c.halt => c.miss > 0 \/ Count = 0
        /\ run.op \in {"read", "write"} /\ WireLBA + Count > dev.blocks => c.todo = 0 /\ c.verdict = "failed"}

\* A transfer fails though the device and the host do all right.
Fault == faults < MaxFaults /\ faults' = faults + 1 /\ req' = [req EXCEPT !.met = @ + 1]
NoFault == UNCHANGED <<faults, req>>

\* Destalled or not: the control request that clears the halt may be lost, one fault each.
Destall(pipes, lost) ==
    /\ lost \subseteq pipes /\ faults + Cardinality(lost) <= MaxFaults
    /\ faults' = faults + Cardinality(lost) /\ req' = [req EXCEPT !.met = @ + Cardinality(lost)]
Halts(pipes, lost, d) ==
    [d EXCEPT !.in = @ /\ ("in" \notin pipes \/ "in" \in lost), !.out = @ /\ ("out" \notin pipes \/ "out" \in lost)]

Value(slot) == rounds * Cardinality(Slots) + slot

\* j of the data of command c are moved, the first one to or from slot Done.
Read(c, j) == buf' = [s \in Slots |-> IF s \in Done .. Done + j - 1 /\ c.op = "read" THEN disk[c.at + s - Done] ELSE buf[s]]
Write(c, j) == disk' = [b \in DOMAIN disk |-> IF b \in c.at .. c.at + j - 1 THEN Value(Done + b - c.at) ELSE disk[b]]
Moved(c, j) == IF IsWrite(c) THEN Write(c, j) /\ UNCHANGED buf ELSE Read(c, j) /\ UNCHANGED disk
\* The data is at its end: the command block status wrapper is next.
Finished(c) == [c EXCEPT !.state = "status", !.todo = 0]
CutShort(c) == [Finished(c) EXCEPT !.miss = c.miss + c.todo, !.verdict = "failed"]

-----------------------------------------------------------------------------
(* MSD_Disk_DoBulk() *)

\* MSD_Disk_Detach()
Unplugged == dev.gone /\ detached' = TRUE
Still == ~dev.gone /\ UNCHANGED detached

\* MSD_Bulk_Cmd_Phase()
Cmd_Gone == Unplugged /\ NoFault /\ pc' = "recover" /\ UNCHANGED dev
Cmd_Halted ==
    /\ Still /\ dev.out /\ pc' = "recover"
    /\ \E lost \in SUBSET {"out"} : Destall({"out"}, lost) /\ dev' = Halts({"out"}, lost, dev)
AfterCommand == pc' = (IF Count > 0 THEN "data" ELSE "status")
Took ==
    \E c \in Taken :
        dev' = [dev EXCEPT !.cmd = c, !.in = @ \/ (c.halt /\ Count = 0), !.fair = @ /\ c.verdict = "passed" /\ c.miss = 0]
Cmd_Taken == Still /\ ~dev.out /\ dev.cmd.state = "ready" /\ NoFault /\ Took /\ AfterCommand
\* A device that waits for data to write takes the command block for their short end.
Cmd_AsData ==
    /\ Still /\ ~dev.out /\ dev.cmd.state = "data" /\ IsWrite(dev.cmd) /\ NoFault /\ AfterCommand
    /\ dev' = [dev EXCEPT !.cmd = CutShort(@)]
\* One that has room takes it while the status of the last command waits to be read.
Cmd_Queued ==
    /\ Still /\ ~dev.out /\ dev.cmd.state = "status" /\ dev.stale = Ready /\ NoFault /\ AfterCommand
    /\ \E c \in Taken : dev' = [dev EXCEPT !.cmd = c, !.stale = dev.cmd, !.fair = FALSE]
Cmd_TimedOut ==
    /\ Still /\ ~dev.out /\ dev.cmd.state # "ready" /\ ~(dev.cmd.state = "data" /\ IsWrite(dev.cmd)) /\ NoFault
    /\ pc' = "recover" /\ UNCHANGED dev
Cmd_Lost == Still /\ ~dev.out /\ dev.cmd.state = "ready" /\ Fault /\ pc' = "recover" /\ (Took \/ UNCHANGED dev)
Bulk_Cmd_Phase ==
    /\ pc = "command"
    /\ Cmd_Gone \/ Cmd_Halted \/ Cmd_Taken \/ Cmd_AsData \/ Cmd_Queued \/ Cmd_TimedOut \/ Cmd_Lost
    /\ UNCHANGED <<run, bulk, disk, buf, total, io, rounds>>

\* MSD_Bulk_Cmd_Data(): whatever comes of it, the status is read next.
Pipe == IF run.op = "write" THEN "out" ELSE "in"
HaltedPipe == (Pipe = "in" /\ dev.in) \/ (Pipe = "out" /\ dev.out)
StaleInPipe == Pipe = "in" /\ dev.stale # Ready
Mine == dev.cmd.state = "data" /\ IsWrite(dev.cmd) = (run.op = "write") /\ ~StaleInPipe
NothingMoved == UNCHANGED <<disk, buf>>
Data_Gone == Unplugged /\ NoFault /\ NothingMoved /\ UNCHANGED dev
Both == {"in", "out"}
Data_Halted ==
    /\ Still /\ HaltedPipe /\ NothingMoved
    /\ \E lost \in SUBSET Both : Destall(Both, lost) /\ dev' = Halts(Both, lost, dev)
Data_Okay ==
    /\ Still /\ ~HaltedPipe /\ Mine /\ (~dev.cmd.halt) /\ NoFault
    /\ Moved(dev.cmd, dev.cmd.todo) /\ dev' = [dev EXCEPT !.cmd = Finished(@)]
\* The device halts the endpoint where it ends.
Data_Stall ==
    /\ Still /\ ~HaltedPipe /\ Mine /\ dev.cmd.halt
    /\ Moved(dev.cmd, dev.cmd.todo)
    /\ \E lost \in SUBSET Both :
        /\ Destall(Both, lost)
        /\ dev' = Halts(Both, lost, [dev EXCEPT !.cmd = Finished(@), ![Pipe] = TRUE])
\* A read takes the status of an older command for its data, a write times out on it.
Data_Stale ==
    /\ Still /\ ~HaltedPipe /\ ~Mine /\ NoFault /\ NothingMoved
    /\ dev' = IF StaleInPipe THEN [dev EXCEPT !.stale = Ready]
              ELSE IF Pipe = "in" /\ dev.cmd.state = "status" THEN [dev EXCEPT !.cmd = Ready] ELSE dev
\* Part of the data is moved, or all of it and the answer is lost.
Data_Lost ==
    /\ Still /\ ~HaltedPipe /\ Mine /\ Fault
    /\ \E j \in 0 .. dev.cmd.todo :
        /\ Moved(dev.cmd, j)
        /\ \/ j = dev.cmd.todo /\ ~dev.cmd.halt /\ dev' = [dev EXCEPT !.cmd = Finished(@)]
           \/ dev' = [dev EXCEPT !.cmd.todo = @ - j, !.cmd.at = @ + j]
Bulk_Cmd_Data ==
    /\ pc = "data" /\ pc' = "status"
    /\ Data_Gone \/ Data_Halted \/ Data_Okay \/ Data_Stall \/ Data_Stale \/ Data_Lost
    /\ UNCHANGED <<run, bulk, total, io, rounds>>

\* What the request is answered with when the SCSI function ends.
Answer(err, actual, status) ==
    /\ pc' = "idle" /\ io' = [err |-> err, actual |-> actual, status |-> status, told |-> 0]
    /\ run' = NoRun /\ bulk' = NoBulk(bulk.tag)
Again == Try(NextTag, 0)

\* Variant: the loop leaves the block number as it was.
SameStart == run.start
NextStart == run.start + Count
\* The loop of MSD_SCSI_Read10() and its like; "short" is that the device told of less.
Chunk_Failed == Answer("BadLength", Done, "none") /\ UNCHANGED total
Chunk_Passed ==
    LET r == [run EXCEPT !.start = NextStart, !.left = @ - Count]
    IN  /\ UNCHANGED total
        /\ IF r.left = 0 THEN Answer("NoError", Blocks(req), "none")
           ELSE run' = r /\ Again /\ UNCHANGED io
\* MSD_Cmd_0016_TD_GetGeometry(): READ CAPACITY (16) is missing.
GetGeometry ==
    IF LastBlock(dev.blocks) = AllOnes THEN Answer("BadLength", 0, "none") /\ UNCHANGED total
    ELSE Answer("NoError", 0, "none") /\ total' = LastBlock(dev.blocks) + 1

\* MSD_Disk_DoBulk() returns TRUE; "residue" of the data was not moved.
Succeed(residue) ==
    CASE run.op \in {"read", "write"} -> IF residue = 0 THEN Chunk_Passed ELSE Chunk_Failed
      [] run.op = "capacity" -> GetGeometry
      [] run.op = "other" -> Answer("NoError", 0, "good") /\ UNCHANGED total
      [] run.op = "sense" -> Answer("NoError", 0, "check") /\ UNCHANGED total
\* It returns FALSE, and "failed" is that the status says so.
Fail(failed) ==
    CASE run.op \in {"read", "write"} -> Chunk_Failed
      [] run.op = "capacity" -> Answer("BadLength", 0, "none") /\ UNCHANGED total
      [] run.op = "other" ->
            /\ UNCHANGED total
            /\ IF failed THEN run' = SCSI_RequestSense /\ Again /\ UNCHANGED io ELSE Answer("BadLength", 0, "none")
      [] run.op = "sense" -> Answer("NoError", 0, "check") /\ UNCHANGED total

RightTag(c) == c.tag = bulk.tag
Residue(c) == c.miss
Recover == pc' = "recover" /\ UNCHANGED <<run, bulk, total, io>>
Judge(c) ==
    IF ~RightTag(c) THEN Recover
    ELSE CASE c.verdict = "passed" -> IF ~run.short /\ Residue(c) > 0 THEN Recover ELSE Succeed(Residue(c))
           [] c.verdict = "failed" -> Fail(TRUE)
           [] c.verdict = "phase" -> Recover

\* MSD_Bulk_Cmd_Status(): a halt is cleared once and the status read again.
Status_Gone == Unplugged /\ NoFault /\ Recover /\ UNCHANGED dev
Status_Halted ==
    /\ Still /\ dev.in
    /\ \E lost \in SUBSET {"in"} : Destall({"in"}, lost) /\ dev' = Halts({"in"}, lost, dev)
    /\ IF bulk.stalled THEN Recover
       ELSE bulk' = [bulk EXCEPT !.stalled = TRUE] /\ UNCHANGED <<pc, run, total, io>>
\* The status that the endpoint has first, and the device when it was read.
FirstStatus == IF dev.stale # Ready THEN dev.stale ELSE dev.cmd
StatusRead == IF dev.stale # Ready THEN [dev EXCEPT !.stale = Ready] ELSE [dev EXCEPT !.cmd = Ready]
Status_Okay == Still /\ ~dev.in /\ FirstStatus.state = "status" /\ NoFault /\ dev' = StatusRead /\ Judge(FirstStatus)
\* Data in place of the status, or nothing at all.
Status_None == Still /\ ~dev.in /\ FirstStatus.state # "status" /\ NoFault /\ Recover /\ UNCHANGED dev
Status_Lost ==
    /\ Still /\ ~dev.in /\ FirstStatus.state = "status" /\ Fault /\ Recover
    /\ dev' \in {dev, StatusRead}
Bulk_Cmd_Status ==
    /\ pc = "status"
    /\ Status_Gone \/ Status_Halted \/ Status_Okay \/ Status_None \/ Status_Lost
    /\ UNCHANGED <<disk, buf, rounds>>

Tries == 3
\* Variant: a try is not counted.
SameTry == bulk.tries
NextTry == bulk.tries + 1
\* Variant: the device is not reset.
DestallOnly(lost) == IF dev.gone THEN dev ELSE Halts(Both, lost, dev)
\* MSD_DoBulk_Recovery(), and the end of a try: the reset and the two halts, each of which may
\* be lost.  The device is reset though it may be unplugged.
Reset(lost) == IF dev.gone THEN dev
               ELSE LET d == Halts(Both, lost, dev) IN IF "reset" \in lost THEN d ELSE [d EXCEPT !.cmd = Ready, !.stale = Ready]
DoBulk_Recovery ==
    /\ pc = "recover"
    /\ \E lost \in SUBSET (Both \cup {"reset"}) :
        Destall(Both \cup {"reset"}, lost) /\ (dev.gone => lost = {}) /\ dev' = Reset(lost)
    /\ IF NextTry < Tries THEN Try(NextTag, NextTry) /\ UNCHANGED <<run, total, io>>
       ELSE Fail(FALSE)
    /\ UNCHANGED <<disk, buf, detached, rounds>>

Unplug ==
    /\ ~dev.gone /\ dev' = [dev EXCEPT !.gone = TRUE]
    /\ UNCHANGED <<pc, req, run, bulk, disk, buf, total, detached, io, faults, rounds>>

Serve == Bulk_Cmd_Phase \/ Bulk_Cmd_Data \/ Bulk_Cmd_Status \/ DoBulk_Recovery
Next == BeginIO \/ Serve \/ Unplug

\* The transfers of a task are done or time out: each of its steps happens.
Spec == Init /\ [][Next]_vars /\ WF_vars(Serve)

-----------------------------------------------------------------------------
(* Properties *)

\* The variables have their types: the phases, the request, the loop and the device.
TypeOK ==
    /\ pc \in {"idle", "command", "data", "status", "recover"}
    /\ run.op \in {"none", "read", "write", "capacity", "sense", "other"} /\ run.start \in Nat /\ run.left \in Nat
    /\ bulk.tag \in 0 .. TagLimit /\ bulk.tries \in 0 .. Tries - 1 /\ bulk.stalled \in BOOLEAN
    /\ dev.cmd.state \in {"ready", "data", "status"} /\ {dev.in, dev.out, dev.gone, detached} \subseteq BOOLEAN
    /\ DOMAIN disk = 0 .. dev.blocks - 1 /\ buf \in [Slots -> Nat] /\ total \in 0 .. dev.blocks
    /\ io.actual \in Nat /\ faults \in 0 .. MaxFaults /\ rounds \in 0 .. Rounds

Reads(r) == r.cmd \in {"CMD_READ", "TD_READ64", "NSCMD_READ64"}
Answered == pc = "idle" /\ rounds > 0

\* What a read is answered with is there: all its blocks when there is no error, and the first
\* io_Actual bytes in any case, whatever was retried, whichever status came late.
ReadIsRight ==
    Answered /\ Reads(req) =>
        /\ io.err = "NoError" => io.actual = Blocks(req)
        /\ \A s \in 0 .. io.actual - 1 : buf[s] = disk[First(req) + s]

\* The blocks of a write that were counted as written hold the data of the request.
WriteIsRight ==
    Answered /\ OnBlocks(req) /\ ~Reads(req) =>
        /\ io.err = "NoError" => io.actual = Blocks(req)
        /\ \A s \in 0 .. io.actual - 1 : disk[First(req) + s] = Value(s)

\* A step writes no block but those of the request in hand, be it late, retried or cut off by
\* the width of the block number.
OnlyItsBlocks ==
    [][\A b \in DOMAIN disk : disk'[b] # disk[b] => pc # "idle" /\ b \in First(req) .. First(req) + Blocks(req) - 1]_vars

\* SCSI_GOOD is reported only of a command that the device passed, and SCSI_CHECK of one that it
\* failed: nothing of a lost or stale status gets through.
StatusIsTheDevices ==
    [][pc = "status" /\ pc' = "idle" /\ io'.status = "good" => dev.cmd.verdict = "passed" /\ dev'.cmd = Ready]_vars

\* A request is not given up for one lost transfer: it fails only after a second one, or when
\* the device failed it, moved less, or is gone.
OneFaultIsSurvived ==
    [][pc = "recover" /\ pc' = "idle" /\ req'.met <= 1 => dev.gone \/ ~dev.fair]_vars

\* READ CAPACITY works with "same sizes" (the comment there): it tells of no block that the disk
\* does not have.
TellsTheSize == io.told <= dev.blocks

\* The driver never thinks, nor tells, that the disk is larger than it is, a disk of more blocks
\* than 32 bits name included; a block number always fits its command.  But a disk of one block,
\* for which TotalBlocks is 0, tells that it has more than 32 bits name.
OneBlockWraps == total = 0 /\ io.told = LBALimit
InsideTheDisk ==
    /\ TellsTheSize \/ OneBlockWraps
    /\ run.op \in {"read", "write"} => run.start + run.left <= dev.blocks /\ (run.wide \/ run.start < LBALimit)

\* Every request is answered, however the device behaves.
AlwaysAnswers == []<>(pc = "idle")

\* The blocks that are answered for are right, and those of the disk.
DataIsRight == TypeOK /\ ReadIsRight /\ WriteIsRight /\ InsideTheDisk

\* A late, lost or repeated step of the transport changes nothing that it should not.
TransportIsSound == OnlyItsBlocks /\ StatusIsTheDevices /\ OneFaultIsSurvived

-----------------------------------------------------------------------------
(* Why it is so: a status that is not of the command in hand has another tag,  *)
(* for the tag comes round only after more faults than there are.              *)

Ops == {"none", "read", "write", "capacity", "sense", "other"}
Cmds == [state : {"ready", "data", "status"}, tag : 0 .. TagLimit, op : Ops, at : Nat, todo : Nat,
         miss : Nat, halt : BOOLEAN, verdict : {"passed", "failed", "phase"}]

TypesFit ==
    /\ TypeOK /\ disk \in [0 .. dev.blocks - 1 -> Nat]
    /\ req \in [cmd : Commands \cup {"none"}, off : Nat, len : Lengths \cup {0}, met : Nat]
    /\ run \in [op : Ops, wide : BOOLEAN, short : BOOLEAN, start : Nat, left : Nat]
    /\ bulk \in [tag : 0 .. TagLimit, tries : 0 .. Tries - 1, stalled : BOOLEAN]
    /\ dev \in [cmd : Cmds, blocks : Nat, in : BOOLEAN, out : BOOLEAN, gone : BOOLEAN,
                stale : Cmds, fair : BOOLEAN]
    /\ io \in [err : {"NoError", "Pending", "NoCmd", "DiskChanged", "BadLength"}, actual : Nat,
               status : {"none", "good", "check"}, told : Nat]
    /\ dev.cmd.state = "ready" <=> dev.cmd = Ready
    /\ dev.stale # Ready => dev.stale.state = "status"

\* The loop is on its way through the blocks of the request, which the disk has and a 10 byte
\* command reaches.
RunFits ==
    /\ total < LBALimit /\ (TellsTheSize \/ OneBlockWraps)
    /\ pc = "idle" => run = NoRun
    /\ pc # "idle" =>
          /\ run.op # "none" /\ bulk.tag > 0
          /\ run.op = "read" <=> Reads(req)
          /\ run.op = "write" <=> OnBlocks(req) /\ ~Reads(req)
          /\ OnBlocks(req) =>
                /\ First(req) + Blocks(req) <= total
                /\ run.left \in 1 .. Blocks(req) /\ run.start = First(req) + Done

\* How many commands ago c was sent.
Age(c) == IF c.tag <= bulk.tag THEN bulk.tag - c.tag ELSE bulk.tag - c.tag + TagLimit

\* A command that the device still has after n later ones took n faults to get there.
AgesFit ==
    /\ dev.cmd # Ready =>
          /\ dev.cmd.tag > 0 /\ Age(dev.cmd) <= faults
          /\ pc = "idle" => Age(dev.cmd) < faults
          /\ pc = "command" => Age(dev.cmd) > 0
    /\ dev.stale # Ready =>
          /\ dev.stale.tag > 0 /\ Age(dev.stale) \in 1 .. faults
          /\ pc = "idle" => Age(dev.stale) < faults

\* In the data phase the device waits for the data of the command in hand, or has a status of
\* an older one; and when it has the status of the command in hand its data is there.
DataFits ==
    /\ pc = "data" =>
          /\ Count > 0 /\ dev.cmd # Ready
          /\ dev.cmd.state = "data" =>
                /\ RightTag(dev.cmd) /\ dev.cmd.op = run.op
                /\ dev.cmd.at = WireLBA /\ dev.cmd.todo + dev.cmd.miss = Count
                /\ dev.cmd.halt => dev.cmd.miss > 0
          /\ dev.cmd.state = "status" => ~RightTag(dev.cmd)
    /\ pc = "status" /\ dev.cmd.state = "status" /\ RightTag(dev.cmd) /\ dev.cmd.miss = 0 =>
          \A s \in Done .. Done + Count - 1 :
              /\ run.op = "read" => buf[s] = disk[First(req) + s]
              /\ run.op = "write" => disk[First(req) + s] = Value(s)

\* The blocks before the loop are done.
BlocksDone ==
    pc # "idle" =>
        \A s \in 0 .. Done - 1 :
            /\ run.op = "read" => buf[s] = disk[First(req) + s]
            /\ run.op = "write" => disk[First(req) + s] = Value(s)

\* Nothing has gone wrong in this try.
Undisturbed ==
    /\ dev.stale = Ready /\ ~dev.out
    /\ \/ pc = "command" /\ dev.cmd = Ready /\ ~dev.in /\ ~bulk.stalled
       \/ pc = "data" /\ dev.cmd.state = "data" /\ ~dev.in
       \/ pc = "status" /\ dev.cmd.state = "status" /\ RightTag(dev.cmd) /\ ~(dev.in /\ bulk.stalled)

\* Each try that failed took a fault, and so did this one if it will.
FaultsMet ==
    dev.fair /\ pc # "idle" =>
        /\ req.met >= bulk.tries + IF Undisturbed THEN 0 ELSE 1
        /\ dev.cmd # Ready /\ RightTag(dev.cmd) => dev.cmd.verdict = "passed" /\ dev.cmd.miss = 0

\* A device that is gone takes and gives nothing any more.
TransferInvariant ==
    /\ TypesFit /\ RunFits /\ BlocksDone /\ ReadIsRight /\ WriteIsRight
    /\ ~dev.gone => AgesFit /\ DataFits /\ FaultsMet

=============================================================================
