----------------------------- MODULE OHCITransfer -----------------------------
(***************************************************************************)
(* Drivers/OHCI: one request after another on an endpoint, from *_Build() to   *)
(* OHCI_Transfer_Free().  The transfer descriptors hang on an endpoint         *)
(* descriptor (ED) and end with a dummy; the controller executes them from the *)
(* head to the dummy, and writes a condition code (CC) into each that it       *)
(* retired.  The last one interrupts; an interrupt makes the HCD check all its *)
(* transfers, so the check may come between any two packets.                   *)
(***************************************************************************)
EXTENDS Naturals, Sequences, FiniteSets, FiniteSetsExt

CONSTANTS
    Lengths,    \* io_Length of the requests
    MaxPacket,  \* ep_MaxPacketSize
    TDSize,     \* bytes of a TD (8 KB): a multiple of two packets
    Rounds      \* bound: requests in a behaviour

OHCITransferAssumption ==
    /\ Lengths \subseteq Nat /\ MaxPacket \in Nat \ {0} /\ Rounds \in Nat
    /\ TDSize \in Nat /\ TDSize % (2 * MaxPacket) = 0 /\ MaxPacket < TDSize

VARIABLES
    phase,  \* "idle", "linked", "unlinked" until the controller cannot hold the ED
    req,    \* the request
    chain,  \* its TDs in the order of ptd_virt_next, the dummy last
    head,   \* ed_headp: the TD that is executed
    halted, \* the ED's halted bit
    dt,     \* ep_DataToggle, the device's toggle and the carry of the ED
    dev,    \* what the device sent and took
    live,   \* the ED, TDs and buffers that are allocated
    io,     \* io_Error and io_Actual
    rounds
vars == <<phase, req, chain, head, halted, dt, dev, live, io, rounds>>

Lower(a, b) == IF a < b THEN a ELSE b
Flip(t) == 1 - t

Init ==
    /\ phase = "idle" /\ chain = <<>> /\ head = 0 /\ halted = FALSE
    /\ req = [type |-> "Bulk", read |-> FALSE, length |-> 0, flag |-> FALSE]
    /\ dt = [ep |-> 0, dev |-> 0, carry |-> 0] /\ dev = [sent |-> 0, got |-> 0, offer |-> 0, skewed |-> FALSE]
    /\ live = {} /\ io = [err |-> "NoError", actual |-> 0] /\ rounds = 0

-----------------------------------------------------------------------------
(* *_Build(), with OHCI_Get_TDBuffer() and OHCI_Get_8kBuffer() *)

\* io_AddZeroPackets of a write, io_AllowShortPackets of a read: the flag of the request.
\* A TD with the R bit may end short; the CC of a TD that was not executed is "none".
TD(r, pid, len, t) ==
    [pid |-> pid, size |-> len, left |-> len, dt |-> t, cc |-> "none", round |-> r.read /\ r.flag /\ pid = "in", buf |-> TRUE]
\* Variant: the blank TD's CC is set to NOT_ACCESSED.
NotAccessed == [pid |-> "setup", size |-> 0, left |-> 0, dt |-> 0, cc |-> "none", round |-> FALSE, buf |-> FALSE]
\* A TD as it comes from the pool: all bits 0, so that its CC is that of success, its token
\* SETUP, and its toggle that of the ED.  It is the dummy, and the zero packet of a bulk write.
Blank == [pid |-> "setup", size |-> 0, left |-> 0, dt |-> 0, cc |-> "ok", round |-> FALSE, buf |-> FALSE]

\* The toggle alternates from TD to TD.
DataTDs(r) ==
    LET n == IF r.length = 0 THEN 1 ELSE (r.length + TDSize - 1) \div TDSize
    IN  [i \in 1 .. n |-> TD(r, IF r.read THEN "in" ELSE "out", Lower(TDSize, r.length - (i - 1) * TDSize),
                             (dt.ep + i - 1) % 2)]
Zero(r) == ~r.read /\ r.flag /\ r.length # 0 /\ r.length % MaxPacket = 0
ZeroTD(r) == IF Zero(r) THEN <<Blank>> ELSE <<>>

Bulk_Build(r) == DataTDs(r) \o ZeroTD(r) \o <<Blank>>
Interrupt_Build(r) == Bulk_Build(r)

\* One TD for all the data; the status has no buffer.
StatusTD(r) == [TD(r, IF r.read THEN "out" ELSE "in", 0, 1) EXCEPT !.buf = FALSE, !.round = FALSE]
Control_Build(r) ==
    <<TD(r, "setup", MaxPacket, 0)>>
    \o (IF r.length = 0 THEN <<>> ELSE <<TD(r, IF r.read THEN "in" ELSE "out", r.length, 1)>>)
    \o <<StatusTD(r), Blank>>

Build(r) ==
    CASE r.type = "Control" -> Control_Build(r)
      [] r.type = "Bulk" -> Bulk_Build(r)
      [] r.type = "Interrupt" -> Interrupt_Build(r)

\* What a chain is made of; it is allocated TD by TD, each with its buffer.
Pieces(c) == {<<"ed", 0>>} \cup {<<"td", i>> : i \in DOMAIN c} \cup {<<"buffer", i>> : i \in {j \in DOMAIN c : c[j].buf}}
FirstTDs(c, n, buffer) ==
    {<<"ed", 0>>} \cup {<<"td", i>> : i \in 1 .. n}
    \cup {<<"buffer", i>> : i \in {j \in 1 .. n : c[j].buf /\ (j < n \/ buffer)}}
\* OHCI_Transfer_Free(): every TD is linked before its buffer is got.
Transfer_Free(c, got) == got

-----------------------------------------------------------------------------
(* HCD_ADD_REQUEST *)

Requests ==
    {r \in [type : {"Control", "Bulk", "Interrupt"}, read : BOOLEAN, length : Lengths, flag : BOOLEAN] :
        /\ r.type = "Control" /\ r.length = 0 => ~r.read
        /\ r.type = "Control" => r.length <= TDSize /\ (r.flag => r.read)}

\* The memory gives out after n TDs, the last with or without its buffer (0: not even the ED).
Refuse(c, n, buffer) ==
    LET got == IF n = 0 THEN {} ELSE FirstTDs(c, n - 1, buffer)
    IN  /\ live' = (live \cup got) \ Transfer_Free(c, got)
        /\ io' = [err |-> "NoMemory", actual |-> 0]
        /\ UNCHANGED <<phase, chain, head, halted, dt, dev>>

Start(r, c, offer) ==
    /\ phase' = "linked" /\ chain' = c /\ head' = 1 /\ halted' = FALSE
    /\ live' = live \cup Pieces(c) /\ io' = [err |-> "NoError", actual |-> 0]
    /\ dev' = [sent |-> 0, got |-> 0, offer |-> offer, skewed |-> r.type # "Control" /\ dt.dev # dt.ep]
    /\ dt' = [dt EXCEPT !.carry = 0]

Add_Request ==
    /\ phase = "idle" /\ rounds < Rounds /\ rounds' = rounds + 1
    /\ \E r \in Requests :
        LET c == Build(r)
        IN  /\ req' = r
            /\ rounds > 0 => (r.type = "Control") = (req.type = "Control")
            /\ \/ \E offer \in (IF r.read THEN 0 .. r.length + 1 ELSE {0}) : Start(r, c, offer)
               \/ \E n \in 0 .. Len(c), buffer \in BOOLEAN : Refuse(c, n, buffer)

-----------------------------------------------------------------------------
(* The controller. *)

Runs == phase # "idle" /\ ~halted /\ head < Len(chain)
Now == chain[head]
Status == req.type = "Control" /\ head = Len(chain) - 1

\* A packet of n bytes after which the TD's toggle is t and the device's is d; the TD retires
\* with code cc and leaves its toggle in the ED, or goes on ("none").
Step(n, cc, t, d) ==
    /\ chain' = [chain EXCEPT ![head].left = @ - n, ![head].cc = cc, ![head].dt = t]
    /\ head' = IF cc = "ok" THEN head + 1 ELSE head
    /\ halted' = (cc \notin {"ok", "none"})
    /\ dt' = [dt EXCEPT !.dev = d, !.carry = IF cc = "none" THEN @ ELSE t]

\* The device's toggle: that of a status stage is 1, and a SETUP makes that of the data 1.
Expected == IF Status THEN 1 ELSE dt.dev

Out ==
    LET n == Lower(MaxPacket, Now.left)
        setup == Now.pid = "setup"
        new == setup \/ Expected = Now.dt
    IN  /\ Now.pid = "out" \/ (setup /\ req.type = "Control")
        /\ Step(n, IF Now.left = n THEN "ok" ELSE "none", Flip(Now.dt),
                IF setup THEN 1 ELSE IF new THEN Flip(dt.dev) ELSE dt.dev)
        /\ dev' = [dev EXCEPT !.got = IF new /\ ~setup THEN @ + n ELSE @]

\* An IN that the device answers: a short packet is an underrun, but for a TD that may be short.
In ==
    LET n == IF Status THEN 0 ELSE Lower(MaxPacket, dev.offer - dev.sent)
        cc == CASE n = Now.left -> "ok" [] n # Now.left /\ n = MaxPacket -> "none"
                [] OTHER -> IF Now.round THEN "ok" ELSE "underrun"
    IN  /\ Now.pid = "in"
        /\ \/ Expected = Now.dt /\ n > Now.left /\ Step(0, "overrun", Now.dt, dt.dev) /\ UNCHANGED dev
           \/ /\ Expected # Now.dt   \* acknowledged and forgotten; three times, and the TD fails
              /\ \E code \in {"none", "toggle"} : Step(0, code, Now.dt, Flip(dt.dev))
              /\ dev' = [dev EXCEPT !.sent = @ + n]
           \/ /\ Expected = Now.dt /\ n <= Now.left /\ Step(n, cc, Flip(Now.dt), Flip(dt.dev))
              /\ dev' = [dev EXCEPT !.sent = @ + n]

Transact ==
    /\ Runs
    /\ \/ Out
       \/ In
       \/ \E cc \in {"stall", "noanswer"} : Step(0, cc, Now.dt, dt.dev) /\ UNCHANGED dev
    /\ UNCHANGED <<phase, req, live, io, rounds>>

-----------------------------------------------------------------------------
(* OHCI_Transfer_Check(), *_Remove(), *_Length(), OHCI_Transfer_Free() *)

\* The first TD from a on that is one of stops, or the end.
FirstOf(a, stops) == Min({i \in a .. Len(chain) : chain[i] \in stops} \cup {Len(chain) + 1})

\* The walk ends at a TD that was not executed or failed, and at one whose buffer holds, or
\* would hold, less than a full one.
__is_ED_Finished ==
    LET Rest(td) == IF td.left # 0 THEN td.left ELSE td.size
        stops == {td \in Range(chain) : td.cc # "ok" \/ (td.buf /\ Rest(td) < TDSize)}
        i == FirstOf(1, stops)
    IN  i \in DOMAIN chain => chain[i].cc # "none"

ErrorOf(cc) ==
    CASE cc = "stall" -> "Stall" [] cc = "noanswer" -> "Timeout" [] cc = "overrun" -> "Overflow"
      [] cc = "underrun" -> "RuntPacket" [] cc = "toggle" -> "HostError" [] OTHER -> "NoError"

\* From TD a on: up to one without buffer, not executed, failed or short.  An underrun is
\* not an error here.
LengthFrom(a) ==
    LET Ends(td) == ~td.buf \/ td.cc \notin {"ok", "underrun"}
        stops == {td \in Range(chain) : Ends(td) \/ td.left # 0}
        i == FirstOf(a, stops)
        Bytes(j) == chain[j].size - chain[j].left
        counted == IF i \in DOMAIN chain /\ ~Ends(chain[i]) THEN a .. i ELSE a .. i - 1
    IN  [actual |-> MapThenSumSet(Bytes, counted),
         err |-> IF i \in DOMAIN chain /\ chain[i].buf /\ Ends(chain[i]) THEN ErrorOf(chain[i].cc) ELSE "NoError"]
\* The first TD is looked at for an error and skipped.
AfterFirst ==
    IF chain[1].cc = "none" THEN [actual |-> 0, err |-> "NoError"]
    ELSE IF chain[1].cc # "ok" THEN [actual |-> 0, err |-> ErrorOf(chain[1].cc)]
    ELSE LengthFrom(2)
Control_Length == AfterFirst
\* The same, though the first TD of a bulk transfer holds data.
Bulk_Length == AfterFirst
Interrupt_Length == LengthFrom(1)

Length ==
    CASE req.type = "Control" -> Control_Length
      [] req.type = "Bulk" -> Bulk_Length
      [] req.type = "Interrupt" -> Interrupt_Length

Unlink(err) ==
    /\ phase = "linked" /\ phase' = "unlinked" /\ io' = [io EXCEPT !.err = err]
    /\ UNCHANGED <<req, chain, head, halted, dt, dev, live, rounds>>
Transfer_Check == phase = "linked" /\ __is_ED_Finished /\ Unlink("NoError")
Abort == Unlink("Aborted")

\* OHCI_Interrupt_Remove() takes the toggle over from the ED; OHCI_Bulk_Remove() does not.
SavedToggle == IF req.type = "Interrupt" THEN dt.carry ELSE dt.ep

\* After *_Remove() has waited for the controller.
Transfer_Remove ==
    /\ phase = "unlinked" /\ phase' = "idle"
    /\ io' = IF io.err = "NoError" THEN Length ELSE [actual |-> 0, err |-> io.err]
    /\ live' = live \ Transfer_Free(chain, Pieces(chain))
    /\ dt' = [dt EXCEPT !.ep = SavedToggle]
    /\ UNCHANGED <<req, chain, head, halted, dev, rounds>>

\* The owner clears the halt of the endpoint: both toggles are 0.
Destall ==
    /\ phase = "idle" /\ io.err = "Stall" /\ dt # [dt EXCEPT !.ep = 0, !.dev = 0]
    /\ dt' = [dt EXCEPT !.ep = 0, !.dev = 0]
    /\ UNCHANGED <<phase, req, chain, head, halted, dev, live, io, rounds>>

Next == Add_Request \/ Transact \/ Transfer_Check \/ Abort \/ Transfer_Remove \/ Destall
Spec == Init /\ [][Next]_vars

-----------------------------------------------------------------------------
(* Properties. *)

TypeOK ==
    /\ phase \in {"idle", "linked", "unlinked"} /\ head \in 0 .. Len(chain) /\ halted \in BOOLEAN
    /\ dt \in [ep : 0 .. 1, dev : 0 .. 1, carry : 0 .. 1]
    /\ io.err \in {"NoError", "Stall", "Timeout", "Overflow", "RuntPacket", "HostError", "NoMemory", "Aborted"}
    /\ \A i \in DOMAIN chain : chain[i].left \in 0 .. chain[i].size

\* Whatever allocation fails, and however a transfer ends, all its memory is given back.
MemoryFreed == phase = "idle" => live = {}

\* The controller has nothing more to do for the transfer: the check finds it finished.
EndIsFound == phase = "linked" /\ ~Runs => __is_ED_Finished

\* Every TD was executed: none of them waits, and none was left out by a short one.
Executed == halted \/ head = Len(chain)
\* An interrupt or control request that is answered without an error when all of it was executed
\* has counted each byte that the device sent or took.  (The early answers are those of the check
\* that takes a setup or any TD of less than 8 KB that is done for the end of the transfer.)
NothingLost ==
    [][phase = "unlinked" /\ phase' = "idle" /\ io'.err = "NoError" /\ Executed /\ ~dev.skewed
       /\ (req.type = "Control" \/ (req.type = "Interrupt" /\ req.length <= TDSize /\ ~Zero(req)))
       => io'.actual = (IF req.read THEN dev.sent ELSE dev.got)]_vars

\* After an interrupt transfer of one TD that was executed, driver and device agree on the next
\* toggle if they did before it.
ToggleAgrees ==
    [][phase = "unlinked" /\ phase' = "idle" /\ req.type = "Interrupt" /\ req.length <= TDSize /\ ~Zero(req)
       /\ ~dev.skewed /\ Executed => dt'.ep = dt.dev]_vars

\* An error of the setup or of the data is that of the request.
DataErrorsReported ==
    [][phase = "unlinked" /\ phase' = "idle" /\ io.err = "NoError" /\ halted /\ chain[head].buf
       /\ (\A i \in 1 .. head - 1 : chain[i].left = 0) /\ chain[head].cc # "underrun"
       => io'.err = ErrorOf(chain[head].cc)]_vars

\* The packets of a control transfer go with the toggles the device expects.
ControlToggles == Runs /\ req.type = "Control" /\ Now.pid # "setup" => Now.dt = Expected

\* What a request is answered with is what happened on the bus.
AnswersAreTrue == NothingLost /\ ToggleAgrees /\ DataErrorsReported

\* A transfer goes with the device's toggles, comes to its end, and gives its memory back.
TransferIsSound == TypeOK /\ MemoryFreed /\ EndIsFound /\ ControlToggles

-----------------------------------------------------------------------------
(* Why a transfer is sound.                                                    *)

TDs == [pid : {"setup", "in", "out"}, size : Nat, left : Nat, dt : 0 .. 1,
        cc : {"none", "ok", "stall", "noanswer", "overrun", "underrun", "toggle"},
        round : BOOLEAN, buf : BOOLEAN]

\* A device sends no more than it offers.
DeviceFits ==
    /\ {dev.sent, dev.got, dev.offer} \subseteq Nat /\ dev.sent <= dev.offer
    /\ DOMAIN dev = {"sent", "got", "offer", "skewed"}

\* The TDs before the head were executed without an error, the head is the one that failed if
\* one did, and the dummy looks as if it were done.
HeadFits ==
    /\ head \in 1 .. Len(chain) /\ live = Pieces(chain) /\ chain[Len(chain)].cc = "ok"
    /\ \A i \in 1 .. head - 1 : chain[i].cc = "ok"
    /\ halted => head < Len(chain) /\ chain[head].cc \notin {"ok", "none"}

\* The setup is one packet and the status an empty one; the data has the device's toggle, and the
\* status, like the data that has not begun, 1.
ControlFits ==
    /\ chain[1].pid = "setup" /\ (head = 1 => chain[1].left = MaxPacket)
    /\ chain[Len(chain) - 1].left = 0
    /\ \A i \in 2 .. Len(chain) - 1 : chain[i].pid # "setup" /\ (i > head => chain[i].dt = 1)
    /\ ~halted /\ 1 < head /\ head < Len(chain) =>
          chain[head].dt = IF head = Len(chain) - 1 THEN 1 ELSE dt.dev

TransferInvariant ==
    /\ TypeOK /\ MemoryFreed /\ chain \in Seq(TDs) /\ DOMAIN io = {"err", "actual"}
    /\ req.type \in {"Control", "Bulk", "Interrupt"} /\ DeviceFits
    /\ phase # "idle" => HeadFits /\ (req.type = "Control" => Len(chain) \in 3 .. 4 /\ ControlFits)

=============================================================================
