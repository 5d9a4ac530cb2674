----------------------------- MODULE EHCITransfer -----------------------------
(***************************************************************************)
(* Drivers/EHCI: what becomes of one request after another on an endpoint:     *)
(* the chain of transfer descriptors (TDs) that *_Build() makes under a queue  *)
(* head, the controller that loads them into the overlay of the queue head and *)
(* executes them packet by packet, EHCI_Transfer_Check(), *_Remove(),          *)
(* *_Length() and EHCI_Transfer_Free().                                        *)
(*                                                                         *)
(* Any interrupt of the controller makes the HCD look at all its transfers, so *)
(* the check may come between any two packets.  Lengths are in bytes of a      *)
(* device whose packets hold MaxPacket and of TDs that hold TDSize (20 KB).    *)
(***************************************************************************)
EXTENDS Naturals, Sequences, FiniteSets, FiniteSetsExt

CONSTANTS
    Lengths,    \* io_Length of the requests
    MaxPacket,  \* ep_MaxPacketSize
    TDSize,     \* bytes of a TD: a multiple of two packets
    Rounds      \* bound: requests in a behaviour

EHCITransferAssumption ==
    /\ Lengths \subseteq Nat /\ MaxPacket \in Nat \ {0} /\ Rounds \in Nat
    /\ TDSize \in Nat \ {0} /\ TDSize % (2 * MaxPacket) = 0

Types  == {"Control", "Bulk", "Interrupt"}
Errors == {"NoError", "Stall", "Timeout", "Overflow", "NoMemory", "NoBandWidth", "Aborted"}

VARIABLES
    phase,  \* "idle", "linked" to the schedule, "unlinked" until the door bell is answered
    req,    \* the request: its type, direction, length and io_AddZeroPackets
    chain,  \* its TDs in the order of ptd_virt_next
    ov,     \* the overlay of the queue head: what the controller executes
    ep,     \* ep_DataToggle and ep_Stalled
    dev,    \* the device's endpoint: its toggle, and what it sent and received in this transfer
    live,   \* the queue head, TDs and buffers that are allocated
    io,     \* io_Error and io_Actual
    rounds  \* requests so far
vars == <<phase, req, chain, ov, ep, dev, live, io, rounds>>

Lower(a, b) == IF a < b THEN a ELSE b
Flip(dt) == 1 - dt
NoRequest == [type |-> "Bulk", read |-> FALSE, length |-> 0, zero |-> FALSE]
\* EHCI_Get_QHBuffer() leaves the overlay empty, and its toggle 0.
NoOverlay == [cur |-> 0, active |-> FALSE, err |-> "NoError", left |-> 0, dt |-> 0]

Init ==
    /\ phase = "idle" /\ req = NoRequest /\ chain = <<>> /\ ov = NoOverlay
    /\ ep = [dt |-> 0, stalled |-> FALSE]
    /\ dev = [dt |-> 0, sent |-> 0, got |-> 0, offer |-> 0, over |-> FALSE, fast |-> FALSE, zlp |-> FALSE, skewed |-> FALSE]
    /\ live = {} /\ io = [err |-> "NoError", actual |-> 0] /\ rounds = 0

-----------------------------------------------------------------------------
(* *_Build() *)

\* EHCI_Get_TDBuffer() and the values its caller sets.
TD(pid, len, dt) == [pid |-> pid, size |-> len, left |-> len, dt |-> dt, active |-> TRUE, err |-> "NoError", alt |-> FALSE]

\* The TDs of the data: at least one, all with the same toggle and full but the last.
DataTDs(pid, len, dt) ==
    LET n == IF len = 0 THEN 1 ELSE (len + TDSize - 1) \div TDSize
    IN  [i \in 1 .. n |-> TD(pid, Lower(TDSize, len - (i - 1) * TDSize), dt)]

Zero(r) == ~r.read /\ r.zero /\ r.length # 0 /\ r.length % MaxPacket = 0
ZeroTD(r, dt) == IF Zero(r) THEN <<TD("out", 0, dt)>> ELSE <<>>

Bulk_Build(r, dt) == DataTDs(IF r.read THEN "in" ELSE "out", r.length, dt) \o ZeroTD(r, dt)
\* The same, once EHCI_Enough_Bandwidth() agreed.
Interrupt_Build(r, dt) == Bulk_Build(r, dt)

\* A short packet ends the data: the controller goes on with the status (td_td_alt).
ControlData(r) ==
    IF r.length = 0 THEN <<>>
    ELSE LET data == DataTDs(IF r.read THEN "in" ELSE "out", r.length, 1)
         IN  [i \in DOMAIN data |-> [data[i] EXCEPT !.alt = TRUE]]
Control_Build(r) ==
    <<TD("setup", MaxPacket, 0)>> \o ControlData(r) \o <<TD(IF r.read THEN "out" ELSE "in", 0, 1)>>

Build(r) ==
    CASE r.type = "Control" -> Control_Build(r)
      [] r.type = "Bulk" -> Bulk_Build(r, ep.dt)
      [] r.type = "Interrupt" -> Interrupt_Build(r, ep.dt)

(* Memory.  TD i of n is <<"td", i>> and its buffer <<"buffer", i>>: every TD has one   *)
(* but the status of a control transfer.                                      *)

Pairs(a, b) == [p \in 1 .. 2 * (b + 1 - a) |-> <<IF p % 2 = 1 THEN "td" ELSE "buffer", a + (p - 1) \div 2>>]
\* The order in which a chain of n TDs is allocated.
AllocOrder(type, n) ==
    <<<<"qh", 0>>>> \o (IF type = "Control" THEN Pairs(1, 1) \o <<<<"td", n>>>> \o Pairs(2, n - 1) ELSE Pairs(1, n))
\* The first k of a sequence.
First(s, k) == {s[i] : i \in 1 .. Lower(k, Len(s))}

\* What EHCI_Transfer_Free() reaches from the queue head after a build that came so far:
\* each TD is linked as soon as it is there, and a control transfer whose data fails links
\* its status behind the last TD.
Reached(type, n, got) == got

-----------------------------------------------------------------------------
(* HCD_ADD_REQUEST *)

Requests ==
    {r \in [type : Types, read : BOOLEAN, length : Lengths, zero : BOOLEAN] :
        /\ r.zero => ~r.read /\ r.type # "Control"
        /\ r.type = "Control" /\ r.length = 0 => ~r.read}

\* What a device may do with the request: send as much as was asked for or less, or a little
\* more; "fast" devices have their next message ready when this one ends with a short packet.
Offers(r) == IF r.read THEN 0 .. r.length + 1 ELSE {0}

Start(r, offer, fast) ==
    /\ phase' = "linked" /\ chain' = Build(r) /\ ov' = NoOverlay
    /\ live' = First(AllocOrder(r.type, Len(Build(r))), 2 * Len(Build(r)) + 1)
    /\ dev' = [dev EXCEPT !.sent = 0, !.got = 0, !.offer = offer, !.over = FALSE, !.fast = fast, !.zlp = FALSE,
                       !.skewed = r.type # "Control" /\ dev.dt # ep.dt]
    /\ io' = [err |-> "NoError", actual |-> 0]
    /\ UNCHANGED ep

\* A build that got only k pieces of memory, or no bandwidth: the request is answered at once.
Refuse(r, k, err) ==
    LET n == Len(Build(r))
        got == First(AllocOrder(r.type, n), k)
    IN  /\ live' = (live \cup got) \ Reached(r.type, n, got)
        /\ io' = [err |-> err, actual |-> 0]
        /\ UNCHANGED <<phase, chain, ov, ep, dev>>

Add_Request ==
    /\ phase = "idle" /\ rounds < Rounds /\ rounds' = rounds + 1
    /\ \E r \in Requests :
        /\ req' = r
        /\ rounds > 0 => (r.type = "Control") = (req.type = "Control")   \* it is one endpoint
        /\ \/ /\ ep.stalled /\ io' = [err |-> "Stall", actual |-> 0]
              /\ UNCHANGED <<phase, chain, ov, ep, dev, live>>
           \/ /\ ~ep.stalled
              /\ \E offer \in Offers(r), fast \in BOOLEAN : Start(r, offer, fast)
           \/ /\ ~ep.stalled
              /\ \E k \in 0 .. Len(AllocOrder(r.type, Len(Build(r)))) - 1 : Refuse(r, k, "NoMemory")
           \/ ~ep.stalled /\ r.type = "Interrupt" /\ Refuse(r, 0, "NoBandWidth")

\* The owner of the pipe clears the halt of the endpoint, on the device and here
\* (__HCD_Transfer_Remove() of that control transfer).
Destall ==
    /\ phase = "idle" /\ ep.stalled
    /\ ep' = [dt |-> 0, stalled |-> FALSE] /\ dev' = [dev EXCEPT !.dt = 0]
    /\ UNCHANGED <<phase, req, chain, ov, live, io, rounds>>

-----------------------------------------------------------------------------
(* The controller. *)

Running == phase # "idle"
\* The TD after the one that was executed: the alternate after a short packet, if there is one.
Following ==
    IF ov.cur # 0 /\ chain[ov.cur].alt /\ ov.left # 0 THEN Len(chain) ELSE ov.cur + 1

\* EHCI_QH_DTC: the toggle of the TD counts for bulk and interrupt endpoints only.
ToggleOf(i) == IF req.type = "Control" THEN ov.dt ELSE chain[i].dt

Load ==
    /\ Running /\ ~ov.active /\ ov.err = "NoError" /\ Following \in DOMAIN chain
    /\ ov' = [cur |-> Following, active |-> TRUE, err |-> "NoError",
              left |-> chain[Following].left, dt |-> ToggleOf(Following)]
    /\ UNCHANGED <<phase, req, chain, ep, dev, live, io, rounds>>

\* The overlay after a packet, and the TD it is written back to.
Step(left, done, err, dt) ==
    /\ ov' = [ov EXCEPT !.left = left, !.active = ~done, !.err = err, !.dt = dt]
    /\ chain' = [chain EXCEPT ![ov.cur].left = left, ![ov.cur].active = ~done, ![ov.cur].err = err]

Status == req.type = "Control" /\ ov.cur = Len(chain)
\* The toggle on the device's side: that of the status stage is always 1.
Expected == IF Status THEN 1 ELSE dev.dt

\* The device takes a packet with the toggle it expects, and believes any other repeated.
Out ==
    LET n == Lower(MaxPacket, ov.left)
        setup == chain[ov.cur].pid = "setup"
        new == setup \/ Expected = ov.dt
    IN  /\ chain[ov.cur].pid \in {"out", "setup"}
        /\ Step(ov.left - n, ov.left = n, "NoError", Flip(ov.dt))
        /\ dev' = [dev EXCEPT !.dt = IF setup THEN 1 ELSE IF new THEN Flip(dev.dt) ELSE dev.dt,
                              !.got = IF new /\ ~setup THEN @ + n ELSE @, !.zlp = new /\ n = 0]

\* What the device sends next: a short packet is the end of what it offers.
NextPacket ==
    CASE Status -> 0
      [] ~Status /\ dev.over -> 1                                  \* its next message
      [] OTHER -> Lower(MaxPacket, dev.offer - dev.sent)

Sent == dev' = [dev EXCEPT !.dt = Flip(@), !.sent = @ + NextPacket, !.over = @ \/ NextPacket < MaxPacket]

In ==
    /\ chain[ov.cur].pid = "in" /\ (dev.over /\ ~Status => dev.fast)
    /\ \/ /\ Expected = ov.dt /\ NextPacket > ov.left             \* babble
          /\ Step(ov.left, TRUE, "Overflow", ov.dt) /\ UNCHANGED dev
       \/ /\ Expected # ov.dt /\ UNCHANGED <<ov, chain>>          \* acknowledged and forgotten
          /\ Sent
       \/ /\ Expected = ov.dt /\ NextPacket <= ov.left
          /\ Step(ov.left - NextPacket, NextPacket = ov.left \/ NextPacket < MaxPacket, "NoError", Flip(ov.dt))
          /\ Sent

\* The device answers STALL, or not at all.
Fail(err) == Step(ov.left, TRUE, err, ov.dt) /\ UNCHANGED dev

Transact ==
    /\ Running /\ ov.active
    /\ \/ Out
       \/ In
       \/ chain[ov.cur].pid # "setup" /\ Fail("Stall")
       \/ Fail("Timeout")
    /\ UNCHANGED <<phase, req, ep, live, io, rounds>>

-----------------------------------------------------------------------------
(* EHCI_Transfer_Check(), *_Remove(), *_Length(), EHCI_Transfer_Free() *)

\* The first TD of a .. b that is not simply done, or b + 1.
FirstOf(a, b, stops) == Min({i \in a .. b : chain[i] \in stops} \cup {b + 1})

\* Variant: a TD that was not executed counts as a short one.
FinishedEarly ==
    LET stops == {td \in Range(chain) : td.err # "NoError" \/ td.left \notin {0, TDSize}}
        i == FirstOf(1, Len(chain), stops)
    IN  ~ov.active /\ (i \in DOMAIN chain => ~chain[i].active \/ chain[i].left # 0)
__is_QH_Finished ==
    LET stops == {td \in Range(chain) : td.active \/ td.err # "NoError" \/ td.left \notin {0, TDSize}}
        i == FirstOf(1, Len(chain), stops)
    IN  ~ov.active /\ (i \in DOMAIN chain => ~chain[i].active)

\* The bytes of TDs a .. b up to the first that is not full, and that TD's error.
LengthOf(a, b) ==
    LET stops == {td \in Range(chain) : td.active \/ td.err # "NoError" \/ td.left # 0}
        i == FirstOf(a, b, stops)
        Bytes(j) == chain[j].size - chain[j].left
    IN  [actual |-> MapThenSumSet(Bytes, a .. i - 1)
                    + (IF i <= b /\ ~chain[i].active /\ chain[i].err = "NoError" THEN Bytes(i) ELSE 0),
         err |-> IF i <= b THEN chain[i].err ELSE "NoError"]
Bulk_Length == LengthOf(1, Len(chain))
Interrupt_Length == LengthOf(1, Len(chain))
\* The setup first; the last TD, the status, is not looked at.
Control_Length ==
    IF chain[1].active \/ chain[1].err # "NoError" THEN [actual |-> 0, err |-> chain[1].err]
    ELSE LengthOf(2, Len(chain) - 1)

Length ==
    IF req.type = "Control" THEN Control_Length
    ELSE IF req.type = "Bulk" THEN Bulk_Length ELSE Interrupt_Length

\* The request leaves the schedule: the check says so, or an abort, the watchdog or the owner.
Unlink(err) ==
    /\ phase = "linked" /\ phase' = "unlinked" /\ io' = [io EXCEPT !.err = err]
    /\ UNCHANGED <<req, chain, ov, ep, dev, live, rounds>>
Transfer_Check == phase = "linked" /\ __is_QH_Finished /\ Unlink("NoError")
Abort == Unlink("Aborted")

\* ep_DataToggle is what the overlay has when the controller let go of it.
SavedToggle == IF req.type = "Control" THEN ep.dt ELSE ov.dt

\* The door bell was answered: the rest of __HCD_Transfer_Remove().
Transfer_Remove ==
    LET n == Len(chain)
        ended == IF io.err = "NoError" THEN Length ELSE [actual |-> 0, err |-> io.err]
    IN  /\ phase = "unlinked" /\ phase' = "idle"
        /\ io' = [err |-> ended.err, actual |-> ended.actual]
        /\ ep' = [dt |-> SavedToggle, stalled |-> ended.err = "Stall"]
        /\ live' = live \ Reached(req.type, n, First(AllocOrder(req.type, n), 2 * n + 1))
        /\ UNCHANGED <<req, chain, ov, dev, rounds>>

Next == Add_Request \/ Destall \/ Load \/ Transact \/ Transfer_Check \/ Abort \/ Transfer_Remove
Spec == Init /\ [][Next]_vars

-----------------------------------------------------------------------------
(* Properties. *)

TypeOK ==
    /\ phase \in {"idle", "linked", "unlinked"} /\ req \in [type : Types, read : BOOLEAN, length : Lengths \cup {0}, zero : BOOLEAN]
    /\ ov.cur \in 0 .. Len(chain) /\ io.err \in Errors /\ ep \in [dt : 0 .. 1, stalled : BOOLEAN]
    /\ \A i \in DOMAIN chain : chain[i].left \in 0 .. chain[i].size

\* A TD before the last ended with a short packet: nothing stops the controller from loading
\* the next one, and *_Length() does not look behind it.
ShortInside ==
    \E i \in 1 .. Len(chain) - 1 : ~chain[i].active /\ chain[i].err = "NoError" /\ chain[i].left # 0

\* Whatever allocation of a build fails, and however a transfer ends, its queue head, TDs
\* and buffers are all given back.
MemoryFreed == phase = "idle" => live = {}

\* When a request is answered without an error, io_Actual counts every byte the device sent
\* for it or took.  (Not when a TD inside the chain was short, or the toggles differed.)
NothingLost ==
    [][phase = "unlinked" /\ phase' = "idle" /\ io'.err = "NoError" /\ ~ShortInside /\ ~dev.skewed
       => io'.actual = (IF req.read THEN dev.sent ELSE dev.got)]_vars

\* If the driver and the device agreed on the next toggle before a transfer, they do after it.
\* (Not when a TD inside the chain was short, nor when the transfer was taken away before the
\* controller loaded its first TD: then the toggle of the empty overlay is saved; nor when a
\* transfer with a zero packet failed at that.)
ToggleAgrees ==
    [][phase = "unlinked" /\ phase' = "idle" /\ req.type # "Control" /\ ~dev.skewed
       /\ ~ShortInside /\ ov.cur # 0 /\ (Zero(req) => io'.err = "NoError")
       => ep'.dt = dev.dt]_vars

\* A device that was promised a zero packet gets it, when the packets before it are an even
\* number: the TD of the zero packet has the toggle of the first one.
ZeroPacketTaken ==
    [][phase = "unlinked" /\ phase' = "idle" /\ io'.err = "NoError" /\ req.type # "Control" /\ Zero(req)
       /\ ~dev.skewed => dev.zlp = ((req.length \div MaxPacket) % 2 = 0)]_vars

\* Once EHCI_Transfer_Check() found a transfer finished, the controller has no packet of it
\* left to send until the door bell is answered.
QuietWhenFinished ==
    [][phase = "unlinked" /\ io.err = "NoError" /\ ~ShortInside => dev' = dev]_vars

\* The error of a TD is that of the request ("Should set io_Error if there are transfer
\* errors", Control_Length.c:53), but for the status stage of a control transfer, which the
\* loop leaves out, and for what is behind a short TD.
DataErrorsReported ==
    [][phase = "unlinked" /\ phase' = "idle" /\ io.err = "NoError" /\ ~ShortInside
       => \A i \in 1 .. Len(chain) - (IF req.type = "Control" THEN 1 ELSE 0) :
             chain[i].err # "NoError" => io'.err = chain[i].err]_vars

\* What a request is answered with is what happened on the bus.
AnswersAreTrue == NothingLost /\ ToggleAgrees /\ ZeroPacketTaken /\ QuietWhenFinished /\ DataErrorsReported

-----------------------------------------------------------------------------
(* Why the memory is freed and the descriptors stay within bounds.             *)

TDs == [pid : {"setup", "in", "out"}, size : Nat, left : Nat, dt : 0 .. 1, active : BOOLEAN,
        err : Errors, alt : BOOLEAN]

\* The overlay is that of a TD of the chain, and has as much left as was written back to it.
OverlayFits ==
    /\ ov \in [cur : Nat, active : BOOLEAN, err : Errors, left : Nat, dt : 0 .. 1]
    /\ ov.cur # 0 => ov.left = chain[ov.cur].left
    /\ ov.active => ov.cur # 0

\* A device sends no more than it offers, until it begins with its next message.
DeviceFits ==
    /\ dev.dt \in 0 .. 1 /\ {dev.sent, dev.got, dev.offer} \subseteq Nat /\ dev.over \in BOOLEAN
    /\ DOMAIN dev = {"dt", "sent", "got", "offer", "over", "fast", "zlp", "skewed"}
    /\ ~dev.over => dev.sent <= dev.offer

\* A transfer that is under way has all the memory of its chain.
MemoryHeld ==
    phase # "idle" => chain # <<>> /\ live = First(AllocOrder(req.type, Len(chain)), 2 * Len(chain) + 1)

TransferInvariant ==
    /\ TypeOK /\ chain \in Seq(TDs) /\ DOMAIN io = {"err", "actual"}
    /\ OverlayFits /\ DeviceFits /\ MemoryFreed /\ MemoryHeld

=============================================================================
