------------------------------ MODULE XHCIRing ------------------------------
(***************************************************************************)
(* The transfer ring of one xHCI endpoint (Drivers/XHCI): an array of TRBs   *)
(* whose last one is a link back to the first.  The HCD task writes the      *)
(* TRBs of one transfer (a TD) behind each other, the body of a TRB before   *)
(* the cycle bit that activates it; the controller runs concurrently and     *)
(* takes a TRB when its cycle bit is the one it expects.  Nobody tells the   *)
(* producer how far the controller is, and the producer never asks: what     *)
(* keeps it from overwriting is that an endpoint has one transfer at a time, *)
(* that a TD fits the ring, and that a transfer given up is flushed.         *)
(*                                                                         *)
(* Stores become visible to the controller in the order of the program.      *)
(***************************************************************************)
EXTENDS Integers, Sequences

CONSTANTS
    Size,       \* ring->size, the link TRB included
    MaxTRBs,    \* the longest TD: data chunks, zero-length packet and Event Data TRB
    Flushes,    \* BOOLEAN: the endpoint's X_Remove is Bulk_Remove or Interrupt_Remove,
                \* FALSE for Control_Remove
    CanHalt,    \* BOOLEAN: a transfer may end in a stall or a transaction error
    CanAbort,   \* BOOLEAN: a transfer may be removed before its event
    NoMemory,   \* BOOLEAN: Control_Build may find no buffer for the data stage
    MaxLeft,    \* bound on the TRBs on the ring when a control request finds no memory
    MaxTDs      \* bound on the transfers

\* XHCI_BULK_RING_CHUNKS is Size - 4, and a TD has a zero packet and an Event Data TRB
\* besides.  One slot less would not do: a TD that fills a lap passes the link before the
\* controller has followed it from the lap before.  Setup TRBs that were left lie before
\* the TD: nothing in the code keeps them few, only the bound does.
ASSUME RingAssumption ==
    /\ Size \in Nat /\ MaxTRBs \in Nat /\ MaxTDs \in Nat /\ MaxLeft \in Nat
    /\ 1 <= MaxTRBs /\ MaxLeft + MaxTRBs <= Size - 2
    /\ Flushes \in BOOLEAN /\ CanHalt \in BOOLEAN
    /\ CanAbort \in BOOLEAN /\ NoMemory \in BOOLEAN

VARIABLES
    trb,        \* ring->trbs but for the cycle bits: which TRB, of which TD, its last
    bit,        \* the cycle bits of ring->trbs
    enqueue,    \* ring->enqueue
    cycle,      \* ring->cycle
    step,       \* where XHCI_Ring_Enqueue_TRB() is: "idle", "body", "control" or "link"
    left,       \* the TRBs of the TD not yet written
    td,         \* the number of the request that last had the endpoint
    request,    \* what it does: "none", "active" (in the active list), "aborted"
    hw,         \* the endpoint's state in the controller: "run", "stopped", "halted"
    hwDequeue,  \* the controller's dequeue pointer
    hwCycle,    \* and its cycle state
    events,     \* transfer events not yet read: the TDs they are for
    sent,       \* history: the number of TRBs activated
    ran         \* history: the last TRB run by the controller, or flushed

producerVars == <<trb, bit, enqueue, cycle, step, left, sent>>
hwVars == <<hw, hwDequeue, hwCycle, ran>>
vars == <<producerVars, td, request, hwVars, events>>

Link == Size - 1
Slots == 0 .. Link
TRBs == [n : Nat, td : Nat, last : BOOLEAN]

TypeOK ==
    /\ trb \in [Slots -> TRBs] /\ bit \in [Slots -> {0, 1}]
    /\ enqueue \in Slots /\ cycle \in {0, 1}
    /\ step \in {"idle", "body", "control", "link"}
    /\ left \in 0 .. MaxTRBs
    /\ td \in Nat /\ request \in {"none", "active", "aborted"}
    /\ hw \in {"run", "stopped", "halted"}
    /\ hwDequeue \in Slots /\ hwCycle \in {0, 1}
    /\ events \in Seq(Nat)
    /\ sent \in Nat /\ ran \in Nat

\* XHCI_Ring_Init() and the endpoint context's dequeue pointer with DCS = 1.
Init ==
    /\ trb = [i \in Slots |-> [n |-> 0, td |-> 0, last |-> FALSE]]
    /\ bit = [i \in Slots |-> 0]
    /\ enqueue = 0 /\ cycle = 1 /\ step = "idle" /\ left = 0
    /\ td = 0 /\ request = "none"
    /\ hw = "run" /\ hwDequeue = 0 /\ hwCycle = 1
    /\ events = <<>> /\ sent = 0 /\ ran = 0

-----------------------------------------------------------------------------
(* The HCD task *)

\* XHCI_Bulk_Build() and its like: a TD of n TRBs for the endpoint's next request.
Build(n) ==
    /\ step = "idle" /\ request = "none" /\ td < MaxTDs
    /\ left' = n /\ step' = "body"
    /\ td' = td + 1 /\ request' = "active"
    /\ UNCHANGED <<trb, bit, enqueue, cycle, sent, hwVars, events>>

\* XHCI_Ring_Enqueue_TRB(): parameter and status first ...
WriteBody ==
    /\ step = "body"
    /\ trb' = [trb EXCEPT ![enqueue] = [n |-> sent + 1, td |-> td, last |-> left = 1]]
    /\ step' = "control"
    /\ UNCHANGED <<bit, enqueue, cycle, left, td, request, hwVars, events, sent>>

NextTRB(l) == IF l = 0 THEN "idle" ELSE "body"

\* ... then the control word with the cycle bit, and the index advances ...
WriteControl ==
    /\ step = "control"
    /\ bit' = [bit EXCEPT ![enqueue] = cycle]
    /\ sent' = sent + 1
    /\ left' = left - 1
    /\ enqueue' = enqueue + 1
    /\ step' = IF enqueue + 1 >= Link THEN "link" ELSE NextTRB(left - 1)
    /\ UNCHANGED <<trb, cycle, td, request, hwVars, events>>

CycleAfterLink == 1 - cycle

\* ... to the link TRB, which is activated, and back to the start.
WriteLink ==
    /\ step = "link"
    /\ bit' = [bit EXCEPT ![Link] = cycle]
    /\ cycle' = CycleAfterLink
    /\ enqueue' = 0
    /\ step' = NextTRB(left)
    /\ UNCHANGED <<trb, left, td, request, hwVars, events, sent>>

\* XHCI_Control_Build() finds no memory when the Setup TRB is on the ring: the request is
\* answered with the error, the TRB stays.  (The other two allocate first.)
LoseSetup ==
    /\ NoMemory /\ ~ Flushes
    /\ step = "body" /\ left = 2 /\ \E i \in Slots : trb[i].td = td
    /\ sent - ran <= MaxLeft
    /\ step' = "idle" /\ left' = 0 /\ request' = "none"
    /\ UNCHANGED <<trb, bit, enqueue, cycle, sent, td, hwVars, events>>

\* XHCI_Handler_HCD() matches a transfer event by slot and endpoint: it completes the
\* request that is in the active list now.
ReadEvent ==
    /\ step = "idle" /\ events # <<>>
    /\ events' = Tail(events)
    /\ request' = IF request = "active" THEN "none" ELSE request
    /\ UNCHANGED <<producerVars, td, hwVars>>

\* Variant: no removal stops the endpoint.
StopsNothing == FALSE

StopsEndpoint == Flushes

\* X_Remove() of a request whose event has not come.  XHCI_Transfer_Abort() stops the
\* endpoint, which a halted one is not; XHCI_Control_Remove() does nothing.
Remove ==
    /\ CanAbort /\ step = "idle" /\ request = "active"
    /\ IF StopsEndpoint
       THEN request' = "aborted" /\ hw' = IF hw = "run" THEN "stopped" ELSE hw
       ELSE request' = "none" /\ UNCHANGED hw
    /\ UNCHANGED <<producerVars, td, hwDequeue, hwCycle, ran, events>>

\* Variant: the Dequeue Cycle State is taken for 1.
FlushCycleOne == 1

FlushCycle == cycle

\* Variant: the dequeue pointer stays at the transfer that was given up.
FlushNothing == hwDequeue

FlushTo == enqueue

\* ... waits for the completion, by which the events before it have been read, and
\* moves the stopped endpoint's dequeue pointer behind everything enqueued.
Flush ==
    /\ request = "aborted" /\ events = <<>>
    /\ request' = "none"
    /\ IF hw = "stopped"
       THEN hw' = "run" /\ hwDequeue' = FlushTo /\ hwCycle' = FlushCycle /\ ran' = sent
       ELSE UNCHANGED hwVars
    /\ UNCHANGED <<producerVars, td, events>>

-----------------------------------------------------------------------------
(* The controller *)

Active == hw = "run" /\ bit[hwDequeue] = hwCycle

\* It runs a TRB; the last one of a TD makes an event.
Run ==
    /\ Active /\ hwDequeue # Link
    /\ ran' = trb[hwDequeue].n
    /\ hwDequeue' = hwDequeue + 1
    /\ events' = IF trb[hwDequeue].last THEN Append(events, trb[hwDequeue].td) ELSE events
    /\ UNCHANGED <<producerVars, td, request, hw, hwCycle>>

\* Variant: the link TRB lacks Toggle Cycle.
LinkKeepsCycle == hwCycle

LinkTogglesCycle == 1 - hwCycle

\* The link TRB as XHCI_Ring_Init() placed it.
FollowLink ==
    /\ Active /\ hwDequeue = Link
    /\ hwDequeue' = 0
    /\ hwCycle' = LinkTogglesCycle
    /\ UNCHANGED <<producerVars, td, request, hw, ran, events>>

\* A stall or a transaction error: the endpoint halts at the TRB, with an event.
Halt ==
    /\ CanHalt /\ Active /\ hwDequeue # Link
    /\ hw' = "halted"
    /\ events' = Append(events, trb[hwDequeue].td)
    /\ UNCHANGED <<producerVars, td, request, hwDequeue, hwCycle, ran>>

-----------------------------------------------------------------------------

Producer == \/ \E n \in 1 .. MaxTRBs : Build(n)
            \/ WriteBody \/ WriteControl \/ WriteLink \/ LoseSetup
            \/ ReadEvent \/ Remove \/ Flush
Controller == Run \/ FollowLink \/ Halt

Next == Producer \/ Controller

Spec == Init /\ [][Next]_vars

\* The HCD task goes on with what it has begun, and a device that answers keeps its
\* controller running.
Fairness ==
    /\ WF_vars(WriteBody \/ WriteControl \/ WriteLink \/ ReadEvent \/ Flush)
    /\ WF_vars(Run \/ FollowLink)
LiveSpec == Spec /\ Fairness

-----------------------------------------------------------------------------
(* Safety *)

\* The controller runs each TRB once, in the order they were enqueued, and none before
\* it is complete: never one of an earlier lap, never one that is being written.
RunsInOrder == [][ran' # ran => \/ ran' = ran + 1 /\ ran' <= sent
                                \/ request = "aborted" /\ ran' = sent]_vars

\* A transfer event is for the request it completes: what XHCI_Handler_HCD() matches by
\* slot and endpoint is never the event of a transfer that was given up.
OwnEvents == request = "active" /\ events # <<>> => Head(events) = td

\* The controller runs no TRB of a transfer that has lost the endpoint.
RunsOwn == [][Run => trb[hwDequeue].td = td /\ request = "active"]_vars

\* A transfer that has lost the endpoint left no TRBs on the ring, unless the endpoint
\* halted at them: no driver code resets a halted endpoint.
ConsumedWhenCompleted == request = "none" /\ hw # "halted" => ran = sent

-----------------------------------------------------------------------------
(* Liveness *)

\* A transfer that nobody gives up and the device answers comes to an end, wherever on
\* the ring it lies, and until the endpoint halts.
TransferEnds == []<>(request = "none" \/ hw = "halted")

-----------------------------------------------------------------------------
(* The inductive invariant *)

\* The cycle bits of the producer's lap: those behind it are set, those before it not yet.
ProducerLap ==
    /\ enqueue = Link <=> step = "link"
    /\ \A i \in 0 .. (Link - 1) : bit[i] = IF i < enqueue THEN cycle ELSE 1 - cycle
    /\ bit[Link] = 1 - cycle
    /\ step = "control" => trb[enqueue] = [n |-> sent + 1, td |-> td, last |-> left = 1]
    /\ \A i \in Slots : trb[i].n <= sent \/ (step = "control" /\ i = enqueue)
    /\ step = "idle" => left = 0
    /\ step \in {"body", "control"} => left >= 1
    /\ step # "idle" => request = "active"

\* The controller is on the producer's lap, behind it, or on the lap before, and the TRBs
\* between them are the ones it has still to run, in order.
ControllerLap ==
    \/ /\ hwCycle = cycle /\ hwDequeue <= enqueue
       /\ sent - ran = enqueue - hwDequeue
       /\ \A i \in hwDequeue .. (enqueue - 1) : trb[i].n = sent - enqueue + i + 1
    \/ /\ hwCycle = 1 - cycle /\ enqueue <= hwDequeue /\ enqueue # Link
       /\ sent - ran = enqueue + Link - hwDequeue
       /\ \A i \in 0 .. (enqueue - 1) : trb[i].n = sent - enqueue + i + 1
       /\ \A i \in hwDequeue .. (Link - 1) : trb[i].n = sent - enqueue - Link + i + 1

\* What the controller has still to run belongs to the endpoint's one transfer, which fits.
OneTransfer ==
    /\ request = "none" => ran = sent
    /\ request = "aborted" => hw # "run"
    /\ hw = "stopped" => request = "aborted"
    /\ ran <= sent /\ sent - ran + left <= MaxTRBs
    /\ \A i \in Slots : i # Link /\ trb[i].n > ran /\ trb[i].n <= sent =>
          trb[i].td = td /\ (trb[i].last <=> trb[i].n = sent /\ left = 0)

\* An unread event is the one event of the transfer that has the endpoint, behind it.
EventOfTransfer ==
    events # <<>> => /\ events = <<td>> /\ request # "none"
                     /\ hw # "halted" => ran = sent /\ left = 0

RingInvariant ==
    /\ TypeOK
    /\ ProducerLap
    /\ EventOfTransfer
    /\ hw = "halted" => CanHalt
    /\ hw # "halted" => ControllerLap /\ OneTransfer

\* On a control ring the controller may have left Setup TRBs still to run; the last TRB of a
\* TD is not among them.
SetupsLeft ==
    /\ ran <= sent /\ sent - ran + left <= MaxLeft + MaxTRBs
    /\ request = "none" => sent - ran <= MaxLeft
    /\ \A i \in Slots : i # Link /\ trb[i].n > ran /\ trb[i].n <= sent /\ trb[i].last =>
          trb[i].td = td /\ trb[i].n = sent /\ left = 0 /\ request = "active"

\* For XHCI_Control_Remove(), which leaves the endpoint running, and no halts.
ControlInvariant ==
    /\ TypeOK /\ hw = "run" /\ request # "aborted"
    /\ ProducerLap /\ ControllerLap
    /\ SetupsLeft /\ EventOfTransfer
=============================================================================
