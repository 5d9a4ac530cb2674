------------------------------- MODULE XHCISlots -------------------------------
(***************************************************************************)
(* Device slots and device addresses in the xHCI driver (Drivers/XHCI).  The  *)
(* hub driver obtains an address for a new function and sends Set_Address,    *)
(* for which the HCD task enables a slot and addresses the device with it;    *)
(* when the function goes, the hub's task calls XHCI_Function_Detach(), which *)
(* may not wait for a command and so leaves the slot to the HCD task: it is   *)
(* disabled and freed by the event handler.  The wait for a command polls     *)
(* that same handler, so that a Disable Slot may be sent, and waited for, in  *)
(* the middle of the wait for another command.                                *)
(*                                                                         *)
(* The rings are in XHCICommandRing; here they are queues.                    *)
(***************************************************************************)
EXTENDS Integers, Sequences, FiniteSets, FiniteSetsExt

CONSTANTS
    MaxSlots,   \* the controller's device slots
    MaxAddr,    \* the addresses of hn_Function_Array (127)
    CanHalt,    \* BOOLEAN: the controller may halt
    MaxLate     \* bound on the completions still to come when a new command is begun

SlotsAssumption ==
    /\ MaxSlots \in Nat \ {0} /\ MaxAddr \in Nat \ {0}
    /\ CanHalt \in BOOLEAN /\ MaxLate \in Nat

Slot == 1 .. MaxSlots
Addr == 1 .. MaxAddr

VARIABLES
    function,   \* hn_Function_Array: "free"; "asking" for Set_Address; "live"; "failed"
    byAddress,  \* SlotID_ByAddress, 0 if none
    slots,      \* Slots[]: "none" (NULL), "used", or "pending" (with PendingDisable)
    call,       \* the command the HCD task has sent and waits for, NoCall if none
    drain,      \* the slot XHCI_Drain_Deferred() is disabling, 0 if DrainBusy is not set
    result,     \* CmdResult_Code and CmdResult_SlotID, NoResult for a code of 0
    hw,         \* the controller's slots: "disabled", "enabled", "addressed"
    cmds,       \* the commands it has still to run
    events,     \* the completions not yet read
    halted,     \* USBSTS.HCH
    alone,      \* history: when the last command was sent, nothing else was waited for
                \* and no completion still to come
    overlapped  \* history: a function has gone while the HCD task waited for a command, or
                \* has left it a slot to disable when it began to

taskVars == <<call, drain, result, alone>>
chipVars == <<hw, cmds, events, halted>>
vars     == <<function, byAddress, slots, taskVars, chipVars, overlapped>>

\* "release" is the Disable Slot by which Set_Address takes back what it has done.
Ops      == {"enable", "address", "release", "stop", "flush"}
NoCall   == [op |-> "none", addr |-> 0, slot |-> 0]
Calls    == [op : {"enable"}, addr : Addr, slot : {0}]
              \cup [op : Ops \ {"enable"}, addr : Addr, slot : Slot]
Commands == [op : {"enable"}, slot : {0}]
              \cup [op : (Ops \ {"enable"}) \cup {"drain"}, slot : Slot]
Results  == [op : Ops \cup {"drain"}, slot : Slot \cup {0}, ok : BOOLEAN]
NoResult == [op |-> "none", slot |-> 0, ok |-> FALSE]

TypeOK ==
    /\ function \in [Addr -> {"free", "asking", "live", "failed"}]
    /\ byAddress \in [Addr -> Slot \cup {0}]
    /\ slots \in [Slot -> {"none", "used", "pending"}]
    /\ call \in Calls \cup {NoCall}
    /\ drain \in Slot \cup {0}
    /\ result \in Results \cup {NoResult}
    /\ hw \in [Slot -> {"disabled", "enabled", "addressed"}]
    /\ cmds \in Seq(Commands) /\ events \in Seq(Results)
    /\ halted \in BOOLEAN /\ alone \in BOOLEAN /\ overlapped \in BOOLEAN

Init ==
    /\ function = [a \in Addr |-> "free"]
    /\ byAddress = [a \in Addr |-> 0]
    /\ slots = [s \in Slot |-> "none"]
    /\ call = NoCall /\ drain = 0 /\ result = NoResult
    /\ hw = [s \in Slot |-> "disabled"]
    /\ cmds = <<>> /\ events = <<>> /\ halted = FALSE /\ alone = TRUE
    /\ overlapped = FALSE

Pending(table) == {s \in Slot : table[s] = "pending"}

-----------------------------------------------------------------------------
(* The hub driver's task *)

\* HUB__Port_Function_Add3() obtains the lowest free address and sends Set_Address.
Plug ==
    /\ \E a \in Addr :
          /\ function[a] = "free" /\ \A b \in 1 .. a - 1 : function[b] # "free"
          /\ function' = [function EXCEPT ![a] = "asking"]
    /\ UNCHANGED <<byAddress, slots, taskVars, chipVars, overlapped>>

\* Variant: XHCI_Function_Detach() leaves the address leading to the slot.
AddressKept(a) == byAddress

AddressForgotten(a) == [byAddress EXCEPT ![a] = 0]

\* What becomes of a slot: XHCI_Function_Detach() may not wait for a Disable Slot, and on
\* a halted controller needs none.
AfterDetach == IF halted THEN "none" ELSE "pending"

\* HCD_ADDR_RELEASE with XHCI_Function_Detach(), once the function has no requests left.
Unplug(a) ==
    /\ function[a] \in {"live", "failed"} /\ call.addr # a
    /\ overlapped' = (overlapped \/ call # NoCall)
    /\ function' = [function EXCEPT ![a] = "free"]
    /\ byAddress' = AddressForgotten(a)
    /\ LET s == byAddress[a]
       IN  slots' = IF s # 0 /\ slots[s] # "none"
                    THEN [slots EXCEPT ![s] = AfterDetach]
                    ELSE slots
    /\ UNCHANGED <<taskVars, chipVars>>

-----------------------------------------------------------------------------
(* The HCD task *)

\* A Disable Slot of the drain may come in the middle of another wait.
SentAlone(op) == cmds = <<>> /\ events = <<>> /\ (op = "drain" => call = NoCall)

\* Variant: the result of the command before is not forgotten.
SendWithOldResult(op, s) ==
    /\ cmds' = IF halted THEN <<>> ELSE Append(cmds, [op |-> op, slot |-> s])
    /\ alone' = SentAlone(op)
    /\ UNCHANGED result

\* XHCI_Cmd_Enqueue() and the start of XHCI_Cmd_Wait().  What a halted controller gets, it
\* never runs.
Send(op, s) ==
    /\ cmds' = IF halted THEN <<>> ELSE Append(cmds, [op |-> op, slot |-> s])
    /\ result' = NoResult
    /\ alone' = SentAlone(op)

Start(op, a, s) ==
    /\ call' = [op |-> op, addr |-> a, slot |-> s]
    /\ Send(op, s)

MayStart == /\ call = NoCall /\ drain = 0
            /\ halted \/ Len(cmds) + Len(events) <= MaxLate
            /\ overlapped' = (overlapped \/ Pending(slots) # {})

\* XHCI_Handle_SetAddress(), up to its first command.
SetAddress(a) ==
    /\ MayStart /\ function[a] = "asking"
    /\ Start("enable", a, 0)
    /\ UNCHANGED <<function, byAddress, slots, drain, hw, events, halted>>

\* XHCI_Transfer_Abort() for a request of the function: Stop Endpoint, ...
AbortTransfer(a) ==
    /\ MayStart /\ function[a] = "live" /\ ~ halted
    /\ Start("stop", a, byAddress[a])
    /\ UNCHANGED <<function, byAddress, slots, drain, hw, events, halted>>

\* Variant: XHCI_Cmd_Wait() has no limit.
AnswerOnly(c) == c # NoCall /\ drain = 0 /\ result # NoResult

\* The command is answered, or XHCI_Cmd_Wait() gives up on a halted controller.
AnswerTo(c) == c # NoCall /\ drain = 0
               /\ (result # NoResult \/ (halted /\ events = <<>> /\ Pending(slots) = {}))

Succeeded == result # NoResult /\ result.ok

Answered(a, outcome) ==
    /\ call' = NoCall
    /\ function' = [function EXCEPT ![a] = outcome]
    /\ UNCHANGED <<result, alone, cmds>>

\* Enable Slot has been answered: XHCI_Slot_Alloc() and Address Device, or, if there is
\* no memory, Disable Slot.
Enabled ==
    /\ AnswerTo(call) /\ call.op = "enable"
    /\ IF Succeeded /\ result.slot # 0
       THEN /\ \/ /\ slots' = [slots EXCEPT ![result.slot] = "used"]
                  /\ Start("address", call.addr, result.slot)
               \/ Start("release", call.addr, result.slot) /\ UNCHANGED slots
            /\ UNCHANGED function
       ELSE Answered(call.addr, "failed") /\ UNCHANGED slots
    /\ UNCHANGED <<byAddress, drain, hw, events, halted, overlapped>>

SlotFreed(s) == [slots EXCEPT ![s] = "none"]

AddressEntered(a, s) == [byAddress EXCEPT ![a] = s]

\* Address Device has been answered: the address leads to the slot, or the slot is freed
\* and disabled.
Addressed ==
    /\ AnswerTo(call) /\ call.op = "address"
    /\ IF Succeeded
       THEN /\ byAddress' = AddressEntered(call.addr, call.slot)
            /\ Answered(call.addr, "live")
            /\ UNCHANGED slots
       ELSE /\ slots' = SlotFreed(call.slot)
            /\ Start("release", call.addr, call.slot)
            /\ UNCHANGED <<function, byAddress>>
    /\ UNCHANGED <<drain, hw, events, halted, overlapped>>

Released ==
    /\ AnswerTo(call) /\ call.op = "release"
    /\ Answered(call.addr, "failed")
    /\ UNCHANGED <<byAddress, slots, drain, hw, events, halted, overlapped>>

\* ... and Set TR Dequeue.
Stopped ==
    /\ AnswerTo(call) /\ call.op = "stop"
    /\ Start("flush", call.addr, call.slot)
    /\ UNCHANGED <<function, byAddress, slots, drain, hw, events, halted, overlapped>>

Flushed ==
    /\ AnswerTo(call) /\ call.op = "flush"
    /\ Answered(call.addr, "live")
    /\ UNCHANGED <<byAddress, slots, drain, hw, events, halted, overlapped>>

\* XHCI_Drain_Deferred() goes on with the slots of S that are pending: a running
\* controller is told to disable the slot, a halted one need not be.
DrainSlots(table, S) ==
    IF S = {} \/ halted
    THEN /\ slots' = [s \in Slot |-> IF s \in S THEN "none" ELSE table[s]]
         /\ drain' = 0
         /\ UNCHANGED <<cmds, result, alone>>
    ELSE /\ slots' = [table EXCEPT ![Min(S)] = "used"]
         /\ drain' = Min(S)
         /\ Send("drain", Min(S))

\* XHCI_Handler_HCD() reads the completions, the last of which stays in CmdResult ...
ReadEvents ==
    /\ events # <<>>
    /\ drain # 0 \/ call # NoCall => result = NoResult
    /\ events' = <<>>
    /\ result' = events[Len(events)]
    /\ UNCHANGED <<function, byAddress, slots, call, drain, alone, hw, cmds, halted, overlapped>>

\* ... and drains, unless it is already draining.
StartDrain ==
    /\ drain = 0 /\ Pending(slots) # {} /\ events = <<>>
    /\ DrainSlots(slots, Pending(slots))
    /\ UNCHANGED <<function, byAddress, call, hw, events, halted, overlapped>>

DrainedSlotFreed == [slots EXCEPT ![drain] = "none"]

\* Disable Slot has been answered, or the controller has halted.
Drained ==
    /\ drain # 0 /\ (result # NoResult \/ (halted /\ events = <<>>))
    /\ DrainSlots(DrainedSlotFreed, {s \in Pending(slots) : s > drain})
    /\ UNCHANGED <<function, byAddress, call, hw, events, halted, overlapped>>

-----------------------------------------------------------------------------
(* The controller *)

\* A command is run: a free slot is enabled; an enabled slot's device takes its address,
\* or does not answer; a slot in use is disabled; an endpoint of an addressed slot is
\* stopped and moved.
RunCommand ==
    /\ ~ halted /\ cmds # <<>>
    /\ LET c == Head(cmds)
           Done(s, ok) == events' = Append(events, [op |-> c.op, slot |-> s, ok |-> ok])
       IN  \/ /\ c.op = "enable"
              /\ \/ \E s \in Slot : /\ hw[s] = "disabled"
                                    /\ hw' = [hw EXCEPT ![s] = "enabled"] /\ Done(s, TRUE)
                 \/ /\ \A s \in Slot : hw[s] # "disabled"
                    /\ Done(0, FALSE) /\ UNCHANGED hw
           \/ /\ c.op = "address"
              /\ \/ hw[c.slot] = "enabled" /\ hw' = [hw EXCEPT ![c.slot] = "addressed"]
                    /\ Done(c.slot, TRUE)
                 \/ Done(c.slot, FALSE) /\ UNCHANGED hw
           \/ /\ c.op \in {"release", "drain"}
              /\ hw' = [hw EXCEPT ![c.slot] = "disabled"]
              /\ Done(c.slot, hw[c.slot] # "disabled")
           \/ /\ c.op \in {"stop", "flush"}
              /\ Done(c.slot, hw[c.slot] = "addressed") /\ UNCHANGED hw
    /\ cmds' = Tail(cmds)
    /\ UNCHANGED <<function, byAddress, slots, taskVars, halted, overlapped>>

Halt ==
    /\ CanHalt /\ ~ halted
    /\ halted' = TRUE
    /\ UNCHANGED <<function, byAddress, slots, taskVars, hw, cmds, events, overlapped>>

-----------------------------------------------------------------------------

HCDTask == \/ Enabled \/ Addressed \/ Released \/ Stopped \/ Flushed
           \/ ReadEvents \/ StartDrain \/ Drained

Next == \/ Plug \/ HCDTask \/ RunCommand \/ Halt
        \/ \E a \in Addr : Unplug(a) \/ SetAddress(a) \/ AbortTransfer(a)

Spec == Init /\ [][Next]_vars

\* The HCD task goes on with what it has begun, is woken for what is pending, and a
\* controller that runs answers its commands.
Fairness == WF_vars(HCDTask) /\ WF_vars(RunCommand)
LiveSpec == Spec /\ Fairness

-----------------------------------------------------------------------------
(* Safety *)

\* What a wait takes for its answer is the completion of its own command, unless a Disable
\* Slot has been sent in the middle of it, or of an earlier one whose completion has not been
\* read yet: they share the one CmdResult.
OwnAnswer ==
    alone /\ result # NoResult =>
        /\ drain # 0 => result.op = "drain" /\ result.slot = drain
        /\ drain = 0 /\ call # NoCall => result.op = call.op /\ (call.op # "enable" => result.slot = call.slot)

\* An address leads to the slot of its own device, and to no other's: a slot the driver
\* has and the controller has addressed.
AddressOfDevice ==
    \A a \in Addr : byAddress[a] # 0 =>
        /\ function[a] = "live"
        /\ slots[byAddress[a]] = "used" /\ hw[byAddress[a]] = "addressed"
        /\ \A b \in Addr : byAddress[b] = byAddress[a] => a = b

\* The rings and contexts of a slot are not freed while the controller may use them.
FreedUnused == \A s \in Slot : slots[s] = "none" /\ ~ halted => hw[s] # "addressed"

\* Unplugging and failed enumerations leak no slot: when the HCD task has nothing to do,
\* each slot it has leads to a live function, and each slot the controller has enabled
\* is one of them.
AtRest == call = NoCall /\ drain = 0 /\ Pending(slots) = {}
NoSlotLeaked ==
    AtRest => \A s \in Slot :
        /\ slots[s] = "used" => \E a \in Addr : function[a] = "live" /\ byAddress[a] = s
        /\ hw[s] # "disabled" /\ ~ halted => slots[s] = "used"

-----------------------------------------------------------------------------
(* Liveness *)

\* A slot is free or an address leads to it, again and again: one whose function has gone, or
\* could not be addressed, is disabled and freed in the end, for the next device.
SlotComesFree ==
    \A s \in Slot : []<>(overlapped \/ slots[s] = "none" \/ \E a \in Addr : byAddress[a] = s)

\* Whatever the HCD task waits for, it gets out of the wait again.
WaitEnds == []<>(call = NoCall)

\* The driver, the controller and the functions agree about the slots.
SlotsAgree == overlapped \/ (TypeOK /\ AddressOfDevice /\ FreedUnused /\ NoSlotLeaked)

-----------------------------------------------------------------------------
(* Why it is so, if no function goes during a wait: there is one wait at a time, its       *)
(* command is in one place, and each slot has one owner.                       *)

\* The command that is waited for.
Awaited == IF drain # 0 THEN [op |-> "drain", slot |-> drain]
           ELSE [op |-> call.op, slot |-> call.slot]

\* What the controller may have answered to it, and what it has then done to the slot.
AnswerFits(r) ==
    /\ r \in Results /\ r.op = Awaited.op
    /\ r.op = "enable" => IF r.slot = 0 THEN ~ r.ok
                           ELSE r.ok /\ hw[r.slot] = "enabled" /\ slots[r.slot] = "none"
    /\ r.op # "enable" => r.slot = Awaited.slot
    /\ r.op = "address" => hw[r.slot] = IF r.ok THEN "addressed" ELSE "enabled"
    /\ r.op \in {"release", "drain"} => hw[r.slot] = "disabled"

\* A command sent alone, whether a function goes during its wait or not, is on the ring, or
\* its completion is on its way, or has been read, or a halted controller has lost it.
CompletionFits(r) == r.op = Awaited.op /\ (Awaited.op # "enable" => r.slot = Awaited.slot)
AloneAnswered ==
    alone /\ (call # NoCall \/ drain # 0) =>
        /\ call = NoCall \/ drain = 0
        /\ \/ cmds = <<Awaited>> /\ events = <<>> /\ result = NoResult
           \/ cmds = <<>> /\ result = NoResult /\ Len(events) = 1 /\ CompletionFits(events[1])
           \/ cmds = <<>> /\ events = <<>> /\ CompletionFits(result)
           \/ halted /\ cmds = <<>> /\ events = <<>> /\ result = NoResult

\* Before it has run it: a slot that gets its address, or is given up, is enabled.
NotYetRun == Awaited.op \in {"address", "release"} => hw[Awaited.slot] = "enabled"

\* It is on the ring, or its completion is, or that has been read; or a halted controller
\* has lost it.
OnePlace ==
    \/ cmds = <<Awaited>> /\ events = <<>> /\ result = NoResult /\ NotYetRun
    \/ cmds = <<>> /\ result = NoResult /\ \E r \in Results : events = <<r>> /\ AnswerFits(r)
    \/ cmds = <<>> /\ events = <<>> /\ result # NoResult /\ AnswerFits(result)
    \/ halted /\ cmds = <<>> /\ events = <<>> /\ result = NoResult /\ NotYetRun

OneWait ==
    /\ call # NoCall => drain = 0 /\ Pending(slots) = {}
    /\ IF call = NoCall /\ drain = 0 THEN events = <<>> /\ (cmds = <<>> \/ halted) ELSE OnePlace

\* The slot that Enable Slot has just given.
JustEnabled == {s \in Slot : \/ result # NoResult /\ result.slot = s
                             \/ \E i \in 1 .. Len(events) : events[i].slot = s}

SlotOwned ==
    \A s \in Slot :
        /\ slots[s] = "used" =>
              \/ \E a \in Addr : byAddress[a] = s
              \/ call.op = "address" /\ call.slot = s
              \/ drain = s
        /\ slots[s] = "pending" => hw[s] = "addressed" /\ \A a \in Addr : byAddress[a] # s
        /\ slots[s] = "none" /\ ~ halted /\ hw[s] # "disabled" =>
              /\ hw[s] = "enabled"
              /\ \/ call.op = "enable" /\ s \in JustEnabled
                 \/ call.op = "release" /\ call.slot = s

CallFits ==
    /\ call.op \in {"enable", "address", "release"} => function[call.addr] = "asking"
    /\ call.op \in {"address", "release"} => \A a \in Addr : byAddress[a] # call.slot
    /\ call.op = "address" => slots[call.slot] = "used"
    /\ call.op = "release" => slots[call.slot] = "none"
    /\ call.op \in {"stop", "flush"} =>
          function[call.addr] = "live" /\ byAddress[call.addr] = call.slot
    /\ drain # 0 => slots[drain] = "used" /\ \A a \in Addr : byAddress[a] # drain

SlotsInvariant ==
    /\ TypeOK /\ OneWait /\ AddressOfDevice /\ SlotOwned /\ CallFits
    /\ \A a \in Addr : function[a] = "live" => byAddress[a] # 0

=============================================================================
