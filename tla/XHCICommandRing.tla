---------------------------- MODULE XHCICommandRing ----------------------------
(***************************************************************************)
(* The command ring and the event ring of an xHCI controller (Drivers/XHCI).  *)
(* The HCD task puts a command on the command ring and polls the event ring   *)
(* until a Command Completion Event has been read (XHCI_Cmd_Wait()); other    *)
(* events, of transfers and ports, share the ring.  Either side knows how far *)
(* the other is by cycle bits only, but for ERDP, by which the controller     *)
(* sees how far the events have been read.  A chip restart puts the           *)
(* controller back to the start of both rings.                                *)
(*                                                                         *)
(* The order of the stores within one TRB is in XHCIRing; here a TRB is       *)
(* written at once.                                                           *)
(***************************************************************************)
EXTENDS Integers

CONSTANTS
    CmdSize,    \* CmdRing.size, the link TRB included
    EvtSize,    \* EvtRing.size
    CanRestart, \* BOOLEAN: the chip is restarted after a host system error
    Slow,       \* BOOLEAN: a command may take longer than XHCI_Cmd_Wait() waits
    MaxCommands,\* bound on the commands sent
    MaxOthers   \* bound on the events that are not completions of commands

CommandRingAssumption ==
    /\ CmdSize \in Nat /\ CmdSize >= 3 /\ EvtSize \in Nat /\ EvtSize >= 2
    /\ CanRestart \in BOOLEAN /\ Slow \in BOOLEAN
    /\ MaxCommands \in Nat /\ MaxOthers \in Nat

VARIABLES
    cmdRing,    \* CmdRing.trbs: the command and the cycle bit of each TRB
    cmdEnq,     \* CmdRing.enqueue
    cmdCycle,   \* CmdRing.cycle
    evtRing,    \* EvtRing.trbs: which event, of which command (0: another), cycle bit
    evtDeq,     \* EvtRing.dequeue
    evtCycle,   \* EvtRing.cycle
    erdp,       \* the event ring dequeue pointer register
    pc,         \* the HCD task: "idle", or "poll" in XHCI_Handler_HCD()
    call,       \* the command XHCI_Cmd_Wait() waits for, 0 if none
    result,     \* the command whose completion has set CmdResult_Code, 0 if none has
    hwCmd,      \* the controller's dequeue index in the command ring
    hwCmdCycle, \* and its cycle state
    hwEvt,      \* the controller's enqueue index in the event ring
    hwEvtCycle, \* and its cycle state
    sent,       \* history: the number of commands sent
    ran,        \* history: the last command run
    made,       \* history: the number of events made
    read,       \* history: the last event read
    others,     \* history: the events that are not of commands
    restarted,  \* history: the chip has been restarted
    alone       \* history: when the last command was sent, no answer was still to come

driverVars == <<cmdEnq, cmdCycle, evtDeq, evtCycle, pc, call, result, sent, read, alone>>
chipVars   == <<hwCmd, hwCmdCycle, hwEvt, hwEvtCycle, ran, made, others>>
vars       == <<cmdRing, evtRing, erdp, restarted, driverVars, chipVars>>

Link == CmdSize - 1

NoCommand == [cmd |-> 0, cycle |-> 0]
NoEvent   == [n |-> 0, cmd |-> 0, cycle |-> 0]

TypeOK ==
    /\ cmdRing \in [0 .. Link -> [cmd : Nat, cycle : {0, 1}]]
    /\ evtRing \in [0 .. EvtSize - 1 -> [n : Nat, cmd : Nat, cycle : {0, 1}]]
    /\ cmdEnq \in 0 .. Link - 1 /\ hwCmd \in 0 .. Link
    /\ {evtDeq, hwEvt, erdp} \subseteq 0 .. EvtSize - 1
    /\ {cmdCycle, evtCycle, hwCmdCycle, hwEvtCycle} \subseteq {0, 1}
    /\ pc \in {"idle", "poll"}
    /\ {call, result, sent, ran, made, read, others} \subseteq Nat
    /\ restarted \in BOOLEAN /\ alone \in BOOLEAN

Init ==
    /\ cmdRing = [i \in 0 .. Link |-> NoCommand]
    /\ evtRing = [i \in 0 .. EvtSize - 1 |-> NoEvent]
    /\ cmdEnq = 0 /\ cmdCycle = 1 /\ evtDeq = 0 /\ evtCycle = 1 /\ erdp = 0
    /\ pc = "idle" /\ call = 0 /\ result = 0
    /\ hwCmd = 0 /\ hwCmdCycle = 1 /\ hwEvt = 0 /\ hwEvtCycle = 1
    /\ sent = 0 /\ ran = 0 /\ made = 0 /\ read = 0 /\ others = 0
    /\ restarted = FALSE /\ alone = TRUE

-----------------------------------------------------------------------------
(* The HCD task *)

\* The link TRB behind the last slot is given to the controller.
LinkGiven(ring) == [ring EXCEPT ![Link].cycle = cmdCycle]

CmdCycleAfterLink == 1 - cmdCycle

AtLink == cmdEnq + 1 >= Link

\* The events that the task has still to read, and what it means that none is an answer.
Unread ==
    {i \in 0 .. EvtSize - 1 : IF evtCycle = hwEvtCycle THEN evtDeq <= i /\ i < hwEvt
                              ELSE evtDeq <= i \/ i < hwEvt}
NoAnswer(is) == \A i \in is : evtRing[i].cmd = 0

\* Bound: the commands given up while the controller was slow do not fill the ring (255
\* commands, five seconds each).
RingNotFull == restarted \/ sent - ran < Link - 1

\* XHCI_Cmd_Enqueue(), the doorbell, and the start of XHCI_Cmd_Wait().
SendCommand ==
    /\ pc = "idle" /\ call = 0 /\ sent < MaxCommands /\ RingNotFull
    /\ LET written == [cmdRing EXCEPT ![cmdEnq] = [cmd |-> sent + 1, cycle |-> cmdCycle]]
       IN  IF AtLink
           THEN /\ cmdRing' = LinkGiven(written)
                /\ cmdEnq' = 0 /\ cmdCycle' = CmdCycleAfterLink
           ELSE /\ cmdRing' = written
                /\ cmdEnq' = cmdEnq + 1 /\ UNCHANGED cmdCycle
    /\ sent' = sent + 1
    /\ call' = sent + 1 /\ result' = 0
    /\ pc' = "poll"
    /\ alone' = (ran = sent /\ NoAnswer(Unread))
    /\ UNCHANGED <<evtRing, erdp, restarted, evtDeq, evtCycle, read, chipVars>>

\* The event interrupt's signal, or the tick: XHCI_Handler_HCD() outside a command.
Wake ==
    /\ pc = "idle" /\ pc' = "poll"
    /\ evtRing[evtDeq].cycle = evtCycle
    /\ UNCHANGED <<cmdRing, evtRing, erdp, restarted, cmdEnq, cmdCycle, evtDeq, evtCycle, call, result,
                   sent, read, alone, chipVars>>

\* Variant: the reader's cycle stays the same when it wraps.
SameEvtCycle == evtCycle

EvtCycleAfterWrap == 1 - evtCycle

\* The loop of XHCI_Handler_HCD(): an event whose cycle bit is the expected one is read.
ReadEvent ==
    /\ pc = "poll" /\ evtRing[evtDeq].cycle = evtCycle
    /\ result' = IF evtRing[evtDeq].cmd # 0 THEN evtRing[evtDeq].cmd ELSE result
    /\ read' = evtRing[evtDeq].n
    /\ IF evtDeq + 1 >= EvtSize
       THEN evtDeq' = 0 /\ evtCycle' = EvtCycleAfterWrap
       ELSE evtDeq' = evtDeq + 1 /\ UNCHANGED evtCycle
    /\ UNCHANGED <<cmdRing, evtRing, erdp, restarted, cmdEnq, cmdCycle, pc, call, sent, alone,
                   chipVars>>

ErdpWritten == evtDeq

\* No event is left: ERDP is written, and XHCI_Cmd_Wait() returns if it has its result,
\* else it polls again.
PollEnds ==
    /\ pc = "poll" /\ evtRing[evtDeq].cycle # evtCycle
    /\ erdp' = ErdpWritten
    /\ pc' = IF call # 0 /\ result = 0 THEN "poll" ELSE "idle"
    /\ call' = IF result = 0 THEN call ELSE 0
    /\ UNCHANGED <<cmdRing, evtRing, restarted, cmdEnq, cmdCycle, evtDeq, evtCycle, result, sent,
                   read, alone, chipVars>>

\* The controller sees a command, and has room for its event: one slot stays free, so that
\* a full event ring is not an empty one.
Runnable == cmdRing[hwCmd].cycle = hwCmdCycle
EventRingFull == (hwEvt + 1) % EvtSize = erdp

\* A controller that cannot answer: it does not see the command, or has no room.
Stuck == ~ Runnable \/ (hwCmd # Link /\ EventRingFull)

\* XHCI_Cmd_Wait() has polled 5000 times, and has written ERDP as often: the controller
\* will not answer, or not in time.
GiveUp ==
    /\ pc = "poll" /\ call # 0 /\ result = 0
    /\ evtRing[evtDeq].cycle # evtCycle /\ erdp = ErdpWritten
    /\ Slow \/ Stuck
    /\ call' = 0 /\ pc' = "idle"
    /\ UNCHANGED <<cmdRing, evtRing, erdp, restarted, cmdEnq, cmdCycle, evtDeq, evtCycle, result, sent,
                   read, alone, chipVars>>

\* Chip_Reset, Chip_Init and Chip_Start for HCD_Restart_Chip: the rings are cleared and
\* the controller starts at their first slots.
Restart ==
    /\ CanRestart /\ pc = "idle" /\ call = 0
    /\ cmdRing' = [i \in 0 .. Link |-> NoCommand]
    /\ evtRing' = [i \in 0 .. EvtSize - 1 |-> NoEvent]
    /\ erdp' = 0 /\ restarted' = TRUE
    /\ hwCmd' = 0 /\ hwCmdCycle' = 1 /\ hwEvt' = 0 /\ hwEvtCycle' = 1
    /\ UNCHANGED <<driverVars, ran, made, others>>

-----------------------------------------------------------------------------
(* The controller *)

MakeEvent(c) ==
    /\ ~ EventRingFull
    /\ evtRing' = [evtRing EXCEPT ![hwEvt] = [n |-> made + 1, cmd |-> c, cycle |-> hwEvtCycle]]
    /\ made' = made + 1
    /\ hwEvt' = (hwEvt + 1) % EvtSize
    /\ hwEvtCycle' = IF hwEvt + 1 = EvtSize THEN 1 - hwEvtCycle ELSE hwEvtCycle

RunCommand ==
    /\ Runnable /\ hwCmd # Link
    /\ MakeEvent(cmdRing[hwCmd].cmd)
    /\ ran' = cmdRing[hwCmd].cmd
    /\ hwCmd' = hwCmd + 1
    /\ UNCHANGED <<cmdRing, erdp, restarted, driverVars, hwCmdCycle, others>>

\* The link TRB as Chip_Init placed it, with Toggle Cycle.
FollowLink ==
    /\ Runnable /\ hwCmd = Link
    /\ hwCmd' = 0 /\ hwCmdCycle' = 1 - hwCmdCycle
    /\ UNCHANGED <<cmdRing, evtRing, erdp, restarted, driverVars, hwEvt, hwEvtCycle, ran, made, others>>

OtherEvent ==
    /\ others < MaxOthers
    /\ MakeEvent(0)
    /\ others' = others + 1
    /\ UNCHANGED <<cmdRing, erdp, restarted, driverVars, hwCmd, hwCmdCycle, ran>>

-----------------------------------------------------------------------------

Driver == SendCommand \/ Wake \/ ReadEvent \/ PollEnds \/ GiveUp \/ Restart
Controller == RunCommand \/ FollowLink \/ OtherEvent

Next == Driver \/ Controller

Spec == Init /\ [][Next]_vars

\* The HCD task polls on while it waits, and is woken by events; the controller runs.
Fairness ==
    /\ WF_vars(Wake \/ ReadEvent \/ PollEnds) /\ WF_vars(GiveUp)
    /\ WF_vars(RunCommand \/ FollowLink)
LiveSpec == Spec /\ Fairness

-----------------------------------------------------------------------------
(* Properties *)

\* XHCI_Cmd_Wait() returns the completion of the command it was called for, unless one that
\* was given up earlier is still to be answered: the event's command pointer is not looked at.
OwnAnswer == ~ restarted /\ alone /\ call # 0 /\ result # 0 => result = call

\* Every event is read once and in order, on every lap: none is overwritten unread, and
\* nothing is taken for an event that is none.
EventsOnce == [][read' # read => restarted \/ (read' = read + 1 /\ read' <= made)]_vars

\* The controller runs every command once and in order.
CommandsOnce == [][ran' # ran => restarted \/ (ran' = ran + 1 /\ ran' <= sent)]_vars

\* XHCI_Cmd_Wait() never gives up for a command that the controller does not see, or has no
\* room to answer: only on one that is slow.
Answered == [][GiveUp => restarted \/ ~ Stuck]_vars

\* The HCD task never hangs in XHCI_Cmd_Wait(), restarts or not.
WaitEnds == []<>(call = 0)

\* The events that arrive are read, until the chip is restarted.
EventsRead == []<>(made = read \/ restarted)

\* A command has its own answer.
AnswersAgree == TypeOK /\ OwnAnswer

\* The two rings lose nothing and repeat nothing, on any lap.
RingsExact == EventsOnce /\ CommandsOnce /\ Answered

-----------------------------------------------------------------------------
(* The inductive invariant behind AnswersAgree and RingsExact, before a restart *)

\* The cycle bits tell how far the producer is, on the command ring the HCD task, ...
CommandBits ==
    /\ \A i \in 0 .. Link - 1 :
          /\ cmdRing[i].cycle = IF i < cmdEnq THEN cmdCycle ELSE 1 - cmdCycle
          /\ i < cmdEnq => cmdRing[i].cmd = sent - cmdEnq + i + 1
          /\ i >= cmdEnq /\ hwCmdCycle # cmdCycle => cmdRing[i].cmd = sent - cmdEnq - Link + i + 1
    /\ cmdRing[Link].cycle = 1 - cmdCycle

\* ... and how far behind it the controller is, on its lap or on the lap before.
CommandLap ==
    /\ sent - ran \in 0 .. Link - 1
    /\ \/ hwCmdCycle = cmdCycle /\ hwCmd + (sent - ran) = cmdEnq
       \/ hwCmdCycle = 1 - cmdCycle /\ hwCmd + (sent - ran) = cmdEnq + Link

\* On the event ring the controller is the producer.
EventBits ==
    \A i \in 0 .. EvtSize - 1 :
        /\ evtRing[i].cycle = IF i < hwEvt THEN hwEvtCycle ELSE 1 - hwEvtCycle
        /\ i < hwEvt => evtRing[i].n = made - hwEvt + i + 1
        /\ i >= hwEvt /\ evtCycle # hwEvtCycle => evtRing[i].n = made - hwEvt - EvtSize + i + 1

\* It never overtakes ERDP, nor does ERDP the task.
EventLap ==
    \/ /\ evtCycle = hwEvtCycle /\ made - read = hwEvt - evtDeq
       /\ evtDeq <= hwEvt /\ (erdp <= evtDeq \/ hwEvt < erdp)
    \/ /\ evtCycle = 1 - hwEvtCycle /\ made - read = hwEvt + EvtSize - evtDeq
       /\ hwEvt < erdp /\ erdp <= evtDeq

\* While the task waits, an answer is still to come.
AnswerComes ==
    /\ call # 0 => call = sent /\ pc = "poll"
    /\ call # 0 /\ result = 0 => ran < sent \/ ~ NoAnswer(Unread)

\* A command sent alone is on its way to the controller, or its answer is the one on its way
\* back, or in the task's hands: there is never another.
OneAnswer ==
    alone /\ call # 0 =>
        \/ result = 0 /\ ran + 1 = sent /\ NoAnswer(Unread)
        \/ /\ result = 0 /\ ran = sent
           /\ \E i \in Unread : evtRing[i].cmd = sent /\ NoAnswer(Unread \ {i})
        \/ result = sent /\ ran = sent /\ NoAnswer(Unread)

CommandsExact == CommandBits /\ CommandLap /\ EventBits /\ EventLap /\ AnswerComes /\ OneAnswer
CommandsInvariant == TypeOK /\ (restarted \/ CommandsExact)

=============================================================================
