---------------------------- MODULE HCDTransfer ----------------------------
(***************************************************************************)
(* The transfer core of usb3.device: the life of an IORequest from         *)
(* BeginIO() to its reply.  Users (class drivers, the enumerator, Exec      *)
(* clients) call BeginIO() and AbortIO() from their own tasks; everything   *)
(* else happens in the one task of the host controller (HCD), which waits   *)
(* for signals and then serves, in a fixed order, the chip restart, the     *)
(* controller's events, the watchdog timers, the aborts, the new requests   *)
(* and the one-second tick (Stack/HCD/HCD_2_Main_1_Normal.c).               *)
(*                                                                         *)
(* The controller driver behind the HCD_Functions hooks (XHCI, EHCI, ...)   *)
(* appears only through what the stack sees of it: Build either queues the  *)
(* transfer on the hardware or answers at once, and an event later tells    *)
(* how the transfer ended.  Hooks are atomic here.                          *)
(***************************************************************************)
EXTENDS Integers, Sequences, FiniteSets, SequencesExt, Queues

CONSTANTS
    Req,            \* the IORequests (struct RealRequest)
    EP,             \* the endpoints of one function (struct USB3_EndPointNode)
    NoReq,          \* a NULL ep_Request_Active
    NoEP,           \* a request that is not a Clear_Feature(ENDPOINT_HALT)
    EpOf,           \* req_EndPoint, fixed when the request is allocated
    ClearEP,        \* the endpoint a request's setup packet un-stalls, or NoEP
    Timed,          \* the requests with io_TimeOut # 0
    Refused,        \* the requests whose parameters CMD_READ/CMD_WRITE reject
    RetryMax,       \* req_RetryMax
    Codes,          \* the completion codes the controller may report
    BuildErrs,      \* the errors with which X_Build may answer at once
    RetryBuildFails,\* BOOLEAN: X_Build may also fail when a retry is rebuilt
    LateErrors,     \* BOOLEAN: EHCI and OHCI, whose X_Length finds out how a transfer
                    \* ended; FALSE: XHCI, whose event tells
    CanReset,       \* BOOLEAN: the controller may raise a host system error
    CanTick,        \* BOOLEAN: the one-second tick comes due
    CanDetach,      \* BOOLEAN: the device may be unplugged
    UserPreempts,   \* BOOLEAN: a user may run before the HCD task is back in Wait
    MaxAborts       \* bound on the messages in the abort port

ASSUME ConstantsAssumption ==
    /\ NoReq \notin Req /\ NoEP \notin EP
    /\ EpOf \in [Req -> EP]
    /\ ClearEP \in [Req -> EP \cup {NoEP}]
    /\ Timed \subseteq Req /\ Refused \subseteq Req
    /\ RetryMax \in Nat /\ MaxAborts \in Nat
    /\ Codes \subseteq {"Okay", "Stall", "Timeout", "Failed"}
    /\ BuildErrs \subseteq {"Failed", "None"}
    /\ {RetryBuildFails, LateErrors, CanReset, CanTick, CanDetach, UserPreempts} \subseteq BOOLEAN

VARIABLES
    owner,      \* who holds the Exec message: "user" (free, or replied) or "stack"
    stat,       \* req_PublicStat
    err,        \* io_Error
    retry,      \* req_RetryCount
    destalling, \* req_DoingDestall
    timer,      \* the request's timer: off, running, or fired (in hn_WatchDog_MsgPort)
    aborting,   \* requests whose AbortIO() has passed its test, not yet its PutMsg
    beginQ,     \* hn_Begin_MsgPort
    abortQ,     \* hn_Abort_MsgPort
    active,     \* hn_Active_Transfer_List
    epReq,      \* ep_Request_Active
    epQ,        \* ep_Request_Queue
    stalled,    \* ep_Stalled
    event,      \* the controller's event for a transfer, not yet read by the HCD task
    completed,  \* the event the HCD task has read, "no" if none
    activeIO,   \* fkt_ActiveIOReq
    detach,     \* fkt_Detach
    tick,       \* the one-second timer: "running", or "fired" (in Tick_MsgPort)
    sig,        \* tc_SigRecvd of the HCD task
    mask,       \* what TASK_WAIT returned, as far as it is not yet served
    pc,         \* the stage of the HCD main loop
    polled,     \* the stage's Handler_HCD has read the event ring
    job         \* the routine the stage is in the middle of

reqVars  == <<owner, stat, err, retry, destalling, timer>>
portVars == <<aborting, beginQ, abortQ>>
hwVars   == <<active, epReq, epQ, stalled, event, completed>>
taskVars == <<mask, pc, polled, job>>
vars     == <<reqVars, portVars, hwVars, activeIO, detach, tick, sig, taskVars>>

-----------------------------------------------------------------------------
(* Types *)

Stats   == {"User", "HCD", "Queued", "Active"}
\* io_Error, as far as the stack looks at it again: "Failed" is any other error.
Errors  == {"None", "Aborted", "Stall", "Timeout", "Failed"}
Signals == {"Restart", "HCD", "WatchDog", "Abort", "Begin", "Tick"}
Stages  == <<"HCD", "WatchDog", "Abort", "Begin", "Tick">>
Events  == {"no"} \cup Codes

Jobs == [kind : {"idle", "add", "reply", "finish", "restart", "drain"},
         req  : Req \cup {NoReq},
         then : {"stage", "begin", "retry", "restart", "drain"}]

Job(k, r, t) == [kind |-> k, req |-> r, then |-> t]
Idle == Job("idle", NoReq, "stage")

TypeOK ==
    /\ owner \in [Req -> {"user", "stack"}]
    /\ stat \in [Req -> Stats]
    /\ err \in [Req -> Errors]
    /\ retry \in [Req -> 0 .. RetryMax]
    /\ destalling \in [Req -> BOOLEAN]
    /\ timer \in [Req -> {"off", "running", "fired"}]
    /\ aborting \subseteq Req
    /\ beginQ \in Seq(Req) /\ abortQ \in Seq(Req)
    /\ active \subseteq Req
    /\ epReq \in [EP -> Req \cup {NoReq}]
    /\ epQ \in [EP -> Seq(Req)]
    /\ stalled \in [EP -> BOOLEAN]
    /\ event \in [Req -> Events] /\ completed \in [Req -> Events]
    /\ activeIO \in Nat
    /\ detach \in BOOLEAN
    /\ tick \in {"running", "fired"}
    /\ sig \subseteq Signals /\ mask \subseteq Signals
    /\ pc \in {"Wait", "Reset", "HCD", "WatchDog", "Abort", "Begin", "Tick"}
    /\ polled \in BOOLEAN
    /\ job \in Jobs

Init ==
    /\ owner = [r \in Req |-> "user"]
    /\ stat = [r \in Req |-> "User"]
    /\ err = [r \in Req |-> "None"]
    /\ retry = [r \in Req |-> 0]
    /\ destalling = [r \in Req |-> FALSE]
    /\ timer = [r \in Req |-> "off"]
    /\ aborting = {} /\ beginQ = <<>> /\ abortQ = <<>>
    /\ active = {}
    /\ epReq = [e \in EP |-> NoReq]
    /\ epQ = [e \in EP |-> <<>>]
    /\ stalled = [e \in EP |-> FALSE]
    /\ event = [r \in Req |-> "no"] /\ completed = [r \in Req |-> "no"]
    /\ activeIO = 0 /\ detach = FALSE /\ tick = "running"
    /\ sig = {} /\ mask = {}
    /\ pc = "Wait" /\ polled = FALSE /\ job = Idle

-----------------------------------------------------------------------------
(* The users' tasks *)

\* Users run when their priority allows it: the HCD task has priority Master-1,
\* at most 50 (Controllers_Start.c), above the class drivers' 0..15.
UserMayRun == UserPreempts \/ pc = "Wait"

\* Exec's PutMsg(): the message is in the port and the port's signal is set.
Raise(s) == sig' = sig \cup {s}

\* _manager_BeginIO() refuses a request that is not the user's and one whose
\* function is gone, and replies it at once; any other goes to the begin port,
\* its req_PublicStat still IORS_User.
BeginError(r) == IF stat[r] # "User" \/ detach THEN "Failed" ELSE "None"

BeginIO(r) ==
    /\ UserMayRun
    /\ owner[r] = "user" /\ r \notin aborting
    /\ err' = [err EXCEPT ![r] = BeginError(r)]
    /\ IF BeginError(r) = "None"
       THEN /\ owner' = [owner EXCEPT ![r] = "stack"]
            /\ beginQ' = Append(beginQ, r)
            /\ Raise("Begin")
            /\ UNCHANGED stat
       ELSE /\ stat' = [stat EXCEPT ![r] = "User"]
            /\ UNCHANGED <<owner, beginQ, sig>>
    /\ UNCHANGED <<retry, destalling, timer, aborting, abortQ, hwVars, activeIO,
                   detach, tick, taskVars>>

\* _manager_AbortIO() up to its test of req_PublicStat.  IOREQUEST_LOCK() needs
\* usb_LockSemaphore, which HCD_REPLY holds from its ReplyMsg() to its last
\* assignment.
AbortTest(r) ==
    /\ UserMayRun
    /\ owner[r] = "stack" /\ r \notin aborting
    /\ job.kind # "finish"
    /\ Len(abortQ) + Cardinality(aborting) < MaxAborts
    /\ stat[r] # "User"
    /\ aborting' = aborting \cup {r}
    /\ UNCHANGED <<reqVars, beginQ, abortQ, hwVars, activeIO, detach, tick, sig, taskVars>>

\* ... and its PutMsg() to the abort port.
AbortPut(r) ==
    /\ UserMayRun
    /\ r \in aborting
    /\ aborting' = aborting \ {r}
    /\ abortQ' = Append(abortQ, r)
    /\ Raise("Abort")
    /\ UNCHANGED <<reqVars, beginQ, hwVars, activeIO, detach, tick, taskVars>>

\* The hub driver finds the port empty: Function_MarkDetach() sets fkt_Detach.
Detach ==
    /\ CanDetach /\ ~ detach
    /\ detach' = TRUE
    /\ UNCHANGED <<reqVars, portVars, hwVars, activeIO, tick, sig, taskVars>>

-----------------------------------------------------------------------------
(* The hardware: the controller and timer.device *)

Complete(r, c) ==
    /\ r \in active /\ event[r] = "no" /\ completed[r] = "no"
    /\ event' = [event EXCEPT ![r] = c]
    /\ Raise("HCD")
    /\ UNCHANGED <<reqVars, portVars, active, epReq, epQ, stalled, completed, activeIO,
                   detach, tick, taskVars>>

TimerFires(r) ==
    /\ timer[r] = "running"
    /\ timer' = [timer EXCEPT ![r] = "fired"]
    /\ Raise("WatchDog")
    /\ UNCHANGED <<owner, stat, err, retry, destalling, portVars, hwVars, activeIO,
                   detach, tick, taskVars>>

TickFires ==
    /\ CanTick /\ tick = "running"
    /\ tick' = "fired"
    /\ Raise("Tick")
    /\ UNCHANGED <<reqVars, portVars, hwVars, activeIO, detach, taskVars>>

HostError ==
    /\ CanReset /\ "Restart" \notin sig
    /\ Raise("Restart")
    /\ UNCHANGED <<reqVars, portVars, hwVars, activeIO, detach, tick, taskVars>>

-----------------------------------------------------------------------------
(* The HCD task: the main loop *)

\* The served bit leaves the mask; the next stage is the first one, in the
\* order of the loop body, whose bit is left; after the last one, TASK_WAIT.
GoTo(m) ==
    /\ mask' = m
    /\ \/ \E k \in 1 .. Len(Stages) :
             /\ Stages[k] \in m
             /\ \A j \in 1 .. (k - 1) : Stages[j] \notin m
             /\ pc' = Stages[k]
       \/ /\ \A j \in 1 .. Len(Stages) : Stages[j] \notin m
          /\ pc' = "Wait"

EndStage == GoTo(mask \ {pc})

Wake ==
    /\ pc = "Wait" /\ sig # {}
    /\ sig' = {}
    /\ IF "Restart" \in sig THEN pc' = "Reset" /\ mask' = sig ELSE GoTo(sig)
    /\ UNCHANGED <<reqVars, portVars, hwVars, activeIO, detach, tick, polled, job>>

-----------------------------------------------------------------------------
(* __HCD_Add_Request() *)

\* What the endpoint does with the next request: the stack answers for a
\* stalled pipe itself, unless the request is the one that un-stalls a pipe.
PipeStalled(r) == stalled[EpOf[r]] /\ ClearEP[r] = NoEP

\* Variant: whether the Clear_Feature succeeded is not looked at.
StalledAfterUnchecked(r, e, late) ==
    LET cleared == IF destalling[r] THEN [stalled EXCEPT ![ClearEP[r]] = FALSE] ELSE stalled
    IN  IF e = "Stall" THEN [cleared EXCEPT ![EpOf[r]] = TRUE] ELSE cleared

\* __HCD_Transfer_Remove() on ep_Stalled: a successful Clear_Feature un-stalls its
\* target, a transfer that ended in a stall stalls its own endpoint.  X_Length is called
\* between the two: what it finds out comes too late for the first.
StalledAfter(r, e, late) ==
    LET cleared == IF destalling[r] /\ stat[r] = "Active" /\ (e = "None" \/ late)
                   THEN [stalled EXCEPT ![ClearEP[r]] = FALSE] ELSE stalled
    IN  IF e = "Stall" THEN [cleared EXCEPT ![EpOf[r]] = TRUE] ELSE cleared

\* Variant: no timer is sent.
NoTimerAfterAdd(r) == timer

\* The timer goes to timer.device only with a transfer on the hardware.
TimerAfterAdd(r) == IF r \in Timed THEN [timer EXCEPT ![r] = "running"] ELSE timer

\* Variant: IO_STOP() of the timer is forgotten.
TimerKept(r) == timer

TimerStopped(r) == [timer EXCEPT ![r] = "off"]

\* Variant: the request is linked at the head of the endpoint's queue.
AddQueuedAtHead(r) ==
    /\ epReq[EpOf[r]] # NoReq
    /\ stat' = [stat EXCEPT ![r] = "Queued"]
    /\ epQ' = [epQ EXCEPT ![EpOf[r]] = <<r>> \o @]
    /\ job' = Idle
    /\ UNCHANGED <<err, retry, destalling, timer, active, epReq, stalled>>

AddQueued(r) ==
    /\ epReq[EpOf[r]] # NoReq
    /\ stat' = [stat EXCEPT ![r] = "Queued"]
    /\ epQ' = [epQ EXCEPT ![EpOf[r]] = Append(@, r)]
    /\ job' = Idle
    /\ UNCHANGED <<err, retry, destalling, timer, active, epReq, stalled>>

AddActive(r) ==
    /\ epReq[EpOf[r]] = NoReq /\ ~ PipeStalled(r)
    /\ retry' = [retry EXCEPT ![r] = 0]
    /\ destalling' = [destalling EXCEPT ![r] = ClearEP[r] # NoEP]
    /\ epReq' = [epReq EXCEPT ![EpOf[r]] = r]
    /\ stat' = [stat EXCEPT ![r] = "Active"]
    /\ active' = active \cup {r}
    /\ timer' = TimerAfterAdd(r)
    /\ job' = Idle
    /\ UNCHANGED <<err, epQ, stalled>>

\* myAdd_Request() answers at once ("handled"): its caller in Begin replies, the
\* one in Restart_EndPoint first runs Transfer_Remove, the one that retries in
\* Transfer_Check ignores the result.
AddHandled(r) ==
    /\ epReq[EpOf[r]] = NoReq
    /\ \E e \in IF PipeStalled(r) THEN {"Stall"}
                ELSE IF job.then = "retry" /\ ~ RetryBuildFails THEN {} ELSE BuildErrs :
          LET error == IF err[r] = "None" THEN e ELSE err[r]
          IN  /\ err' = [err EXCEPT ![r] = error]
              /\ IF job.then = "restart"
                 THEN /\ stalled' = StalledAfter(r, error, FALSE)
                      /\ timer' = TimerStopped(r)
                      /\ destalling' = [destalling EXCEPT ![r] = FALSE]
                 ELSE /\ destalling' = [destalling EXCEPT ![r] = ClearEP[r] # NoEP]
                      /\ UNCHANGED <<stalled, timer>>
    /\ retry' = [retry EXCEPT ![r] = 0]
    /\ job' = CASE job.then = "begin"   -> Job("reply", r, "stage")
                [] job.then = "restart" -> Job("reply", r, "restart")
                [] job.then = "retry"   -> Idle
    /\ UNCHANGED <<stat, epQ, active, epReq>>

AddRequest ==
    /\ job.kind = "add"
    /\ AddQueued(job.req) \/ AddActive(job.req) \/ AddHandled(job.req)
    /\ UNCHANGED <<owner, portVars, event, completed, activeIO, detach, tick, sig,
                   mask, pc, polled>>

-----------------------------------------------------------------------------
(* __HCD_Transfer_Check(), __HCD_Reply(), __HCD_Restart_EndPoint() *)

RetryAllowed(r, e) == e = "Timeout" /\ retry[r] < RetryMax

\* The transfer leaves the hardware with the error e.  Transfer_Check clears what
\* the driver knows of it, Transfer_Remove gives the endpoint free; then it is
\* sent again, or replied and its endpoint restarted.
RemoveTransfer(r, e, force) ==
    /\ active' = active \ {r}
    /\ timer' = TimerStopped(r)
    /\ destalling' = [destalling EXCEPT ![r] = FALSE]
    /\ stalled' = StalledAfter(r, e, LateErrors /\ ~ force)
    /\ event' = [event EXCEPT ![r] = "no"]
    /\ completed' = [completed EXCEPT ![r] = "no"]
    /\ IF stat[r] = "Active"
       THEN /\ stat' = [stat EXCEPT ![r] = "HCD"]
            /\ epReq' = [epReq EXCEPT ![EpOf[r]] = NoReq]
       ELSE UNCHANGED <<stat, epReq>>
    /\ IF ~ force /\ RetryAllowed(r, e)
       THEN /\ retry' = [retry EXCEPT ![r] = @ + 1]
            /\ err' = [err EXCEPT ![r] = "None"]
            /\ job' = Job("add", r, "retry")
       ELSE /\ err' = [err EXCEPT ![r] = e]
            /\ job' = Job("reply", r, "restart")
            /\ UNCHANGED retry

\* HCD_REPLY, first half: ReplyMsg() gives the request back to its user ...
Reply ==
    /\ job.kind = "reply"
    /\ owner' = [owner EXCEPT ![job.req] = "user"]
    /\ job' = [job EXCEPT !.kind = "finish"]
    /\ UNCHANGED <<stat, err, retry, destalling, timer, portVars, hwVars, activeIO,
                   detach, tick, sig, mask, pc, polled>>

\* Variant: nobody restarts the endpoint.
AfterReplyIdle == Idle

AfterReply == IF job.then = "stage" THEN Idle ELSE Job(job.then, job.req, "stage")

\* Variant: the request is not counted out.
ActiveSubForgotten == activeIO

\* IOREQUEST_ACTIVE_SUB()
ActiveSub == IF activeIO > 0 THEN activeIO - 1 ELSE 0

\* ... second half: the function's count and the request's state follow.
Finish ==
    /\ job.kind = "finish"
    /\ activeIO' = ActiveSub
    /\ stat' = [stat EXCEPT ![job.req] = "User"]
    /\ job' = AfterReply
    /\ UNCHANGED <<owner, err, retry, destalling, timer, portVars, hwVars, detach,
                   tick, sig, mask, pc, polled>>

\* Restart_EndPoint takes the head of the endpoint's queue, if there is one.
Restart ==
    /\ job.kind = "restart"
    /\ LET e == EpOf[job.req]
       IN  IF epQ[e] = <<>>
           THEN job' = Idle /\ UNCHANGED epQ
           ELSE /\ epQ' = [epQ EXCEPT ![e] = Tail(@)]
                /\ job' = Job("add", Head(epQ[e]), "restart")
    /\ UNCHANGED <<reqVars, portVars, active, epReq, stalled, event, completed, activeIO,
                   detach, tick, sig, mask, pc, polled>>

-----------------------------------------------------------------------------
(* The stages *)

InStage(s) == pc = s /\ job.kind = "idle"

\* Handler_HCD reads the event ring: the matching transfers are completed, with
\* the error their completion code stands for.  (EHCI and OHCI find the same in the
\* transfer's own descriptors, on the walk that follows at once.)  The tick stage polls as well, and
\* sends the tick timer off again.
PollEvents ==
    /\ InStage("HCD") \/ InStage("Tick")
    /\ ~ polled /\ polled' = TRUE
    /\ completed' = [r \in Req |-> IF event[r] = "no" THEN completed[r] ELSE event[r]]
    /\ err' = [r \in Req |-> IF event[r] \in {"no", "Okay"} THEN err[r] ELSE event[r]]
    /\ event' = [r \in Req |-> "no"]
    /\ tick' = IF pc = "Tick" THEN "running" ELSE tick
    /\ UNCHANGED <<owner, stat, retry, destalling, timer, portVars, active, epReq,
                   epQ, stalled, activeIO, detach, sig, mask, pc, job>>

\* ... and then walks the active list.
CheckCompleted(r) ==
    /\ InStage("HCD") \/ InStage("Tick")
    /\ polled /\ r \in active /\ completed[r] # "no"
    /\ RemoveTransfer(r, err[r], FALSE)
    /\ UNCHANGED <<owner, portVars, epQ, activeIO, detach, tick, sig, mask, pc,
                   polled>>

PollDone ==
    /\ InStage("HCD") \/ InStage("Tick")
    /\ polled /\ polled' = FALSE
    /\ \A r \in active : completed[r] = "no"
    /\ EndStage
    /\ UNCHANGED <<reqVars, portVars, hwVars, activeIO, detach, tick, sig, job>>

\* __myHandle_WatchDog(): every timer in the port ends its transfer.
WatchDog(r) ==
    /\ InStage("WatchDog") /\ timer[r] = "fired"
    /\ RemoveTransfer(r, "Timeout", TRUE)
    /\ UNCHANGED <<owner, portVars, epQ, activeIO, detach, tick, sig, mask, pc,
                   polled>>

WatchDogDone ==
    /\ InStage("WatchDog") /\ \A r \in Req : timer[r] # "fired"
    /\ EndStage
    /\ UNCHANGED <<reqVars, portVars, hwVars, activeIO, detach, tick, sig, polled, job>>

\* __myHandle_Abort(): what the message's request is doing now decides.
QueuePositions(r) == {i \in 1 .. Len(epQ[EpOf[r]]) : epQ[EpOf[r]][i] = r}

\* Variant: a queued request is taken for one on the hardware.
AbortActiveOrQueued(r) ==
    /\ stat[r] \in {"Active", "Queued"}
    /\ RemoveTransfer(r, "Aborted", TRUE)
    /\ UNCHANGED epQ

AbortActive(r) ==
    /\ stat[r] = "Active"
    /\ RemoveTransfer(r, "Aborted", TRUE)
    /\ UNCHANGED epQ

\* Variant: what is queued is left to wait for its turn.
AbortQueuedNothing(r) ==
    /\ stat[r] = "Queued"
    /\ UNCHANGED <<stat, err, retry, destalling, timer, hwVars, job>>

AbortQueued(r) ==
    /\ stat[r] = "Queued"
    /\ \E i \in QueuePositions(r) :
          epQ' = [epQ EXCEPT ![EpOf[r]] = RemoveAt(@, i)]
    /\ err' = [err EXCEPT ![r] = "Aborted"]
    /\ job' = Job("reply", r, "stage")
    /\ UNCHANGED <<stat, retry, destalling, timer, active, epReq, stalled, event, completed>>

AbortIgnored(r) ==
    /\ stat[r] # "Active" /\ (stat[r] = "Queued" => QueuePositions(r) = {})
    /\ UNCHANGED <<stat, err, retry, destalling, timer, hwVars, job>>

Abort ==
    /\ InStage("Abort") /\ abortQ # <<>>
    /\ abortQ' = Tail(abortQ)
    /\ LET r == Head(abortQ) IN AbortActive(r) \/ AbortQueued(r) \/ AbortIgnored(r)
    /\ UNCHANGED <<owner, aborting, beginQ, activeIO, detach, tick, sig, mask, pc,
                   polled>>

AbortDone ==
    /\ InStage("Abort") /\ abortQ = <<>>
    /\ EndStage
    /\ UNCHANGED <<reqVars, portVars, hwVars, activeIO, detach, tick, sig, polled, job>>

\* __myHandle_Begin() with myBegin_CMD_Read() and myBegin_CMD_Write(): the request
\* becomes the HCD's and counts as active; it is refused, or added to its endpoint.
BeginRefusal(r) == IF detach \/ r \in Refused THEN "Failed" ELSE "None"

Begin ==
    /\ InStage("Begin") /\ beginQ # <<>>
    /\ beginQ' = Tail(beginQ)
    /\ LET r == Head(beginQ)
       IN  /\ stat' = [stat EXCEPT ![r] = "HCD"]
           /\ IF BeginRefusal(r) = "None"
              THEN job' = Job("add", r, "begin") /\ UNCHANGED err
              ELSE /\ err' = [err EXCEPT ![r] = BeginRefusal(r)]
                   /\ job' = Job("reply", r, "stage")
    /\ activeIO' = activeIO + 1
    /\ UNCHANGED <<owner, retry, destalling, timer, aborting, abortQ, hwVars, detach,
                   tick, sig, mask, pc, polled>>

BeginDone ==
    /\ InStage("Begin") /\ beginQ = <<>>
    /\ EndStage
    /\ UNCHANGED <<reqVars, portVars, hwVars, activeIO, detach, tick, sig, polled, job>>

\* __myHandle_Reset(): every transfer on the hardware is answered with
\* USB3Err_Device_Nak, and after it what its endpoint has queued.
ResetActive(r) ==
    /\ InStage("Reset") /\ r \in active
    /\ active' = active \ {r}
    /\ epReq' = [epReq EXCEPT ![EpOf[r]] = NoReq]
    /\ timer' = TimerStopped(r)
    /\ event' = [event EXCEPT ![r] = "no"]
    /\ completed' = [completed EXCEPT ![r] = "no"]
    /\ err' = [err EXCEPT ![r] = "Failed"]
    /\ job' = Job("reply", r, "drain")
    /\ UNCHANGED <<owner, stat, retry, destalling, portVars, epQ, stalled, activeIO,
                   detach, tick, sig, mask, pc, polled>>

ResetQueued ==
    /\ job.kind = "drain"
    /\ LET e == EpOf[job.req]
       IN  IF epQ[e] = <<>>
           THEN job' = Idle /\ UNCHANGED <<epQ, err>>
           ELSE /\ epQ' = [epQ EXCEPT ![e] = Tail(@)]
                /\ err' = [err EXCEPT ![Head(epQ[e])] = "Failed"]
                /\ job' = Job("reply", Head(epQ[e]), "drain")
    /\ UNCHANGED <<owner, stat, retry, destalling, timer, portVars, active, epReq,
                   stalled, event, completed, activeIO, detach, tick, sig, mask, pc, polled>>

\* The chip runs again, and the loop body goes on with mask = 0.
MaskAfterReset == {}

ResetDone ==
    /\ InStage("Reset") /\ active = {}
    /\ GoTo(MaskAfterReset)
    /\ UNCHANGED <<reqVars, portVars, hwVars, activeIO, detach, tick, sig, polled, job>>

-----------------------------------------------------------------------------
(* The specification *)

UserStep == \/ \E r \in Req : BeginIO(r) \/ AbortTest(r) \/ AbortPut(r)
            \/ Detach

HardwareStep == \/ \E r \in Req, c \in Codes : Complete(r, c)
                \/ \E r \in Req : TimerFires(r)
                \/ TickFires
                \/ HostError

HCDStep == \/ Wake \/ AddRequest \/ Reply \/ Finish \/ Restart
           \/ PollEvents \/ PollDone \/ WatchDogDone
           \/ Abort \/ AbortDone \/ Begin \/ BeginDone \/ ResetQueued \/ ResetDone
           \/ \E r \in Req : CheckCompleted(r) \/ WatchDog(r) \/ ResetActive(r)

Next == UserStep \/ HardwareStep \/ HCDStep

Spec == Init /\ [][Next]_vars

\* The HCD task is scheduled and timer.device answers; a user in the middle of AbortIO()
\* runs on whenever the HCD task leaves it the processor time and again.  The controller
\* owes nothing: a device may stay silent for ever.
Fairness == /\ WF_vars(HCDStep)
            /\ \A r \in Req : WF_vars(TimerFires(r))
            /\ \A r \in Req : SF_vars(AbortPut(r))

LiveSpec == Spec /\ Fairness
-----------------------------------------------------------------------------
(* Safety *)

InEndpointQueue(r) == r \in ToSet(epQ[EpOf[r]])
InHand(r) == job.kind \in {"add", "reply"} /\ job.req = r

Places(r) ==
    {p \in {"begin port", "endpoint queue", "hardware", "in hand"} :
        \/ p = "begin port" /\ r \in ToSet(beginQ)
        \/ p = "endpoint queue" /\ InEndpointQueue(r)
        \/ p = "hardware" /\ r \in active
        \/ p = "in hand" /\ InHand(r)}

\* A request the stack owns is in exactly one place - the begin port, the queue of its
\* endpoint, the active list, or the routine that is adding or replying it - and one
\* the user owns is in none: no request is lost, none is answered twice, whatever the
\* order in which completions, timers, aborts and restarts reach the HCD task.
OneHolder ==
    \A r \in Req : Cardinality(Places(r)) = IF owner[r] = "stack" THEN 1 ELSE 0

\* ep_Request_Active, req_PublicStat and the active list tell the same story, and a
\* timer runs, or waits in the watchdog port, only for a request on the hardware:
\* __myHandle_WatchDog() takes the request out of the active list without looking.
HardwareAgrees ==
    /\ \A r \in active : epReq[EpOf[r]] = r /\ stat[r] = "Active"
    /\ \A e \in EP : epReq[e] # NoReq => epReq[e] \in active /\ EpOf[epReq[e]] = e
    /\ \A r \in Req : timer[r] # "off" => r \in active

\* No queue is left behind: while requests wait in an endpoint's queue, a transfer of
\* that endpoint is on the hardware, or the HCD task is on its way to the queue.
OnItsWay(e) ==
    /\ job.kind # "idle" /\ EpOf[job.req] = e
    /\ job.kind \in {"restart", "drain"} \/ job.then \in {"restart", "drain", "retry"}
NoStrandedQueue ==
    \A e \in EP : epQ[e] # <<>> => epReq[e] # NoReq \/ OnItsWay(e)

\* fkt_ActiveIOReq counts the requests between __myHandle_Begin() and the second half
\* of HCD_REPLY: Function_Free() and EndPoint_Free() release children only at zero.
Counted == {r \in Req : \/ r \in active \/ InEndpointQueue(r) \/ InHand(r)
                        \/ (job.kind = "finish" /\ job.req = r)}
ActiveCount == activeIO = Cardinality(Counted)

\* The HCD task never sleeps on work: a message in one of its ports, a fired timer and
\* an unread event have their signal pending, or in the mask being served.
NoLostWakeup ==
    LET pending == sig \cup mask
    IN  /\ beginQ # <<>> => "Begin" \in pending
        /\ abortQ # <<>> => "Abort" \in pending
        /\ (\E r \in Req : timer[r] = "fired") => "WatchDog" \in pending
        /\ (\E r \in Req : event[r] # "no") => pending \cap {"HCD", "Tick"} # {}
        /\ tick = "fired" => "Tick" \in pending

\* Nothing waits for nobody: neither a queue nor a message.
WorkIsSeen == NoStrandedQueue /\ NoLostWakeup

\* A stall reaches everything behind it: when the HCD task goes to sleep, a stalled
\* endpoint has no transfer on the hardware and none queued, but for the request that
\* un-stalls a pipe and what waits behind that.
StallFlushesQueue ==
    pc = "Wait" => \A e \in EP : stalled[e] =>
        \/ epReq[e] = NoReq /\ epQ[e] = <<>>
        \/ epReq[e] # NoReq /\ ClearEP[epReq[e]] # NoEP

\* The stack takes a pipe for un-stalled only when the device has carried out the
\* Clear_Feature that un-stalls it.
UnstalledByDevice ==
    [][\A e \in EP : stalled[e] /\ ~ stalled'[e] =>
          \E r \in active : ClearEP[r] = e /\ completed[r] = "Okay"]_vars

\* A stall holds: for everything behind it, and until the device has ended it.
StallHolds == UnstalledByDevice /\ [][StallFlushesQueue']_vars

-----------------------------------------------------------------------------
(* The inductive invariants behind OneHolder and HardwareAgrees *)

\* A request on the hardware, and only one per endpoint.
ActivePlace ==
    /\ \A r \in active : stat[r] = "Active" /\ owner[r] = "stack" /\ epReq[EpOf[r]] = r
    /\ \A e \in EP : epReq[e] # NoReq => epReq[e] \in active /\ EpOf[epReq[e]] = e
    /\ \A r \in Req : timer[r] # "off" => r \in active
    /\ \A r \in Req : stat[r] = "Active" =>
          r \in active \/ (job.kind \in {"reply", "finish"} /\ job.req = r)

\* A request in its endpoint's queue.
QueuePlace ==
    \A e \in EP :
        /\ Distinct(epQ[e])
        /\ \A r \in ToSet(epQ[e]) : EpOf[r] = e /\ stat[r] = "Queued" /\ owner[r] = "stack"

\* A request in the begin port: the stack has it, its state does not say so yet.
BeginPlace ==
    /\ Distinct(beginQ)
    /\ \A r \in ToSet(beginQ) : stat[r] = "User" /\ owner[r] = "stack"

\* The request the HCD task has in hand is in none of these places.
JobPlace ==
    /\ job.kind # "idle" => job.req \in Req
    /\ job.kind = "add" => job.then \in {"begin", "retry", "restart"}
    /\ job.kind \in {"reply", "finish"} => job.then \in {"stage", "restart", "drain"}
    /\ job.kind \in {"add", "reply"} =>
          owner[job.req] = "stack" /\ stat[job.req] # "User"
    /\ job.kind = "add" => stat[job.req] \in {"HCD", "Queued"}
    /\ job.kind \in {"add", "reply", "finish"} =>
          job.req \notin active \cup ToSet(epQ[EpOf[job.req]])

Placement == TypeOK /\ ActivePlace /\ QueuePlace /\ BeginPlace /\ JobPlace

\* A transfer that is on the hardware, or goes back there for a retry, is not one
\* the stalled pipe would answer.
StallPlace ==
    /\ \A r \in active : ~ PipeStalled(r)
    /\ job.kind = "add" /\ job.then = "retry" => ~ PipeStalled(job.req)

\* No request is lost.
NoneLost ==
    \A r \in Req : owner[r] = "stack" =>
        r \in ToSet(beginQ) \/ InEndpointQueue(r) \/ r \in active \/ InHand(r)

\* The inductive invariant behind OneHolder, where a retry always reaches the hardware.
Kept == Placement /\ StallPlace /\ NoneLost

\* What stays true of the count and of the queues, with Kept.
Working == Kept /\ IsFiniteSet(Counted) /\ ActiveCount /\ NoStrandedQueue

\* Where no restart drops a signal: the stage the task is in has its bit in the mask, the
\* task waits only with the mask served, and what comes after the poll of a stage has
\* raised a signal of its own.
StagePlace ==
    /\ "Restart" \notin sig \cup mask
    /\ pc = "Wait" => mask = {}
    /\ pc # "Wait" => pc \in mask
    /\ polled => /\ pc \in {"HCD", "Tick"}
                 /\ (\E r \in Req : event[r] # "no") => "HCD" \in sig
                 /\ pc = "Tick" /\ tick = "fired" => "Tick" \in sig

\* The inductive invariant behind WorkIsSeen.
Seen == StagePlace /\ NoLostWakeup

\* An event is known only of a transfer on the hardware, and its error is the request's.
EventPlace ==
    \A r \in Req : /\ r \notin active => event[r] = "no" /\ completed[r] = "no"
                   /\ completed[r] \notin {"no", "Okay"} => err[r] = completed[r]

\* With Working, the inductive invariant behind StallHolds: the task waits with nothing
\* in hand.
StallKept == EventPlace /\ (pc = "Wait" => job.kind = "idle")

-----------------------------------------------------------------------------
(* What an endpoint promises, see EndpointContract *)

InTransit(e) ==
    IF /\ job.kind = "add" /\ job.then \in {"restart", "retry"} /\ EpOf[job.req] = e
    THEN <<job.req>> ELSE <<>>
LineOf(e) == InTransit(e) \o (IF epReq[e] # NoReq THEN <<epReq[e]>> ELSE <<>>) \o epQ[e]

PhaseOf(r) == CASE owner[r] = "user" -> "free"
                [] owner[r] = "stack" /\ r \in ToSet(LineOf(EpOf[r])) -> "accepted"
                [] job.kind = "reply" /\ job.req = r -> "ended"
                [] OTHER -> "sent"
ResultOf(r) == IF PhaseOf(r) # "ended" THEN "none"
               ELSE IF err[r] = "Aborted" THEN "cancelled" ELSE "done"

Phase  == [r \in Req |-> PhaseOf(r)]
Result == [r \in Req |-> ResultOf(r)]
Line   == [e \in EP |-> LineOf(e)]

Contract == INSTANCE EndpointContract WITH phase <- Phase, result <- Result, line <- Line

\* With Working, the inductive invariant behind the contract: the endpoint is free for the
\* request that is on its way there, and an aborted request's answer is the next thing sent.
ContractKept ==
    /\ \A e \in EP : OnItsWay(e) => epReq[e] = NoReq
    /\ \A r \in Req : err[r] = "Aborted" =>
          owner[r] = "user" \/ (job.kind = "reply" /\ job.req = r)

\* The stack implements the contract: each submission of a request is answered once,
\* and an endpoint finishes what it accepted in order, retries and stalls and chip
\* restarts included; only an aborted request leaves the line out of its turn.
ImplementsContract == Contract!Spec

-----------------------------------------------------------------------------
(* Liveness *)

\* A request waits behind a transfer that has no time-out: its own timer is not sent
\* before it is on the hardware itself (__HCD_Add_Request).
BehindUntimed(r) ==
    InEndpointQueue(r) /\ \E a \in active : EpOf[a] = EpOf[r] /\ a \notin Timed

\* Whatever the device does, a request with a time-out comes back to its user once it
\* is on the hardware, and comes back from anywhere else unless it waits for ever
\* behind one without a time-out.
TimedAnswered ==
    \A r \in Timed : /\ r \in active ~> owner[r] = "user"
                     /\ owner[r] = "stack" ~> (owner[r] = "user" \/ []BehindUntimed(r))

\* An AbortIO() that finds its request queued or on the hardware brings it back, even
\* from a device that never answers and without a time-out; from the queue also where
\* the transfer ahead of it never ends.
AbortAnswered == \A r \in Req : r \in aborting ~> owner[r] = "user"
=============================================================================
