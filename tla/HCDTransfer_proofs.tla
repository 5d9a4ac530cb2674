------------------------- MODULE HCDTransfer_proofs -------------------------
(***************************************************************************)
(* The transfer core, for any number of requests and endpoints.              *)
(*   - A request is always in one place, and the three records of what is on *)
(*     the hardware agree.  The argument is the inductive invariant Placement:*)
(*     the state req_PublicStat of a request tells the list it is linked in,  *)
(*     a list holds it once, and the one the HCD task has in hand is in none. *)
(*   - The task's work is counted and seen: fkt_ActiveIOReq is the number of  *)
(*     requests between the begin port and the end of their reply, no queue   *)
(*     of an endpoint is left without somebody on the way to it, and the task *)
(*     does not sleep on a message, a timer or an event.                      *)
(*   - The core implements EndpointContract.                                  *)
(***************************************************************************)
EXTENDS HCDTransfer, QueueLemmas, FiniteSetTheorems

-----------------------------------------------------------------------------
(* Steps that leave the lists alone *)

LEMMA InitPlacement == Init => Placement
<1> SUFFICES ASSUME Init PROVE Placement
  OBVIOUS
<1> USE ConstantsAssumption DEF Init
<1>1. TypeOK
  <2>1. <<>> \in Seq(Req)
    BY EmptySeq
  <2>2. job \in Jobs
    BY DEF Jobs, Idle, Job
  <2>3. 0 \in 0 .. RetryMax
    OBVIOUS
  <2> QED BY <2>1, <2>2, <2>3 DEF TypeOK, Stats, Errors, Events, Signals
<1>2. \A e \in EP : epQ[e] = <<>> /\ ToSet(epQ[e]) = {} /\ ToSet(beginQ) = {}
  BY DEF ToSet
<1>3. ActivePlace /\ QueuePlace /\ BeginPlace /\ JobPlace
  BY <1>2 DEF ActivePlace, QueuePlace, BeginPlace, JobPlace, Distinct, Idle, Job, ToSet
<1> QED BY <1>1, <1>3 DEF Placement

LEMMA FrameStep ==
    ASSUME Placement, TypeOK',
           UNCHANGED <<owner, stat, timer, beginQ, active, epReq, epQ, job>>
    PROVE  Placement'
BY DEF Placement, ActivePlace, QueuePlace, BeginPlace, JobPlace

LEMMA GoToType ==
    ASSUME NEW m \in SUBSET Signals, GoTo(m)
    PROVE  /\ mask' \subseteq Signals
           /\ pc' \in {"Wait", "Reset", "HCD", "WatchDog", "Abort", "Begin", "Tick"}
BY DEF GoTo, Stages, Signals

\* What TypeOK says of the variables the placement is about.
LEMMA PlacementTypes ==
    ASSUME Placement
    PROVE  /\ owner \in [Req -> {"user", "stack"}]
           /\ stat \in [Req -> Stats]
           /\ timer \in [Req -> {"off", "running", "fired"}]
           /\ beginQ \in Seq(Req) /\ abortQ \in Seq(Req)
           /\ active \subseteq Req
           /\ epReq \in [EP -> Req \cup {NoReq}]
           /\ epQ \in [EP -> Seq(Req)]
           /\ job \in Jobs
BY DEF Placement, TypeOK

-----------------------------------------------------------------------------
(* Steps of the users and of the hardware *)

LEMMA BeginIOStep ==
    ASSUME Placement, NEW r \in Req, BeginIO(r) PROVE Placement'
<1>1. TypeOK'
  <2>1. TypeOK
    BY DEF Placement
  <2>2. Append(beginQ, r) \in Seq(Req)
    BY <2>1, AppendProperties DEF TypeOK
  <2>3. /\ err' \in [Req -> Errors]
    BY <2>1 DEF TypeOK, Errors, BeginIO, BeginError
  <2>4. /\ owner' \in [Req -> {"user", "stack"}]
        /\ beginQ' \in Seq(Req) /\ sig' \subseteq Signals
        /\ stat' \in [Req -> Stats]
    BY <2>1, <2>2 DEF TypeOK, Stats, Signals, BeginIO, Raise
  <2>5. UNCHANGED <<retry, destalling, timer, aborting, abortQ, hwVars, activeIO,
                    detach, tick, taskVars>>
    BY DEF BeginIO
  <2> QED BY <2>1, <2>3, <2>4, <2>5 DEF TypeOK, hwVars, taskVars
<1>2. /\ owner[r] = "user"
      /\ UNCHANGED <<timer, active, epReq, epQ, job>>
  BY DEF BeginIO, hwVars, taskVars
<1>3. r \notin active /\ (\A e \in EP : r \notin ToSet(epQ[e])) /\ r \notin ToSet(beginQ)
  BY <1>2 DEF Placement, ActivePlace, QueuePlace, BeginPlace
<1>4. CASE BeginError(r) = "None"
  <2>1. /\ beginQ' = Append(beginQ, r) /\ stat' = stat /\ stat[r] = "User"
        /\ owner' = [owner EXCEPT ![r] = "stack"]
    BY <1>4 DEF BeginIO, BeginError
  <2>2. /\ ToSet(beginQ') = ToSet(beginQ) \cup {r}
        /\ Distinct(beginQ')
    <3>1. beginQ \in Seq(Req) /\ Distinct(beginQ)
      BY PlacementTypes DEF Placement, BeginPlace
    <3> QED BY <1>3, <2>1, <3>1, AppendPlace
  <2>3. ActivePlace' /\ QueuePlace'
    BY <1>2, <1>3, <2>1, PlacementTypes DEF Placement, ActivePlace, QueuePlace
  <2>4. BeginPlace'
    BY <2>1, <2>2, PlacementTypes DEF Placement, BeginPlace
  <2>5. JobPlace'
    BY <1>2, <2>1, PlacementTypes DEF Placement, JobPlace
  <2> QED BY <1>1, <2>3, <2>4, <2>5 DEF Placement
<1>5. CASE BeginError(r) # "None"
  <2>1. /\ stat' = [stat EXCEPT ![r] = "User"]
        /\ owner' = owner /\ beginQ' = beginQ
    BY <1>5 DEF BeginIO
  <2>2. ActivePlace' /\ QueuePlace' /\ BeginPlace'
    BY <1>2, <1>3, <2>1, PlacementTypes
       DEF Placement, ActivePlace, QueuePlace, BeginPlace, Stats
  <2>3. JobPlace'
    BY <1>2, <2>1, PlacementTypes DEF Placement, JobPlace
  <2> QED BY <1>1, <2>2, <2>3 DEF Placement
<1> QED BY <1>4, <1>5

LEMMA TimerStep ==
    ASSUME Placement, NEW r \in Req, TimerFires(r) PROVE Placement'
<1>1. TypeOK'
  BY DEF Placement, TypeOK, TimerFires, Raise, Signals, portVars, hwVars, taskVars
<1>2. /\ timer[r] = "running" /\ timer' = [timer EXCEPT ![r] = "fired"]
      /\ UNCHANGED <<owner, stat, beginQ, active, epReq, epQ, job>>
  BY DEF TimerFires, portVars, hwVars, taskVars
<1>3. \A q \in Req : timer'[q] # "off" => q \in active
  BY <1>2, PlacementTypes DEF Placement, ActivePlace
<1> QED BY <1>1, <1>2, <1>3 DEF Placement, ActivePlace, QueuePlace, BeginPlace, JobPlace

\* AbortIO(), the unplugged device, the controller and the tick timer touch no list.
LEMMA OutsideStep ==
    ASSUME Placement,
           \/ \E r \in Req : AbortTest(r) \/ AbortPut(r) \/ (\E c \in Codes : Complete(r, c))
           \/ Detach \/ TickFires \/ HostError
    PROVE  Placement'
<1> USE DEF reqVars, portVars, hwVars, taskVars
<1>1. ASSUME NEW r \in Req, AbortTest(r) PROVE Placement'
  <2>1. TypeOK'
    BY <1>1 DEF Placement, TypeOK, AbortTest
  <2> QED BY <1>1, <2>1, FrameStep DEF AbortTest
<1>2. ASSUME NEW r \in Req, AbortPut(r) PROVE Placement'
  <2>1. Append(abortQ, r) \in Seq(Req)
    BY PlacementTypes, AppendProperties
  <2>2. TypeOK'
    BY <1>2, <2>1 DEF Placement, TypeOK, AbortPut, Raise, Signals
  <2> QED BY <1>2, <2>2, FrameStep DEF AbortPut
<1>3. ASSUME NEW r \in Req, NEW c \in Codes, Complete(r, c) PROVE Placement'
  <2>1. TypeOK'
    BY <1>3 DEF Placement, TypeOK, Complete, Raise, Signals, Events
  <2> QED BY <1>3, <2>1, FrameStep DEF Complete
<1>4. ASSUME Detach \/ TickFires \/ HostError PROVE Placement'
  <2>1. TypeOK'
    BY <1>4 DEF Placement, TypeOK, Detach, TickFires, HostError, Raise, Signals
  <2> QED BY <1>4, <2>1, FrameStep DEF Detach, TickFires, HostError
<1> QED BY <1>1, <1>2, <1>3, <1>4

-----------------------------------------------------------------------------
(* Steps of the HCD task that touch no list *)

LEMMA LoopStep ==
    ASSUME Placement, Wake \/ PollDone \/ WatchDogDone \/ AbortDone \/ BeginDone \/ ResetDone
    PROVE  Placement'
<1>1. /\ mask' \subseteq Signals
      /\ pc' \in {"Wait", "Reset", "HCD", "WatchDog", "Abort", "Begin", "Tick"}
  <2>1. sig \in SUBSET Signals /\ mask \ {pc} \in SUBSET Signals /\ {} \in SUBSET Signals
    BY DEF Placement, TypeOK
  <2>2. CASE Wake
    BY <2>1, <2>2, GoToType DEF Wake
  <2>3. CASE PollDone \/ WatchDogDone \/ AbortDone \/ BeginDone \/ ResetDone
    BY <2>1, <2>3, GoToType
       DEF PollDone, WatchDogDone, AbortDone, BeginDone, ResetDone, EndStage, MaskAfterReset
  <2> QED BY <2>2, <2>3
<1>2. /\ UNCHANGED <<reqVars, portVars, hwVars, activeIO, detach, tick, job>>
      /\ sig' \in {sig, {}} /\ polled' \in {polled, FALSE}
  BY DEF Wake, PollDone, WatchDogDone, AbortDone, BeginDone, ResetDone
<1>3. TypeOK'
  BY <1>1, <1>2 DEF Placement, TypeOK, reqVars, portVars, hwVars
<1> QED BY <1>2, <1>3, FrameStep DEF reqVars, portVars, hwVars

LEMMA PollStep == ASSUME Placement, PollEvents PROVE Placement'
<1>1. TypeOK'
  <2>1. TypeOK
    BY DEF Placement
  <2>2. completed' \in [Req -> Events] /\ event' \in [Req -> Events]
    BY <2>1 DEF PollEvents, TypeOK, Events
  <2>3. err' \in [Req -> Errors]
    BY <2>1, ConstantsAssumption DEF PollEvents, TypeOK, Events, Errors
  <2>4. tick' \in {"running", "fired"} /\ polled' \in BOOLEAN
    BY <2>1 DEF PollEvents, TypeOK
  <2>5. UNCHANGED <<owner, stat, retry, destalling, timer, portVars, active, epReq,
                    epQ, stalled, activeIO, detach, sig, mask, pc, job>>
    BY DEF PollEvents
  <2> QED BY <2>1, <2>2, <2>3, <2>4, <2>5 DEF TypeOK, portVars
<1>2. UNCHANGED <<owner, stat, timer, beginQ, active, epReq, epQ, job>>
  BY DEF PollEvents, portVars
<1> QED BY <1>1, <1>2, FrameStep

-----------------------------------------------------------------------------
(* Steps of the HCD task that move a request *)

LEMMA JobRecord ==
    ASSUME NEW k \in {"idle", "add", "reply", "finish", "restart", "drain"},
           NEW r \in Req \cup {NoReq},
           NEW t \in {"stage", "begin", "retry", "restart", "drain"}
    PROVE  /\ Job(k, r, t) \in Jobs
           /\ Job(k, r, t).kind = k /\ Job(k, r, t).req = r /\ Job(k, r, t).then = t
BY DEF Job, Jobs

LEMMA IdleRecord == Idle \in Jobs /\ Idle.kind = "idle"
BY DEF Idle, Job, Jobs

LEMMA ExceptType ==
    ASSUME NEW S, NEW T, NEW f \in [S -> T], NEW x, NEW v \in T
    PROVE  [f EXCEPT ![x] = v] \in [S -> T]
OBVIOUS

LEMMA StalledType ==
    ASSUME Placement, NEW r \in Req, NEW e, NEW l
    PROVE  StalledAfter(r, e, l) \in [EP -> BOOLEAN]
BY DEF Placement, TypeOK, StalledAfter

\* A request enters its endpoint's queue.
LEMMA AddQueuedStep ==
    ASSUME Placement, AddRequest, AddQueued(job.req) PROVE Placement'
<1> DEFINE r == job.req
           e == EpOf[r]
<1>1. /\ job.kind = "add" /\ job' = Idle
      /\ stat' = [stat EXCEPT ![r] = "Queued"]
      /\ epQ' = [epQ EXCEPT ![e] = Append(@, r)]
      /\ UNCHANGED <<owner, timer, beginQ, active, epReq>>
  BY DEF AddRequest, AddQueued, portVars
<1>2. /\ r \in Req /\ owner[r] = "stack" /\ stat[r] # "User"
      /\ r \notin active /\ r \notin ToSet(epQ[e])
  BY <1>1 DEF Placement, JobPlace
<1>3. e \in EP /\ epQ[e] \in Seq(Req)
  BY <1>2, PlacementTypes, ConstantsAssumption
<1>4. /\ epQ'[e] = Append(epQ[e], r) /\ epQ'[e] \in Seq(Req)
      /\ ToSet(epQ'[e]) = ToSet(epQ[e]) \cup {r}
      /\ Distinct(epQ'[e])
  <2>1. epQ'[e] = Append(epQ[e], r)
    BY <1>1, <1>3, PlacementTypes
  <2>2. Distinct(epQ[e])
    BY <1>3 DEF Placement, QueuePlace
  <2> HIDE DEF r, e
  <2> QED BY <1>2, <1>3, <2>1, <2>2, AppendPlace
<1>5. \A d \in EP : d # e => epQ'[d] = epQ[d]
  BY <1>1, PlacementTypes
<1>6. TypeOK'
  <2>1. TypeOK
    BY DEF Placement
  <2>2. epQ' \in [EP -> Seq(Req)]
    BY <1>1, <1>4, <1>5, PlacementTypes
  <2>3. stat' \in [Req -> Stats] /\ job' \in Jobs
    BY <1>1, PlacementTypes, IdleRecord DEF Stats
  <2>4. UNCHANGED <<owner, err, retry, destalling, timer, portVars, active, epReq,
                    stalled, event, completed, activeIO, detach, tick, sig, mask, pc, polled>>
    BY DEF AddRequest, AddQueued
  <2> HIDE DEF r, e
  <2> QED BY <2>1, <2>2, <2>3, <2>4 DEF TypeOK, portVars
<1>7. ActivePlace'
  BY <1>1, <1>2, PlacementTypes, IdleRecord DEF Placement, ActivePlace
<1>8. QueuePlace'
  <2>1. \A q \in ToSet(epQ'[e]) : EpOf[q] = e /\ stat'[q] = "Queued" /\ owner'[q] = "stack"
    BY <1>1, <1>2, <1>3, <1>4, PlacementTypes DEF Placement, QueuePlace
  <2>2. \A d \in EP : r \in ToSet(epQ[d]) => d = e
    BY DEF Placement, QueuePlace
  <2>3. ASSUME NEW d \in EP, d # e
        PROVE  /\ Distinct(epQ'[d])
               /\ \A q \in ToSet(epQ'[d]) :
                     EpOf[q] = d /\ stat'[q] = "Queued" /\ owner'[q] = "stack"
    BY <1>1, <1>5, <2>2, <2>3, PlacementTypes DEF Placement, QueuePlace
  <2> QED BY <1>4, <2>1, <2>3 DEF QueuePlace
<1>9. BeginPlace' /\ JobPlace'
  BY <1>1, <1>2, PlacementTypes, IdleRecord DEF Placement, BeginPlace, JobPlace
<1> QED BY <1>6, <1>7, <1>8, <1>9 DEF Placement

\* A request enters the active list; its endpoint had none there.
LEMMA AddActiveStep ==
    ASSUME Placement, AddRequest, AddActive(job.req) PROVE Placement'
<1> DEFINE r == job.req
           e == EpOf[r]
<1>1. /\ job.kind = "add" /\ job' = Idle
      /\ epReq[e] = NoReq /\ epReq' = [epReq EXCEPT ![e] = r]
      /\ stat' = [stat EXCEPT ![r] = "Active"]
      /\ active' = active \cup {r}
      /\ timer' \in {timer, [timer EXCEPT ![r] = "running"]}
      /\ UNCHANGED <<owner, beginQ, epQ>>
  BY DEF AddRequest, AddActive, TimerAfterAdd, portVars
<1>2. /\ r \in Req /\ owner[r] = "stack" /\ stat[r] # "User"
      /\ r \notin active /\ r \notin ToSet(epQ[e]) /\ e \in EP
  BY <1>1, ConstantsAssumption DEF Placement, JobPlace
<1>3. \A d \in EP : r \notin ToSet(epQ[d])
  BY <1>2 DEF Placement, QueuePlace
<1>4. \A q \in active : EpOf[q] # e
  BY <1>1, ConstantsAssumption, PlacementTypes DEF Placement, ActivePlace
<1>5. TypeOK'
  <2>1. TypeOK
    BY DEF Placement
  <2>2. /\ epReq' \in [EP -> Req \cup {NoReq}] /\ active' \subseteq Req
        /\ stat' \in [Req -> Stats] /\ job' \in Jobs
        /\ timer' \in [Req -> {"off", "running", "fired"}]
    BY <1>1, <1>2, PlacementTypes, IdleRecord DEF Stats
  <2>3. retry' \in [Req -> 0 .. RetryMax] /\ destalling' \in [Req -> BOOLEAN]
    <3>1. /\ retry' = [retry EXCEPT ![r] = 0]
          /\ destalling' = [destalling EXCEPT ![r] = ClearEP[r] # NoEP]
      BY DEF AddActive
    <3>2. /\ retry \in [Req -> 0 .. RetryMax] /\ 0 \in 0 .. RetryMax
          /\ destalling \in [Req -> BOOLEAN] /\ (ClearEP[r] # NoEP) \in BOOLEAN
      BY <2>1, ConstantsAssumption DEF TypeOK
    <3> QED BY <3>1, <3>2, ExceptType
  <2>4. UNCHANGED <<owner, err, portVars, epQ, stalled, event, completed, activeIO,
                    detach, tick, sig, mask, pc, polled>>
    BY DEF AddRequest, AddActive
  <2> HIDE DEF r, e
  <2> QED BY <2>1, <2>2, <2>3, <2>4 DEF TypeOK, portVars
<1>6. ActivePlace'
  <2>1. /\ stat'[r] = "Active" /\ owner'[r] = "stack" /\ epReq'[e] = r
        /\ \A q \in active : /\ stat'[q] = "Active" /\ owner'[q] = "stack"
                             /\ epReq'[EpOf[q]] = q
    BY <1>1, <1>2, <1>4, PlacementTypes, ConstantsAssumption DEF Placement, ActivePlace
  <2>2. \A d \in EP : epReq'[d] # NoReq => epReq'[d] \in active' /\ EpOf[epReq'[d]] = d
    BY <1>1, <1>2, PlacementTypes DEF Placement, ActivePlace
  <2>3. \A q \in Req : timer'[q] # "off" => q \in active'
    BY <1>1, PlacementTypes DEF Placement, ActivePlace
  <2>4. \A q \in Req : stat'[q] = "Active" => q \in active'
    BY <1>1, PlacementTypes DEF Placement, ActivePlace
  <2> QED BY <1>1, <2>1, <2>2, <2>3, <2>4 DEF ActivePlace
<1>7. QueuePlace'
  BY <1>1, <1>3, PlacementTypes DEF Placement, QueuePlace
<1>8. BeginPlace' /\ JobPlace'
  BY <1>1, <1>2, PlacementTypes, IdleRecord DEF Placement, BeginPlace, JobPlace
<1> QED BY <1>5, <1>6, <1>7, <1>8 DEF Placement

\* A request answered at once goes from the adding to the replying hand.
LEMMA AddHandledStep ==
    ASSUME Placement, AddRequest, AddHandled(job.req) PROVE Placement'
<1> DEFINE r == job.req
<1>1. /\ job.kind = "add" /\ UNCHANGED <<owner, stat, beginQ, active, epReq, epQ>>
      /\ timer' \in {timer, [timer EXCEPT ![r] = "off"]}
  BY DEF AddRequest, AddHandled, TimerStopped, portVars
<1>2. /\ r \in Req /\ job.then \in {"begin", "retry", "restart"}
      /\ owner[r] = "stack" /\ stat[r] \in {"HCD", "Queued"}
      /\ r \notin active \cup ToSet(epQ[EpOf[r]])
  BY <1>1 DEF Placement, JobPlace
<1>3. \/ job' = Idle
      \/ /\ job' \in Jobs /\ job'.kind = "reply" /\ job'.req = r
         /\ job'.then \in {"stage", "restart"}
  <2>1. \/ job' = Idle \/ job' = Job("reply", r, "stage") \/ job' = Job("reply", r, "restart")
    BY <1>2 DEF AddHandled
  <2> QED BY <1>2, <2>1, JobRecord
<1>4. TypeOK'
  <2>1. TypeOK
    BY DEF Placement
  <2>2. /\ job' \in Jobs
        /\ timer' \in [Req -> {"off", "running", "fired"}]
    BY <1>1, <1>3, PlacementTypes, IdleRecord
  <2>3. PICK e \in {"Stall"} \cup BuildErrs :
           /\ err' = [err EXCEPT ![r] = IF err[r] = "None" THEN e ELSE err[r]]
           /\ stalled' = stalled \/ (\E x, l : stalled' = StalledAfter(r, x, l))
           /\ \E b \in BOOLEAN : destalling' = [destalling EXCEPT ![r] = b]
    BY DEF AddHandled
  <2>4. err' \in [Req -> Errors]
    BY <1>2, <2>1, <2>3, ConstantsAssumption DEF TypeOK, Errors
  <2>5. stalled' \in [EP -> BOOLEAN]
    BY <1>2, <2>1, <2>3, StalledType DEF TypeOK
  <2>6. /\ retry' \in [Req -> 0 .. RetryMax]
        /\ destalling' \in [Req -> BOOLEAN]
    <3>1. retry' = [retry EXCEPT ![r] = 0]
      BY DEF AddHandled
    <3>2. /\ retry \in [Req -> 0 .. RetryMax] /\ 0 \in 0 .. RetryMax
          /\ destalling \in [Req -> BOOLEAN]
      BY <2>1, ConstantsAssumption DEF TypeOK
    <3> QED BY <2>3, <3>1, <3>2, ExceptType
  <2>7. UNCHANGED <<owner, stat, portVars, active, epReq, epQ, event, completed,
                    activeIO, detach, tick, sig, mask, pc, polled>>
    BY DEF AddRequest, AddHandled
  <2> HIDE DEF r
  <2> QED BY <2>1, <2>2, <2>4, <2>5, <2>6, <2>7 DEF TypeOK, portVars
<1>5. ActivePlace'
  BY <1>1, <1>2, PlacementTypes DEF Placement, ActivePlace
<1>6. QueuePlace' /\ BeginPlace'
  BY <1>1 DEF Placement, QueuePlace, BeginPlace
<1>7. JobPlace'
  BY <1>1, <1>2, <1>3, IdleRecord DEF JobPlace
<1> QED BY <1>4, <1>5, <1>6, <1>7 DEF Placement

\* A transfer leaves the active list, for the retrying or the replying hand.
LEMMA RemoveStep ==
    ASSUME Placement, NEW r \in active, NEW e \in Errors, NEW force \in BOOLEAN,
           job.kind = "idle", RemoveTransfer(r, e, force), abortQ' \in Seq(Req),
           UNCHANGED <<owner, aborting, beginQ, epQ, activeIO, detach, tick, sig,
                       mask, pc, polled>>
    PROVE  Placement'
<1>1. r \in Req /\ stat[r] = "Active" /\ owner[r] = "stack" /\ epReq[EpOf[r]] = r
  BY PlacementTypes DEF Placement, ActivePlace
<1>2. /\ active' = active \ {r}
      /\ timer' = [timer EXCEPT ![r] = "off"]
      /\ stat' = [stat EXCEPT ![r] = "HCD"]
      /\ epReq' = [epReq EXCEPT ![EpOf[r]] = NoReq]
      /\ UNCHANGED <<owner, beginQ, epQ>>
  BY <1>1 DEF RemoveTransfer, TimerStopped
<1>3. /\ job' \in Jobs /\ job'.kind \in {"add", "reply"} /\ job'.req = r
      /\ job'.kind = "add" => job'.then = "retry"
      /\ job'.kind = "reply" => job'.then = "restart"
  <2>1. job' = Job("add", r, "retry") \/ job' = Job("reply", r, "restart")
    BY DEF RemoveTransfer
  <2> QED BY <1>1, <2>1, JobRecord
<1>4. TypeOK'
  <2>1. TypeOK
    BY DEF Placement
  <2>2. /\ active' \subseteq Req /\ epReq' \in [EP -> Req \cup {NoReq}]
        /\ stat' \in [Req -> Stats] /\ timer' \in [Req -> {"off", "running", "fired"}]
    BY <1>1, <1>2, PlacementTypes DEF Stats
  <2>3. err' \in [Req -> Errors]
    <3>1. err' = [err EXCEPT ![r] = "None"] \/ err' = [err EXCEPT ![r] = e]
      BY DEF RemoveTransfer
    <3>2. err \in [Req -> Errors] /\ "None" \in Errors
      BY <2>1 DEF TypeOK, Errors
    <3> QED BY <3>1, <3>2, ExceptType
  <2>4. retry' \in [Req -> 0 .. RetryMax]
    <3>1. \/ retry' = retry
          \/ retry[r] < RetryMax /\ retry' = [retry EXCEPT ![r] = retry[r] + 1]
      BY DEF RemoveTransfer, RetryAllowed
    <3>2. retry \in [Req -> 0 .. RetryMax] /\ RetryMax \in Nat
      BY <2>1, ConstantsAssumption DEF TypeOK
    <3>3. retry[r] < RetryMax => retry[r] + 1 \in 0 .. RetryMax
      BY <1>1, <3>2
    <3> QED BY <3>1, <3>2, <3>3, ExceptType
  <2>5. destalling' \in [Req -> BOOLEAN]
    <3>1. destalling' = [destalling EXCEPT ![r] = FALSE]
      BY DEF RemoveTransfer
    <3>2. destalling \in [Req -> BOOLEAN]
      BY <2>1 DEF TypeOK
    <3> QED BY <3>1, <3>2, ExceptType
  <2>6. stalled' \in [EP -> BOOLEAN]
    BY <1>1, StalledType DEF RemoveTransfer
  <2>7. event' \in [Req -> Events] /\ completed' \in [Req -> Events]
    <3>1. /\ event' = [event EXCEPT ![r] = "no"]
          /\ completed' = [completed EXCEPT ![r] = "no"]
      BY DEF RemoveTransfer
    <3>2. event \in [Req -> Events] /\ completed \in [Req -> Events] /\ "no" \in Events
      BY <2>1 DEF TypeOK, Events
    <3> QED BY <3>1, <3>2, ExceptType
  <2> QED BY <1>3, <2>1, <2>2, <2>3, <2>4, <2>5, <2>6, <2>7 DEF TypeOK
<1>5. \A d \in EP : r \notin ToSet(epQ[d])
  BY <1>1 DEF Placement, QueuePlace
<1>6. ActivePlace'
  <2>1. \A q \in active' : /\ stat'[q] = "Active" /\ owner'[q] = "stack"
                           /\ epReq'[EpOf[q]] = q
    BY <1>1, <1>2, PlacementTypes, ConstantsAssumption DEF Placement, ActivePlace
  <2>2. \A d \in EP : epReq'[d] # NoReq => epReq'[d] \in active' /\ EpOf[epReq'[d]] = d
    BY <1>1, <1>2, PlacementTypes DEF Placement, ActivePlace
  <2>3. \A q \in Req : timer'[q] # "off" => q \in active'
    BY <1>1, <1>2, PlacementTypes DEF Placement, ActivePlace
  <2>4. \A q \in Req : stat'[q] = "Active" => q \in active'
    BY <1>1, <1>2, PlacementTypes DEF Placement, ActivePlace
  <2> QED BY <2>1, <2>2, <2>3, <2>4 DEF ActivePlace
<1>7. QueuePlace' /\ BeginPlace'
  BY <1>1, <1>2, <1>5, PlacementTypes DEF Placement, QueuePlace, BeginPlace
<1>8. JobPlace'
  <2>1. stat'[r] = "HCD" /\ owner'[r] = "stack" /\ r \notin active'
    BY <1>1, <1>2, PlacementTypes
  <2>2. r \notin ToSet(epQ'[EpOf[r]])
    BY <1>1, <1>2, <1>5, ConstantsAssumption
  <2> QED BY <1>1, <1>3, <2>1, <2>2 DEF JobPlace
<1> QED BY <1>4, <1>6, <1>7, <1>8 DEF Placement

\* The event, the timer and the abort that take a transfer off the hardware.
LEMMA EndOfTransferStep ==
    ASSUME Placement, NEW r \in Req, CheckCompleted(r) \/ WatchDog(r)
    PROVE  Placement'
<1>1. r \in active /\ job.kind = "idle"
  BY DEF CheckCompleted, WatchDog, InStage, Placement, ActivePlace
<1>2. /\ UNCHANGED <<owner, portVars, epQ, activeIO, detach, tick, sig, mask, pc,
                     polled>>
      /\ abortQ' \in Seq(Req)
  BY PlacementTypes DEF CheckCompleted, WatchDog, portVars
<1>3. \E e \in Errors, force \in BOOLEAN : RemoveTransfer(r, e, force)
  <2>1. err[r] \in Errors /\ "Timeout" \in Errors
    BY DEF Placement, TypeOK, Errors
  <2> QED BY <2>1 DEF CheckCompleted, WatchDog
<1> QED BY <1>1, <1>2, <1>3, RemoveStep DEF portVars

LEMMA AbortActiveStep ==
    ASSUME Placement, Abort, AbortActive(Head(abortQ)) PROVE Placement'
<1> DEFINE r == Head(abortQ)
<1>1. /\ r \in Req /\ abortQ' \in Seq(Req)
  BY PlacementTypes, TailPlace DEF Abort
<1>2. job.kind = "idle" /\ stat[r] = "Active"
  BY DEF Abort, InStage, AbortActive
<1>3. r \in active
  BY <1>1, <1>2 DEF Placement, ActivePlace
<1>4. UNCHANGED <<owner, aborting, beginQ, epQ, activeIO, detach, tick, sig,
                  mask, pc, polled>>
  BY DEF Abort, AbortActive
<1>5. RemoveTransfer(r, "Aborted", TRUE) /\ "Aborted" \in Errors /\ TRUE \in BOOLEAN
  BY DEF AbortActive, Errors
<1> HIDE DEF r
<1> QED BY <1>1, <1>2, <1>3, <1>4, <1>5, RemoveStep

\* An aborted request leaves its endpoint's queue.
LEMMA AbortQueuedStep ==
    ASSUME Placement, Abort, AbortQueued(Head(abortQ)) PROVE Placement'
<1> DEFINE r == Head(abortQ)
           e == EpOf[r]
<1>1. /\ r \in Req /\ abortQ' \in Seq(Req) /\ e \in EP
  BY PlacementTypes, TailPlace, ConstantsAssumption DEF Abort
<1>2. PICK i \in 1 .. Len(epQ[e]) :
         epQ[e][i] = r /\ epQ' = [epQ EXCEPT ![e] = RemoveAt(@, i)]
  BY DEF AbortQueued, QueuePositions
<1>3. /\ job.kind = "idle" /\ stat[r] = "Queued"
      /\ job' = Job("reply", r, "stage")
      /\ UNCHANGED <<owner, stat, timer, beginQ, active, epReq>>
  BY DEF Abort, InStage, AbortQueued
<1>4. /\ epQ'[e] \in Seq(Req) /\ ToSet(epQ'[e]) \subseteq ToSet(epQ[e])
      /\ Distinct(epQ'[e]) /\ r \notin ToSet(epQ'[e]) /\ r \in ToSet(epQ[e])
  <2>1. epQ[e] \in Seq(Req) /\ epQ'[e] = RemoveAt(epQ[e], i) /\ Distinct(epQ[e])
    BY <1>1, <1>2, PlacementTypes DEF Placement, QueuePlace
  <2> HIDE DEF r, e
  <2> QED BY <1>2, <2>1, RemoveAtPlace
<1>5. \A d \in EP : d # e => epQ'[d] = epQ[d]
  BY <1>2, PlacementTypes
<1>6. owner[r] = "stack" /\ r \notin active
  BY <1>1, <1>3, <1>4 DEF Placement, QueuePlace, ActivePlace
<1>7. /\ job' \in Jobs /\ job'.kind = "reply" /\ job'.req = r /\ job'.then = "stage"
  BY <1>1, <1>3, JobRecord
<1>8. TypeOK'
  <2>1. TypeOK
    BY DEF Placement
  <2>2. epQ' \in [EP -> Seq(Req)]
    BY <1>2, <1>4, <1>5, PlacementTypes
  <2>3. err' \in [Req -> Errors]
    <3>1. err' = [err EXCEPT ![r] = "Aborted"]
      BY DEF AbortQueued
    <3>2. err \in [Req -> Errors] /\ "Aborted" \in Errors
      BY <2>1 DEF TypeOK, Errors
    <3> QED BY <3>1, <3>2, ExceptType
  <2>4. UNCHANGED <<owner, stat, retry, destalling, timer, aborting, beginQ, active,
                    epReq, stalled, event, completed, activeIO, detach, tick, sig, mask, pc,
                    polled>>
    BY DEF Abort, AbortQueued
  <2> HIDE DEF r, e
  <2> QED BY <1>1, <1>7, <2>1, <2>2, <2>3, <2>4 DEF TypeOK
<1>9. ActivePlace'
  BY <1>3, <1>7 DEF Placement, ActivePlace
<1>10. QueuePlace'
  <2>1. \A d \in EP : /\ Distinct(epQ'[d])
                      /\ ToSet(epQ'[d]) \subseteq ToSet(epQ[d])
    BY <1>4, <1>5 DEF Placement, QueuePlace
  <2> QED BY <1>3, <2>1 DEF Placement, QueuePlace
<1>11. BeginPlace' /\ JobPlace'
  BY <1>1, <1>3, <1>4, <1>6, <1>7 DEF Placement, BeginPlace, JobPlace
<1> QED BY <1>8, <1>9, <1>10, <1>11 DEF Placement

LEMMA AbortStep == ASSUME Placement, Abort PROVE Placement'
<1> DEFINE r == Head(abortQ)
<1>1. CASE AbortActive(r)
  BY <1>1, AbortActiveStep
<1>2. CASE AbortQueued(r)
  BY <1>2, AbortQueuedStep
<1>3. CASE AbortIgnored(r)
  <2>1. abortQ' \in Seq(Req)
    BY PlacementTypes, TailPlace DEF Abort
  <2>2. UNCHANGED <<reqVars, aborting, beginQ, hwVars, activeIO, detach, tick, sig, taskVars>>
    BY <1>3 DEF Abort, AbortIgnored, reqVars, taskVars
  <2>3. TypeOK'
    BY <2>1, <2>2 DEF Placement, TypeOK, reqVars, hwVars, taskVars
  <2> QED BY <2>2, <2>3, FrameStep DEF reqVars, hwVars, taskVars
<1> QED BY <1>1, <1>2, <1>3 DEF Abort

\* The replying hand lets go of the request.
LEMMA ReplyStep == ASSUME Placement, Reply PROVE Placement'
<1> DEFINE r == job.req
<1>1. /\ job.kind = "reply" /\ job' = [job EXCEPT !.kind = "finish"]
      /\ owner' = [owner EXCEPT ![r] = "user"]
      /\ UNCHANGED <<stat, timer, beginQ, active, epReq, epQ>>
  BY DEF Reply, portVars, hwVars
<1>2. /\ r \in Req /\ stat[r] # "User" /\ job.then \in {"stage", "restart", "drain"}
      /\ r \notin active \cup ToSet(epQ[EpOf[r]])
  BY <1>1 DEF Placement, JobPlace
<1>3. /\ job' \in Jobs /\ job'.kind = "finish" /\ job'.req = r /\ job'.then = job.then
  BY <1>1, PlacementTypes DEF Jobs
<1>4. TypeOK'
  <2>1. TypeOK
    BY DEF Placement
  <2>2. owner' \in [Req -> {"user", "stack"}]
    BY <1>1, PlacementTypes
  <2>3. UNCHANGED <<stat, err, retry, destalling, timer, portVars, hwVars, activeIO,
                    detach, tick, sig, mask, pc, polled>>
    BY DEF Reply
  <2> QED BY <1>3, <2>1, <2>2, <2>3 DEF TypeOK, portVars, hwVars
<1>5. (\A d \in EP : r \notin ToSet(epQ[d])) /\ r \notin ToSet(beginQ)
  BY <1>2 DEF Placement, QueuePlace, BeginPlace
<1>6. ActivePlace'
  BY <1>1, <1>2, <1>3, PlacementTypes DEF Placement, ActivePlace
<1>7. QueuePlace' /\ BeginPlace'
  BY <1>1, <1>5, PlacementTypes DEF Placement, QueuePlace, BeginPlace
<1>8. JobPlace'
  BY <1>1, <1>2, <1>3 DEF JobPlace
<1> QED BY <1>4, <1>6, <1>7, <1>8 DEF Placement

LEMMA FinishStep == ASSUME Placement, Finish PROVE Placement'
<1> DEFINE r == job.req
<1>1. /\ job.kind = "finish" /\ job' = AfterReply
      /\ stat' = [stat EXCEPT ![r] = "User"]
      /\ UNCHANGED <<owner, timer, beginQ, active, epReq, epQ>>
  BY DEF Finish, portVars, hwVars
<1>2. /\ r \in Req /\ job.then \in {"stage", "restart", "drain"}
      /\ r \notin active \cup ToSet(epQ[EpOf[r]])
  BY <1>1 DEF Placement, JobPlace
<1>3. /\ job' \in Jobs /\ job'.kind \in {"idle", "restart", "drain"}
      /\ job'.kind # "idle" => job'.req = r
  <2>1. job' = Idle \/ job' = Job("restart", r, "stage") \/ job' = Job("drain", r, "stage")
    BY <1>1, <1>2 DEF AfterReply
  <2> QED BY <1>2, <2>1, JobRecord, IdleRecord
<1>4. TypeOK'
  <2>1. TypeOK
    BY DEF Placement
  <2>2. activeIO' \in Nat
    BY <2>1 DEF TypeOK, Finish, ActiveSub
  <2>3. stat' \in [Req -> Stats]
    BY <1>1, PlacementTypes DEF Stats
  <2>4. UNCHANGED <<owner, err, retry, destalling, timer, portVars, hwVars, detach,
                    tick, sig, mask, pc, polled>>
    BY DEF Finish
  <2> QED BY <1>3, <2>1, <2>2, <2>3, <2>4 DEF TypeOK, portVars, hwVars
<1>5. \A d \in EP : r \notin ToSet(epQ[d])
  BY <1>2 DEF Placement, QueuePlace
<1>6. ActivePlace'
  BY <1>1, <1>2, <1>3, PlacementTypes DEF Placement, ActivePlace, Stats
<1>7. QueuePlace' /\ BeginPlace'
  BY <1>1, <1>2, <1>5, PlacementTypes DEF Placement, QueuePlace, BeginPlace, Stats
<1>8. JobPlace'
  BY <1>2, <1>3 DEF JobPlace
<1> QED BY <1>4, <1>6, <1>7, <1>8 DEF Placement

\* The head of the endpoint's queue goes to the hand k.
LEMMA TakeHeadStep ==
    ASSUME Placement, NEW e \in EP, epQ[e] # <<>>,
           job.kind \in {"restart", "drain"},
           epQ' = [epQ EXCEPT ![e] = Tail(@)],
           \/ job' = Job("add", Head(epQ[e]), "restart")
           \/ job' = Job("reply", Head(epQ[e]), "drain"),
           err' \in [Req -> Errors],
           UNCHANGED <<owner, stat, retry, destalling, timer, portVars, active, epReq,
                       stalled, event, completed, activeIO, detach, tick, sig, mask, pc, polled>>
    PROVE  Placement'
<1> DEFINE r == Head(epQ[e])
<1>1. /\ r \in Req /\ epQ'[e] \in Seq(Req) /\ r \in ToSet(epQ[e])
      /\ ToSet(epQ'[e]) \subseteq ToSet(epQ[e])
      /\ Distinct(epQ'[e]) /\ r \notin ToSet(epQ'[e])
  <2>1. epQ[e] \in Seq(Req) /\ Distinct(epQ[e]) /\ epQ'[e] = Tail(epQ[e])
    BY PlacementTypes DEF Placement, QueuePlace
  <2> QED BY <2>1, TailPlace
<1>2. \A d \in EP : d # e => epQ'[d] = epQ[d]
  BY PlacementTypes
<1>3. EpOf[r] = e /\ stat[r] = "Queued" /\ owner[r] = "stack" /\ r \notin active
  BY <1>1 DEF Placement, QueuePlace, ActivePlace
<1>4. /\ job' \in Jobs /\ job'.req = r
      /\ \/ job'.kind = "add" /\ job'.then = "restart"
         \/ job'.kind = "reply" /\ job'.then = "drain"
  BY <1>1, JobRecord
<1> HIDE DEF r
<1>5. TypeOK'
  <2>1. epQ' \in [EP -> Seq(Req)]
    BY <1>1, <1>2, PlacementTypes
  <2>2. TypeOK
    BY DEF Placement
  <2> QED BY <1>4, <2>1, <2>2 DEF TypeOK, portVars
<1>6. ActivePlace'
  BY <1>4 DEF Placement, ActivePlace
<1>7. QueuePlace' /\ BeginPlace'
  <2>1. \A d \in EP : Distinct(epQ'[d]) /\ ToSet(epQ'[d]) \subseteq ToSet(epQ[d])
    BY <1>1, <1>2 DEF Placement, QueuePlace
  <2>2. beginQ' = beginQ
    BY DEF portVars
  <2> QED BY <2>1, <2>2 DEF Placement, QueuePlace, BeginPlace
<1>8. JobPlace'
  BY <1>1, <1>3, <1>4 DEF JobPlace
<1> QED BY <1>5, <1>6, <1>7, <1>8 DEF Placement

LEMMA NextOfQueueStep == ASSUME Placement, Restart \/ ResetQueued PROVE Placement'
<1> DEFINE e == EpOf[job.req]
<1>1. job.kind \in {"restart", "drain"} /\ e \in EP
  BY ConstantsAssumption DEF Restart, ResetQueued, Placement, JobPlace
<1>2. err \in [Req -> Errors] /\ "Failed" \in Errors
  BY DEF Placement, TypeOK, Errors
<1>3. UNCHANGED <<owner, stat, retry, destalling, timer, portVars, active, epReq,
                  stalled, event, completed, activeIO, detach, tick, sig, mask, pc, polled>>
  BY DEF Restart, ResetQueued, reqVars
<1>4. CASE epQ[e] = <<>>
  <2>1. job' = Idle /\ UNCHANGED <<epQ, err>>
    BY <1>4 DEF Restart, ResetQueued, reqVars
  <2>2. TypeOK'
    BY <1>3, <2>1, IdleRecord DEF Placement, TypeOK, portVars
  <2>3. ActivePlace' /\ QueuePlace' /\ BeginPlace' /\ JobPlace'
    BY <1>1, <1>3, <2>1, IdleRecord
       DEF Placement, ActivePlace, QueuePlace, BeginPlace, JobPlace, portVars
  <2> QED BY <2>2, <2>3 DEF Placement
<1>5. CASE epQ[e] # <<>>
  <2>1. epQ' = [epQ EXCEPT ![e] = Tail(@)]
    BY <1>5 DEF Restart, ResetQueued
  <2>2. \/ job' = Job("add", Head(epQ[e]), "restart") /\ err' = err
        \/ /\ job' = Job("reply", Head(epQ[e]), "drain")
           /\ err' = [err EXCEPT ![Head(epQ[e])] = "Failed"]
    BY <1>5 DEF Restart, ResetQueued, reqVars
  <2>3. err' \in [Req -> Errors]
    BY <1>2, <2>2, ExceptType
  <2> HIDE DEF e
  <2> QED BY <1>1, <1>3, <1>5, <2>1, <2>2, <2>3, TakeHeadStep
<1> QED BY <1>4, <1>5

\* The head of the begin port becomes the HCD's, and goes to the adding or the
\* replying hand.
LEMMA BeginStep == ASSUME Placement, Begin PROVE Placement'
<1> DEFINE r == Head(beginQ)
<1>1. /\ job.kind = "idle" /\ beginQ # <<>> /\ beginQ' = Tail(beginQ)
      /\ stat' = [stat EXCEPT ![r] = "HCD"]
      /\ UNCHANGED <<owner, timer, active, epReq, epQ>>
  BY DEF Begin, InStage, hwVars
<1>2. /\ r \in Req /\ beginQ' \in Seq(Req) /\ r \in ToSet(beginQ)
      /\ ToSet(beginQ') \subseteq ToSet(beginQ)
      /\ Distinct(beginQ') /\ r \notin ToSet(beginQ')
  <2>1. beginQ \in Seq(Req) /\ Distinct(beginQ)
    BY PlacementTypes DEF Placement, BeginPlace
  <2> QED BY <1>1, <2>1, TailPlace
<1>3. stat[r] = "User" /\ owner[r] = "stack"
  BY <1>2 DEF Placement, BeginPlace
<1>4. r \notin active /\ \A d \in EP : r \notin ToSet(epQ[d])
  BY <1>3 DEF Placement, ActivePlace, QueuePlace
<1>5. /\ job' \in Jobs /\ job'.req = r
      /\ \/ job'.kind = "add" /\ job'.then = "begin"
         \/ job'.kind = "reply" /\ job'.then = "stage"
  <2>1. job' = Job("add", r, "begin") \/ job' = Job("reply", r, "stage")
    BY DEF Begin
  <2> QED BY <1>2, <2>1, JobRecord
<1>6. TypeOK'
  <2>1. TypeOK
    BY DEF Placement
  <2>2. err' \in [Req -> Errors]
    <3>1. err' = err \/ \E x \in {"Failed", "None"} : err' = [err EXCEPT ![r] = x]
      BY DEF Begin, BeginRefusal
    <3>2. err \in [Req -> Errors] /\ {"Failed", "None"} \subseteq Errors
      BY <2>1 DEF TypeOK, Errors
    <3> QED BY <3>1, <3>2, ExceptType
  <2>3. activeIO' \in Nat /\ stat' \in [Req -> Stats]
    BY <1>1, <2>1, PlacementTypes DEF TypeOK, Begin, Stats
  <2>4. UNCHANGED <<owner, retry, destalling, timer, aborting, abortQ, hwVars, detach,
                    tick, sig, mask, pc, polled>>
    BY DEF Begin
  <2> HIDE DEF r
  <2> QED BY <1>2, <1>5, <2>1, <2>2, <2>3, <2>4 DEF TypeOK, hwVars
<1> HIDE DEF r
<1>7. ActivePlace'
  BY <1>1, <1>2, <1>4, PlacementTypes DEF Placement, ActivePlace, Stats
<1>8. QueuePlace' /\ BeginPlace'
  BY <1>1, <1>2, <1>4, PlacementTypes DEF Placement, QueuePlace, BeginPlace
<1>9. JobPlace'
  <2>1. stat'[r] = "HCD" /\ owner'[r] = "stack"
    BY <1>1, <1>2, <1>3, PlacementTypes
  <2>2. r \notin active' \cup ToSet(epQ'[EpOf[r]])
    BY <1>1, <1>2, <1>4, ConstantsAssumption
  <2> QED BY <1>2, <1>5, <2>1, <2>2 DEF JobPlace
<1> QED BY <1>6, <1>7, <1>8, <1>9 DEF Placement

\* The chip restart takes a transfer from the active list to the replying hand.
LEMMA ResetActiveStep ==
    ASSUME Placement, NEW r \in Req, ResetActive(r) PROVE Placement'
<1>1. /\ r \in active /\ job.kind = "idle"
      /\ active' = active \ {r}
      /\ epReq' = [epReq EXCEPT ![EpOf[r]] = NoReq]
      /\ timer' = [timer EXCEPT ![r] = "off"]
      /\ job' = Job("reply", r, "drain")
      /\ UNCHANGED <<owner, stat, beginQ, epQ>>
  BY DEF ResetActive, InStage, TimerStopped, portVars
<1>2. /\ stat[r] = "Active" /\ owner[r] = "stack" /\ epReq[EpOf[r]] = r
      /\ \A d \in EP : r \notin ToSet(epQ[d])
  BY <1>1 DEF Placement, ActivePlace, QueuePlace
<1>3. /\ job' \in Jobs /\ job'.kind = "reply" /\ job'.req = r /\ job'.then = "drain"
  BY <1>1, JobRecord
<1>4. TypeOK'
  <2>1. TypeOK
    BY DEF Placement
  <2>2. /\ active' \subseteq Req /\ epReq' \in [EP -> Req \cup {NoReq}]
        /\ timer' \in [Req -> {"off", "running", "fired"}]
    BY <1>1, PlacementTypes
  <2>3. /\ err' \in [Req -> Errors]
        /\ event' \in [Req -> Events] /\ completed' \in [Req -> Events]
    BY <2>1 DEF ResetActive, TypeOK, Errors, Events
  <2>4. UNCHANGED <<owner, stat, retry, destalling, portVars, epQ, stalled, activeIO,
                    detach, tick, sig, mask, pc, polled>>
    BY DEF ResetActive
  <2> QED BY <1>3, <2>1, <2>2, <2>3, <2>4 DEF TypeOK, portVars
<1>5. ActivePlace'
  <2>1. \A q \in active' : /\ stat'[q] = "Active" /\ owner'[q] = "stack"
                           /\ epReq'[EpOf[q]] = q
    BY <1>1, <1>2, PlacementTypes, ConstantsAssumption DEF Placement, ActivePlace
  <2>2. \A d \in EP : epReq'[d] # NoReq => epReq'[d] \in active' /\ EpOf[epReq'[d]] = d
    BY <1>1, <1>2, PlacementTypes DEF Placement, ActivePlace
  <2>3. \A q \in Req : timer'[q] # "off" => q \in active'
    BY <1>1, PlacementTypes DEF Placement, ActivePlace
  <2>4. \A q \in Req : stat'[q] = "Active" => q \in active' \/ q = r
    BY <1>1 DEF Placement, ActivePlace
  <2> QED BY <1>3, <2>1, <2>2, <2>3, <2>4 DEF ActivePlace
<1>6. QueuePlace' /\ BeginPlace'
  BY <1>1 DEF Placement, QueuePlace, BeginPlace
<1>7. JobPlace'
  BY <1>1, <1>2, <1>3, ConstantsAssumption DEF JobPlace
<1> QED BY <1>4, <1>5, <1>6, <1>7 DEF Placement

-----------------------------------------------------------------------------
(* The theorems *)

LEMMA StutterStep == ASSUME Placement, UNCHANGED vars PROVE Placement'
<1>1. TypeOK'
  BY DEF Placement, TypeOK, vars, reqVars, portVars, hwVars, taskVars
<1> QED BY <1>1, FrameStep DEF vars, reqVars, portVars, hwVars, taskVars

LEMMA NextStep == ASSUME Placement, [Next]_vars PROVE Placement'
<1>1. CASE UserStep
  BY <1>1, BeginIOStep, OutsideStep DEF UserStep
<1>2. CASE HardwareStep
  BY <1>2, TimerStep, OutsideStep DEF HardwareStep
<1>3. CASE HCDStep
  <2>1. CASE Wake \/ PollDone \/ WatchDogDone \/ AbortDone \/ BeginDone \/ ResetDone
    BY <2>1, LoopStep
  <2>2. CASE AddRequest
    BY <2>2, AddQueuedStep, AddActiveStep, AddHandledStep DEF AddRequest
  <2>3. CASE Reply \/ Finish \/ Restart \/ ResetQueued
    BY <2>3, ReplyStep, FinishStep, NextOfQueueStep
  <2>4. CASE PollEvents \/ Abort \/ Begin
    BY <2>4, PollStep, AbortStep, BeginStep
  <2>5. ASSUME NEW r \in Req, CheckCompleted(r) \/ WatchDog(r) \/ ResetActive(r)
        PROVE Placement'
    BY <2>5, EndOfTransferStep, ResetActiveStep
  <2> QED BY <1>3, <2>1, <2>2, <2>3, <2>4, <2>5 DEF HCDStep
<1>4. CASE UNCHANGED vars
  BY <1>4, StutterStep
<1> QED BY <1>1, <1>2, <1>3, <1>4 DEF Next

\* The inductive invariant: in every reachable state of the transfer core, for any
\* requests and endpoints, with retries, timers, aborts, unplugged devices and chip
\* restarts in any order, the lists, the ports, the records of the endpoints and the
\* states of the requests agree.
THEOREM PlacementInvariant == Spec => []Placement
<1>1. Init => Placement
  BY InitPlacement
<1>2. Placement /\ [Next]_vars => Placement'
  BY NextStep
<1> QED BY <1>1, <1>2, PTL DEF Spec

\* The structure of the state, in every state.
THEOREM TypeCorrect == Spec => []TypeOK
<1>1. Placement => TypeOK
  BY DEF Placement
<1> QED BY <1>1, PlacementInvariant, PTL

\* ep_Request_Active, req_PublicStat, the active list and the timers never disagree: the
\* watchdog, which does not look, and the abort, which looks at the state only, take a
\* request out of a list it is linked in.
THEOREM HardwareAgreesAlways == Spec => []HardwareAgrees
<1>1. Placement => HardwareAgrees
  BY DEF Placement, ActivePlace, HardwareAgrees
<1> QED BY <1>1, PlacementInvariant, PTL

-----------------------------------------------------------------------------
(* No request is lost and none is held twice, where X_Build does not fail     *)
(* on a retry: with it, __HCD_Transfer_Check() ignores the result and the     *)
(* request is gone.  A list that a request leaves hands it to the next, and   *)
(* a retry is never the one a stalled pipe answers at once.                   *)

LEMMA InitKept == Init => Kept
<1> SUFFICES ASSUME Init PROVE StallPlace /\ NoneLost
  BY InitPlacement DEF Kept
<1> QED BY ConstantsAssumption DEF Init, StallPlace, NoneLost, Idle, Job

LEMMA KeptFrame ==
    ASSUME Kept, UNCHANGED <<owner, beginQ, active, epQ, stalled, job>>
    PROVE  StallPlace' /\ NoneLost'
BY DEF Kept, StallPlace, NoneLost, PipeStalled, InEndpointQueue, InHand

LEMMA KeptTypes ==
    ASSUME Kept
    PROVE  Placement /\ stalled \in [EP -> BOOLEAN] /\ \A r \in active : r \in Req
BY DEF Kept, Placement, TypeOK

\* Only a transfer that ends in a stall stalls a pipe, and only its own.
LEMMA StalledOnly ==
    ASSUME Kept, NEW r \in Req, NEW e, NEW l, NEW d \in EP, d # EpOf[r] \/ e # "Stall",
           StalledAfter(r, e, l)[d]
    PROVE  stalled[d]
BY KeptTypes, ConstantsAssumption DEF StalledAfter

-----------------------------------------------------------------------------

LEMMA BeginIOKept ==
    ASSUME Kept, NEW r \in Req, BeginIO(r) PROVE StallPlace' /\ NoneLost'
<1>1. UNCHANGED <<active, epQ, stalled, job>>
  BY DEF BeginIO, hwVars, taskVars
<1>2. StallPlace'
  BY <1>1 DEF Kept, StallPlace, PipeStalled
<1>3. CASE BeginError(r) = "None"
  <2>1. beginQ' = Append(beginQ, r) /\ owner' = [owner EXCEPT ![r] = "stack"]
    BY <1>3 DEF BeginIO
  <2>2. ToSet(beginQ') = ToSet(beginQ) \cup {r}
    BY <2>1, KeptTypes, PlacementTypes, AppendPlace
  <2> QED BY <1>1, <1>2, <2>1, <2>2, KeptTypes, PlacementTypes
          DEF Kept, NoneLost, InEndpointQueue, InHand
<1>4. CASE BeginError(r) # "None"
  <2>1. UNCHANGED <<owner, beginQ>>
    BY <1>4 DEF BeginIO
  <2> QED BY <1>1, <2>1, KeptFrame
<1> QED BY <1>3, <1>4

\* The other steps that leave the lists and the hand alone.
LEMMA OtherKept ==
    ASSUME Kept,
           \/ \E r \in Req : AbortTest(r) \/ AbortPut(r) \/ TimerFires(r)
                             \/ (\E c \in Codes : Complete(r, c))
           \/ Detach \/ TickFires \/ HostError
           \/ Wake \/ PollEvents \/ PollDone \/ WatchDogDone \/ AbortDone \/ BeginDone
           \/ ResetDone
           \/ UNCHANGED vars
    PROVE  StallPlace' /\ NoneLost'
<1>1. UNCHANGED <<owner, beginQ, active, epQ, stalled, job>>
  BY DEF AbortTest, AbortPut, TimerFires, Complete, Detach, TickFires, HostError, Wake,
         PollEvents, PollDone, WatchDogDone, AbortDone, BeginDone, ResetDone, vars, reqVars,
         portVars, hwVars, taskVars
<1> QED BY <1>1, KeptFrame

LEMMA AddKept ==
    ASSUME Kept, ~ RetryBuildFails, AddRequest PROVE StallPlace' /\ NoneLost'
<1> DEFINE r == job.req
           e == EpOf[r]
<1>1. job.kind = "add" /\ UNCHANGED <<owner, beginQ>>
  BY DEF AddRequest, portVars
<1>2. r \in Req /\ e \in EP /\ job.then \in {"begin", "retry", "restart"}
  BY <1>1, ConstantsAssumption DEF Kept, Placement, JobPlace
<1>3. \A q \in Req : InHand(q) => q = r
  BY DEF InHand
<1>4. CASE AddQueued(r)
  <2>1. /\ epQ' = [epQ EXCEPT ![e] = Append(@, r)] /\ job' = Idle
        /\ UNCHANGED <<active, stalled>>
    BY <1>4 DEF AddQueued
  <2>2. epQ[e] \in Seq(Req) /\ epQ'[e] = Append(epQ[e], r)
    BY <1>2, <2>1, KeptTypes, PlacementTypes
  <2>3. \A d \in EP : ToSet(epQ[d]) \subseteq ToSet(epQ'[d])
    <3>1. ToSet(epQ[e]) \subseteq ToSet(epQ'[e])
      BY <1>2, <2>2, AppendPlace
    <3>2. \A d \in EP : d # e => epQ'[d] = epQ[d]
      BY <2>1, KeptTypes, PlacementTypes
    <3> QED BY <3>1, <3>2
  <2>4. r \in ToSet(epQ'[e])
    BY <1>2, <2>2, AppendPlace
  <2>5. StallPlace'
    BY <2>1, IdleRecord DEF Kept, StallPlace, PipeStalled
  <2>6. NoneLost'
    BY <1>1, <1>3, <2>1, <2>3, <2>4, ConstantsAssumption DEF Kept, NoneLost, InEndpointQueue
  <2> QED BY <2>5, <2>6
<1>5. CASE AddActive(r)
  <2>1. /\ active' = active \cup {r} /\ job' = Idle /\ ~ PipeStalled(r)
        /\ UNCHANGED <<epQ, stalled>>
    BY <1>5 DEF AddActive
  <2>2. StallPlace'
    BY <2>1, IdleRecord DEF Kept, StallPlace, PipeStalled
  <2>3. NoneLost'
    BY <1>1, <1>3, <2>1 DEF Kept, NoneLost, InEndpointQueue
  <2> QED BY <2>2, <2>3
<1>6. CASE AddHandled(r)
  <2>1. job.then # "retry"
    <3>1. job.then = "retry" => ~ PipeStalled(r)
      BY <1>1 DEF Kept, StallPlace
    <3> QED BY <1>6, <3>1 DEF AddHandled
  <2>2. /\ epReq[e] = NoReq /\ UNCHANGED <<epQ, active>>
        /\ stalled' = stalled \/ (\E x, l : stalled' = StalledAfter(r, x, l))
    BY <1>6 DEF AddHandled
  <2>3. job'.kind = "reply" /\ job'.req = r
    <3>1. job' = Job("reply", r, "stage") \/ job' = Job("reply", r, "restart")
      BY <1>2, <1>6, <2>1 DEF AddHandled
    <3> QED BY <1>2, <3>1, JobRecord
  <2>4. \A q \in active : EpOf[q] # e /\ q \in Req /\ EpOf[q] \in EP
    BY <2>2, KeptTypes, ConstantsAssumption DEF Kept, Placement, ActivePlace
  <2>5. StallPlace'
    <3>1. ASSUME NEW q \in active PROVE stalled'[EpOf[q]] => stalled[EpOf[q]]
      BY <1>2, <2>2, <2>4, StalledOnly
    <3> QED BY <2>2, <2>3, <3>1 DEF Kept, StallPlace, PipeStalled
  <2>6. NoneLost'
    BY <1>1, <1>3, <2>2, <2>3 DEF Kept, NoneLost, InEndpointQueue, InHand
  <2> QED BY <2>5, <2>6
<1> QED BY <1>4, <1>5, <1>6 DEF AddRequest

LEMMA RemoveKept ==
    ASSUME Kept, NEW r \in active, NEW e, NEW force \in BOOLEAN, job.kind = "idle",
           RemoveTransfer(r, e, force), UNCHANGED <<owner, beginQ, epQ>>
    PROVE  StallPlace' /\ NoneLost'
<1>1. r \in Req /\ EpOf[r] \in EP
  BY KeptTypes, ConstantsAssumption
<1>2. /\ active' = active \ {r} /\ stalled' = StalledAfter(r, e, LateErrors /\ ~ force)
      /\ \/ job' = Job("add", r, "retry") /\ e = "Timeout"
         \/ job' = Job("reply", r, "restart")
  BY DEF RemoveTransfer, RetryAllowed
<1>3. job'.req = r /\ job'.kind \in {"add", "reply"} /\ (job'.kind = "add" => e = "Timeout")
  BY <1>1, <1>2, JobRecord
<1>4. \A q \in active' : EpOf[q] # EpOf[r] /\ EpOf[q] \in EP
  BY <1>2, KeptTypes, ConstantsAssumption DEF Kept, Placement, ActivePlace
<1>5. StallPlace'
  <2>1. ASSUME NEW q \in active' PROVE ~ PipeStalled(q)'
    <3>1. stalled'[EpOf[q]] => stalled[EpOf[q]]
      BY <1>1, <1>2, <1>4, StalledOnly
    <3> QED BY <1>2, <3>1 DEF Kept, StallPlace, PipeStalled
  <2>2. ASSUME job'.kind = "add" PROVE ~ PipeStalled(r)'
    <3>1. stalled'[EpOf[r]] => stalled[EpOf[r]]
      BY <1>1, <1>2, <1>3, <2>2, StalledOnly
    <3> QED BY <3>1 DEF Kept, StallPlace, PipeStalled
  <2> QED BY <1>3, <2>1, <2>2 DEF StallPlace
<1>6. NoneLost'
  BY <1>2, <1>3 DEF Kept, NoneLost, InEndpointQueue, InHand
<1> QED BY <1>5, <1>6

LEMMA EndOfTransferKept ==
    ASSUME Kept, NEW r \in Req, CheckCompleted(r) \/ WatchDog(r)
    PROVE  StallPlace' /\ NoneLost'
<1>1. r \in active /\ job.kind = "idle" /\ UNCHANGED <<owner, beginQ, epQ>>
  BY DEF CheckCompleted, WatchDog, InStage, Kept, Placement, ActivePlace, portVars
<1>2. \E e, force \in BOOLEAN \cup Errors : RemoveTransfer(r, e, force) /\ force \in BOOLEAN
  <2>1. err[r] \in Errors /\ "Timeout" \in Errors
    BY DEF Kept, Placement, TypeOK, Errors
  <2> QED BY <2>1 DEF CheckCompleted, WatchDog
<1> QED BY <1>1, <1>2, RemoveKept

LEMMA AbortKept == ASSUME Kept, Abort PROVE StallPlace' /\ NoneLost'
<1> DEFINE r == Head(abortQ)
           e == EpOf[r]
<1>1. /\ r \in Req /\ e \in EP /\ job.kind = "idle" /\ UNCHANGED <<owner, beginQ>>
  BY KeptTypes, PlacementTypes, TailPlace, ConstantsAssumption DEF Abort, InStage
<1>2. CASE AbortActive(r)
  <2>1. r \in active
    BY <1>1, <1>2 DEF AbortActive, Kept, Placement, ActivePlace
  <2>2. RemoveTransfer(r, "Aborted", TRUE) /\ UNCHANGED epQ
    BY <1>2 DEF AbortActive
  <2> HIDE DEF r
  <2> QED BY <1>1, <2>1, <2>2, RemoveKept
<1>3. CASE AbortQueued(r)
  <2>1. PICK i \in 1 .. Len(epQ[e]) :
           epQ[e][i] = r /\ epQ' = [epQ EXCEPT ![e] = RemoveAt(@, i)]
    BY <1>3 DEF AbortQueued, QueuePositions
  <2>2. /\ job' = Job("reply", r, "stage") /\ UNCHANGED <<active, stalled>>
    BY <1>3 DEF AbortQueued
  <2>3. job'.kind = "reply" /\ job'.req = r
    BY <1>1, <2>2, JobRecord
  <2>4. ToSet(epQ[e]) \subseteq ToSet(epQ'[e]) \cup {r}
    <3>1. epQ[e] \in Seq(Req) /\ epQ'[e] = RemoveAt(epQ[e], i)
      BY <1>1, <2>1, KeptTypes, PlacementTypes
    <3> HIDE DEF r, e
    <3> QED BY <2>1, <3>1, RemoveAtPlace
  <2>5. \A d \in EP : d # e => epQ'[d] = epQ[d]
    BY <2>1, KeptTypes, PlacementTypes
  <2>6. StallPlace'
    BY <2>2, <2>3 DEF Kept, StallPlace, PipeStalled
  <2>7. NoneLost'
    BY <1>1, <2>2, <2>3, <2>4, <2>5, ConstantsAssumption
       DEF Kept, NoneLost, InEndpointQueue, InHand
  <2> QED BY <2>6, <2>7
<1>4. CASE AbortIgnored(r)
  <2>1. UNCHANGED <<active, epQ, stalled, job>>
    BY <1>4 DEF AbortIgnored, hwVars
  <2> QED BY <1>1, <2>1, KeptFrame
<1> QED BY <1>2, <1>3, <1>4 DEF Abort

LEMMA ReplyKept == ASSUME Kept, Reply \/ Finish PROVE StallPlace' /\ NoneLost'
<1>1. UNCHANGED <<beginQ, active, epQ, stalled>>
  BY DEF Reply, Finish, portVars, hwVars
<1>2. CASE Reply
  <2>1. job.kind = "reply" /\ job'.kind = "finish" /\ owner' = [owner EXCEPT ![job.req] = "user"]
    BY <1>2, KeptTypes, PlacementTypes DEF Reply, Jobs
  <2> QED BY <1>1, <2>1, KeptTypes, PlacementTypes
          DEF Kept, StallPlace, PipeStalled, NoneLost, InEndpointQueue, InHand
<1>3. CASE Finish
  <2>1. job.kind = "finish" /\ job' = AfterReply /\ owner' = owner
    BY <1>3 DEF Finish
  <2>2. job.req \in Req /\ job.then \in {"stage", "restart", "drain"}
    BY <2>1 DEF Kept, Placement, JobPlace
  <2>3. job'.kind \in {"idle", "restart", "drain"}
    <3>1. \/ job' = Idle \/ job' = Job("restart", job.req, "stage")
          \/ job' = Job("drain", job.req, "stage")
      BY <2>1, <2>2 DEF AfterReply
    <3> QED BY <2>2, <3>1, JobRecord, IdleRecord
  <2> QED BY <1>1, <2>1, <2>3
          DEF Kept, StallPlace, PipeStalled, NoneLost, InEndpointQueue, InHand
<1> QED BY <1>2, <1>3

LEMMA NextOfQueueKept == ASSUME Kept, Restart \/ ResetQueued PROVE StallPlace' /\ NoneLost'
<1> DEFINE e == EpOf[job.req]
           r == Head(epQ[e])
<1>1. /\ job.kind \in {"restart", "drain"} /\ e \in EP
      /\ UNCHANGED <<owner, beginQ, active, stalled>>
  BY ConstantsAssumption
     DEF Restart, ResetQueued, Kept, Placement, JobPlace, reqVars, portVars
<1>2. CASE epQ[e] = <<>>
  <2>1. job' = Idle /\ epQ' = epQ
    BY <1>2 DEF Restart, ResetQueued
  <2> QED BY <1>1, <2>1, IdleRecord
          DEF Kept, StallPlace, PipeStalled, NoneLost, InEndpointQueue, InHand
<1>3. CASE epQ[e] # <<>>
  <2>1. /\ epQ' = [epQ EXCEPT ![e] = Tail(@)]
        /\ job' = Job("add", r, "restart") \/ job' = Job("reply", r, "drain")
    BY <1>3 DEF Restart, ResetQueued
  <2>2. r \in Req /\ ToSet(epQ[e]) = ToSet(epQ'[e]) \cup {r}
    <3>1. epQ[e] \in Seq(Req) /\ epQ'[e] = Tail(epQ[e])
      BY <1>1, <2>1, KeptTypes, PlacementTypes
    <3> HIDE DEF e
    <3> QED BY <1>3, <3>1, TailPlace
  <2>3. \A d \in EP : d # e => epQ'[d] = epQ[d]
    BY <2>1, KeptTypes, PlacementTypes
  <2>4. job'.kind \in {"add", "reply"} /\ job'.req = r /\ job'.then # "retry"
    BY <2>1, <2>2, JobRecord
  <2>5. StallPlace'
    BY <1>1, <2>4 DEF Kept, StallPlace, PipeStalled
  <2> HIDE DEF r, e
  <2>6. NoneLost'
    BY <1>1, <2>2, <2>3, <2>4, ConstantsAssumption
       DEF Kept, NoneLost, InEndpointQueue, InHand
  <2> QED BY <2>5, <2>6
<1> QED BY <1>2, <1>3

LEMMA BeginKept == ASSUME Kept, Begin PROVE StallPlace' /\ NoneLost'
<1> DEFINE r == Head(beginQ)
<1>1. /\ job.kind = "idle" /\ beginQ # <<>> /\ beginQ' = Tail(beginQ)
      /\ UNCHANGED <<owner, active, epQ, stalled>>
      /\ job' = Job("add", r, "begin") \/ job' = Job("reply", r, "stage")
  BY DEF Begin, InStage, hwVars
<1>2. r \in Req /\ ToSet(beginQ) = ToSet(beginQ') \cup {r}
  BY <1>1, KeptTypes, PlacementTypes, TailPlace
<1>3. job'.kind \in {"add", "reply"} /\ job'.req = r /\ job'.then # "retry"
  BY <1>1, <1>2, JobRecord
<1> HIDE DEF r
<1>4. StallPlace'
  BY <1>1, <1>3 DEF Kept, StallPlace, PipeStalled
<1>5. NoneLost'
  BY <1>1, <1>2, <1>3 DEF Kept, NoneLost, InEndpointQueue, InHand
<1> QED BY <1>4, <1>5

LEMMA ResetActiveKept ==
    ASSUME Kept, NEW r \in Req, ResetActive(r) PROVE StallPlace' /\ NoneLost'
<1>1. /\ job.kind = "idle" /\ active' = active \ {r} /\ job' = Job("reply", r, "drain")
      /\ UNCHANGED <<owner, beginQ, epQ, stalled>>
  BY DEF ResetActive, InStage, portVars
<1>2. job'.kind = "reply" /\ job'.req = r
  BY <1>1, JobRecord
<1> QED BY <1>1, <1>2 DEF Kept, StallPlace, PipeStalled, NoneLost, InEndpointQueue, InHand

-----------------------------------------------------------------------------
(* The theorems *)

LEMMA KeptStep == ASSUME Kept, ~ RetryBuildFails, [Next]_vars PROVE Kept'
<1>1. Placement'
  BY NextStep DEF Kept
<1>2. StallPlace' /\ NoneLost'
  <2>1. CASE UserStep \/ HardwareStep \/ UNCHANGED vars
    BY <2>1, BeginIOKept, OtherKept DEF UserStep, HardwareStep
  <2>2. CASE HCDStep
    <3>1. CASE \/ Wake \/ PollEvents \/ PollDone \/ WatchDogDone \/ AbortDone \/ BeginDone
               \/ ResetDone
      BY <3>1, OtherKept
    <3>2. CASE AddRequest \/ Reply \/ Finish \/ Restart \/ Abort \/ Begin \/ ResetQueued
      BY <3>2, AddKept, ReplyKept, NextOfQueueKept, AbortKept, BeginKept
    <3>3. ASSUME NEW r \in Req, CheckCompleted(r) \/ WatchDog(r) \/ ResetActive(r)
          PROVE StallPlace' /\ NoneLost'
      BY <3>3, EndOfTransferKept, ResetActiveKept
    <3> QED BY <2>2, <3>1, <3>2, <3>3 DEF HCDStep
  <2> QED BY <2>1, <2>2 DEF Next
<1> QED BY <1>1, <1>2 DEF Kept

LEMMA KeptOneHolder == ASSUME Kept PROVE OneHolder
<1> SUFFICES ASSUME NEW r \in Req
             PROVE  Cardinality(Places(r)) = IF owner[r] = "stack" THEN 1 ELSE 0
  BY DEF OneHolder
<1>1. owner[r] \in {"user", "stack"} /\ EpOf[r] \in EP
  BY KeptTypes, PlacementTypes, ConstantsAssumption
<1>2. /\ r \in ToSet(beginQ) => stat[r] = "User" /\ owner[r] = "stack"
      /\ InEndpointQueue(r) => stat[r] = "Queued" /\ owner[r] = "stack"
      /\ r \in active => stat[r] = "Active" /\ owner[r] = "stack"
      /\ InHand(r) => /\ owner[r] = "stack" /\ stat[r] # "User"
                      /\ r \notin active /\ ~ InEndpointQueue(r)
  BY <1>1 DEF Kept, Placement, BeginPlace, QueuePlace, ActivePlace, JobPlace,
              InEndpointQueue, InHand
<1>3. CASE owner[r] = "user"
  <2>1. Places(r) = {}
    BY <1>2, <1>3 DEF Places
  <2> QED BY <1>3, <2>1, FS_EmptySet
<1>4. CASE owner[r] = "stack"
  <2>1. PICK p : Places(r) = {p}
    <3>1. r \in ToSet(beginQ) \/ InEndpointQueue(r) \/ r \in active \/ InHand(r)
      BY <1>4 DEF Kept, NoneLost
    <3>2. CASE r \in ToSet(beginQ)
      <4>1. Places(r) = {"begin port"}
        BY <1>2, <3>2 DEF Places
      <4> QED BY <4>1
    <3>3. CASE InEndpointQueue(r)
      <4>1. Places(r) = {"endpoint queue"}
        BY <1>2, <3>3 DEF Places
      <4> QED BY <4>1
    <3>4. CASE r \in active
      <4>1. Places(r) = {"hardware"}
        BY <1>2, <3>4 DEF Places
      <4> QED BY <4>1
    <3>5. CASE InHand(r)
      <4>1. Places(r) = {"in hand"}
        BY <1>2, <3>5 DEF Places
      <4> QED BY <4>1
    <3> QED BY <3>1, <3>2, <3>3, <3>4, <3>5
  <2> QED BY <1>4, <2>1, FS_Singleton
<1> QED BY <1>1, <1>3, <1>4

\* Where a retry always reaches the hardware, no request is lost and none is held or
\* answered twice, for any number of requests and endpoints: a request of the stack is
\* in the begin port, in its endpoint's queue, on the hardware or in the HCD task's hand.
THEOREM OneHolderAlways ==
    ASSUME ~ RetryBuildFails PROVE Spec => []OneHolder
<1>1. Init => Kept
  BY InitKept
<1>2. Kept /\ [Next]_vars => Kept'
  BY KeptStep
<1>3. Kept => OneHolder
  BY KeptOneHolder
<1> QED BY <1>1, <1>2, <1>3, PTL DEF Spec


(***************************************************************************)
(* The work of the HCD task is counted and seen.                            *)
(***************************************************************************)


Counts(q) == \/ q \in active \/ InEndpointQueue(q) \/ InHand(q)
             \/ (job.kind = "finish" /\ job.req = q)

LEMMA SameCounted ==
    ASSUME \A q \in Req : Counts(q)' <=> Counts(q)
    PROVE  Counted' = Counted
BY DEF Counts, Counted

\* What a step that takes no request from the begin port and ends no reply has to show.
Steady == Counted' = Counted /\ NoStrandedQueue'

LEMMA WorkFrame ==
    ASSUME NoStrandedQueue, UNCHANGED <<active, epReq, epQ, job>>
    PROVE  Steady
<1>1. NoStrandedQueue'
  BY DEF NoStrandedQueue, OnItsWay
<1>2. \A q \in Req : Counts(q)' <=> Counts(q)
  BY DEF Counts, InEndpointQueue, InHand
<1> QED BY <1>1, <1>2, SameCounted DEF Steady

\* The steps that leave the lists and the hand alone, and those of users and hardware.
LEMMA OtherSteady ==
    ASSUME NoStrandedQueue,
           \/ \E r \in Req : BeginIO(r) \/ AbortTest(r) \/ AbortPut(r) \/ TimerFires(r)
                             \/ (\E c \in Codes : Complete(r, c))
           \/ Detach \/ TickFires \/ HostError
           \/ Wake \/ PollEvents \/ PollDone \/ WatchDogDone \/ AbortDone \/ BeginDone
           \/ ResetDone
           \/ UNCHANGED vars
    PROVE  Steady /\ activeIO' = activeIO
<1>1. UNCHANGED <<active, epReq, epQ, job, activeIO>>
  BY DEF BeginIO, AbortTest, AbortPut, TimerFires, Complete, Detach, TickFires, HostError,
         Wake, PollEvents, PollDone, WatchDogDone, AbortDone, BeginDone, ResetDone, vars,
         reqVars, portVars, hwVars, taskVars
<1> QED BY <1>1, WorkFrame

LEMMA AddSteady ==
    ASSUME Kept, NoStrandedQueue, ~ RetryBuildFails, AddRequest
    PROVE  Steady /\ activeIO' = activeIO
<1> DEFINE r == job.req
           e == EpOf[r]
<1>1. job.kind = "add" /\ activeIO' = activeIO
  BY DEF AddRequest
<1>2. r \in Req /\ e \in EP /\ job.then \in {"begin", "retry", "restart"}
  BY <1>1, ConstantsAssumption DEF Kept, Placement, JobPlace
<1>3. \A d \in EP \ {e} : epQ[d] # <<>> => epReq[d] # NoReq
  BY DEF NoStrandedQueue, OnItsWay
<1>4. CASE AddQueued(r)
  <2>1. /\ epReq[e] # NoReq /\ epReq' = epReq /\ active' = active
        /\ epQ' = [epQ EXCEPT ![e] = Append(@, r)] /\ job' = Idle
    BY <1>4 DEF AddQueued
  <2>2. epQ[e] \in Seq(Req) /\ epQ'[e] = Append(epQ[e], r)
    BY <1>2, <2>1, KeptTypes, PlacementTypes
  <2>3. ToSet(epQ'[e]) = ToSet(epQ[e]) \cup {r}
    BY <1>2, <2>2, AppendPlace
  <2>4. \A d \in EP : d # e => epQ'[d] = epQ[d]
    BY <2>1, KeptTypes, PlacementTypes
  <2>5. NoStrandedQueue'
    BY <1>3, <2>1, <2>4 DEF NoStrandedQueue
  <2>6. \A q \in Req : Counts(q)' <=> Counts(q)
    BY <1>1, <1>2, <2>1, <2>3, <2>4, IdleRecord, ConstantsAssumption
       DEF Counts, InEndpointQueue, InHand
  <2> QED BY <1>1, <2>5, <2>6, SameCounted DEF Steady
<1>5. CASE AddActive(r)
  <2>1. /\ epReq' = [epReq EXCEPT ![e] = r] /\ active' = active \cup {r}
        /\ epQ' = epQ /\ job' = Idle
    BY <1>5 DEF AddActive
  <2>2. \A d \in EP : epReq'[d] = IF d = e THEN r ELSE epReq[d]
    BY <2>1, KeptTypes, PlacementTypes
  <2>3. NoStrandedQueue'
    BY <1>2, <1>3, <2>1, <2>2, ConstantsAssumption DEF NoStrandedQueue
  <2>4. \A q \in Req : Counts(q)' <=> Counts(q)
    BY <1>1, <2>1, IdleRecord DEF Counts, InEndpointQueue, InHand
  <2> QED BY <1>1, <2>3, <2>4, SameCounted DEF Steady
<1>6. CASE AddHandled(r)
  <2>1. job.then # "retry"
    <3>1. job.then = "retry" => ~ PipeStalled(r)
      BY <1>1 DEF Kept, StallPlace
    <3> QED BY <1>6, <3>1 DEF AddHandled
  <2>2. epReq[e] = NoReq /\ UNCHANGED <<active, epReq, epQ>>
    BY <1>6 DEF AddHandled
  <2>3. /\ job'.kind = "reply" /\ job'.req = r
        /\ job.then = "restart" => job'.then = "restart"
    <3>1. \/ job' = Job("reply", r, "stage") /\ job.then = "begin"
          \/ job' = Job("reply", r, "restart") /\ job.then = "restart"
      BY <1>2, <1>6, <2>1 DEF AddHandled
    <3> QED BY <1>2, <3>1, JobRecord
  <2>4. job.then = "begin" => epQ[e] = <<>>
    BY <1>1, <1>2, <2>2 DEF NoStrandedQueue, OnItsWay
  <2>5. NoStrandedQueue'
    BY <1>2, <1>3, <2>1, <2>2, <2>3, <2>4 DEF NoStrandedQueue, OnItsWay
  <2>6. \A q \in Req : Counts(q)' <=> Counts(q)
    BY <1>1, <2>2, <2>3 DEF Counts, InEndpointQueue, InHand
  <2> QED BY <1>1, <2>5, <2>6, SameCounted DEF Steady
<1> QED BY <1>4, <1>5, <1>6 DEF AddRequest

\* A transfer leaves the hardware for the hand, and its endpoint's queue with it.
LEMMA TakenSteady ==
    ASSUME Kept, NoStrandedQueue, NEW r \in active, job.kind = "idle",
           active' = active \ {r}, epQ' = epQ, epReq' = [epReq EXCEPT ![EpOf[r]] = NoReq],
           job'.kind \in {"add", "reply"}, job'.req = r,
           job'.then \in {"restart", "drain", "retry"}
    PROVE  Steady
<1>1. r \in Req /\ EpOf[r] \in EP
  BY KeptTypes, ConstantsAssumption
<1>2. \A d \in EP : d # EpOf[r] => epReq'[d] = epReq[d]
  BY KeptTypes, PlacementTypes
<1>3. NoStrandedQueue'
  BY <1>1, <1>2 DEF NoStrandedQueue, OnItsWay
<1>4. \A q \in Req : Counts(q)' <=> Counts(q)
  BY <1>1 DEF Counts, InEndpointQueue, InHand
<1> QED BY <1>3, <1>4, SameCounted DEF Steady

LEMMA RemoveSteady ==
    ASSUME Kept, NoStrandedQueue, NEW r \in active, NEW e, NEW force \in BOOLEAN,
           job.kind = "idle", RemoveTransfer(r, e, force), epQ' = epQ
    PROVE  Steady
<1>1. r \in Req /\ stat[r] = "Active"
  BY KeptTypes DEF Kept, Placement, ActivePlace
<1>2. /\ active' = active \ {r} /\ epReq' = [epReq EXCEPT ![EpOf[r]] = NoReq]
      /\ job' = Job("add", r, "retry") \/ job' = Job("reply", r, "restart")
  BY <1>1 DEF RemoveTransfer
<1>3. /\ job'.kind \in {"add", "reply"} /\ job'.req = r
      /\ job'.then \in {"restart", "drain", "retry"}
  BY <1>1, <1>2, JobRecord
<1> QED BY <1>2, <1>3, TakenSteady

LEMMA EndOfTransferSteady ==
    ASSUME Kept, NoStrandedQueue, NEW r \in Req,
           CheckCompleted(r) \/ WatchDog(r) \/ ResetActive(r)
    PROVE  Steady /\ activeIO' = activeIO
<1>1. r \in active /\ job.kind = "idle" /\ epQ' = epQ /\ activeIO' = activeIO
  BY DEF CheckCompleted, WatchDog, ResetActive, InStage, Kept, Placement, ActivePlace
<1>2. CASE CheckCompleted(r) \/ WatchDog(r)
  <2>1. \E e \in Errors, force \in BOOLEAN : RemoveTransfer(r, e, force)
    <3>1. err[r] \in Errors /\ "Timeout" \in Errors
      BY DEF Kept, Placement, TypeOK, Errors
    <3> QED BY <1>2, <3>1 DEF CheckCompleted, WatchDog
  <2> QED BY <1>1, <2>1, RemoveSteady
<1>3. CASE ResetActive(r)
  <2>1. /\ active' = active \ {r} /\ epReq' = [epReq EXCEPT ![EpOf[r]] = NoReq]
        /\ job' = Job("reply", r, "drain")
    BY <1>3 DEF ResetActive
  <2>2. job'.kind = "reply" /\ job'.req = r /\ job'.then = "drain"
    BY <2>1, JobRecord
  <2> QED BY <1>1, <2>1, <2>2, TakenSteady
<1> QED BY <1>2, <1>3

LEMMA AbortSteady ==
    ASSUME Kept, NoStrandedQueue, Abort
    PROVE  Steady /\ activeIO' = activeIO
<1> DEFINE r == Head(abortQ)
           e == EpOf[r]
<1>1. r \in Req /\ e \in EP /\ job.kind = "idle" /\ activeIO' = activeIO
  BY KeptTypes, PlacementTypes, TailPlace, ConstantsAssumption DEF Abort, InStage
<1>2. CASE AbortActive(r)
  <2>1. r \in active
    BY <1>1, <1>2 DEF AbortActive, Kept, Placement, ActivePlace
  <2>2. RemoveTransfer(r, "Aborted", TRUE) /\ epQ' = epQ
    BY <1>2 DEF AbortActive
  <2> HIDE DEF r
  <2> QED BY <1>1, <2>1, <2>2, RemoveSteady
<1>3. CASE AbortQueued(r)
  <2>1. PICK i \in 1 .. Len(epQ[e]) :
           epQ[e][i] = r /\ epQ' = [epQ EXCEPT ![e] = RemoveAt(@, i)]
    BY <1>3 DEF AbortQueued, QueuePositions
  <2>2. job' = Job("reply", r, "stage") /\ UNCHANGED <<active, epReq>>
    BY <1>3 DEF AbortQueued
  <2>3. job'.kind = "reply" /\ job'.req = r
    BY <1>1, <2>2, JobRecord
  <2>4. /\ ToSet(epQ'[e]) \subseteq ToSet(epQ[e]) /\ r \in ToSet(epQ[e])
        /\ ToSet(epQ[e]) \subseteq ToSet(epQ'[e]) \cup {r}
        /\ epQ[e] # <<>>
    <3>1. epQ[e] \in Seq(Req) /\ epQ'[e] = RemoveAt(epQ[e], i)
      BY <1>1, <2>1, KeptTypes, PlacementTypes
    <3> HIDE DEF r, e
    <3>2. epQ[e] # <<>>
      BY <3>1, EmptySeq, LenProperties
    <3> QED BY <2>1, <3>1, <3>2, RemoveAtPlace
  <2>5. \A d \in EP : d # e => epQ'[d] = epQ[d]
    BY <2>1, KeptTypes, PlacementTypes
  <2>6. NoStrandedQueue'
    BY <1>1, <2>2, <2>4, <2>5 DEF NoStrandedQueue, OnItsWay
  <2>7. \A q \in Req : Counts(q)' <=> Counts(q)
    BY <1>1, <2>2, <2>3, <2>4, <2>5, ConstantsAssumption
       DEF Counts, InEndpointQueue, InHand
  <2> QED BY <1>1, <2>6, <2>7, SameCounted DEF Steady
<1>4. CASE AbortIgnored(r)
  <2>1. UNCHANGED <<active, epReq, epQ, job>>
    BY <1>4 DEF AbortIgnored, hwVars
  <2> QED BY <1>1, <2>1, WorkFrame
<1> QED BY <1>2, <1>3, <1>4 DEF Abort

LEMMA ReplySteady ==
    ASSUME Kept, NoStrandedQueue, Reply PROVE Steady /\ activeIO' = activeIO
<1>1. /\ UNCHANGED <<active, epReq, epQ, activeIO>>
      /\ job.kind = "reply" /\ job' = [job EXCEPT !.kind = "finish"]
  BY DEF Reply, hwVars
<1>2. job'.kind = "finish" /\ job'.req = job.req /\ job'.then = job.then
  BY <1>1, KeptTypes, PlacementTypes DEF Jobs
<1>3. NoStrandedQueue'
  BY <1>1, <1>2 DEF NoStrandedQueue, OnItsWay
<1>4. \A q \in Req : Counts(q)' <=> Counts(q)
  BY <1>1, <1>2 DEF Counts, InEndpointQueue, InHand
<1> QED BY <1>1, <1>3, <1>4, SameCounted DEF Steady

LEMMA NextOfQueueSteady ==
    ASSUME Kept, NoStrandedQueue, Restart \/ ResetQueued
    PROVE  Steady /\ activeIO' = activeIO
<1> DEFINE e == EpOf[job.req]
           r == Head(epQ[e])
<1>1. /\ job.kind \in {"restart", "drain"} /\ e \in EP
      /\ UNCHANGED <<active, epReq, activeIO>>
  BY ConstantsAssumption DEF Restart, ResetQueued, Kept, Placement, JobPlace
<1>2. \A d \in EP \ {e} : epQ[d] # <<>> => epReq[d] # NoReq
  BY DEF NoStrandedQueue, OnItsWay
<1>3. CASE epQ[e] = <<>>
  <2>1. job' = Idle /\ epQ' = epQ
    BY <1>3 DEF Restart, ResetQueued
  <2>2. NoStrandedQueue'
    BY <1>1, <1>2, <1>3, <2>1 DEF NoStrandedQueue
  <2>3. \A q \in Req : Counts(q)' <=> Counts(q)
    BY <1>1, <2>1, IdleRecord DEF Counts, InEndpointQueue, InHand
  <2> QED BY <1>1, <2>2, <2>3, SameCounted DEF Steady
<1>4. CASE epQ[e] # <<>>
  <2>1. /\ epQ' = [epQ EXCEPT ![e] = Tail(@)]
        /\ job' = Job("add", r, "restart") \/ job' = Job("reply", r, "drain")
    BY <1>4 DEF Restart, ResetQueued
  <2>2. epQ[e] \in Seq(Req) /\ epQ'[e] = Tail(epQ[e])
    BY <1>1, <2>1, KeptTypes, PlacementTypes
  <2>3. r \in Req /\ ToSet(epQ[e]) = ToSet(epQ'[e]) \cup {r}
    <3> HIDE DEF e
    <3> QED BY <1>4, <2>2, TailPlace
  <2>4. EpOf[r] = e
    <3>1. r \in ToSet(epQ[e])
      BY <2>3
    <3> QED BY <1>1, <3>1 DEF Kept, Placement, QueuePlace
  <2>5. \A d \in EP : d # e => epQ'[d] = epQ[d]
    BY <2>1, KeptTypes, PlacementTypes
  <2>6. /\ job'.kind \in {"add", "reply"} /\ job'.req = r
        /\ job'.then \in {"restart", "drain"}
    BY <2>1, <2>3, JobRecord
  <2> HIDE DEF r, e
  <2>7. NoStrandedQueue'
    BY <1>1, <1>2, <2>4, <2>5, <2>6 DEF NoStrandedQueue, OnItsWay
  <2>8. \A q \in Req : Counts(q)' <=> Counts(q)
    BY <1>1, <2>3, <2>4, <2>5, <2>6, ConstantsAssumption
       DEF Counts, InEndpointQueue, InHand
  <2> QED BY <1>1, <2>7, <2>8, SameCounted DEF Steady
<1> QED BY <1>3, <1>4

\* __myHandle_Begin() counts the request it takes from the begin port.
LEMMA BeginWorks == ASSUME Working, Kept', Begin PROVE Working'
<1> DEFINE r == Head(beginQ)
<1>1. /\ job.kind = "idle" /\ beginQ # <<>> /\ activeIO' = activeIO + 1
      /\ UNCHANGED <<active, epReq, epQ>>
      /\ job' = Job("add", r, "begin") \/ job' = Job("reply", r, "stage")
  BY DEF Begin, InStage, hwVars
<1>2. Kept /\ IsFiniteSet(Counted) /\ ActiveCount /\ NoStrandedQueue
  BY DEF Working
<1>3. r \in Req /\ r \in ToSet(beginQ)
  BY <1>1, <1>2, KeptTypes, PlacementTypes, TailPlace
<1>4. stat[r] = "User" /\ ~ InEndpointQueue(r) /\ r \notin active
  BY <1>2, <1>3, ConstantsAssumption
     DEF Kept, Placement, BeginPlace, QueuePlace, ActivePlace, InEndpointQueue
<1>5. job'.kind \in {"add", "reply"} /\ job'.req = r
  BY <1>1, <1>3, JobRecord
<1> HIDE DEF r
<1>6. NoStrandedQueue'
  BY <1>1, <1>2 DEF NoStrandedQueue, OnItsWay
<1>7. r \notin Counted /\ Counted' = Counted \cup {r}
  BY <1>1, <1>3, <1>4, <1>5 DEF Counted, InEndpointQueue, InHand
<1>8. IsFiniteSet(Counted') /\ activeIO' = Cardinality(Counted')
  BY <1>1, <1>2, <1>7, FS_AddElement DEF ActiveCount
<1> QED BY <1>6, <1>8 DEF Working, ActiveCount

\* IOREQUEST_ACTIVE_SUB() takes the request that is replied out of the count.
LEMMA FinishWorks == ASSUME Working, Kept', Finish PROVE Working'
<1> DEFINE r == job.req
<1>1. /\ job.kind = "finish" /\ activeIO' = ActiveSub /\ job' = AfterReply
      /\ UNCHANGED <<active, epReq, epQ>>
  BY DEF Finish, hwVars
<1>2. Kept /\ IsFiniteSet(Counted) /\ ActiveCount /\ NoStrandedQueue
  BY DEF Working
<1>3. /\ r \in Req /\ job.then \in {"stage", "restart", "drain"}
      /\ r \notin active /\ ~ InEndpointQueue(r)
  BY <1>1, <1>2 DEF Kept, Placement, JobPlace, InEndpointQueue
<1>4. /\ job'.kind \in {"idle", "restart", "drain"}
      /\ job.then # "stage" => job'.kind = job.then /\ job'.req = r
  <2>1. CASE job.then = "stage"
    BY <1>1, <2>1, IdleRecord DEF AfterReply
  <2>2. CASE job.then # "stage"
    <3>1. job' = Job(job.then, r, "stage")
      BY <1>1, <2>2 DEF AfterReply
    <3> QED BY <1>3, <2>2, <3>1, JobRecord
  <2> QED BY <2>1, <2>2
<1>5. NoStrandedQueue'
  BY <1>1, <1>2, <1>3, <1>4 DEF NoStrandedQueue, OnItsWay
<1>6. r \in Counted /\ Counted' = Counted \ {r}
  BY <1>1, <1>3, <1>4 DEF Counted, InEndpointQueue, InHand
<1>7. Cardinality(Counted) \in Nat /\ Cardinality(Counted) # 0
  BY <1>2, <1>6, FS_CardinalityType, FS_EmptySet
<1>8. IsFiniteSet(Counted') /\ activeIO' = Cardinality(Counted')
  BY <1>1, <1>2, <1>6, <1>7, FS_RemoveElement DEF ActiveCount, ActiveSub
<1> QED BY <1>5, <1>8 DEF Working, ActiveCount

LEMMA InitWorking == Init => Working
<1> SUFFICES ASSUME Init PROVE Working
  OBVIOUS
<1>1. Kept
  BY InitKept
<1>2. job.kind = "idle" /\ active = {} /\ activeIO = 0 /\ epQ = [e \in EP |-> <<>>]
  BY IdleRecord DEF Init
<1>3. \A e \in EP : ToSet(epQ[e]) = {}
  BY <1>2, EmptySeq, LenProperties DEF ToSet
<1>4. Counted = {}
  BY <1>2, <1>3, ConstantsAssumption DEF Counted, InEndpointQueue, InHand
<1> QED BY <1>1, <1>2, <1>4, FS_EmptySet DEF Working, ActiveCount, NoStrandedQueue

LEMMA WorkingStep == ASSUME Working, ~ RetryBuildFails, [Next]_vars PROVE Working'
<1>1. Kept' /\ Kept /\ NoStrandedQueue
  BY KeptStep DEF Working
<1>2. ASSUME Steady, activeIO' = activeIO PROVE Working'
  BY <1>1, <1>2 DEF Working, Steady, ActiveCount
<1>3. CASE UserStep \/ HardwareStep \/ UNCHANGED vars
  BY <1>1, <1>2, <1>3, OtherSteady DEF UserStep, HardwareStep
<1>4. CASE HCDStep
  <2>1. CASE \/ Wake \/ PollEvents \/ PollDone \/ WatchDogDone \/ AbortDone \/ BeginDone
             \/ ResetDone
    BY <1>1, <1>2, <2>1, OtherSteady
  <2>2. CASE AddRequest \/ Reply \/ Restart \/ Abort \/ ResetQueued
    BY <1>1, <1>2, <2>2, AddSteady, ReplySteady, NextOfQueueSteady, AbortSteady
  <2>3. CASE Begin \/ Finish
    BY <1>1, <2>3, BeginWorks, FinishWorks
  <2>4. ASSUME NEW r \in Req, CheckCompleted(r) \/ WatchDog(r) \/ ResetActive(r)
        PROVE Working'
    BY <1>1, <1>2, <2>4, EndOfTransferSteady
  <2> QED BY <1>4, <2>1, <2>2, <2>3, <2>4 DEF HCDStep
<1> QED BY <1>3, <1>4 DEF Next

-----------------------------------------------------------------------------
(* No lost wakeup *)

\* What the two invariants look at, in the steps of the task that are no stage's end.
LEMMA SeenFrame ==
    ASSUME Seen, UNCHANGED <<beginQ, abortQ, event, tick, sig, mask, pc, polled>>,
           \A r \in Req : timer'[r] = "fired" => timer[r] = "fired"
    PROVE  Seen'
BY DEF Seen, StagePlace, NoLostWakeup

\* Users and hardware: a message, a timer, an event and the tick raise their signal.
LEMMA RaisedSeen ==
    ASSUME Placement, Seen, ~ CanReset,
           \/ \E r \in Req : BeginIO(r) \/ AbortTest(r) \/ AbortPut(r) \/ TimerFires(r)
                             \/ (\E c \in Codes : Complete(r, c))
           \/ Detach \/ TickFires \/ HostError \/ UNCHANGED vars
    PROVE  Seen'
<1> USE DEF reqVars, portVars, hwVars, taskVars, Raise
<1>1. ASSUME NEW r \in Req, BeginIO(r) PROVE Seen'
  BY <1>1 DEF BeginIO, Seen, StagePlace, NoLostWakeup
<1>2. ASSUME NEW r \in Req, AbortTest(r) PROVE Seen'
  BY <1>2, SeenFrame DEF AbortTest
<1>3. ASSUME NEW r \in Req, AbortPut(r) PROVE Seen'
  BY <1>3 DEF AbortPut, Seen, StagePlace, NoLostWakeup
<1>4. ASSUME NEW r \in Req, TimerFires(r) PROVE Seen'
  BY <1>4 DEF TimerFires, Seen, StagePlace, NoLostWakeup
<1>5. ASSUME NEW r \in Req, NEW c \in Codes, Complete(r, c) PROVE Seen'
  BY <1>5 DEF Complete, Seen, StagePlace, NoLostWakeup
<1>6. CASE TickFires
  BY <1>6 DEF TickFires, Seen, StagePlace, NoLostWakeup
<1>7. CASE Detach
  BY <1>7, SeenFrame DEF Detach
<1>8. CASE HostError
  BY <1>8 DEF HostError
<1>9. CASE UNCHANGED vars
  BY <1>9, SeenFrame DEF vars
<1> QED BY <1>1, <1>2, <1>3, <1>4, <1>5, <1>6, <1>7, <1>8, <1>9

\* The next stage has its bit in the mask; there is none only if no stage is left.
LEMMA GoToPlace ==
    ASSUME NEW m \in SUBSET Signals, "Restart" \notin m, GoTo(m)
    PROVE  /\ mask' = m
           /\ pc' = "Wait" => m = {}
           /\ pc' # "Wait" => pc' \in m
<1>1. CASE \A j \in 1 .. Len(Stages) : Stages[j] \notin m
  <2>1. m = {}
    BY <1>1 DEF Stages, Signals
  <2> QED BY <2>1 DEF GoTo
<1>2. CASE \E j \in 1 .. Len(Stages) : Stages[j] \in m
  BY <1>2 DEF GoTo, Stages
<1> QED BY <1>1, <1>2

\* Wait() returns the signals: none is pending any more, all are in the mask.
LEMMA WakeSeen == ASSUME Placement, Seen, Wake PROVE Seen'
<1>1. /\ pc = "Wait" /\ mask = {} /\ ~ polled /\ "Restart" \notin sig
      /\ sig \in SUBSET Signals /\ sig' = {}
      /\ UNCHANGED <<beginQ, abortQ, timer, event, tick, polled>>
  BY DEF Wake, Seen, StagePlace, Placement, TypeOK, reqVars, portVars, hwVars
<1>2. GoTo(sig)
  BY <1>1 DEF Wake
<1>3. mask' = sig /\ (pc' = "Wait" => sig = {}) /\ (pc' # "Wait" => pc' \in sig)
  BY <1>1, <1>2, GoToPlace
<1> QED BY <1>1, <1>3 DEF Seen, StagePlace, NoLostWakeup

\* A stage ends with its port empty: its bit is not missed.
LEMMA EndSeen ==
    ASSUME Placement, Seen, PollDone \/ WatchDogDone \/ AbortDone \/ BeginDone \/ ResetDone
    PROVE  Seen'
<1>1. /\ pc # "Wait" /\ pc # "Reset" /\ pc \in mask /\ EndStage
      /\ UNCHANGED <<beginQ, abortQ, timer, event, tick, sig>>
  BY DEF PollDone, WatchDogDone, AbortDone, BeginDone, ResetDone, InStage, Seen, StagePlace,
         Placement, TypeOK, Signals, reqVars, portVars, hwVars
<1>2. /\ mask' = mask \ {pc} /\ (pc' = "Wait" => mask' = {})
      /\ (pc' # "Wait" => pc' \in mask')
  <2>1. mask \ {pc} \in SUBSET Signals /\ "Restart" \notin mask \ {pc}
    BY DEF Seen, StagePlace, Placement, TypeOK
  <2> QED BY <1>1, <2>1, GoToPlace DEF EndStage
<1>3. CASE PollDone
  <2>1. pc \in {"HCD", "Tick"} /\ polled /\ ~ polled'
    BY <1>3 DEF PollDone, InStage
  <2>2. StagePlace'
    BY <1>1, <1>2, <2>1 DEF Seen, StagePlace
  <2>3. NoLostWakeup'
    BY <1>1, <1>2, <2>1 DEF Seen, StagePlace, NoLostWakeup
  <2> QED BY <2>2, <2>3 DEF Seen
<1>4. CASE WatchDogDone \/ AbortDone \/ BeginDone
  <2>1. /\ pc \in {"WatchDog", "Abort", "Begin"} /\ polled' = polled
        /\ pc = "WatchDog" => \A r \in Req : timer[r] # "fired"
        /\ pc = "Abort" => abortQ = <<>>
        /\ pc = "Begin" => beginQ = <<>>
    BY <1>4 DEF WatchDogDone, AbortDone, BeginDone, InStage
  <2>2. ~ polled
    BY <2>1 DEF Seen, StagePlace
  <2>3. StagePlace'
    BY <1>1, <1>2, <2>1, <2>2 DEF Seen, StagePlace
  <2>4. NoLostWakeup'
    BY <1>1, <1>2, <2>1 DEF Seen, NoLostWakeup
  <2> QED BY <2>3, <2>4 DEF Seen
<1>5. CASE ResetDone
  BY <1>1, <1>5 DEF ResetDone, InStage
<1> QED BY <1>3, <1>4, <1>5

LEMMA PollSeen == ASSUME Placement, Seen, PollEvents PROVE Seen'
<1>1. /\ pc \in {"HCD", "Tick"} /\ \A r \in Req : event'[r] = "no"
      /\ tick' = IF pc = "Tick" THEN "running" ELSE tick
      /\ UNCHANGED <<beginQ, abortQ, timer, sig, mask, pc>>
  BY DEF PollEvents, InStage, portVars
<1> QED BY <1>1 DEF Seen, StagePlace, NoLostWakeup

\* Inside a stage: messages are taken, events forgotten and timers stopped, never made.
LEMMA WithinSeen ==
    ASSUME Placement, Seen,
           \/ AddRequest \/ Reply \/ Finish \/ Restart \/ ResetQueued \/ Abort \/ Begin
           \/ \E r \in Req : CheckCompleted(r) \/ WatchDog(r) \/ ResetActive(r)
    PROVE  Seen'
<1>1. timer \in [Req -> {"off", "running", "fired"}] /\ event \in [Req -> Events]
      /\ beginQ \in Seq(Req) /\ abortQ \in Seq(Req)
  BY PlacementTypes DEF Placement, TypeOK
<1> DEFINE NoMore ==
             /\ UNCHANGED <<tick, sig, mask, pc, polled>>
             /\ beginQ' # <<>> => beginQ # <<>>
             /\ abortQ' # <<>> => abortQ # <<>>
             /\ \A r \in Req : timer'[r] = "fired" => timer[r] = "fired"
             /\ \A r \in Req : event'[r] # "no" => event[r] # "no"
<1>2. NoMore
  <2>1. CASE AddRequest
    BY <1>1, <2>1 DEF AddRequest, AddQueued, AddActive, AddHandled, TimerAfterAdd,
                      TimerStopped, portVars
  <2>2. CASE Reply \/ Finish \/ Restart \/ ResetQueued
    BY <2>2 DEF Reply, Finish, Restart, ResetQueued, reqVars, portVars, hwVars
  <2>3. CASE Abort
    BY <1>1, <2>3 DEF Abort, AbortActive, AbortQueued, AbortIgnored, RemoveTransfer,
                      TimerStopped, hwVars
  <2>4. CASE Begin
    BY <2>4 DEF Begin, hwVars
  <2>5. ASSUME NEW r \in Req, CheckCompleted(r) \/ WatchDog(r)
        PROVE  NoMore
    BY <1>1, <2>5 DEF CheckCompleted, WatchDog, RemoveTransfer, TimerStopped, portVars
  <2>6. ASSUME NEW r \in Req, ResetActive(r)
        PROVE  NoMore
    BY <1>1, <2>6 DEF ResetActive, TimerStopped, portVars
  <2> HIDE DEF NoMore
  <2> QED BY <2>1, <2>2, <2>3, <2>4, <2>5, <2>6
<1> QED BY <1>2 DEF Seen, StagePlace, NoLostWakeup

LEMMA SeenStep == ASSUME Placement, Seen, ~ CanReset, [Next]_vars PROVE Seen'
<1>1. CASE UserStep \/ HardwareStep \/ UNCHANGED vars
  BY <1>1, RaisedSeen DEF UserStep, HardwareStep
<1>2. CASE HCDStep
  BY <1>2, WakeSeen, EndSeen, PollSeen, WithinSeen DEF HCDStep
<1> QED BY <1>1, <1>2 DEF Next

-----------------------------------------------------------------------------
(* Stalls *)

LEMMA EventFrame ==
    ASSUME EventPlace, UNCHANGED <<active, event, completed, err>> PROVE EventPlace'
BY DEF EventPlace

\* io_Error of a request that is not on the hardware is nobody's event.
LEMMA ErrorElsewhere ==
    ASSUME Placement, EventPlace, NEW r, r \notin active, NEW x,
           err' = [err EXCEPT ![r] = x], active \subseteq active',
           UNCHANGED <<event, completed>>
    PROVE  EventPlace'
BY DEF EventPlace, Placement, TypeOK

LEMMA UserEvents ==
    ASSUME Placement, EventPlace,
           \/ \E r \in Req : BeginIO(r) \/ AbortTest(r) \/ AbortPut(r) \/ TimerFires(r)
                             \/ (\E c \in Codes : Complete(r, c))
           \/ Detach \/ TickFires \/ HostError \/ UNCHANGED vars
    PROVE  EventPlace'
<1> USE DEF reqVars, portVars, hwVars, taskVars
<1>1. ASSUME NEW r \in Req, BeginIO(r) PROVE EventPlace'
  <2>1. /\ r \notin active /\ err' = [err EXCEPT ![r] = BeginError(r)]
        /\ UNCHANGED <<active, event, completed>>
    BY <1>1 DEF BeginIO, Placement, ActivePlace
  <2> QED BY <2>1, ErrorElsewhere
<1>2. ASSUME NEW r \in Req, AbortTest(r) \/ AbortPut(r) \/ TimerFires(r) PROVE EventPlace'
  BY <1>2, EventFrame DEF AbortTest, AbortPut, TimerFires
<1>3. ASSUME NEW r \in Req, NEW c \in Codes, Complete(r, c) PROVE EventPlace'
  BY <1>3 DEF Complete, EventPlace, Placement, TypeOK
<1>4. CASE Detach \/ TickFires \/ HostError \/ UNCHANGED vars
  BY <1>4, EventFrame DEF Detach, TickFires, HostError, vars
<1> QED BY <1>1, <1>2, <1>3, <1>4

\* The handler enters the event of each transfer, and its error if it has one.
LEMMA PollEventsEvents == ASSUME Placement, EventPlace, PollEvents PROVE EventPlace'
<1>1. \A r \in Req :
         /\ event'[r] = "no" /\ active' = active
         /\ completed'[r] = IF event[r] = "no" THEN completed[r] ELSE event[r]
         /\ err'[r] = IF event[r] \in {"no", "Okay"} THEN err[r] ELSE event[r]
  BY DEF PollEvents
<1> QED BY <1>1 DEF EventPlace

\* A transfer that leaves the hardware takes its event along.
LEMMA TakenEvents ==
    ASSUME Placement, EventPlace, NEW r \in active, NEW x,
           active' = active \ {r}, event' = [event EXCEPT ![r] = "no"],
           completed' = [completed EXCEPT ![r] = "no"], err' = [err EXCEPT ![r] = x]
    PROVE  EventPlace'
<1>1. /\ \A q \in Req : q # r => /\ event'[q] = event[q] /\ completed'[q] = completed[q]
                                 /\ err'[q] = err[q]
      /\ r \in Req /\ event'[r] = "no" /\ completed'[r] = "no"
  BY DEF Placement, TypeOK
<1> QED BY <1>1 DEF EventPlace

LEMMA RemoveEvents ==
    ASSUME Placement, EventPlace, NEW r \in active, NEW e, NEW force,
           RemoveTransfer(r, e, force)
    PROVE  EventPlace'
<1>1. /\ active' = active \ {r} /\ event' = [event EXCEPT ![r] = "no"]
      /\ completed' = [completed EXCEPT ![r] = "no"]
      /\ err' = [err EXCEPT ![r] = "None"] \/ err' = [err EXCEPT ![r] = e]
  BY DEF RemoveTransfer
<1> QED BY <1>1, TakenEvents

LEMMA TaskEvents ==
    ASSUME Placement, EventPlace, HCDStep PROVE EventPlace'
<1> USE DEF reqVars, portVars, hwVars, taskVars
<1>1. CASE \/ Wake \/ PollDone \/ WatchDogDone \/ AbortDone \/ BeginDone \/ ResetDone
           \/ Reply \/ Finish \/ Restart
  BY <1>1, EventFrame DEF Wake, PollDone, WatchDogDone, AbortDone, BeginDone, ResetDone,
                          Reply, Finish, Restart
<1>2. CASE PollEvents
  BY <1>2, PollEventsEvents
<1>3. CASE AddRequest
  <2>1. job.req \in Req /\ job.req \notin active /\ UNCHANGED <<event, completed>>
    BY <1>3 DEF AddRequest, Placement, JobPlace
  <2>2. CASE AddQueued(job.req)
    BY <2>1, <2>2, EventFrame DEF AddQueued
  <2>3. CASE AddActive(job.req)
    BY <2>1, <2>3 DEF AddActive, EventPlace
  <2>4. CASE AddHandled(job.req)
    <3>1. active' = active /\ \E x : err' = [err EXCEPT ![job.req] = x]
      BY <2>4 DEF AddHandled
    <3> QED BY <2>1, <3>1, ErrorElsewhere
  <2> QED BY <1>3, <2>2, <2>3, <2>4 DEF AddRequest
<1>4. CASE Abort
  <2> DEFINE r == Head(abortQ)
  <2>1. CASE AbortActive(r)
    <3>1. r \in active /\ RemoveTransfer(r, "Aborted", TRUE)
      <4>1. r \in Req /\ stat[r] = "Active" /\ job.kind = "idle"
        BY <1>4, <2>1, PlacementTypes, TailPlace DEF Abort, InStage, AbortActive
      <4> QED BY <2>1, <4>1 DEF AbortActive, Placement, ActivePlace
    <3> HIDE DEF r
    <3> QED BY <3>1, RemoveEvents
  <2>2. CASE AbortQueued(r)
    <3>1. /\ r \notin active /\ err' = [err EXCEPT ![r] = "Aborted"]
          /\ UNCHANGED <<active, event, completed>>
      BY <2>2 DEF AbortQueued, Placement, ActivePlace
    <3> QED BY <3>1, ErrorElsewhere
  <2>3. CASE AbortIgnored(r)
    BY <2>3, EventFrame DEF AbortIgnored
  <2> QED BY <1>4, <2>1, <2>2, <2>3 DEF Abort
<1>5. CASE Begin
  <2> DEFINE r == Head(beginQ)
  <2>1. /\ err' = err \/ err' = [err EXCEPT ![r] = BeginRefusal(r)]
        /\ UNCHANGED <<active, event, completed>>
    BY <1>5 DEF Begin
  <2>2. r \notin active
    <3>1. r \in ToSet(beginQ)
      BY <1>5, PlacementTypes, TailPlace DEF Begin
    <3> QED BY <3>1 DEF Placement, BeginPlace, ActivePlace
  <2> QED BY <2>1, <2>2, EventFrame, ErrorElsewhere
<1>6. CASE ResetQueued
  <2> DEFINE q == epQ[EpOf[job.req]]
  <2>1. /\ err' = err \/ (q # <<>> /\ err' = [err EXCEPT ![Head(q)] = "Failed"])
        /\ UNCHANGED <<active, event, completed>>
    BY <1>6 DEF ResetQueued
  <2>2. q # <<>> => Head(q) \notin active
    <3>1. EpOf[job.req] \in EP
      BY <1>6, ConstantsAssumption DEF ResetQueued, Placement, JobPlace
    <3>2. q \in Seq(Req)
      BY <3>1, PlacementTypes
    <3>3. q # <<>> => Head(q) \in ToSet(q)
      BY <3>2, TailPlace
    <3> QED BY <3>1, <3>3 DEF Placement, QueuePlace, ActivePlace
  <2> QED BY <2>1, <2>2, EventFrame, ErrorElsewhere
<1>7. ASSUME NEW r \in Req, CheckCompleted(r) \/ WatchDog(r) \/ ResetActive(r)
      PROVE EventPlace'
  <2>1. r \in active
    BY <1>7 DEF CheckCompleted, WatchDog, ResetActive, Placement, ActivePlace
  <2>2. CASE CheckCompleted(r) \/ WatchDog(r)
    BY <2>1, <2>2, RemoveEvents DEF CheckCompleted, WatchDog
  <2>3. CASE ResetActive(r)
    BY <2>1, <2>3, TakenEvents DEF ResetActive
  <2> QED BY <1>7, <2>2, <2>3
<1> QED BY <1>1, <1>2, <1>3, <1>4, <1>5, <1>6, <1>7 DEF HCDStep

\* Only a stage's end leads to Wait(), and a stage ends with nothing in hand.
LEMMA RestStep ==
    ASSUME Placement, pc = "Wait" => job.kind = "idle", [Next]_vars
    PROVE  pc' = "Wait" => job'.kind = "idle"
<1> USE DEF reqVars, portVars, hwVars, taskVars
<1>1. CASE UserStep \/ HardwareStep \/ UNCHANGED vars
  BY <1>1 DEF UserStep, BeginIO, AbortTest, AbortPut, Detach, HardwareStep, Complete,
              TimerFires, TickFires, HostError, vars
<1>2. CASE HCDStep
  <2>1. CASE Wake \/ PollDone \/ WatchDogDone \/ AbortDone \/ BeginDone \/ ResetDone
    BY <2>1 DEF Wake, PollDone, WatchDogDone, AbortDone, BeginDone, ResetDone, InStage
  <2>2. CASE AddRequest \/ Reply \/ Finish \/ Restart \/ ResetQueued
    BY <2>2 DEF AddRequest, Reply, Finish, Restart, ResetQueued
  <2>3. CASE PollEvents \/ Abort \/ Begin
    BY <2>3 DEF PollEvents, Abort, Begin, InStage
  <2>4. ASSUME NEW r \in Req, CheckCompleted(r) \/ WatchDog(r) \/ ResetActive(r)
        PROVE  pc' = pc /\ pc # "Wait"
    BY <2>4 DEF CheckCompleted, WatchDog, ResetActive, InStage
  <2> QED BY <1>2, <2>1, <2>2, <2>3, <2>4 DEF HCDStep
<1> QED BY <1>1, <1>2 DEF Next

LEMMA StallKeptStep == ASSUME Placement, StallKept, [Next]_vars PROVE StallKept'
<1>1. EventPlace'
  BY UserEvents, TaskEvents DEF StallKept, Next, UserStep, HardwareStep
<1> QED BY <1>1, RestStep DEF StallKept

\* A stalled pipe behind which something waits has the request that un-stalls a pipe.
LEMMA StallFlushes == ASSUME Working, StallKept PROVE StallFlushesQueue
<1> SUFFICES ASSUME pc = "Wait", NEW e \in EP, stalled[e], epReq[e] # NoReq \/ epQ[e] # <<>>
             PROVE  epReq[e] # NoReq /\ ClearEP[epReq[e]] # NoEP
  BY DEF StallFlushesQueue
<1>1. epReq[e] # NoReq
  BY DEF Working, StallKept, NoStrandedQueue, OnItsWay
<1>2. epReq[e] \in active /\ EpOf[epReq[e]] = e
  BY <1>1 DEF Working, Kept, Placement, ActivePlace
<1> QED BY <1>1, <1>2 DEF Working, Kept, StallPlace, PipeStalled

\* The end of a transfer un-stalls a pipe only if it is a Clear_Feature without an error.
LEMMA RemoveUnstalls ==
    ASSUME Placement, ~ LateErrors, NEW r \in active, NEW x \in Errors, NEW force \in BOOLEAN,
           RemoveTransfer(r, x, force), NEW e \in EP, stalled[e], ~ stalled'[e]
    PROVE  ClearEP[r] = e /\ x = "None"
<1>1. stalled' = StalledAfter(r, x, LateErrors /\ ~ force)
  BY DEF RemoveTransfer
<1> QED BY <1>1 DEF StalledAfter, Placement, TypeOK

LEMMA UnstallStep ==
    ASSUME Placement, StallKept, ~ LateErrors, [Next]_vars, NEW e \in EP,
           stalled[e], ~ stalled'[e]
    PROVE  \E r \in active : ClearEP[r] = e /\ completed[r] = "Okay"
<1> USE DEF reqVars, portVars, hwVars, taskVars
<1>1. CASE UserStep \/ HardwareStep \/ UNCHANGED vars
  BY <1>1 DEF UserStep, BeginIO, AbortTest, AbortPut, Detach, HardwareStep, Complete,
              TimerFires, TickFires, HostError, vars
<1>2. CASE HCDStep
  <2>1. CASE Wake \/ PollDone \/ WatchDogDone \/ AbortDone \/ BeginDone \/ ResetDone
    BY <2>1 DEF Wake, PollDone, WatchDogDone, AbortDone, BeginDone, ResetDone
  <2>2. CASE Reply \/ Finish \/ Restart \/ ResetQueued \/ PollEvents \/ Begin
    BY <2>2 DEF Reply, Finish, Restart, ResetQueued, PollEvents, Begin
  <2>3. CASE AddRequest
    <3>1. AddHandled(job.req) /\ job.req \in Req /\ stat[job.req] # "Active"
      BY <2>3 DEF AddRequest, AddQueued, AddActive, Placement, JobPlace
    <3>2. \E x : stalled' = StalledAfter(job.req, x, FALSE)
      BY <3>1 DEF AddHandled
    <3> QED BY <3>1, <3>2 DEF StalledAfter, Placement, TypeOK
  <2>4. CASE Abort
    <3> DEFINE r == Head(abortQ)
    <3>1. AbortActive(r)
      BY <2>4 DEF Abort, AbortQueued, AbortIgnored
    <3>2. r \in active /\ RemoveTransfer(r, "Aborted", TRUE)
      <4>1. r \in Req /\ stat[r] = "Active" /\ job.kind = "idle"
        BY <2>4, <3>1, PlacementTypes, TailPlace DEF Abort, InStage, AbortActive
      <4> QED BY <3>1, <4>1 DEF AbortActive, Placement, ActivePlace
    <3> HIDE DEF r
    <3>3. ClearEP[r] = e /\ "Aborted" = "None"
      BY <3>2, RemoveUnstalls DEF Errors
    <3> QED BY <3>3
  <2>5. ASSUME NEW r \in Req, WatchDog(r) PROVE FALSE
    <3>1. r \in active /\ RemoveTransfer(r, "Timeout", TRUE)
      BY <2>5 DEF WatchDog, Placement, ActivePlace
    <3>2. ClearEP[r] = e /\ "Timeout" = "None"
      BY <3>1, RemoveUnstalls DEF Errors
    <3> QED BY <3>2
  <2>6. ASSUME NEW r \in Req, ResetActive(r) PROVE FALSE
    BY <2>6 DEF ResetActive
  <2>7. ASSUME NEW r \in Req, CheckCompleted(r)
        PROVE  r \in active /\ ClearEP[r] = e /\ completed[r] = "Okay"
    <3>1. r \in active /\ completed[r] # "no" /\ RemoveTransfer(r, err[r], FALSE)
      BY <2>7 DEF CheckCompleted
    <3>2. ClearEP[r] = e /\ err[r] = "None"
      <4>1. err[r] \in Errors
        BY <3>1 DEF Placement, TypeOK
      <4> QED BY <3>1, <4>1, RemoveUnstalls
    <3>3. completed[r] \in Events
      BY <3>1 DEF Placement, TypeOK
    <3>4. completed[r] # "None"
      BY <3>3, ConstantsAssumption DEF Events
    <3> QED BY <3>1, <3>2, <3>4 DEF StallKept, EventPlace
  <2> QED BY <1>2, <2>1, <2>2, <2>3, <2>4, <2>5, <2>6, <2>7 DEF HCDStep
<1> QED BY <1>1, <1>2 DEF Next

-----------------------------------------------------------------------------
(* The theorems *)

\* fkt_ActiveIOReq, which says whether a function may be freed, is the number of its
\* requests that the HCD task has, in every state and for any number of requests.
THEOREM ActiveCountAlways == ASSUME ~ RetryBuildFails PROVE Spec => []ActiveCount
<1>1. Init => Working
  BY InitWorking
<1>2. Working /\ [Next]_vars => Working'
  BY WorkingStep
<1>3. Working => ActiveCount
  BY DEF Working
<1> QED BY <1>1, <1>2, <1>3, PTL DEF Spec

\* Requests that wait in an endpoint's queue have a transfer before them, or the HCD task
\* on its way to them, chip restarts included.
THEOREM NoQueueStranded == ASSUME ~ RetryBuildFails PROVE Spec => []NoStrandedQueue
<1>1. Init => Working
  BY InitWorking
<1>2. Working /\ [Next]_vars => Working'
  BY WorkingStep
<1>3. Working => NoStrandedQueue
  BY DEF Working
<1> QED BY <1>1, <1>2, <1>3, PTL DEF Spec

\* Between two chip restarts nothing waits for nobody: no queue of an endpoint is stranded,
\* and no message, timer or event is without its signal.
THEOREM WorkIsSeenAlways ==
    ASSUME ~ RetryBuildFails, ~ CanReset PROVE Spec => []WorkIsSeen
<1>1. Init => Seen
  BY DEF Init, Seen, StagePlace, NoLostWakeup
<1>2. Placement /\ Seen /\ [Next]_vars => Seen'
  BY SeenStep
<1>3. Seen /\ NoStrandedQueue => WorkIsSeen
  BY DEF Seen, WorkIsSeen
<1>4. Spec => []NoStrandedQueue
  BY NoQueueStranded
<1> QED BY <1>1, <1>2, <1>3, <1>4, PlacementInvariant, PTL DEF Spec

\* A stall holds: whatever the users send and abort, when the HCD task goes to sleep
\* nothing is queued or in progress behind a stall but the request that ends it, and the
\* stack takes a pipe for un-stalled only when the device has carried that request out.
\* EHCI and OHCI are left out: their errors come too late for the second (LateErrors).
THEOREM StallHoldsAlways ==
    ASSUME ~ RetryBuildFails, ~ LateErrors PROVE Spec => StallHolds
<1>1. Init => Working /\ StallKept
  <2>1. Init => StallKept
    BY DEF Init, StallKept, EventPlace, Idle, Job
  <2> QED BY <2>1, InitWorking
<1>2. Working /\ StallKept /\ [Next]_vars => Working' /\ StallKept'
  BY WorkingStep, StallKeptStep DEF Working, Kept
<1>3. Working /\ StallKept /\ [Next]_vars =>
        [\A e \in EP : stalled[e] /\ ~ stalled'[e] =>
            \E r \in active : ClearEP[r] = e /\ completed[r] = "Okay"]_vars
  BY UnstallStep DEF Working, Kept
<1>4. Working' /\ StallKept' => StallFlushesQueue'
  BY StallFlushes, PTL
<1> QED BY <1>1, <1>2, <1>3, <1>4, PTL DEF Spec, StallHolds, UnstalledByDevice

(***************************************************************************)
(* The transfer core implements EndpointContract: Init maps to the contract's*)
(* Init, and every step of Next to a step of the contract or to a stutter.  An*)
(* endpoint's line is the request at its front - on the hardware, or in the *)
(* task's hand on the way there - before the endpoint's queue; a request's  *)
(* phase is the place it is in.                                             *)
(***************************************************************************)


Good == Working /\ ContractKept

LEMMA GoodTypes ==
    ASSUME Good
    PROVE  /\ Kept /\ Placement /\ NoStrandedQueue /\ ContractKept
           /\ owner \in [Req -> {"user", "stack"}] /\ err \in [Req -> Errors]
           /\ epReq \in [EP -> Req \cup {NoReq}] /\ epQ \in [EP -> Seq(Req)]
           /\ job \in Jobs /\ \A r \in Req : EpOf[r] \in EP
BY ConstantsAssumption DEF Good, Working, Kept, Placement, TypeOK

-----------------------------------------------------------------------------
(* ContractKept is inductive *)

LEMMA ContractFrame ==
    ASSUME ContractKept, UNCHANGED <<owner, epReq, job>>,
           \A r \in Req : err'[r] = "Aborted" => err[r] = "Aborted"
    PROVE  ContractKept'
BY DEF ContractKept, OnItsWay

LEMMA OtherContract ==
    ASSUME Placement, ContractKept,
           \/ \E r \in Req : AbortTest(r) \/ AbortPut(r) \/ TimerFires(r)
                             \/ (\E c \in Codes : Complete(r, c))
           \/ Detach \/ TickFires \/ HostError
           \/ Wake \/ PollDone \/ WatchDogDone \/ AbortDone \/ BeginDone \/ ResetDone
           \/ PollEvents
           \/ UNCHANGED vars
    PROVE  ContractKept'
<1>1. UNCHANGED <<owner, epReq, job>>
  BY DEF AbortTest, AbortPut, TimerFires, Complete, Detach, TickFires, HostError,
         Wake, PollEvents, PollDone, WatchDogDone, AbortDone, BeginDone, ResetDone, vars,
         reqVars, portVars, hwVars, taskVars
<1>2. \A r \in Req : err'[r] = "Aborted" => err[r] = "Aborted"
  <2>1. CASE PollEvents
    <3>1. \A r \in Req : event[r] # "Aborted"
      BY ConstantsAssumption DEF Placement, TypeOK, Events
    <3> QED BY <2>1, <3>1 DEF PollEvents
  <2>2. CASE ~ PollEvents
    BY <2>2 DEF AbortTest, AbortPut, TimerFires, Complete, Detach, TickFires, HostError,
         Wake, PollDone, WatchDogDone, AbortDone, BeginDone, ResetDone, vars,
         reqVars, portVars, hwVars, taskVars
  <2> QED BY <2>1, <2>2
<1> QED BY <1>1, <1>2, ContractFrame

LEMMA BeginIOContract ==
    ASSUME Placement, ContractKept, NEW r \in Req, BeginIO(r) PROVE ContractKept'
<1>1. /\ owner[r] = "user" /\ UNCHANGED <<epReq, job>>
      /\ err' = [err EXCEPT ![r] = BeginError(r)]
      /\ owner' = owner \/ owner' = [owner EXCEPT ![r] = "stack"]
  BY DEF BeginIO, hwVars, taskVars
<1>2. err \in [Req -> Errors] /\ owner \in [Req -> {"user", "stack"}]
      /\ BeginError(r) # "Aborted"
  BY DEF Placement, TypeOK, BeginError
<1>3. \A e \in EP : OnItsWay(e)' => epReq'[e] = NoReq
  BY <1>1 DEF ContractKept, OnItsWay
<1>4. \A q \in Req : err'[q] = "Aborted" =>
          owner'[q] = "user" \/ (job'.kind = "reply" /\ job'.req = q)
  BY <1>1, <1>2 DEF ContractKept
<1> QED BY <1>3, <1>4 DEF ContractKept

\* While the task adds a request, that request is not aborted.
LEMMA AddNotAborted ==
    ASSUME Placement, ContractKept, job.kind = "add"
    PROVE  job.req \in Req /\ owner[job.req] = "stack" /\ err[job.req] # "Aborted"
BY PlacementTypes DEF Placement, JobPlace, ContractKept

LEMMA AddContract ==
    ASSUME Kept, ContractKept, ~ RetryBuildFails, AddRequest PROVE ContractKept'
<1> DEFINE r == job.req
<1>1. /\ job.kind = "add" /\ owner' = owner /\ r \in Req
      /\ owner[r] = "stack" /\ err[r] # "Aborted"
      /\ job.then \in {"begin", "retry", "restart"}
  BY AddNotAborted DEF AddRequest, Kept, Placement, JobPlace
<1>2. CASE AddQueued(r) \/ AddActive(r)
  <2>1. job' = Idle /\ err' = err
    BY <1>2 DEF AddQueued, AddActive
  <2> QED BY <1>1, <2>1, IdleRecord DEF ContractKept, OnItsWay
<1>3. CASE AddHandled(r)
  <2>1. /\ epReq' = epReq
        /\ job' = CASE job.then = "begin"   -> Job("reply", r, "stage")
                    [] job.then = "restart" -> Job("reply", r, "restart")
                    [] job.then = "retry"   -> Idle
    BY <1>3 DEF AddHandled
  <2>2. \/ job'.kind = "idle"
        \/ /\ job'.kind = "reply" /\ job'.req = r
           /\ job'.then = "stage" \/ (job'.then = "restart" /\ job.then = "restart")
    <3>1. \/ job' = Job("reply", r, "stage") \/ job' = Idle
          \/ job' = Job("reply", r, "restart") /\ job.then = "restart"
      BY <1>1, <2>1
    <3> QED BY <1>1, <3>1, JobRecord, IdleRecord
  <2>3. \A e \in EP : OnItsWay(e)' => epReq'[e] = NoReq
    BY <1>1, <2>1, <2>2 DEF ContractKept, OnItsWay
  <2>4. \A q \in Req : q # r => err'[q] = err[q]
    BY <1>3, PlacementTypes DEF AddHandled, Kept, Placement, TypeOK
  <2>5. err'[r] # "Aborted"
    <3>1. err \in [Req -> Errors]
      BY DEF Kept, Placement, TypeOK
    <3>2. PICK e \in BuildErrs \cup {"Stall"} :
             err' = [err EXCEPT ![r] = IF err[r] = "None" THEN e ELSE err[r]]
      BY <1>3 DEF AddHandled
    <3> QED BY <1>1, <3>1, <3>2, ConstantsAssumption
  <2>6. \A q \in Req : err'[q] = "Aborted" =>
            owner'[q] = "user" \/ (job'.kind = "reply" /\ job'.req = q)
    BY <1>1, <2>4, <2>5 DEF ContractKept
  <2> QED BY <2>3, <2>6 DEF ContractKept
<1> QED BY <1>2, <1>3 DEF AddRequest

\* A request that leaves the hardware leaves its endpoint free.
LEMMA TakenContract ==
    ASSUME Kept, ContractKept, NEW r \in active, job.kind = "idle", NEW x,
           owner' = owner, epReq' = [epReq EXCEPT ![EpOf[r]] = NoReq],
           err' = [err EXCEPT ![r] = x], job'.req = r,
           job'.kind = "reply" \/ (job'.kind = "add" /\ x # "Aborted")
    PROVE  ContractKept'
<1>1. r \in Req /\ EpOf[r] \in EP /\ owner \in [Req -> {"user", "stack"}]
      /\ epReq \in [EP -> Req \cup {NoReq}] /\ err \in [Req -> Errors]
  BY KeptTypes, ConstantsAssumption DEF Placement, TypeOK
<1>2. \A e \in EP : OnItsWay(e)' => epReq'[e] = NoReq
  BY <1>1 DEF OnItsWay
<1>3. \A q \in Req : err'[q] = "Aborted" =>
          owner'[q] = "user" \/ (job'.kind = "reply" /\ job'.req = q)
  BY <1>1 DEF ContractKept
<1> QED BY <1>2, <1>3 DEF ContractKept

LEMMA RemoveContract ==
    ASSUME Kept, ContractKept, NEW r \in active, NEW x \in Errors, NEW force \in BOOLEAN,
           job.kind = "idle", RemoveTransfer(r, x, force), owner' = owner
    PROVE  ContractKept'
<1>1. r \in Req /\ stat[r] = "Active"
  BY KeptTypes DEF Kept, Placement, ActivePlace
<1>2. /\ epReq' = [epReq EXCEPT ![EpOf[r]] = NoReq]
      /\ \/ job' = Job("add", r, "retry") /\ err' = [err EXCEPT ![r] = "None"]
         \/ job' = Job("reply", r, "restart") /\ err' = [err EXCEPT ![r] = x]
  BY <1>1 DEF RemoveTransfer
<1>3. /\ Job("add", r, "retry").kind = "add" /\ Job("add", r, "retry").req = r
      /\ Job("reply", r, "restart").kind = "reply" /\ Job("reply", r, "restart").req = r
  BY <1>1, JobRecord
<1>4. "None" # "Aborted"
  OBVIOUS
<1> QED BY <1>2, <1>3, <1>4, TakenContract

LEMMA EndOfTransferContract ==
    ASSUME Kept, ContractKept, NEW r \in Req,
           CheckCompleted(r) \/ WatchDog(r) \/ ResetActive(r)
    PROVE  ContractKept'
<1>1. r \in active /\ job.kind = "idle" /\ owner' = owner
  BY DEF CheckCompleted, WatchDog, ResetActive, InStage, Kept, Placement, ActivePlace
<1>2. CASE CheckCompleted(r) \/ WatchDog(r)
  <2>1. \E x \in Errors, force \in BOOLEAN : RemoveTransfer(r, x, force)
    <3>1. err[r] \in Errors /\ "Timeout" \in Errors
      BY DEF Kept, Placement, TypeOK, Errors
    <3> QED BY <1>2, <3>1 DEF CheckCompleted, WatchDog
  <2> QED BY <1>1, <2>1, RemoveContract
<1>3. CASE ResetActive(r)
  <2>1. /\ epReq' = [epReq EXCEPT ![EpOf[r]] = NoReq] /\ err' = [err EXCEPT ![r] = "Failed"]
        /\ job' = Job("reply", r, "drain")
    BY <1>3 DEF ResetActive
  <2>2. job'.kind = "reply" /\ job'.req = r
    BY <2>1, JobRecord
  <2> QED BY <1>1, <2>1, <2>2, TakenContract
<1> QED BY <1>2, <1>3

LEMMA AbortContract == ASSUME Kept, ContractKept, Abort PROVE ContractKept'
<1> DEFINE r == Head(abortQ)
<1>1. r \in Req /\ job.kind = "idle" /\ owner' = owner
  BY KeptTypes, PlacementTypes, TailPlace DEF Abort, InStage
<1>2. CASE AbortActive(r)
  <2>1. r \in active
    BY <1>1, <1>2 DEF AbortActive, Kept, Placement, ActivePlace
  <2>2. RemoveTransfer(r, "Aborted", TRUE) /\ "Aborted" \in Errors
    BY <1>2 DEF AbortActive, Errors
  <2> HIDE DEF r
  <2> QED BY <1>1, <2>1, <2>2, RemoveContract
<1>3. CASE AbortQueued(r)
  <2>1. /\ job' = Job("reply", r, "stage") /\ epReq' = epReq
        /\ err' = [err EXCEPT ![r] = "Aborted"]
    BY <1>3 DEF AbortQueued
  <2>2. job'.kind = "reply" /\ job'.req = r /\ job'.then = "stage"
    BY <1>1, <2>1, JobRecord
  <2>3. err \in [Req -> Errors]
    BY DEF Kept, Placement, TypeOK
  <2>4. \A q \in Req : err'[q] = "Aborted" =>
            owner'[q] = "user" \/ (job'.kind = "reply" /\ job'.req = q)
    BY <1>1, <2>1, <2>2, <2>3 DEF ContractKept
  <2>5. \A e \in EP : ~ OnItsWay(e)'
    BY <2>2 DEF OnItsWay
  <2> QED BY <2>4, <2>5 DEF ContractKept
<1>4. CASE AbortIgnored(r)
  <2>1. UNCHANGED <<epReq, job, err>>
    BY <1>4 DEF AbortIgnored, hwVars
  <2> QED BY <1>1, <2>1, ContractFrame
<1> QED BY <1>2, <1>3, <1>4 DEF Abort

LEMMA ReplyContract == ASSUME Kept, ContractKept, Reply \/ Finish PROVE ContractKept'
<1>1. job \in Jobs /\ owner \in [Req -> {"user", "stack"}] /\ UNCHANGED <<epReq, err>>
  BY KeptTypes, PlacementTypes DEF Reply, Finish, hwVars
<1>2. CASE Reply
  <2>1. /\ owner' = [owner EXCEPT ![job.req] = "user"] /\ job.kind = "reply"
        /\ job'.kind = "finish" /\ job'.req = job.req /\ job'.then = job.then
    BY <1>1, <1>2 DEF Reply, Jobs
  <2>2. \A e \in EP : OnItsWay(e)' => epReq'[e] = NoReq
    BY <1>1, <2>1 DEF ContractKept, OnItsWay
  <2>3. \A q \in Req : err'[q] = "Aborted" => owner'[q] = "user"
    BY <1>1, <2>1 DEF ContractKept
  <2> QED BY <2>2, <2>3 DEF ContractKept
<1>3. CASE Finish
  <2>1. /\ owner' = owner /\ job.kind = "finish" /\ job' = AfterReply /\ job.req \in Req
        /\ job.then \in {"stage", "restart", "drain"}
    BY <1>3 DEF Finish, Kept, Placement, JobPlace
  <2>2. /\ job'.kind # "reply"
        /\ job'.kind # "idle" => job'.req = job.req /\ job.then \in {"restart", "drain"}
    <3>1. CASE job.then = "stage"
      BY <2>1, <3>1, IdleRecord DEF AfterReply
    <3>2. CASE job.then # "stage"
      <4>1. job' = Job(job.then, job.req, "stage")
        BY <2>1, <3>2 DEF AfterReply
      <4> QED BY <2>1, <3>2, <4>1, JobRecord
    <3> QED BY <3>1, <3>2
  <2>3. \A e \in EP : OnItsWay(e)' => epReq'[e] = NoReq
    BY <1>1, <2>1, <2>2 DEF ContractKept, OnItsWay
  <2>4. \A q \in Req : err'[q] = "Aborted" => owner'[q] = "user"
    BY <1>1, <2>1 DEF ContractKept
  <2> QED BY <2>3, <2>4 DEF ContractKept
<1> QED BY <1>2, <1>3

LEMMA NextOfQueueContract ==
    ASSUME Kept, ContractKept, Restart \/ ResetQueued PROVE ContractKept'
<1> DEFINE e == EpOf[job.req]
           h == Head(epQ[e])
<1>1. /\ job.kind \in {"restart", "drain"} /\ e \in EP /\ epReq[e] = NoReq
      /\ UNCHANGED <<owner, epReq>>
  <2>1. job.kind \in {"restart", "drain"} /\ e \in EP /\ UNCHANGED <<owner, epReq>>
    BY ConstantsAssumption DEF Restart, ResetQueued, reqVars, Kept, Placement, JobPlace
  <2> QED BY <2>1 DEF ContractKept, OnItsWay
<1>2. \A q \in Req : err[q] = "Aborted" => owner[q] = "user"
  BY <1>1 DEF ContractKept
<1>3. CASE epQ[e] = <<>>
  <2>1. job' = Idle /\ err' = err
    BY <1>3 DEF Restart, ResetQueued, reqVars
  <2> QED BY <1>1, <1>2, <2>1, IdleRecord DEF ContractKept, OnItsWay
<1>4. CASE epQ[e] # <<>>
  <2>1. /\ job' = Job("add", h, "restart") \/ job' = Job("reply", h, "drain")
        /\ err' = err \/ err' = [err EXCEPT ![h] = "Failed"]
    BY <1>4 DEF Restart, ResetQueued, reqVars
  <2>2. h \in Req /\ h \in ToSet(epQ[e]) /\ err \in [Req -> Errors]
    <3>1. epQ[e] \in Seq(Req) /\ err \in [Req -> Errors]
      BY <1>1, KeptTypes, PlacementTypes DEF Placement, TypeOK
    <3> HIDE DEF e
    <3> QED BY <1>4, <3>1, TailPlace
  <2>3. EpOf[h] = e
    BY <1>1, <2>2 DEF Kept, Placement, QueuePlace
  <2>4. job'.req = h
    BY <2>1, <2>2, JobRecord
  <2> HIDE DEF e, h
  <2>5. \A d \in EP : OnItsWay(d)' => epReq'[d] = NoReq
    BY <1>1, <2>3, <2>4 DEF OnItsWay
  <2>6. \A q \in Req : err'[q] = "Aborted" => owner'[q] = "user"
    BY <1>1, <1>2, <2>1, <2>2
  <2> QED BY <2>5, <2>6 DEF ContractKept
<1> QED BY <1>3, <1>4

LEMMA BeginContract == ASSUME Kept, ContractKept, Begin PROVE ContractKept'
<1> DEFINE r == Head(beginQ)
<1>1. /\ job.kind = "idle" /\ beginQ # <<>> /\ UNCHANGED <<owner, epReq>>
      /\ job' = Job("add", r, "begin") \/ job' = Job("reply", r, "stage")
      /\ err' = err \/ err' = [err EXCEPT ![r] = "Failed"]
  BY DEF Begin, BeginRefusal, InStage, hwVars
<1>2. r \in Req /\ err \in [Req -> Errors]
  BY <1>1, KeptTypes, PlacementTypes, TailPlace DEF Placement, TypeOK
<1>3. job'.kind \in {"add", "reply"} /\ job'.then \in {"begin", "stage"}
  BY <1>1, <1>2, JobRecord
<1> HIDE DEF r
<1>4. \A e \in EP : ~ OnItsWay(e)'
  BY <1>3 DEF OnItsWay
<1>5. \A q \in Req : err'[q] = "Aborted" => owner'[q] = "user"
  BY <1>1, <1>2 DEF ContractKept
<1> QED BY <1>4, <1>5 DEF ContractKept

LEMMA GoodStep == ASSUME Good, ~ RetryBuildFails, [Next]_vars PROVE Good'
<1>1. Kept /\ Placement /\ ContractKept
  BY GoodTypes
<1>2. Working'
  BY WorkingStep DEF Good
<1>3. CASE UserStep \/ HardwareStep \/ UNCHANGED vars
  BY <1>1, <1>2, <1>3, OtherContract, BeginIOContract DEF Good, UserStep, HardwareStep
<1>4. CASE HCDStep
  <2>1. CASE \/ Wake \/ PollEvents \/ PollDone \/ WatchDogDone \/ AbortDone \/ BeginDone
             \/ ResetDone
    BY <1>1, <1>2, <2>1, OtherContract DEF Good
  <2>2. CASE AddRequest \/ Reply \/ Finish \/ Restart \/ Abort \/ ResetQueued \/ Begin
    BY <1>1, <1>2, <2>2, AddContract, ReplyContract, NextOfQueueContract, AbortContract,
       BeginContract DEF Good
  <2>3. ASSUME NEW r \in Req, CheckCompleted(r) \/ WatchDog(r) \/ ResetActive(r)
        PROVE Good'
    BY <1>1, <1>2, <2>3, EndOfTransferContract DEF Good
  <2> QED BY <1>4, <2>1, <2>2, <2>3 DEF HCDStep
<1> QED BY <1>3, <1>4 DEF Next

-----------------------------------------------------------------------------
(* The line of an endpoint and the phase of a request *)

\* The request on its way to the endpoint, for its first transfer or for a retry.
Transit == job.kind = "add" /\ job.then \in {"restart", "retry"}
FrontOf(e) == IF epReq[e] # NoReq THEN epReq[e]
            ELSE IF Transit /\ EpOf[job.req] = e THEN job.req ELSE NoReq
Taken(r) == r \in active \/ InEndpointQueue(r) \/ (Transit /\ job.req = r)
Replying(r) == job.kind = "reply" /\ job.req = r

LEMMA FrontType == ASSUME Good, NEW e \in EP PROVE FrontOf(e) \in Req \cup {NoReq}
BY GoodTypes DEF FrontOf, Transit, Kept, Placement, JobPlace

LineIs(e) ==
    /\ LineOf(e) = IF FrontOf(e) = NoReq THEN epQ[e] ELSE <<FrontOf(e)>> \o epQ[e]
    /\ LineOf(e) \in Seq(Req)
    /\ \A r \in Req : r \in ToSet(LineOf(e)) <=> r = FrontOf(e) \/ r \in ToSet(epQ[e])

LEMMA LineShape == ASSUME Good, NEW e \in EP PROVE LineIs(e)
<1>1. /\ epQ[e] \in Seq(Req) /\ epReq[e] \in Req \cup {NoReq} /\ NoReq \notin Req
      /\ Transit => job.req \in Req
      /\ Transit /\ EpOf[job.req] = e => epReq[e] = NoReq
  BY GoodTypes, ConstantsAssumption
     DEF Transit, Kept, Placement, JobPlace, ContractKept, OnItsWay
<1> DEFINE q == epQ[e]
           f == FrontOf(e)
<1>2. \A s \in Seq(Req) : <<>> \o s = s /\ s \o <<>> = s
  BY ConcatEmptySeq
<1>3. \A x \in Req : <<x>> \in Seq(Req)
  BY <1>2
<1>4. LineOf(e) = IF f = NoReq THEN q ELSE <<f>> \o q
  <2>1. CASE epReq[e] # NoReq
    <3>1. LineOf(e) = (<<>> \o <<epReq[e]>>) \o q /\ f = epReq[e]
      BY <1>1, <2>1 DEF LineOf, InTransit, FrontOf, Transit
    <3> QED BY <1>1, <1>2, <1>3, <2>1, <3>1
  <2>2. CASE epReq[e] = NoReq /\ Transit /\ EpOf[job.req] = e
    <3>1. LineOf(e) = (<<job.req>> \o <<>>) \o q /\ f = job.req
      BY <1>1, <2>2 DEF LineOf, InTransit, FrontOf, Transit
    <3> QED BY <1>1, <1>2, <1>3, <2>2, <3>1
  <2>3. CASE epReq[e] = NoReq /\ ~ (Transit /\ EpOf[job.req] = e)
    <3>1. LineOf(e) = (<<>> \o <<>>) \o q /\ f = NoReq
      BY <1>1, <2>3 DEF LineOf, InTransit, FrontOf, Transit
    <3>2. <<>> \in Seq(Req)
      BY EmptySeq
    <3> QED BY <1>1, <1>2, <3>1, <3>2
  <2> QED BY <2>1, <2>2, <2>3
<1>5. f \in Req \cup {NoReq}
  BY FrontType
<1> HIDE DEF f
<1>6. f # NoReq => /\ <<f>> \o q \in Seq(Req)
                   /\ ToSet(<<f>> \o q) = {f} \cup ToSet(q)
  BY <1>1, <1>5, ConsPlace
<1>7. \A r \in Req : r \in ToSet(LineOf(e)) <=> r = f \/ r \in ToSet(q)
  BY <1>1, <1>4, <1>5, <1>6
<1> QED BY <1>1, <1>4, <1>6, <1>7 DEF f, LineIs

LEMMA InLine ==
    ASSUME Good, NEW r \in Req
    PROVE  r \in ToSet(LineOf(EpOf[r])) <=> Taken(r)
<1> DEFINE e == EpOf[r]
<1>1. /\ e \in EP /\ NoReq \notin Req
      /\ r \in ToSet(LineOf(e)) <=> r = FrontOf(e) \/ r \in ToSet(epQ[e])
  BY GoodTypes, LineShape, ConstantsAssumption DEF LineIs
<1>2. r = FrontOf(e) <=> r \in active \/ (Transit /\ job.req = r)
  <2>1. r = epReq[e] <=> r \in active
    BY <1>1, GoodTypes DEF Kept, Placement, ActivePlace
  <2>2. Transit /\ job.req = r => epReq[e] = NoReq
    BY <1>1, GoodTypes DEF Transit, ContractKept, OnItsWay
  <2> QED BY <1>1, <2>1, <2>2 DEF FrontOf
<1> QED BY <1>1, <1>2 DEF Taken, InEndpointQueue

\* The phase of a request, case by case.
PhaseIs(r) ==
    /\ Taken(r) \/ Replying(r) => owner[r] = "stack"
    /\ ~ (Taken(r) /\ Replying(r))
    /\ PhaseOf(r) = IF owner[r] = "user" THEN "free"
                    ELSE IF Taken(r) THEN "accepted"
                    ELSE IF Replying(r) THEN "ended" ELSE "sent"

LEMMA PhaseShape == ASSUME Good, NEW r \in Req PROVE PhaseIs(r)
<1>1. Taken(r) \/ Replying(r) => owner[r] = "stack"
  BY GoodTypes
     DEF Kept, Placement, ActivePlace, QueuePlace, JobPlace, Taken, Replying, Transit,
         InEndpointQueue
<1>2. ~ (Taken(r) /\ Replying(r))
  BY GoodTypes
     DEF Kept, Placement, JobPlace, Taken, Replying, Transit, InEndpointQueue
<1>3. owner[r] \in {"user", "stack"} /\ (r \in ToSet(LineOf(EpOf[r])) <=> Taken(r))
  BY InLine, GoodTypes
<1> DEFINE t == r \in ToSet(LineOf(EpOf[r]))
<1>4. PhaseOf(r) = CASE owner[r] = "user" -> "free"
                     [] owner[r] = "stack" /\ t -> "accepted"
                     [] Replying(r) -> "ended"
                     [] OTHER -> "sent"
  BY DEF PhaseOf, Replying
<1> HIDE DEF t
<1>5. t <=> Taken(r)
  BY <1>3 DEF t
<1> QED BY <1>1, <1>2, <1>3, <1>4, <1>5 DEF PhaseIs

Shapes == (\A e \in EP : LineIs(e)) /\ (\A r \in Req : PhaseIs(r))

LEMMA GoodShapes == Good => Shapes
BY LineShape, PhaseShape DEF Shapes

LEMMA GoodShapesNext == Good' => Shapes'
BY GoodShapes, PTL

\* A request none of whose places changes keeps its phase and its result.
Same(q) == PhaseOf(q)' = PhaseOf(q) /\ ResultOf(q)' = ResultOf(q)

LEMMA SamePhase ==
    ASSUME Good, Good', NEW q \in Req, owner'[q] = owner[q], Taken(q)' <=> Taken(q),
           Replying(q)' <=> Replying(q), Replying(q) => err'[q] = err[q]
    PROVE  Same(q)
<1>1. PhaseOf(q) = IF owner[q] = "user" THEN "free"
                   ELSE IF Taken(q) THEN "accepted"
                   ELSE IF Replying(q) THEN "ended" ELSE "sent"
  BY GoodShapes DEF Shapes, PhaseIs
<1>2. PhaseOf(q)' = IF owner'[q] = "user" THEN "free"
                    ELSE IF Taken(q)' THEN "accepted"
                    ELSE IF Replying(q)' THEN "ended" ELSE "sent"
  BY GoodShapesNext DEF Shapes, PhaseIs
<1>3. PhaseOf(q)' = PhaseOf(q)
  BY <1>1, <1>2
<1>4. PhaseOf(q) = "ended" => Replying(q)
  BY <1>1
<1> QED BY <1>3, <1>4 DEF Same, ResultOf

-----------------------------------------------------------------------------
(* Steps of the contract, from what they do to one request and to its line *)

LEMMA NothingMoves ==
    ASSUME \A q \in Req : Same(q), \A d \in EP : LineOf(d)' = LineOf(d)
    PROVE  UNCHANGED Contract!vars
BY DEF Contract!vars, Phase, Result, Line, Same

LEMMA OneMoves ==
    ASSUME NEW r \in Req, \A q \in Req : q # r => Same(q)
    PROVE  /\ Phase' = [Phase EXCEPT ![r] = PhaseOf(r)']
           /\ Result' = [Result EXCEPT ![r] = ResultOf(r)']
BY DEF Phase, Result, Same

LEMMA LineMoves ==
    ASSUME NEW e \in EP, \A d \in EP : d # e => LineOf(d)' = LineOf(d)
    PROVE  Line' = [Line EXCEPT ![e] = LineOf(e)']
BY DEF Line

LEMMA LineStays ==
    ASSUME \A d \in EP : LineOf(d)' = LineOf(d) PROVE Line' = Line
BY DEF Line

LEMMA SubmitMaps ==
    ASSUME NEW r \in Req, \A q \in Req : q # r => Same(q),
           \A d \in EP : LineOf(d)' = LineOf(d),
           PhaseOf(r) = "free", PhaseOf(r)' = "sent"
    PROVE  Contract!Submit(r)
<1>1. Result[r] = "none" /\ ResultOf(r)' = "none" /\ Phase[r] = "free"
  BY DEF Result, ResultOf, Phase
<1>2. Result' = Result
  BY <1>1, OneMoves DEF Result
<1> QED BY <1>1, <1>2, OneMoves, LineStays DEF Contract!Submit

LEMMA AcceptMaps ==
    ASSUME NEW r \in Req, \A q \in Req : q # r => Same(q), EpOf[r] \in EP,
           \A d \in EP : d # EpOf[r] => LineOf(d)' = LineOf(d),
           LineOf(EpOf[r])' = Append(LineOf(EpOf[r]), r),
           PhaseOf(r) = "sent", PhaseOf(r)' = "accepted"
    PROVE  Contract!Accept(r)
<1>1. Result[r] = "none" /\ ResultOf(r)' = "none" /\ Phase[r] = "sent"
  BY DEF Result, ResultOf, Phase
<1>2. Result' = Result
  BY <1>1, OneMoves DEF Result
<1>3. Line' = [Line EXCEPT ![EpOf[r]] = Append(@, r)]
  <2>1. Line[EpOf[r]] = LineOf(EpOf[r])
    BY DEF Line
  <2>2. Line' = [Line EXCEPT ![EpOf[r]] = LineOf(EpOf[r])']
    BY LineMoves
  <2> QED BY <2>1, <2>2
<1> QED BY <1>1, <1>2, <1>3, OneMoves DEF Contract!Accept

LEMMA RefuseMaps ==
    ASSUME NEW r \in Req, \A q \in Req : q # r => Same(q),
           \A d \in EP : LineOf(d)' = LineOf(d),
           PhaseOf(r) = "sent", PhaseOf(r)' = "ended", err'[r] # "Aborted"
    PROVE  Contract!Refuse(r)
<1>1. ResultOf(r)' = "done" /\ Phase[r] = "sent"
  BY DEF ResultOf, Phase
<1> QED BY <1>1, OneMoves, LineStays DEF Contract!Refuse

LEMMA ServeMaps ==
    ASSUME NEW r \in Req, \A q \in Req : q # r => Same(q), EpOf[r] \in EP,
           \A d \in EP : d # EpOf[r] => LineOf(d)' = LineOf(d),
           LineOf(EpOf[r]) # <<>>, Head(LineOf(EpOf[r])) = r,
           LineOf(EpOf[r])' = Tail(LineOf(EpOf[r])),
           PhaseOf(r)' = "ended", err'[r] # "Aborted"
    PROVE  Contract!Serve(EpOf[r])
<1>1. ResultOf(r)' = "done" /\ Line[EpOf[r]] = LineOf(EpOf[r])
  BY DEF ResultOf, Line
<1>2. Line' = [Line EXCEPT ![EpOf[r]] = Tail(@)]
  BY <1>1, LineMoves
<1> QED BY <1>1, <1>2, OneMoves DEF Contract!Serve

LEMMA CancelMaps ==
    ASSUME NEW r \in Req, \A q \in Req : q # r => Same(q), EpOf[r] \in EP,
           \A d \in EP : d # EpOf[r] => LineOf(d)' = LineOf(d),
           NEW i \in 1 .. Len(LineOf(EpOf[r])), LineOf(EpOf[r])[i] = r,
           LineOf(EpOf[r])' = RemoveAt(LineOf(EpOf[r]), i),
           PhaseOf(r) = "accepted", PhaseOf(r)' = "ended", err'[r] = "Aborted"
    PROVE  Contract!Cancel(r)
<1>1. /\ ResultOf(r)' = "cancelled" /\ Line[EpOf[r]] = LineOf(EpOf[r])
      /\ Phase[r] = "accepted"
  BY DEF ResultOf, Line, Phase
<1>2. Line' = [Line EXCEPT ![EpOf[r]] = RemoveAt(@, i)]
  BY <1>1, LineMoves
<1>3. Contract!RemoveAt(Line[EpOf[r]], i) = RemoveAt(Line[EpOf[r]], i)
  BY DEF RemoveAt, Contract!RemoveAt
<1> QED BY <1>1, <1>2, <1>3, OneMoves DEF Contract!Cancel

LEMMA AnswerMaps ==
    ASSUME NEW r \in Req, \A q \in Req : q # r => Same(q),
           \A d \in EP : LineOf(d)' = LineOf(d),
           PhaseOf(r) = "ended", PhaseOf(r)' = "free"
    PROVE  Contract!Answer(r)
<1>1. ResultOf(r)' = "none" /\ Phase[r] = "ended"
  BY DEF ResultOf, Phase
<1> QED BY <1>1, OneMoves, LineStays DEF Contract!Answer

-----------------------------------------------------------------------------
(* Every step maps to a step of the contract, or to a stutter *)

Maps == Contract!Next \/ UNCHANGED Contract!vars

LEMMA SameLine ==
    ASSUME Good, Good', NEW d \in EP, FrontOf(d)' = FrontOf(d), epQ'[d] = epQ[d]
    PROVE  LineOf(d)' = LineOf(d)
<1>1. LineOf(d) = IF FrontOf(d) = NoReq THEN epQ[d] ELSE <<FrontOf(d)>> \o epQ[d]
  BY GoodShapes DEF Shapes, LineIs
<1>2. LineOf(d)' = IF FrontOf(d)' = NoReq THEN epQ'[d] ELSE <<FrontOf(d)'>> \o epQ'[d]
  BY GoodShapesNext DEF Shapes, LineIs
<1> QED BY <1>1, <1>2

LEMMA FrameMaps ==
    ASSUME Good, Good', UNCHANGED <<owner, active, epReq, epQ, job>>,
           \A q \in Req : Replying(q) => err'[q] = err[q]
    PROVE  Maps
<1>1. \A q \in Req : Same(q)
  BY SamePhase DEF Taken, InEndpointQueue, Transit, Replying
<1>2. \A d \in EP : LineOf(d)' = LineOf(d)
  BY SameLine DEF FrontOf, Transit
<1> QED BY <1>1, <1>2, NothingMoves DEF Maps

\* The steps that move no request, the end of a reply included.
LEMMA OtherMaps ==
    ASSUME Good, Good',
           \/ \E r \in Req : AbortTest(r) \/ AbortPut(r) \/ TimerFires(r)
                             \/ (\E c \in Codes : Complete(r, c))
           \/ Detach \/ TickFires \/ HostError
           \/ Wake \/ PollDone \/ WatchDogDone \/ AbortDone \/ BeginDone \/ ResetDone
           \/ PollEvents
           \/ UNCHANGED vars
    PROVE  Maps
<1>1. UNCHANGED <<owner, active, epReq, epQ, job>>
  BY DEF AbortTest, AbortPut, TimerFires, Complete, Detach, TickFires, HostError,
         Wake, PollEvents, PollDone, WatchDogDone, AbortDone, BeginDone, ResetDone, vars,
         reqVars, portVars, hwVars, taskVars
<1>2. err' = err \/ job.kind = "idle"
  BY DEF AbortTest, AbortPut, TimerFires, Complete, Detach, TickFires, HostError,
         Wake, PollEvents, PollDone, WatchDogDone, AbortDone, BeginDone, ResetDone, vars,
         reqVars, portVars, hwVars, taskVars, InStage
<1> QED BY <1>1, <1>2, FrameMaps DEF Replying

LEMMA FinishMaps == ASSUME Good, Good', Finish PROVE Maps
<1>1. /\ job.kind = "finish" /\ job' = AfterReply /\ job.then \in {"stage", "restart", "drain"}
      /\ job.req \in Req /\ UNCHANGED <<owner, err, active, epReq, epQ>>
  BY GoodTypes DEF Finish, hwVars, Kept, Placement, JobPlace
<1>2. job'.kind \notin {"add", "reply"}
  <2>1. CASE job.then = "stage"
    BY <1>1, <2>1, IdleRecord DEF AfterReply
  <2>2. CASE job.then # "stage"
    <3>1. job' = Job(job.then, job.req, "stage")
      BY <1>1, <2>2 DEF AfterReply
    <3> QED BY <1>1, <2>2, <3>1, JobRecord
  <2> QED BY <2>1, <2>2
<1>3. \A q \in Req : Same(q)
  BY <1>1, <1>2, SamePhase DEF Taken, InEndpointQueue, Transit, Replying
<1>4. \A d \in EP : LineOf(d)' = LineOf(d)
  BY <1>1, <1>2, SameLine DEF FrontOf, Transit
<1> QED BY <1>3, <1>4, NothingMoves DEF Maps

\* BeginIO() submits the request, or gives it back as it is.
LEMMA BeginIOMaps == ASSUME Good, Good', NEW r \in Req, BeginIO(r) PROVE Maps
<1>1. /\ owner[r] = "user" /\ UNCHANGED <<active, epReq, epQ, job>>
      /\ err' = [err EXCEPT ![r] = BeginError(r)]
      /\ owner' = owner \/ owner' = [owner EXCEPT ![r] = "stack"]
  BY DEF BeginIO, hwVars, taskVars
<1>2. ~ Taken(r) /\ ~ Replying(r) /\ PhaseOf(r) = "free"
  BY <1>1, GoodShapes DEF Shapes, PhaseIs
<1>3. ~ Taken(r)' /\ ~ Replying(r)'
  BY <1>1, <1>2 DEF Taken, InEndpointQueue, Transit, Replying
<1>4. \A q \in Req : q # r => Same(q)
  BY <1>1, SamePhase, GoodTypes DEF Taken, InEndpointQueue, Transit, Replying
<1>5. \A d \in EP : LineOf(d)' = LineOf(d)
  BY <1>1, SameLine DEF FrontOf, Transit
<1>6. CASE owner' = owner
  <2>1. Same(r)
    BY <1>2, <1>3, <1>6, SamePhase
  <2> QED BY <1>4, <1>5, <2>1, NothingMoves DEF Maps
<1>7. CASE owner' = [owner EXCEPT ![r] = "stack"]
  <2>1. owner'[r] = "stack"
    BY <1>7, GoodTypes
  <2>2. PhaseOf(r)' = "sent"
    BY <1>3, <2>1, GoodShapesNext DEF Shapes, PhaseIs
  <2> QED BY <1>2, <1>4, <1>5, <2>2, SubmitMaps DEF Maps, Contract!Next
<1> QED BY <1>1, <1>6, <1>7

\* __myHandle_Begin() takes the request in hand, or refuses it.
LEMMA BeginMaps == ASSUME Good, Good', Begin PROVE Maps
<1>1. Head(beginQ) \in Req /\ Head(beginQ) \in ToSet(beginQ)
  BY GoodTypes, PlacementTypes, TailPlace DEF Begin
<1>2. PICK r \in Req : r = Head(beginQ)
  BY <1>1
<1>3. /\ job.kind = "idle" /\ UNCHANGED <<owner, active, epReq, epQ>>
      /\ \/ /\ job'.kind = "add" /\ job'.then = "begin" /\ job'.req = r /\ err' = err
         \/ /\ job'.kind = "reply" /\ job'.req = r /\ err' = [err EXCEPT ![r] = "Failed"]
  <2>1. /\ job.kind = "idle" /\ UNCHANGED <<owner, active, epReq, epQ>>
        /\ \/ job' = Job("add", r, "begin") /\ err' = err
           \/ job' = Job("reply", r, "stage") /\ err' = [err EXCEPT ![r] = "Failed"]
    BY <1>2 DEF Begin, BeginRefusal, InStage, hwVars
  <2> QED BY <2>1, JobRecord
<1>4. owner[r] = "stack" /\ r \notin active /\ ~ InEndpointQueue(r)
  BY <1>1, <1>2, GoodTypes
     DEF Kept, Placement, BeginPlace, ActivePlace, QueuePlace, InEndpointQueue
<1>5. ~ Transit /\ ~ Transit' /\ \A q \in Req : ~ Replying(q)
  BY <1>3 DEF Transit, Replying
<1>6. ~ Taken(r) /\ ~ Taken(r)' /\ owner'[r] = "stack"
  BY <1>3, <1>4, <1>5 DEF Taken, InEndpointQueue
<1>7. \A q \in Req : q # r => Same(q)
  BY <1>3, <1>5, SamePhase DEF Taken, InEndpointQueue, Replying
<1>8. \A d \in EP : LineOf(d)' = LineOf(d)
  BY <1>3, <1>5, SameLine DEF FrontOf
<1>9. CASE job'.kind = "add"
  <2>1. Same(r)
    BY <1>3, <1>5, <1>6, <1>9, SamePhase DEF Replying
  <2> QED BY <1>7, <1>8, <2>1, NothingMoves DEF Maps
<1>10. CASE job'.kind = "reply"
  <2>1. PhaseOf(r) = "sent"
    BY <1>4, <1>5, <1>6, GoodShapes DEF Shapes, PhaseIs
  <2>2. Replying(r)'
    BY <1>3, <1>10 DEF Replying
  <2>3. PhaseOf(r)' = "ended"
    BY <1>6, <2>2, GoodShapesNext DEF Shapes, PhaseIs
  <2>4. err'[r] # "Aborted"
    BY <1>3, <1>10, GoodTypes
  <2> QED BY <1>7, <1>8, <2>1, <2>3, <2>4, RefuseMaps DEF Maps, Contract!Next
<1> QED BY <1>3, <1>9, <1>10

\* ReplyMsg() answers the request.
LEMMA ReplyMaps == ASSUME Good, Good', Reply PROVE Maps
<1>1. PICK r \in Req : r = job.req
  BY GoodTypes DEF Reply, Kept, Placement, JobPlace
<1>2. /\ job.kind = "reply" /\ job.req = r /\ owner' = [owner EXCEPT ![r] = "user"]
      /\ job'.kind = "finish" /\ UNCHANGED <<err, active, epReq, epQ>>
  BY <1>1, GoodTypes DEF Reply, Jobs, hwVars
<1>3. Replying(r) /\ PhaseOf(r) = "ended"
  BY <1>2, GoodShapes DEF Shapes, PhaseIs, Replying
<1>4. owner'[r] = "user" /\ PhaseOf(r)' = "free"
  BY <1>2, GoodTypes, GoodShapesNext DEF Shapes, PhaseIs
<1>5. \A q \in Req : q # r => Same(q)
  BY <1>2, SamePhase, GoodTypes DEF Taken, InEndpointQueue, Transit, Replying
<1>6. \A d \in EP : LineOf(d)' = LineOf(d)
  BY <1>2, SameLine DEF FrontOf, Transit
<1> QED BY <1>3, <1>4, <1>5, <1>6, AnswerMaps DEF Maps, Contract!Next

\* A request leaves the hardware, for its answer or to be sent again at once.
LEMMA TakenMaps ==
    ASSUME Good, Good', NEW r \in active, job.kind = "idle", NEW x,
           active' = active \ {r}, epReq' = [epReq EXCEPT ![EpOf[r]] = NoReq],
           owner' = owner, epQ' = epQ, err' = [err EXCEPT ![r] = x], job'.req = r,
           job'.kind = "reply" \/ (job'.kind = "add" /\ job'.then = "retry")
    PROVE  Maps
<1>1. r \in Req /\ EpOf[r] \in EP /\ epReq[EpOf[r]] = r /\ NoReq \notin Req
  BY GoodTypes, KeptTypes, ConstantsAssumption DEF Kept, Placement, ActivePlace
<1>2. PICK e \in EP : e = EpOf[r]
  BY <1>1
<1>3. ~ Transit /\ \A q \in Req : ~ Replying(q)
  BY DEF Transit, Replying
<1>4. \A d \in EP : epReq'[d] = IF d = e THEN NoReq ELSE epReq[d]
  BY <1>2, GoodTypes
<1>5. \A d \in EP : d # e => LineOf(d)' = LineOf(d)
  BY <1>1, <1>2, <1>3, <1>4, SameLine DEF FrontOf, Transit
<1>6. \A q \in Req : q # r => Same(q)
  BY <1>1, <1>3, GoodTypes, SamePhase DEF Taken, InEndpointQueue, Transit, Replying
<1>7. Taken(r)
  BY DEF Taken
<1>8. /\ PhaseOf(r) = "accepted" /\ FrontOf(e) = r /\ owner[r] = "stack"
      /\ LineOf(e) = <<r>> \o epQ[e] /\ epQ[e] \in Seq(Req)
  BY <1>1, <1>2, <1>7, GoodShapes, GoodTypes DEF Shapes, PhaseIs, LineIs, FrontOf
<1>9. CASE job'.kind = "reply"
  <2>1. Replying(r)' /\ ~ Transit'
    BY <1>9 DEF Replying, Transit
  <2>2. PhaseOf(r)' = "ended"
    BY <1>1, <1>8, <2>1, GoodShapesNext DEF Shapes, PhaseIs
  <2>3. FrontOf(e)' = NoReq
    BY <1>4, <2>1 DEF FrontOf
  <2>4. LineOf(e)' = epQ[e]
    BY <2>3, GoodShapesNext DEF Shapes, LineIs
  <2>5. err'[r] = x
    BY <1>1, GoodTypes
  <2>6. CASE x = "Aborted"
    <3>1. RemoveAt(LineOf(e), 1) = epQ[e]
      BY <1>1, <1>8, ConsRemoveAt
    <3>2. 1 \in 1 .. Len(LineOf(e)) /\ LineOf(e)[1] = r
      BY <1>1, <1>8, ConsPlace, LenProperties
    <3> QED BY <1>1, <1>2, <1>5, <1>6, <1>8, <2>2, <2>4, <2>5, <2>6, <3>1, <3>2, CancelMaps
            DEF Maps, Contract!Next
  <2>7. CASE x # "Aborted"
    <3>1. LineOf(e) # <<>> /\ Head(LineOf(e)) = r /\ Tail(LineOf(e)) = epQ[e]
      BY <1>1, <1>8, ConsPlace
    <3> QED BY <1>1, <1>2, <1>5, <1>6, <2>2, <2>4, <2>5, <2>7, <3>1, ServeMaps
            DEF Maps, Contract!Next
  <2> QED BY <2>6, <2>7
<1>10. CASE job'.kind = "add" /\ job'.then = "retry"
  <2>1. Transit' /\ Taken(r)' /\ ~ Replying(r)'
    BY <1>10 DEF Transit, Taken, Replying
  <2>2. Same(r)
    BY <1>1, <1>3, <1>7, <2>1, SamePhase
  <2>3. FrontOf(e)' = r
    BY <1>2, <1>4, <2>1 DEF FrontOf
  <2>4. LineOf(e)' = LineOf(e)
    BY <1>8, <2>3, SameLine
  <2> QED BY <1>5, <1>6, <2>2, <2>4, NothingMoves DEF Maps
<1> QED BY <1>9, <1>10

LEMMA RemoveMaps ==
    ASSUME Good, Good', NEW r \in active, NEW x \in Errors, NEW force \in BOOLEAN,
           job.kind = "idle", RemoveTransfer(r, x, force), owner' = owner, epQ' = epQ
    PROVE  Maps
<1>1. r \in Req /\ stat[r] = "Active"
  BY GoodTypes, KeptTypes DEF Placement, ActivePlace
<1>2. /\ active' = active \ {r} /\ epReq' = [epReq EXCEPT ![EpOf[r]] = NoReq]
      /\ \/ job' = Job("add", r, "retry") /\ err' = [err EXCEPT ![r] = "None"]
         \/ job' = Job("reply", r, "restart") /\ err' = [err EXCEPT ![r] = x]
  BY <1>1 DEF RemoveTransfer
<1>3. /\ Job("add", r, "retry").kind = "add" /\ Job("add", r, "retry").req = r
      /\ Job("add", r, "retry").then = "retry"
      /\ Job("reply", r, "restart").kind = "reply" /\ Job("reply", r, "restart").req = r
  BY <1>1, JobRecord
<1> QED BY <1>2, <1>3, TakenMaps

LEMMA EndOfTransferMaps ==
    ASSUME Good, Good', NEW r \in Req, CheckCompleted(r) \/ WatchDog(r) \/ ResetActive(r)
    PROVE  Maps
<1>1. r \in active /\ job.kind = "idle" /\ owner' = owner /\ epQ' = epQ
  BY GoodTypes DEF CheckCompleted, WatchDog, ResetActive, InStage, Placement, ActivePlace
<1>2. CASE CheckCompleted(r) \/ WatchDog(r)
  <2>1. \E x \in Errors, force \in BOOLEAN : RemoveTransfer(r, x, force)
    <3>1. err[r] \in Errors /\ "Timeout" \in Errors
      BY GoodTypes DEF Errors
    <3> QED BY <1>2, <3>1 DEF CheckCompleted, WatchDog
  <2> QED BY <1>1, <2>1, RemoveMaps
<1>3. CASE ResetActive(r)
  <2>1. /\ epReq' = [epReq EXCEPT ![EpOf[r]] = NoReq] /\ err' = [err EXCEPT ![r] = "Failed"]
        /\ job' = Job("reply", r, "drain") /\ active' = active \ {r}
    BY <1>3 DEF ResetActive
  <2>2. job'.kind = "reply" /\ job'.req = r
    BY <2>1, JobRecord
  <2> QED BY <1>1, <2>1, <2>2, TakenMaps
<1> QED BY <1>2, <1>3

\* __myHandle_Abort() cancels the request, from wherever in the line it is.
LEMMA AbortMaps == ASSUME Good, Good', Abort PROVE Maps
<1>1. Head(abortQ) \in Req /\ job.kind = "idle" /\ owner' = owner
  BY GoodTypes, PlacementTypes, TailPlace DEF Abort, InStage
<1>2. PICK r \in Req : r = Head(abortQ)
  BY <1>1
<1>3. CASE AbortActive(r)
  <2>1. r \in active
    BY <1>1, <1>3, GoodTypes DEF AbortActive, Placement, ActivePlace
  <2>2. RemoveTransfer(r, "Aborted", TRUE) /\ "Aborted" \in Errors /\ epQ' = epQ
    BY <1>3 DEF AbortActive, Errors
  <2> QED BY <1>1, <2>1, <2>2, RemoveMaps
<1>4. CASE AbortQueued(r)
  <2>1. PICK e \in EP : e = EpOf[r]
    BY GoodTypes
  <2>2. PICK i \in 1 .. Len(epQ[e]) :
           epQ[e][i] = r /\ epQ' = [epQ EXCEPT ![e] = RemoveAt(@, i)]
    BY <1>4, <2>1 DEF AbortQueued, QueuePositions
  <2>3. epQ[e] \in Seq(Req) /\ epQ'[e] = RemoveAt(epQ[e], i) /\ Distinct(epQ[e])
    BY <2>2, GoodTypes DEF Placement, QueuePlace
  <2>4. /\ r \in ToSet(epQ[e]) /\ r \notin ToSet(epQ'[e])
        /\ \A q \in Req : q # r => (q \in ToSet(epQ'[e]) <=> q \in ToSet(epQ[e]))
    BY <2>2, <2>3, RemoveAtPlace
  <2>5. \A d \in EP : d # e => epQ'[d] = epQ[d]
    BY <2>2, GoodTypes
  <2>6. /\ job'.kind = "reply" /\ job'.req = r /\ UNCHANGED <<active, epReq>>
        /\ err' = [err EXCEPT ![r] = "Aborted"]
    <3>1. /\ job' = Job("reply", r, "stage") /\ UNCHANGED <<active, epReq>>
          /\ err' = [err EXCEPT ![r] = "Aborted"]
      BY <1>4 DEF AbortQueued
    <3> QED BY <3>1, JobRecord
  <2>7. ~ Transit /\ ~ Transit' /\ \A q \in Req : ~ Replying(q)
    BY <1>1, <2>6 DEF Transit, Replying
  <2>8. \A d \in EP : FrontOf(d)' = FrontOf(d)
    BY <2>6, <2>7 DEF FrontOf
  <2>9. \A d \in EP : d # e => LineOf(d)' = LineOf(d)
    BY <2>5, <2>8, SameLine
  <2>10. \A q \in Req : q # r => Same(q)
    <3>1. \A q \in Req : q # r => (InEndpointQueue(q)' <=> InEndpointQueue(q))
      BY <2>4, <2>5, GoodTypes DEF InEndpointQueue
    <3>2. \A q \in Req : q # r => ~ Replying(q)'
      BY <2>6 DEF Replying
    <3>3. \A q \in Req : q # r => (Taken(q)' <=> Taken(q))
      BY <2>6, <2>7, <3>1 DEF Taken
    <3> QED BY <1>1, <2>7, <3>2, <3>3, SamePhase
  <2>11. PhaseOf(r) = "accepted" /\ owner[r] = "stack"
    <3>1. Taken(r)
      BY <2>1, <2>4 DEF Taken, InEndpointQueue
    <3> QED BY <3>1, GoodShapes DEF Shapes, PhaseIs
  <2>12. PhaseOf(r)' = "ended" /\ err'[r] = "Aborted"
    <3>1. Replying(r)' /\ owner'[r] = "stack" /\ err'[r] = "Aborted"
      BY <1>1, <2>6, <2>11, GoodTypes DEF Replying
    <3> QED BY <3>1, GoodShapesNext DEF Shapes, PhaseIs
  <2>13. \E k \in 1 .. Len(LineOf(e)) :
            LineOf(e)[k] = r /\ LineOf(e)' = RemoveAt(LineOf(e), k)
    <3>1. PICK f \in Req \cup {NoReq} : f = FrontOf(e)
      BY FrontType
    <3>2. /\ LineOf(e) = IF f = NoReq THEN epQ[e] ELSE <<f>> \o epQ[e]
          /\ LineOf(e)' = IF f = NoReq THEN RemoveAt(epQ[e], i) ELSE <<f>> \o RemoveAt(epQ[e], i)
      BY <2>3, <2>8, <3>1, GoodShapes, GoodShapesNext DEF Shapes, LineIs
    <3>3. CASE f = NoReq
      BY <2>2, <3>2, <3>3
    <3>4. CASE f # NoReq
      <4>1. /\ Len(<<f>> \o epQ[e]) = Len(epQ[e]) + 1 /\ (<<f>> \o epQ[e])[i + 1] = epQ[e][i]
            /\ RemoveAt(<<f>> \o epQ[e], i + 1) = <<f>> \o RemoveAt(epQ[e], i)
        <5>1. epQ[e] \in Seq(Req) /\ f \in Req /\ i \in 1 .. Len(epQ[e])
          BY <2>2, <2>3, <3>1, <3>4
        <5>2. Len(<<f>> \o epQ[e]) = Len(epQ[e]) + 1 /\ (<<f>> \o epQ[e])[i + 1] = epQ[e][i]
          BY <5>1, ConsPlace
        <5> QED BY <5>1, <5>2, ConsRemoveAt
      <4>2. i + 1 \in 1 .. Len(LineOf(e)) /\ LineOf(e)[i + 1] = r
        BY <2>2, <2>3, <3>2, <3>4, <4>1, LenProperties
      <4> QED BY <3>2, <3>4, <4>1, <4>2
    <3> QED BY <3>3, <3>4
  <2> QED BY <2>1, <2>9, <2>10, <2>11, <2>12, <2>13, CancelMaps DEF Maps, Contract!Next
<1>5. CASE AbortIgnored(r)
  <2>1. UNCHANGED <<active, epReq, epQ, job, err>>
    BY <1>5 DEF AbortIgnored, hwVars
  <2> QED BY <1>1, <2>1, FrameMaps
<1> QED BY <1>2, <1>3, <1>4, <1>5 DEF Abort

\* __HCD_Restart_EndPoint() takes the head of the queue in hand: it stays the first of its
\* line.  The drain after a chip restart answers it instead.
LEMMA NextOfQueueMaps == ASSUME Good, Good', Restart \/ ResetQueued PROVE Maps
<1>1. /\ job.kind \in {"restart", "drain"} /\ EpOf[job.req] \in EP
      /\ UNCHANGED <<owner, active, epReq>>
  BY GoodTypes DEF Restart, ResetQueued, reqVars, Placement, JobPlace
<1>2. PICK e \in EP : e = EpOf[job.req]
  BY <1>1
<1>3. ~ Transit /\ (\A q \in Req : ~ Replying(q)) /\ epReq[e] = NoReq
  BY <1>1, <1>2, GoodTypes DEF Transit, Replying, ContractKept, OnItsWay
<1>4. CASE epQ[e] = <<>>
  <2>1. job' = Idle /\ err' = err /\ epQ' = epQ
    BY <1>2, <1>4 DEF Restart, ResetQueued, reqVars
  <2>2. ~ Transit' /\ \A q \in Req : ~ Replying(q)'
    BY <2>1, IdleRecord DEF Transit, Replying
  <2>3. \A q \in Req : Same(q)
    BY <1>1, <1>3, <2>1, <2>2, SamePhase DEF Taken, InEndpointQueue
  <2>4. \A d \in EP : LineOf(d)' = LineOf(d)
    BY <1>1, <1>3, <2>1, <2>2, SameLine DEF FrontOf
  <2> QED BY <2>3, <2>4, NothingMoves DEF Maps
<1>5. CASE epQ[e] # <<>>
  <2>1. epQ[e] \in Seq(Req) /\ Distinct(epQ[e])
    BY GoodTypes DEF Placement, QueuePlace
  <2>2. /\ Head(epQ[e]) \in Req /\ Tail(epQ[e]) \in Seq(Req)
        /\ ToSet(epQ[e]) = ToSet(Tail(epQ[e])) \cup {Head(epQ[e])}
        /\ Head(epQ[e]) \notin ToSet(Tail(epQ[e]))
    BY <1>5, <2>1, TailPlace
  <2>3. PICK r \in Req : r = Head(epQ[e])
    BY <2>2
  <2>4. /\ epQ' = [epQ EXCEPT ![e] = Tail(@)]
        /\ \/ job' = Job("add", r, "restart") /\ err' = err
           \/ job' = Job("reply", r, "drain") /\ err' = [err EXCEPT ![r] = "Failed"]
    BY <1>2, <1>5, <2>3 DEF Restart, ResetQueued, reqVars
  <2>5. /\ job'.req = r
        /\ \/ job'.kind = "add" /\ job'.then = "restart" /\ err' = err
           \/ job'.kind = "reply" /\ err' = [err EXCEPT ![r] = "Failed"]
    BY <2>4, JobRecord
  <2>6. EpOf[r] = e /\ owner[r] = "stack"
    BY <2>2, <2>3, GoodTypes DEF Placement, QueuePlace
  <2>7. \A d \in EP : epQ'[d] = IF d = e THEN Tail(epQ[d]) ELSE epQ[d]
    BY <2>4, GoodTypes
  <2>8. \A q \in Req : q # r => (InEndpointQueue(q)' <=> InEndpointQueue(q))
    BY <2>2, <2>3, <2>7, GoodTypes DEF InEndpointQueue
  <2>9. \A q \in Req : q # r => Same(q)
    <3>1. \A q \in Req : q # r => ~ Replying(q)' /\ (Taken(q)' <=> Taken(q))
      BY <1>1, <1>3, <2>5, <2>8 DEF Replying, Taken
    <3> QED BY <1>1, <1>3, <3>1, SamePhase
  <2>10. \A d \in EP : d # e => LineOf(d)' = LineOf(d)
    <3>1. \A d \in EP : d # e => FrontOf(d)' = FrontOf(d)
      BY <1>1, <1>3, <2>5, <2>6 DEF FrontOf
    <3> QED BY <2>7, <3>1, SameLine
  <2>11. /\ Taken(r) /\ r = Head(LineOf(e)) /\ LineOf(e) # <<>> /\ LineOf(e) = epQ[e]
    <3>1. FrontOf(e) = NoReq
      BY <1>3 DEF FrontOf
    <3>2. LineOf(e) = epQ[e]
      BY <3>1, GoodShapes DEF Shapes, LineIs
    <3> QED BY <1>5, <2>2, <2>3, <2>6, <3>2 DEF Taken, InEndpointQueue
  <2>12. CASE job'.kind = "add"
    <3>1. Transit' /\ Taken(r)' /\ ~ Replying(r)'
      BY <2>5, <2>12 DEF Transit, Taken, Replying
    <3>2. Same(r)
      BY <1>1, <1>3, <2>11, <3>1, SamePhase
    <3>3. FrontOf(e)' = r /\ r # NoReq
      BY <1>1, <1>3, <2>5, <2>6, <3>1, ConstantsAssumption DEF FrontOf
    <3>4. LineOf(e)' = <<r>> \o Tail(epQ[e])
      BY <2>7, <3>3, GoodShapesNext DEF Shapes, LineIs
    <3>5. LineOf(e)' = LineOf(e)
      BY <1>5, <2>1, <2>3, <2>11, <3>4, HeadBeforeTail
    <3> QED BY <2>9, <2>10, <3>2, <3>5, NothingMoves DEF Maps
  <2>13. CASE job'.kind = "reply"
    <3>1. ~ Transit' /\ Replying(r)' /\ owner'[r] = "stack"
      BY <1>1, <2>5, <2>6, <2>13 DEF Transit, Replying
    <3>2. PhaseOf(r)' = "ended" /\ err'[r] # "Aborted"
      BY <2>5, <2>13, <3>1, GoodTypes, GoodShapesNext DEF Shapes, PhaseIs
    <3>3. FrontOf(e)' = NoReq
      BY <1>1, <1>3, <3>1 DEF FrontOf
    <3>4. LineOf(e)' = Tail(LineOf(e))
      BY <2>7, <2>11, <3>3, GoodShapesNext DEF Shapes, LineIs
    <3> QED BY <2>6, <2>9, <2>10, <2>11, <3>2, <3>4, ServeMaps DEF Maps, Contract!Next
  <2> QED BY <2>5, <2>12, <2>13
<1> QED BY <1>4, <1>5

\* __HCD_Add_Request(): a request from the begin port is accepted at the end of the line,
\* or refused; one on its way to the hardware stays first, or is served.
LEMMA AddMaps == ASSUME Good, Good', ~ RetryBuildFails, AddRequest PROVE Maps
<1>1. /\ job.kind = "add" /\ owner' = owner /\ job.req \in Req
      /\ job.then \in {"begin", "retry", "restart"}
  BY GoodTypes DEF AddRequest, Placement, JobPlace
<1>2. PICK r \in Req : r = job.req
  BY <1>1
<1>3. PICK e \in EP : e = EpOf[r]
  BY GoodTypes
<1>4. /\ owner[r] = "stack" /\ err[r] # "Aborted" /\ r \notin active /\ ~ InEndpointQueue(r)
      /\ NoReq \notin Req
  BY <1>1, <1>2, AddNotAborted, GoodTypes, ConstantsAssumption
     DEF Placement, JobPlace, InEndpointQueue
<1>5. /\ epQ[e] \in Seq(Req) /\ \A q \in Req : ~ Replying(q)
      /\ Transit <=> job.then # "begin"
      /\ Transit => epReq[e] = NoReq
      /\ job.then = "begin" /\ epReq[e] = NoReq => epQ[e] = <<>>
  BY <1>1, <1>2, <1>3, GoodTypes
     DEF Replying, Transit, ContractKept, OnItsWay, NoStrandedQueue
<1>6. /\ job.then = "begin" => PhaseOf(r) = "sent" /\ ~ Taken(r)
      /\ Transit => Taken(r) /\ FrontOf(e) = r /\ LineOf(e) = <<r>> \o epQ[e]
  <2>1. job.then = "begin" => ~ Taken(r)
    BY <1>4, <1>5 DEF Taken
  <2>2. job.then = "begin" => PhaseOf(r) = "sent"
    BY <1>4, <1>5, <2>1, GoodShapes DEF Shapes, PhaseIs
  <2>3. Transit => Taken(r) /\ FrontOf(e) = r
    BY <1>2, <1>3, <1>5 DEF Taken, FrontOf
  <2>4. Transit => LineOf(e) = <<r>> \o epQ[e]
    BY <1>4, <2>3, GoodShapes DEF Shapes, LineIs
  <2> QED BY <2>1, <2>2, <2>3, <2>4
<1>7. CASE AddQueued(r)
  <2>1. /\ job.then = "begin" /\ epReq[e] # NoReq /\ job' = Idle
        /\ epQ' = [epQ EXCEPT ![e] = Append(@, r)] /\ UNCHANGED <<err, active, epReq>>
    BY <1>1, <1>3, <1>5, <1>7 DEF AddQueued
  <2>2. \A d \in EP : epQ'[d] = IF d = e THEN Append(epQ[d], r) ELSE epQ[d]
    BY <2>1, GoodTypes
  <2>3. ToSet(epQ'[e]) = ToSet(epQ[e]) \cup {r}
    BY <1>5, <2>2, AppendPlace
  <2>4. ~ Transit /\ ~ Transit' /\ \A q \in Req : ~ Replying(q)'
    BY <1>5, <2>1, IdleRecord DEF Transit, Replying
  <2>5. \A d \in EP : FrontOf(d)' = FrontOf(d)
    BY <2>1, <2>4 DEF FrontOf
  <2>6. \A d \in EP : d # e => LineOf(d)' = LineOf(d)
    BY <2>2, <2>5, SameLine
  <2>7. \A q \in Req : q # r => (InEndpointQueue(q)' <=> InEndpointQueue(q))
    BY <2>2, <2>3, GoodTypes DEF InEndpointQueue
  <2>8. \A q \in Req : q # r => Same(q)
    BY <1>1, <1>5, <2>1, <2>4, <2>7, SamePhase DEF Taken
  <2>9. PhaseOf(r)' = "accepted"
    <3>1. Taken(r)' /\ owner'[r] = "stack"
      BY <1>1, <1>3, <1>4, <2>3 DEF Taken, InEndpointQueue
    <3> QED BY <3>1, GoodShapesNext DEF Shapes, PhaseIs
  <2>10. LineOf(e)' = Append(LineOf(e), r)
    <3>1. PICK f \in Req : f = FrontOf(e)
      BY <2>1, GoodTypes DEF FrontOf
    <3>2. LineOf(e) = <<f>> \o epQ[e] /\ LineOf(e)' = <<f>> \o Append(epQ[e], r)
      BY <1>4, <2>2, <2>5, <3>1, GoodShapes, GoodShapesNext DEF Shapes, LineIs
    <3> QED BY <1>5, <3>2, ConsAppend
  <2> QED BY <1>3, <1>6, <2>1, <2>6, <2>8, <2>9, <2>10, AcceptMaps DEF Maps, Contract!Next
<1>8. CASE AddActive(r)
  <2>1. /\ epReq[e] = NoReq /\ job' = Idle /\ active' = active \cup {r}
        /\ epReq' = [epReq EXCEPT ![e] = r] /\ UNCHANGED <<err, epQ>>
    BY <1>3, <1>8 DEF AddActive
  <2>2. \A d \in EP : epReq'[d] = IF d = e THEN r ELSE epReq[d]
    BY <2>1, GoodTypes
  <2>3. ~ Transit' /\ \A q \in Req : ~ Replying(q)'
    BY <2>1, IdleRecord DEF Transit, Replying
  <2>4. \A q \in Req : q # r => Same(q)
    <3>1. \A q \in Req : q # r => (Taken(q)' <=> Taken(q))
      BY <1>2, <2>1, <2>3 DEF Taken, InEndpointQueue
    <3> QED BY <1>1, <1>5, <2>3, <3>1, SamePhase
  <2>5. \A d \in EP : d # e => LineOf(d)' = LineOf(d)
    <3>1. \A d \in EP : d # e => FrontOf(d)' = FrontOf(d)
      BY <1>2, <1>3, <2>2, <2>3 DEF FrontOf
    <3> QED BY <2>1, <3>1, SameLine
  <2>6. Taken(r)' /\ FrontOf(e)' = r
    BY <1>4, <2>1, <2>2 DEF Taken, FrontOf
  <2>7. LineOf(e)' = <<r>> \o epQ[e]
    BY <1>4, <2>1, <2>6, GoodShapesNext DEF Shapes, LineIs
  <2>8. CASE job.then = "begin"
    <3>1. PhaseOf(r)' = "accepted"
      BY <1>1, <1>4, <2>6, GoodShapesNext DEF Shapes, PhaseIs
    <3>2. epQ[e] = <<>> /\ FrontOf(e) = NoReq
      BY <1>5, <2>1, <2>8 DEF FrontOf
    <3>3. LineOf(e) = <<>>
      BY <3>2, GoodShapes DEF Shapes, LineIs
    <3>4. LineOf(e)' = Append(LineOf(e), r)
      <4>1. <<r>> \o <<>> = <<r>> /\ Append(<<>>, r) = <<r>>
        OBVIOUS
      <4> QED BY <2>7, <3>2, <3>3, <4>1
    <3> QED BY <1>3, <1>6, <2>4, <2>5, <2>8, <3>1, <3>4, AcceptMaps DEF Maps, Contract!Next
  <2>9. CASE job.then # "begin"
    <3>1. Same(r)
      BY <1>1, <1>5, <1>6, <2>3, <2>6, <2>9, SamePhase
    <3>2. LineOf(e)' = LineOf(e)
      BY <1>5, <1>6, <2>7, <2>9
    <3> QED BY <2>4, <2>5, <3>1, <3>2, NothingMoves DEF Maps
  <2> QED BY <2>8, <2>9
<1>9. CASE AddHandled(r)
  <2>1. /\ epReq[e] = NoReq /\ UNCHANGED <<active, epReq, epQ>>
        /\ job.then # "retry"
    <3>1. job.then = "retry" => ~ PipeStalled(r)
      BY <1>1, <1>2, GoodTypes DEF Kept, StallPlace
    <3> QED BY <1>3, <1>9, <3>1 DEF AddHandled
  <2>2. PICK x \in BuildErrs \cup {"Stall"} :
           err' = [err EXCEPT ![r] = IF err[r] = "None" THEN x ELSE err[r]]
    BY <1>9 DEF AddHandled
  <2>3. err'[r] # "Aborted" /\ \A q \in Req : q # r => err'[q] = err[q]
    BY <1>4, <2>2, GoodTypes, ConstantsAssumption
  <2>4. job'.kind = "reply" /\ job'.req = r
    <3>1. job' = Job("reply", r, "stage") \/ job' = Job("reply", r, "restart")
      BY <1>1, <1>9, <2>1 DEF AddHandled
    <3> QED BY <3>1, JobRecord
  <2>5. ~ Transit' /\ Replying(r)' /\ \A q \in Req : q # r => ~ Replying(q)'
    BY <2>4 DEF Transit, Replying
  <2>6. \A q \in Req : q # r => Same(q)
    <3>1. \A q \in Req : q # r => (Taken(q)' <=> Taken(q))
      BY <1>2, <2>1, <2>5 DEF Taken, InEndpointQueue
    <3> QED BY <1>1, <1>5, <2>5, <3>1, SamePhase
  <2>7. PhaseOf(r)' = "ended"
    BY <1>1, <1>4, <2>5, GoodShapesNext DEF Shapes, PhaseIs
  <2>8. \A d \in EP : d # e => LineOf(d)' = LineOf(d)
    <3>1. \A d \in EP : d # e => FrontOf(d)' = FrontOf(d)
      BY <1>2, <1>3, <2>1, <2>5 DEF FrontOf
    <3> QED BY <2>1, <3>1, SameLine
  <2>9. FrontOf(e)' = NoReq /\ LineOf(e)' = epQ[e]
    <3>1. FrontOf(e)' = NoReq
      BY <2>1, <2>5 DEF FrontOf
    <3> QED BY <2>1, <3>1, GoodShapesNext DEF Shapes, LineIs
  <2>10. CASE job.then = "begin"
    <3>1. FrontOf(e) = NoReq
      BY <1>5, <2>1, <2>10 DEF FrontOf
    <3>2. LineOf(e)' = LineOf(e)
      BY <2>1, <2>9, <3>1, SameLine
    <3> QED BY <1>6, <2>3, <2>6, <2>7, <2>8, <2>10, <3>2, RefuseMaps DEF Maps, Contract!Next
  <2>11. CASE job.then # "begin"
    <3>1. LineOf(e) # <<>> /\ Head(LineOf(e)) = r /\ Tail(LineOf(e)) = epQ[e]
      BY <1>5, <1>6, <2>11, ConsPlace
    <3> QED BY <1>3, <2>3, <2>6, <2>7, <2>8, <2>9, <3>1, ServeMaps DEF Maps, Contract!Next
  <2> QED BY <2>10, <2>11
<1> QED BY <1>2, <1>7, <1>8, <1>9 DEF AddRequest

-----------------------------------------------------------------------------
(* The theorem *)

LEMMA InitMaps == Init => Good /\ Contract!Init
<1> SUFFICES ASSUME Init PROVE Good /\ Contract!Init
  OBVIOUS
<1>1. /\ job.kind = "idle" /\ owner = [r \in Req |-> "user"] /\ err = [r \in Req |-> "None"]
      /\ epReq = [e \in EP |-> NoReq] /\ epQ = [e \in EP |-> <<>>]
  BY IdleRecord DEF Init
<1>2. Good
  BY <1>1, InitWorking DEF Good, ContractKept
<1>3. \A r \in Req : PhaseOf(r) = "free" /\ ResultOf(r) = "none"
  <2>1. \A r \in Req : PhaseOf(r) = "free"
    BY <1>1, <1>2, GoodShapes DEF Shapes, PhaseIs
  <2> QED BY <2>1 DEF ResultOf
<1>4. \A e \in EP : LineOf(e) = <<>>
  BY <1>1, <1>2, GoodShapes DEF Shapes, LineIs, FrontOf, Transit
<1>5. Contract!Init
  BY <1>3, <1>4 DEF Contract!Init, Phase, Result, Line
<1> QED BY <1>2, <1>5

LEMMA NextMaps == ASSUME Good, ~ RetryBuildFails, [Next]_vars PROVE Maps
<1>1. Good'
  BY GoodStep
<1>2. CASE UserStep \/ HardwareStep \/ UNCHANGED vars
  BY <1>1, <1>2, OtherMaps, BeginIOMaps DEF UserStep, HardwareStep
<1>3. CASE HCDStep
  <2>1. CASE \/ Wake \/ PollEvents \/ PollDone \/ WatchDogDone \/ AbortDone \/ BeginDone
             \/ ResetDone
    BY <1>1, <2>1, OtherMaps
  <2>2. CASE AddRequest \/ Reply \/ Finish \/ Restart \/ Abort \/ ResetQueued \/ Begin
    BY <1>1, <2>2, AddMaps, ReplyMaps, FinishMaps, NextOfQueueMaps, AbortMaps, BeginMaps
  <2>3. ASSUME NEW r \in Req, CheckCompleted(r) \/ WatchDog(r) \/ ResetActive(r)
        PROVE Maps
    BY <1>1, <2>3, EndOfTransferMaps
  <2> QED BY <1>3, <2>1, <2>2, <2>3 DEF HCDStep
<1> QED BY <1>2, <1>3 DEF Next

\* For any number of requests and endpoints the stack implements the contract: a request
\* the stack takes is ended once and answered once, an endpoint serves what it accepted
\* in order, through retries, stalls and chip restarts, and only an aborted request leaves
\* the line out of its turn.
THEOREM ImplementsContractAlways ==
    ASSUME ~ RetryBuildFails PROVE Spec => ImplementsContract
<1>1. Init => Good /\ Contract!Init
  BY InitMaps
<1>2. Good /\ [Next]_vars => Good'
  BY GoodStep
<1>3. Good /\ [Next]_vars => [Contract!Next]_(Contract!vars)
  BY NextMaps DEF Maps
<1> QED BY <1>1, <1>2, <1>3, PTL DEF Spec, ImplementsContract, Contract!Spec
=============================================================================
