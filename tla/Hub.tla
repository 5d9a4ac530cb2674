---------------------------------- MODULE Hub ----------------------------------
(***************************************************************************)
(* The hubs of one controller: the driver of each (Drivers/HUB), the root     *)
(* hub that the HCD task plays (Stack/RootHUB and the Port_*() functions of   *)
(* the host drivers), and how a device that is plugged in becomes a function  *)
(* (Stack/Function_Init, Stack/Config, HCD/Addr_*.c).                         *)
(*                                                                         *)
(* Every hub's driver is a task of its own, which sends one request at a      *)
(* time and waits for it, so a step is a request with what follows it.        *)
(* Devices are numbered in the order in which they are plugged in.            *)
(***************************************************************************)
EXTENDS Integers, Sequences, FiniteSets, FiniteSetsExt

CONSTANTS
    Hub,         \* the hubs
    root,        \* the root hub, one of Hub
    Port,        \* the ports of all hubs, which are numbers
    HubOf,       \* the hub of a port
    MaxPlugs,    \* how many devices are plugged in
    MaxFaults,   \* how many requests fail, each on the bus of its own
    Retries,     \* HUB__Port_FAdd_Retry() is called so often for a device (5 in the code)
    Tries,       \* a descriptor is asked for so often (4)
    MaxErrors,   \* errors in a row of the interrupt request before the driver gives up (20)
    MaxAdr       \* the addresses of the bus (127)

ASSUME HubAssumption ==
    /\ root \in Hub /\ Port \subseteq Nat /\ IsFiniteSet(Port) /\ HubOf \in [Port -> Hub]
    /\ {MaxPlugs, MaxFaults, MaxErrors} \subseteq Nat
    /\ {Retries, Tries, MaxAdr} \subseteq Nat \ {0}

NoAdr  == -1
Ports(h) == {p \in Port : HubOf[p] = h}

VARIABLES
    dev,      \* the device in a port, or 0
    adr,      \* the address it answers at
    enabled,  \* the ports that are enabled
    chg,      \* the change bits of a port
    powered,  \* the ports that have power
    gone,     \* the hubs that have been unplugged
    pc,       \* where the driver of a hub is
    known,    \* the hubs whose descriptor was read: in->Ports is set
    running,  \* in->Running
    errors,   \* in->ErrorCnt
    todo,     \* the ports whose bit is set in the interrupt data, and not handled
    at,       \* the port that is being handled
    seen,     \* the device that the last GET_STATUS of Port_Chg() has seen, or 0
    retry,    \* the loop counter of Function_Add()
    stage,    \* what FUNCTION_INIT() asks for
    tries,    \* how often it has asked for that in vain
    new,      \* the function being made
    fn,       \* PortFunctions[]
    old,      \* FN_Header: the functions that were removed and not yet freed
    req,      \* the interrupt request: who has it
    data,     \* and its result
    sig,      \* hn_HUB_Signal
    plugs,    \* counts the devices
    faults,   \* counts the failures
    missed,   \* history: why the driver does not see to the device in a port: a request has failed
              \* that is not repeated ("kept"), or one in each of the repetitions ("failed"), or
              \* the device came between GET_STATUS and the clearing of the bit ("lost")
    mixed     \* history: a SET_ADDRESS has reached a device in another port

busVars  == <<dev, adr, enabled, chg, powered, gone, plugs, mixed>>
addVars  == <<at, seen, retry, stage, tries, new>>
fnVars   == <<fn, old>>
reqVars  == <<req, data, sig>>
loopVars == <<known, running, errors, todo>>
vars == <<busVars, addVars, fnVars, reqVars, loopVars, pc, faults, missed>>

Result   == [result : {"none", "ok", "error", "detached"}, ports : SUBSET Port]
Nothing  == [result |-> "none", ports |-> {}]
Bits(S)  == [result |-> "ok", ports |-> S]
Error(e) == [result |-> e, ports |-> {}]

NoFn == [dev |-> 0, adr |-> NoAdr]
Fn   == [dev : 0 .. MaxPlugs, adr : 0 .. MaxAdr \cup {NoAdr}]

\* What FUNCTION_INIT() asks the device: its descriptors and status, the configuration to set,
\* and its strings.
Gets == <<"Descriptors", "Set", "Strings">>

\* Where the driver of a hub is: while it handles a port, and in the repeated part of that.
Trying   == {"reset", "clearReset", "obtain", "setAddr", "init", "again"}
Handling == {"clear", "remove", "add"} \cup Trying
Labels   == {"start", "wait", "next", "status", "free", "ended"} \cup Handling

TypeOK ==
    /\ dev \in [Port -> 0 .. MaxPlugs] /\ adr \in [Port -> 0 .. MaxAdr \cup {NoAdr}]
    /\ enabled \subseteq Port /\ powered \subseteq Port /\ gone \subseteq Hub \ {root}
    /\ chg \in [Port -> SUBSET {"connection", "reset"}]
    /\ pc \in [Hub -> Labels]
    /\ known \subseteq Hub /\ running \subseteq Hub /\ errors \in [Hub -> 0 .. MaxErrors + 1]
    /\ todo \in [Hub -> SUBSET Port] /\ at \in [Hub -> Port \cup {0}]
    /\ seen \in [Hub -> 0 .. MaxPlugs] /\ retry \in [Hub -> 0 .. Retries]
    /\ stage \in [Hub -> 1 .. Len(Gets)] /\ tries \in [Hub -> 0 .. Tries - 1]
    /\ new \in [Hub -> Fn] /\ fn \in [Port -> Fn] /\ old \in [Hub -> SUBSET Fn]
    /\ req \in [Hub -> {"idle", "sent", "listed", "replied"}] /\ sig \in BOOLEAN
    /\ data \in [Hub -> Result]
    /\ plugs \in 0 .. MaxPlugs /\ faults \in 0 .. MaxFaults
    /\ missed \in [Port -> {"no", "kept", "failed", "lost"}] /\ mixed \in BOOLEAN

Init ==
    /\ dev = [p \in Port |-> 0] /\ adr = [p \in Port |-> NoAdr]
    /\ enabled = {} /\ powered = {} /\ gone = {} /\ chg = [p \in Port |-> {}]
    /\ pc = [h \in Hub |-> "start"] /\ known = {} /\ running = Hub
    /\ errors = [h \in Hub |-> 0] /\ todo = [h \in Hub |-> {}]
    /\ at = [h \in Hub |-> 0] /\ seen = [h \in Hub |-> 0] /\ retry = [h \in Hub |-> 0]
    /\ stage = [h \in Hub |-> 1] /\ tries = [h \in Hub |-> 0] /\ new = [h \in Hub |-> NoFn]
    /\ fn = [p \in Port |-> NoFn] /\ old = [h \in Hub |-> {}]
    /\ req = [h \in Hub |-> "idle"] /\ data = [h \in Hub |-> Nothing] /\ sig = FALSE
    /\ plugs = 0 /\ faults = 0 /\ missed = [p \in Port |-> "no"] /\ mixed = FALSE

GoTo(h, label) == pc' = [pc EXCEPT ![h] = label]

\* A request fails on the bus.
Fault == faults < MaxFaults /\ faults' = faults + 1
NoFault == UNCHANGED faults

\* A request to the hub itself: the root hub's are answered by the HCD task.
Answers(h) == h \notin gone /\ NoFault
Fails(h)   == \/ h \in gone /\ NoFault
              \/ h \notin gone \cup {root} /\ Fault

\* A change bit of the root hub is set: the chip's interrupt handler signals the HCD task.
Raise(p, bit) ==
    /\ chg' = [chg EXCEPT ![p] = @ \cup {bit}]
    /\ sig' = (sig \/ HubOf[p] = root)

-----------------------------------------------------------------------------
(* The ports *)

\* The ports that are being handled, from the status their driver acts on.
Handled == {p \in Port : pc[HubOf[p]] \in Handling /\ at[HubOf[p]] = p}

\* What happens at the ports of a driver that has ended is of no interest.
Watched(p) == pc[HubOf[p]] # "ended"

Plug(p) ==
    /\ p \in powered /\ dev[p] = 0 /\ plugs < MaxPlugs /\ HubOf[p] \notin gone /\ Watched(p)
    /\ plugs' = plugs + 1 /\ dev' = [dev EXCEPT ![p] = plugs + 1]
    /\ adr' = [adr EXCEPT ![p] = NoAdr]
    /\ Raise(p, "connection")
    /\ missed' = [missed EXCEPT ![p] = "no"]
    /\ UNCHANGED <<enabled, powered, gone, mixed, addVars, fnVars, req, data, loopVars, pc, faults>>

Unplug(p) ==
    /\ dev[p] # 0 /\ Watched(p)
    /\ dev' = [dev EXCEPT ![p] = 0] /\ adr' = [adr EXCEPT ![p] = NoAdr]
    /\ enabled' = enabled \ {p}
    /\ Raise(p, "connection")
    /\ missed' = [missed EXCEPT ![p] = "no"]
    /\ UNCHANGED <<powered, gone, plugs, mixed, addVars, fnVars, req, data, loopVars, pc, faults>>

\* The hub is unplugged, with what is plugged into it.
UnplugHub(h) ==
    /\ h \notin gone \cup {root}
    /\ gone' = gone \cup {h}
    /\ pc[h] # "ended"
    /\ dev' = [p \in Port |-> IF HubOf[p] = h THEN 0 ELSE dev[p]]
    /\ adr' = [p \in Port |-> IF HubOf[p] = h THEN NoAdr ELSE adr[p]]
    /\ enabled' = enabled \ Ports(h)
    /\ chg' = [p \in Port |-> IF HubOf[p] = h THEN {} ELSE chg[p]]
    /\ missed' = [p \in Port |-> IF HubOf[p] = h THEN "no" ELSE missed[p]]
    /\ UNCHANGED <<powered, plugs, mixed, addVars, fnVars, reqVars, loopVars, pc, faults>>

\* The devices that answer at an address.
Answering(a) == {p \in enabled : dev[p] # 0 /\ adr[p] = a}

-----------------------------------------------------------------------------
(* The root hub: RootHUB/Handle_Read.c, Handle_Change.c, __Int_Read.c *)

\* Variant: the request is put into its list, and the HCD task not signalled.
ReadSilent == sig

ReadSignals == TRUE

\* The request is put into hn_HUB_Interrupts, and hn_HUB_Signal set.
HandleRead ==
    /\ req[root] = "sent"
    /\ req' = [req EXCEPT ![root] = "listed"]
    /\ sig' = ReadSignals
    /\ UNCHANGED <<busVars, addVars, fnVars, data, loopVars, pc, faults, missed>>

Changed(h) == {p \in Ports(h) \cap powered : chg[p] # {}}

HandleChg ==
    /\ sig /\ sig' = FALSE
    /\ IF req[root] = "listed" /\ Changed(root) # {}
       THEN /\ req' = [req EXCEPT ![root] = "replied"]
            /\ data' = [data EXCEPT ![root] = Bits(Changed(root))]
       ELSE UNCHANGED <<req, data>>
    /\ UNCHANGED <<busVars, addVars, fnVars, loopVars, pc, faults, missed>>

\* The interrupt request of a hub on the bus.
Reply(h, result) ==
    /\ req[h] = "sent"
    /\ req' = [req EXCEPT ![h] = "replied"] /\ data' = [data EXCEPT ![h] = result]
    /\ UNCHANGED <<busVars, addVars, fnVars, sig, loopVars, pc, missed>>

BusReply(h) ==
    /\ h # root
    /\ \/ h \in gone /\ NoFault /\ Reply(h, Error("detached"))
       \/ h \notin gone /\ NoFault /\ Changed(h) # {} /\ Reply(h, Bits(Changed(h)))
       \/ h \notin gone /\ Fault /\ Reply(h, Error("error"))

-----------------------------------------------------------------------------
(* The driver's start: HUB_Init(), HUB_Power_Up(), HUB_Schedule() *)

\* HUB_Schedule(): IO_SEND() of the interrupt request.
Scheduled(h) == req' = [req EXCEPT ![h] = "sent"]

\* HUB_GetDesc(), whose failure HUB_Init() does not look at, and PORT_POWER for each port.  The
\* driver of a hub on the bus is bound by that of the root hub.
Start(h) ==
    /\ pc[h] = "start" /\ (h # root => pc[root] # "start")
    /\ \/ Answers(h) /\ known' = known \cup {h} /\ powered' = powered \cup Ports(h)
       \/ Fails(h) /\ UNCHANGED <<known, powered>>
    /\ Scheduled(h) /\ GoTo(h, "wait")
    /\ UNCHANGED <<dev, adr, enabled, chg, gone, plugs, mixed, addVars, fnVars, data, sig, running, errors, todo, missed>>

-----------------------------------------------------------------------------
(* The driver's loop: HUB_Main(), HUB_Handle_Interrupt() *)

TooMany(h) == errors[h] >= MaxErrors

Interrupt(h) ==
    /\ pc[h] = "wait" /\ req[h] = "replied"
    /\ req' = [req EXCEPT ![h] = "idle"] /\ data' = [data EXCEPT ![h] = Nothing]
    /\ CASE data[h].result = "detached" ->
              running' = running \ {h} /\ UNCHANGED <<errors, todo>>
         [] data[h].result = "error" ->
              /\ errors' = [errors EXCEPT ![h] = @ + 1]
              /\ running' = IF TooMany(h) THEN running \ {h} ELSE running
              /\ UNCHANGED todo
         [] OTHER ->
              /\ errors' = [errors EXCEPT ![h] = 0]
              /\ todo' = [todo EXCEPT ![h] = IF h \in known THEN data[h].ports ELSE {}]
              /\ UNCHANGED running
    /\ GoTo(h, "next")
    /\ UNCHANGED <<busVars, addVars, fnVars, sig, known, faults, missed>>

\* The next port whose bit is set; then the request is sent again while the driver runs.
NextPort(h) ==
    /\ pc[h] = "next"
    /\ IF todo[h] # {}
       THEN /\ at' = [at EXCEPT ![h] = Min(todo[h])]
            /\ todo' = [todo EXCEPT ![h] = @ \ {Min(@)}]
            /\ GoTo(h, "status") /\ UNCHANGED req
       ELSE /\ at' = [at EXCEPT ![h] = 0] /\ UNCHANGED todo
            /\ IF h \in running THEN Scheduled(h) ELSE UNCHANGED req
            /\ GoTo(h, "wait")
    /\ seen' = [seen EXCEPT ![h] = 0] /\ retry' = [retry EXCEPT ![h] = 0]
    /\ stage' = [stage EXCEPT ![h] = 1]
    /\ UNCHANGED <<busVars, tries, new, fnVars, data, sig, known, running, errors, faults, missed>>

\* CTRL_C, from the HCD task, or because the hub is gone.
Stop(h) ==
    /\ h \in gone \cup {root} /\ pc[h] = "wait" /\ h \in running
    /\ running' = running \ {h}
    /\ UNCHANGED <<busVars, addVars, fnVars, reqVars, known, errors, todo, pc, faults, missed>>

Functions(h) == {fn[p] : p \in Ports(h)} \ {NoFn}

\* Variant: only what was removed before is freed.
OnlyOld(h) == {}

ToRemove(h) == IF h \in running THEN {} ELSE Functions(h)

\* HUB_Main__Free_FNs(), on CTRL_D and every two seconds: functions whose drivers have ended are
\* freed with their addresses, and when the driver stops those in the ports are removed too.
FreeFNs(h) ==
    LET all == ToRemove(h)
    IN  /\ pc[h] = "wait"
        /\ \E F \in SUBSET (old[h] \cup all) :
              /\ F # {} \/ all # {}
              /\ old' = [old EXCEPT ![h] = (@ \cup all) \ F]
        /\ fn' = [p \in Port |-> IF fn[p] \in all /\ HubOf[p] = h THEN NoFn ELSE fn[p]]
        /\ UNCHANGED <<busVars, addVars, reqVars, loopVars, pc, faults, missed>>

\* HUB_Main__Stopping() is over when no function is left.
Free(h) ==
    /\ pc[h] = "wait" /\ h \notin running
    /\ Functions(h) = {} /\ old[h] = {}
    /\ GoTo(h, "free")
    /\ UNCHANGED <<busVars, addVars, fnVars, reqVars, loopVars, faults, missed>>

\* HUB_Free() unregisters the driver, and __EndPointRes_Free() stops the interrupt request with
\* AbortIO() and WaitIO().  One on the bus is ended by the abort; one in hn_HUB_Interrupts has
\* the state IORS_HCD, which __myHandle_Abort() passes over.
AbortRequest(h) ==
    /\ pc[h] = "free" /\ h # root /\ NoFault
    /\ Reply(h, Error("error"))

RequestIsBack(h) == req[h] \in {"idle", "replied"}

End(h) ==
    /\ pc[h] = "free" /\ RequestIsBack(h)
    /\ GoTo(h, "ended")
    /\ UNCHANGED <<busVars, addVars, fnVars, reqVars, loopVars, faults, missed>>

-----------------------------------------------------------------------------
(* A port has changed: HUB__Port_Chg() *)

Give(h, why) == missed' = [missed EXCEPT ![at[h]] = why]
Keep    == UNCHANGED missed

PortStatus(h) ==
    /\ pc[h] = "status"
    /\ \/ /\ Answers(h)
          /\ seen' = [seen EXCEPT ![h] = dev[at[h]]]
          /\ GoTo(h, IF "connection" \in chg[at[h]] THEN "clear" ELSE "next")
       \/ Fails(h) /\ GoTo(h, "next") /\ UNCHANGED seen
    /\ UNCHANGED <<busVars, at, retry, stage, tries, new, fnVars, reqVars, loopVars, missed>>

\* The status that is acted on is older than the bit that is cleared: a device that came between
\* the two has neither bit nor function.
CameBetween(h) == seen[h] = 0 /\ dev[at[h]] # 0

\* PORT_CLR_CONNECTION.  An error ends the handling, whether the bit was cleared or not.
ClearConnection(h) ==
    LET p == at[h] IN
    /\ pc[h] = "clear"
    /\ \/ /\ Answers(h) /\ chg' = [chg EXCEPT ![p] = @ \ {"connection"}]
          /\ GoTo(h, "remove") /\ Give(h, IF CameBetween(h) THEN "lost" ELSE "no")
       \/ /\ Fails(h) /\ chg' = [chg EXCEPT ![p] = @ \ {"connection"}]
          /\ GoTo(h, "next") /\ Give(h, "kept")
       \/ /\ Fails(h) /\ UNCHANGED chg
          /\ GoTo(h, "next") /\ Keep
    /\ UNCHANGED <<dev, adr, enabled, powered, gone, plugs, mixed, addVars, fnVars, reqVars, loopVars>>

Removed(h) == [fn EXCEPT ![at[h]] = NoFn]

\* HUB__Port_Function_Rem().
Remove(h) ==
    LET p == at[h] IN
    /\ pc[h] = "remove"
    /\ old' = IF fn[p] = NoFn THEN old ELSE [old EXCEPT ![h] = @ \cup {fn[p]}]
    /\ fn' = Removed(h)
    /\ GoTo(h, IF seen[h] # 0 THEN "add" ELSE "next")
    /\ UNCHANGED <<busVars, addVars, reqVars, loopVars, faults, missed>>

-----------------------------------------------------------------------------
(* A device is there: HUB__Port_Function_Add(), HUB__Port_FAdd_Retry(), ..Add3() *)

\* A port that is enabled already is disabled, which the root hub refuses.
Add(h) ==
    LET p == at[h] IN
    /\ pc[h] = "add"
    /\ \/ /\ Answers(h) /\ (p \in enabled => h # root) /\ dev[p] # 0
          /\ enabled' = enabled \ {p}
          /\ GoTo(h, "reset") /\ Keep
       \/ /\ Answers(h) /\ (dev[p] = 0 \/ (p \in enabled /\ h = root))
          /\ GoTo(h, "next") /\ Give(h, "kept") /\ UNCHANGED enabled
       \/ Fails(h) /\ GoTo(h, "next") /\ Give(h, "kept") /\ enabled' \in {enabled, enabled \ {p}}
    /\ retry' = [retry EXCEPT ![h] = 0]
    /\ UNCHANGED <<dev, adr, chg, powered, gone, plugs, mixed, at, seen, stage, tries, new, fnVars, reqVars, loopVars>>

\* PORT_RESET, and the wait for it.  The root hub of an xHCI reports no error if nothing is there.
Reset(h) ==
    LET p == at[h] IN
    /\ pc[h] = "reset"
    /\ \/ /\ Answers(h)
          /\ IF dev[p] # 0
             THEN /\ adr' = [adr EXCEPT ![p] = 0] /\ enabled' = enabled \cup {p}
                  /\ Raise(p, "reset")
             ELSE UNCHANGED <<adr, enabled, chg, sig>>
          /\ GoTo(h, "clearReset")
       \/ Fails(h) /\ GoTo(h, "again") /\ UNCHANGED <<adr, enabled, chg, sig>>
    /\ UNCHANGED <<dev, powered, gone, plugs, mixed, addVars, fnVars, req, data, loopVars, missed>>

\* PORT_CLR_RESET, GET_STATUS, and the speed.
ClearReset(h) ==
    LET p == at[h] IN
    /\ pc[h] = "clearReset"
    /\ \/ /\ Answers(h)
          /\ chg' = [chg EXCEPT ![p] = @ \ {"reset"}]
          /\ GoTo(h, IF dev[p] # 0 THEN "obtain" ELSE "again")
       \/ Fails(h) /\ GoTo(h, "again") /\ chg' \in {chg, [chg EXCEPT ![p] = @ \ {"reset"}]}
    /\ UNCHANGED <<dev, adr, enabled, powered, gone, plugs, mixed, addVars, fnVars, reqVars, loopVars, missed>>

\* Variant: the functions that wait to be freed have given their addresses back.
ObtainedNow == {fn[p].adr : p \in Port} \cup {new[h].adr : h \in Hub}

\* hn_Function_Array: the addresses of all functions there are.
Obtained ==
    {fn[p].adr : p \in Port} \cup {new[h].adr : h \in Hub} \cup UNION {{f.adr : f \in old[h]} : h \in Hub}

\* FUNCTION_ALLOC(), HCD_ADDR_OBTAIN(): the lowest address that is free.
Obtain(h) ==
    LET free == 1 .. MaxAdr \ Obtained IN
    /\ pc[h] = "obtain"
    /\ new' = IF free = {} THEN new ELSE [new EXCEPT ![h].adr = Min(free)]
    /\ GoTo(h, IF free = {} THEN "again" ELSE "setAddr")
    /\ UNCHANGED <<busVars, at, seen, retry, stage, tries, fnVars, reqVars, loopVars, faults, missed>>

\* The function is entered in PortFunctions[], and its driver is bound.
Bind(h) ==
    /\ fn' = [fn EXCEPT ![at[h]] = new[h]] /\ new' = [new EXCEPT ![h] = NoFn]
    /\ GoTo(h, "next")

\* FUNCTION_FREE(), HCD_ADDR_RELEASE().
Drop(h) == new' = [new EXCEPT ![h] = NoFn] /\ GoTo(h, "again")

\* HUB__Port_Function_SetAddr(): the request goes to address 0.
SetAddr(h) ==
    LET hear == Answering(0)
        set  == [p \in Port |-> IF p \in hear THEN new[h].adr ELSE adr[p]]
    IN  /\ pc[h] = "setAddr"
        /\ \/ /\ hear # {} /\ NoFault
              /\ adr' = set
              /\ new' = [new EXCEPT ![h].dev = IF at[h] \in hear THEN dev[at[h]] ELSE dev[Min(hear)]]
              /\ GoTo(h, "init")
           \/ /\ IF hear = {} THEN NoFault ELSE Fault
              /\ adr' \in {adr, set} /\ Drop(h)
        /\ stage' = [stage EXCEPT ![h] = 1]
        /\ mixed' = (mixed \/ hear \notin {{}, {at[h]}})
        /\ UNCHANGED <<dev, enabled, chg, powered, gone, plugs, at, seen, retry, tries, fnVars, reqVars, loopVars, missed>>

LastStage(h) == stage[h] = Len(Gets)

\* FUNCTION_INIT(): the descriptors are asked for Tries times each, the rest once; a string
\* that cannot be read does not matter, if the languages can.
InitFunction(h) ==
    LET hear == Answering(new[h].adr) IN
    /\ pc[h] = "init"
    /\ \/ /\ hear # {} /\ NoFault
          /\ tries' = [tries EXCEPT ![h] = 0]
          /\ IF LastStage(h)
             THEN Bind(h) /\ UNCHANGED stage
             ELSE UNCHANGED <<pc, fn, new>> /\ stage' = [stage EXCEPT ![h] = @ + 1]
       \/ /\ hear = {} /\ NoFault
          /\ Drop(h) /\ UNCHANGED <<fn, stage, tries>>
       \/ /\ hear # {} /\ Fault /\ UNCHANGED <<fn, stage>>
          /\ IF Gets[stage[h]] \in {"Set", "Strings"} \/ tries[h] + 1 = Tries
             THEN Drop(h) /\ tries' = [tries EXCEPT ![h] = 0]
             ELSE UNCHANGED <<pc, new>> /\ tries' = [tries EXCEPT ![h] = @ + 1]
    /\ UNCHANGED <<busVars, at, seen, retry, old, reqVars, loopVars, missed>>

\* Variant: the loop ends after the first turn.
OneTurn(h) == FALSE

TurnsLeft(h) == retry[h] + 1 < Retries

Again(h) ==
    /\ pc[h] = "again"
    /\ retry' = [retry EXCEPT ![h] = @ + 1]
    /\ IF TurnsLeft(h) THEN GoTo(h, "reset") /\ Keep ELSE GoTo(h, "next") /\ Give(h, "failed")
    /\ UNCHANGED <<busVars, at, seen, stage, tries, new, fnVars, reqVars, loopVars, faults>>

-----------------------------------------------------------------------------
HubNext(h) ==
    \/ Start(h) \/ Interrupt(h) \/ NextPort(h) \/ Free(h) \/ AbortRequest(h) \/ End(h)
    \/ PortStatus(h) \/ ClearConnection(h) \/ Remove(h) \/ Add(h) \/ Reset(h) \/ ClearReset(h)
    \/ Obtain(h) \/ SetAddr(h) \/ InitFunction(h) \/ Again(h)

HCDNext == HandleRead \/ HandleChg

World ==
    \/ \E p \in Port : Plug(p) \/ Unplug(p)
    \/ \E h \in Hub : UnplugHub(h) \/ Stop(h)

Next == HCDNext \/ World \/ \E h \in Hub : HubNext(h) \/ BusReply(h) \/ FreeFNs(h)

Spec == Init /\ [][Next]_vars

\* The tasks run and the bus and the HCD task answer; the drivers of functions that were removed
\* end.  Nothing makes a device or a hub come and go, or a hub's driver stop.
Fairness ==
    /\ WF_vars(HCDNext)
    /\ \A h \in Hub : WF_vars(BusReply(h)) /\ WF_vars(HubNext(h) \/ FreeFNs(h))

LiveSpec == Spec /\ Fairness

-----------------------------------------------------------------------------
(* Properties *)

\* While the root hub's interrupt request waits and the HCD task has no signal, no port has a
\* change to report (Handle_Read.c:42 and the chip's interrupt handlers): none waits unseen.
NoLostChange == req[root] = "listed" /\ ~ sig => Changed(root) = {}

Serves(h) == h \in (known \cap running) \ gone
Missed    == {p \in Port : missed[p] # "no"}

\* A port whose function is not that of the device in it has a change that its driver will
\* handle or handles, unless failed requests have kept the driver from it, the device came
\* between the reading of its status and the clearing of its bit (HUB__Port_Change.c:66-93), or
\* one SET_ADDRESS has reached the devices of two drivers (HUB__Port_Function_SetAddr.c).
PortAgrees(p) ==
    ~ mixed /\ Serves(HubOf[p]) =>
        fn[p].dev = dev[p] \/ "connection" \in chg[p] \/ p \in Handled \cup Missed

\* No two functions have one address, also while the removed one waits to be freed
\* (HCD/Addr_Obtain.c, Addr_Release.c).
Made(h) == ({new[h]} \cup old[h] \cup Functions(h)) \ {NoFn}
AddressesUnique ==
    \A h, g \in Hub : \A x \in Made(h), y \in Made(g) :
        x # y /\ x.adr # NoAdr => x.adr # y.adr

\* A function's device answers at its address, and no other does but those that are being
\* added, were given up, or were left in the ports of a driver that has stopped, until one
\* SET_ADDRESS has reached two (HUB__Port_Function_SetAddr.c sends to whatever is at address 0).
Unserved == {p \in Port : HubOf[p] \notin running}
RightDevice ==
    \A p \in enabled \ Handled :
        ~ mixed /\ fn[p].dev = dev[p] =>
            p \in Answering(fn[p].adr) /\ Answering(fn[p].adr) \subseteq {p} \cup Handled \cup Missed \cup Unserved

\* When nothing is plugged any more, every port comes to have the function of the device in it,
\* and no other, whatever requests fail in the repeated part of the enumeration, if not one in
\* each repetition (HUB__Port_Function_Add.c:117, HUB__Port_Change.c:101), nor one was plugged
\* in between the status and the clearing of the bit (HUB__Port_Change.c:66-93); also when one
\* SET_ADDRESS has reached two devices and no request has failed: the other is found to be
\* missing, and reset again.
Excused(p) == missed[p] \in {"kept", "lost"} \/ (missed[p] = "failed" /\ faults >= Retries)
Agrees ==
    \A p \in powered :
        ~ (mixed /\ faults > 0) /\ Serves(HubOf[p]) => fn[p].dev = dev[p] \/ Excused(p)
Enumerated == <>[]Agrees

\* A driver that is told to stop, or whose hub is gone, ends with all functions freed, also one
\* that it has made since (HUB_Main_3_Stopping.c); only that of the root hub waits, for ever if
\* no port changes, for an interrupt request that cannot be aborted (Handle_Change.c:27-45).
Parked == pc[root] = "free" /\ req[root] = "listed" /\ Changed(root) = {}
HubEnds == <>[](\A h \in Hub : h \notin running => pc[h] = "ended" \/ (h = root /\ Parked))

\* Ports and functions agree, or somebody is going to see why not, but for the changes that the
\* code loses, each of which PortAgrees names.
ChangesSeen == TypeOK /\ NoLostChange /\ \A p \in Port : PortAgrees(p)

\* A function talks to its own device: no other has its address.
OneDevice == AddressesUnique /\ RightDevice

-----------------------------------------------------------------------------
(* The inductive invariant behind ChangesSeen and OneDevice *)

\* The driver handles ports of its own hub that have power, and has a function in hand from the
\* address it obtains to the end of FUNCTION_INIT().
DriverPlace(h) ==
    /\ pc[h] = "start" => Ports(h) \cap powered = {}
    /\ errors[h] > MaxErrors => pc[h] # "start" /\ req[h] = "idle" /\ h \notin running
    /\ todo[h] \subseteq Ports(h) \cap powered /\ data[h].ports \subseteq Ports(h) \cap powered
    /\ pc[h] \in {"status"} \cup Handling => at[h] \in Ports(h) \cap powered
    /\ pc[h] \in Trying => retry[h] < Retries
    /\ IF pc[h] \in {"setAddr", "init"} THEN new[h].adr \in 1 .. MaxAdr ELSE new[h] = NoFn
    /\ new[h].dev <= plugs

\* Functions and devices are in ports that have power; a device has been plugged in before, and
\* only a device can be enabled.
PortPlace(p) ==
    /\ dev[p] # 0 => p \in powered /\ HubOf[p] \notin gone
    /\ fn[p] # NoFn => p \in powered /\ fn[p].adr \in 1 .. MaxAdr
    /\ dev[p] <= plugs /\ fn[p].dev <= plugs
    /\ p \in enabled => dev[p] # 0

\* The function in a port, the one in hand and each of those that wait to be freed has an address
\* of its own.
AddressPlace ==
    /\ \A p, q \in Port : fn[p].adr # NoAdr /\ fn[p].adr = fn[q].adr => p = q
    /\ \A h \in Hub, p \in Port : new[h].adr # NoAdr => new[h].adr # fn[p].adr
    /\ \A h, g \in Hub : new[h].adr # NoAdr /\ new[h].adr = new[g].adr => h = g
    /\ \A h \in Hub : \A f \in old[h] :
          /\ f.adr # NoAdr
          /\ \A p \in Port : f.adr # fn[p].adr
          /\ \A g \in Hub : f.adr # new[g].adr /\ \A k \in old[g] : f.adr = k.adr => f = k /\ h = g

\* What is known of the port that a driver handles, whatever changes there meanwhile: a device
\* that has come since the bit was cleared has set it again, or was lost.
HandledPlace(h) ==
    pc[h] \in Handling =>
        /\ pc[h] = "clear" => h \in gone \/ "connection" \in chg[at[h]]
        /\ pc[h] = "remove" /\ seen[h] = 0 =>
              /\ dev[at[h]] = 0 \/ "connection" \in chg[at[h]] \/ at[h] \in Missed
              /\ at[h] \in enabled => at[h] \in Missed
        /\ pc[h] \in {"add"} \cup Trying => fn[at[h]] = NoFn
        /\ pc[h] = "init" /\ ~ mixed =>
              /\ new[h].dev = dev[at[h]] \/ h \in gone \/ "connection" \in chg[at[h]]
              /\ at[h] \in enabled => new[h].dev = dev[at[h]]
              /\ new[h].dev = dev[at[h]] /\ dev[at[h]] # 0 =>
                    at[h] \in enabled /\ new[h].adr = adr[at[h]]

\* The function of the device in a port has its address; what else answers is being added, was
\* given up, or was left.
Cleared == {p \in Handled : pc[HubOf[p]] # "clear"}
FunctionPlace(p) ==
    ~ mixed =>
        /\ fn[p].dev = dev[p] /\ dev[p] # 0 => p \in enabled /\ fn[p].adr = adr[p]
        /\ p \in enabled => p \in Cleared \cup Missed \cup Unserved \/ fn[p].dev = dev[p]

HubInvariant ==
    /\ TypeOK /\ AddressPlace /\ NoLostChange
    /\ \A h \in Hub : DriverPlace(h) /\ HandledPlace(h)
    /\ \A p \in Port : PortPlace(p) /\ FunctionPlace(p) /\ PortAgrees(p)

================================================================================
