----------------------------- MODULE ObjectLocks -----------------------------
(***************************************************************************)
(* The objects of one USB function and their locks (Stack/Function, Config,  *)
(* Interface, EndPoint, EndPointRes, Register, IORequest, Driver).            *)
(*                                                                         *)
(* An object is locked by each object that points to it and by each task that *)
(* uses it.  X_FREE() takes it out of use for good (FreeMe) and frees it only *)
(* when nothing locks it; otherwise whoever owns the list tries again later.  *)
(* The hub's task makes the function, has it initialised by a task of its     *)
(* own, binds drivers, and frees it when the device is unplugged or the hub   *)
(* stops; drivers register, claim the function or its interface, obtain       *)
(* endpoint resources and send requests, which the HCD task serves.           *)
(* A step is what a task does without waiting for another.                    *)
(***************************************************************************)
EXTENDS Integers, FiniteSets

CONSTANTS
    Driver,     \* the tasks bound to the function
    OfInterface,\* those of them that are bound to its interface
    init,       \* the task of FUNCTION_INIT()
    Sent,       \* the requests that are sent in this instance
    none

ASSUME ObjectLocksAssumption ==
    /\ IsFiniteSet(Driver) /\ init \notin Driver /\ none \notin Driver /\ init # none
    /\ OfInterface \subseteq Driver
    /\ Sent \subseteq (Driver \cup {init}) \X {"cep", "ep"}

Client == Driver \cup {init}

\* hn, the function, its control endpoint, and what its configuration is parsed into.
Object == {"hn", "fn", "cep", "cn", "ig", "ih", "in", "ep"}

\* What a register is for.
Target(c) == IF c \in OfInterface THEN "ih" ELSE "fn"

\* What an object points to, and so locks when it is allocated.
Parents(o) == CASE o = "hn" -> {}          [] o = "fn" -> {"hn"}
                [] o = "cep" -> {"fn"}     [] o = "cn" -> {"fn"}
                [] o = "ig" -> {"fn", "cn"} [] o = "ih" -> {"fn", "ig"}
                [] o = "in" -> {"fn", "ih"} [] o = "ep" -> {"fn", "in"}

\* A request of a client, to the control endpoint or to the other one.
Request     == Client \X {"cep", "ep"}
EndPoint(q) == q[2]

VARIABLES
    st,       \* each object is "none", "live" or "freed"
    locks,    \* its locks
    freeMe,   \* fkt_FreeMe
    detach,   \* fkt_Detach, and that of everything below
    owner,    \* fkt_Owner
    ihOwner,  \* ih_Owner
    claims,   \* fkt_InterfaceClaimLocks
    activeIO, \* fkt_ActiveIOReq
    address,  \* the function has its address
    config,   \* fkt_Config_Active is set
    hub,      \* where the hub's task is
    own,      \* it has the function locked for its port
    message,  \* the FktMessage on its way to the Master
    pc,       \* where each client is
    has,      \* what its register has: "fn", "ih", "claim", and resources "cep" and "ep"
    req,      \* each request: "none", "user", "tested" (in BeginIO()), "port" (begin port),
              \* "hcd", "freed", "dangling" (freed in the begin port) or "lost" (never to be freed)
    aborts,   \* the requests with a message in the abort port
    overtaken,\* history: those that were put in the port of a function that goes
    prompt    \* nothing keeps the HCD task from serving its ports before others go on

fnVars     == <<st, locks, freeMe, detach, address, config>>
claimVars  == <<owner, ihOwner, claims>>
hubVars    == <<hub, own, message>>
clientVars == <<pc, has>>
ioVars     == <<req, activeIO, aborts, overtaken>>
vars == <<fnVars, claimVars, hubVars, clientVars, ioVars, prompt>>

\* What each variable is, but for the counters.
Kinds ==
    /\ st \in [Object -> {"none", "live", "freed"}]
    /\ {freeMe, detach, address, config, own, message, prompt} \subseteq BOOLEAN
    /\ {owner, ihOwner} \subseteq Client \cup {none}
    /\ hub \in {"add", "init", "up", "drop", "free", "release", "dropRelease", "check",
                "dropCheck", "gone"}
    /\ pc \in [Client -> {"none", "start", "claim", "obtain", "use", "begin", "parsed",
                          "release", "close", "ended", "gone"}]
    /\ has \in [Client -> SUBSET {"fn", "ih", "claim", "cep", "ep"}]
    /\ req \in [Request -> {"none", "user", "tested", "port", "hcd", "freed", "dangling", "lost"}]
    /\ aborts \subseteq Request /\ overtaken \subseteq Request

TypeOK ==
    /\ Kinds /\ locks \in [Object -> Nat]
    /\ claims \in 0 .. 1 /\ activeIO \in 0 .. Cardinality(Request)

Init ==
    /\ st = [o \in Object |-> IF o = "hn" THEN "live" ELSE "none"]
    /\ locks = [o \in Object |-> 0]
    /\ freeMe = FALSE /\ detach = FALSE /\ address = FALSE /\ config = FALSE
    /\ owner = none /\ ihOwner = none /\ claims = 0
    /\ hub = "add" /\ own = FALSE /\ message = FALSE
    /\ pc = [c \in Client |-> "none"]
    /\ has = [c \in Client |-> {}]
    /\ req = [q \in Request |-> "none"] /\ activeIO = 0 /\ aborts = {} /\ overtaken = {}
    /\ prompt \in BOOLEAN

\* X_LOCK() and X_UNLOCK() of each object of a set.
Locked(l, os)   == [o \in Object |-> IF o \in os THEN l[o] + 1 ELSE l[o]]
Unlocked(l, os) == [o \in Object |-> IF o \in os THEN l[o] - 1 ELSE l[o]]

\* X_VALID(), and what a new user is refused for.
Valid(o) == st[o] = "live"
Usable   == Valid("fn") /\ ~ detach /\ ~ freeMe

Step(c, label) == pc' = [pc EXCEPT ![c] = label]

\* The HCD task has the highest priority of those here: it serves its ports first, unless a
\* semaphore that another owns keeps it.
Turn == prompt => aborts = {} /\ \A q \in Request : req[q] \notin {"port", "dangling"}

-----------------------------------------------------------------------------
(* The hub: HUB__Port_Function_Add3(), HUB__Port_Function_Rem(), HUB_Main__Free_FNs() *)

\* An object is allocated, and locks what it points to.
Made(s, o) == [st |-> [s.st EXCEPT ![o] = "live"], locks |-> Locked(s.locks, Parents(o))]

AllocFunction(s) == Made(s, "fn")
AllocControl(s)  == Made(s, "cep")

\* FUNCTION_ALLOC() with its control endpoint, HCD_ADDR_OBTAIN() and the device's SetAddress.
AddFunction ==
    LET s == AllocControl(AllocFunction([st |-> st, locks |-> locks])) IN
    /\ hub = "add"
    /\ st' = s.st /\ locks' = s.locks
    /\ \/ address' = TRUE /\ hub' = "init" /\ pc' = [pc EXCEPT ![init] = "start"]
       \/ address' \in BOOLEAN /\ hub' = "drop" /\ UNCHANGED pc
    /\ UNCHANGED <<freeMe, detach, config, claimVars, own, message, has, ioVars, prompt>>

\* FUNCTION_INIT() waits for its task; then the hub locks the function and binds its drivers,
\* or gives the function up.
Initialised ==
    /\ hub = "init" /\ pc[init] = "gone" /\ Turn
    /\ \/ /\ config
          /\ hub' = "up" /\ own' = TRUE
          /\ locks' = [locks EXCEPT !["fn"] = @ + 1]
       \/ hub' = "drop" /\ UNCHANGED <<own, locks>>
    /\ UNCHANGED <<st, freeMe, detach, address, config, claimVars, message, clientVars, ioVars, prompt>>

\* FUNCTION_BIND(): DRIVER_ALLOC() locks the function and hn for the DriverNode.
BindDriver(c) ==
    /\ hub = "up" /\ pc[c] = "none" /\ Turn
    /\ locks' = Locked(locks, {"fn", "hn"})
    /\ Step(c, "start")
    /\ UNCHANGED <<st, freeMe, detach, address, config, claimVars, hubVars, has, ioVars, prompt>>

\* The port has lost its device: the hub's own lock goes, FUNCTION_MARKDETACH() sends a message
\* with a lock to the Master, if there is memory for one.
Unplug ==
    /\ hub = "up" /\ Turn
    /\ hub' = "free" /\ own' = FALSE /\ detach' = TRUE
    /\ \/ message' = TRUE /\ UNCHANGED locks
       \/ message' = FALSE /\ locks' = [locks EXCEPT !["fn"] = @ - 1]
    /\ UNCHANGED <<st, freeMe, address, config, claimVars, clientVars, ioVars, prompt>>

\* The hub stops: the function is not marked, and no driver is told.
StopHub ==
    /\ hub = "up" /\ Turn
    /\ hub' = "free" /\ own' = FALSE
    /\ locks' = [locks EXCEPT !["fn"] = @ - 1]
    /\ UNCHANGED <<st, freeMe, detach, address, config, claimVars, message, clientVars, ioVars, prompt>>

\* CMD_FKT_DETACH: __Cmd_Fkt_Detach() does nothing but release the message.
MasterDetach ==
    /\ message
    /\ message' = FALSE /\ locks' = [locks EXCEPT !["fn"] = @ - 1]
    /\ UNCHANGED <<st, freeMe, detach, address, config, claimVars, hub, own, clientVars, ioVars, prompt>>

\* Variant: a function that serves requests is released.
Unguarded == TRUE

NothingActive == activeIO = 0

\* FUNCTION_FREE(), up to its test of fkt_ActiveIOReq.
FreeFunction ==
    /\ hub \in {"free", "drop"} /\ Valid("fn") /\ Turn
    /\ freeMe' = TRUE
    /\ hub' = IF NothingActive THEN IF hub = "free" THEN "release" ELSE "dropRelease"
              ELSE IF hub = "free" THEN "check" ELSE "dropCheck"
    /\ UNCHANGED <<st, locks, detach, address, config, claimVars, own, message, clientVars, ioVars, prompt>>

\* An object is freed if it is not locked, and then unlocks what it points to.
FreeOne(s, o) ==
    IF s.st[o] = "live" /\ s.locks[o] = 0
    THEN [st |-> [s.st EXCEPT ![o] = "freed"], locks |-> Unlocked(s.locks, Parents(o))]
    ELSE s

\* Each is reached from the one it belongs to, and frees first what belongs to it.
FreeEndPoint(s)  == FreeOne(s, "ep")
FreeInterface(s) == FreeOne(FreeEndPoint(s), "in")
FreeHeader(s)    == FreeOne(FreeInterface(s), "ih")
FreeGroup(s)     == FreeOne(FreeHeader(s), "ig")
FreeConfig(s)    == FreeOne(FreeGroup(s), "cn")
FreeControl(s)   == FreeOne(s, "cep")

\* __Release() stops what the endpoints of the configuration have in the HCD task's hands, with
\* the semaphore released meanwhile: IO_STOP() of a request that is its driver's ...
StopServed(q) ==
    /\ hub \in {"release", "dropRelease"} /\ EndPoint(q) = "ep" /\ Turn
    /\ req[q] = "hcd" /\ q \notin aborts
    /\ aborts' = aborts \cup {q}
    /\ locks' = Locked(locks, {"fn", "hn"})
    /\ UNCHANGED <<st, freeMe, detach, address, config, claimVars, hubVars, clientVars, req, activeIO,
                   overtaken, prompt>>

\* ... then, under usb_LockSemaphore, the objects, and the address.
ReleaseFunction ==
    LET s == FreeControl(FreeConfig([st |-> st, locks |-> locks]))
    IN  /\ hub \in {"release", "dropRelease"} /\ Turn
        /\ \A c \in Client : req[<<c, "ep">>] # "hcd"
        /\ st' = s.st /\ locks' = s.locks
        /\ config' = (config /\ s.st["cn"] = "live")
        /\ address' = FALSE
        /\ hub' = IF hub = "release" THEN "check" ELSE "dropCheck"
        /\ UNCHANGED <<freeMe, detach, claimVars, own, message, clientVars, ioVars, prompt>>

\* Its last part: the function goes if nothing locks it.  The hub tries again at each change and
\* tick; a function that could not be added is tried once.
CheckFunction ==
    LET s == FreeOne([st |-> st, locks |-> locks], "fn")
    IN  /\ hub \in {"check", "dropCheck"} /\ Turn
        /\ st' = s.st /\ locks' = s.locks
        /\ hub' = IF s.st["fn"] = "freed" \/ hub = "dropCheck" THEN "gone" ELSE "free"
        /\ UNCHANGED <<freeMe, detach, address, config, claimVars, own, message, clientVars, ioVars, prompt>>

-----------------------------------------------------------------------------
(* A register: REGISTER_REGISTERLIST() *)

\* FUNCTION_LOCK(), after INTERFACE_LOCKHEADER() for an interface.
LockTarget(c) ==
    /\ pc[c] = "start" /\ Turn
    /\ IF Valid("fn") /\ (Target(c) = "ih" => Valid("ih"))
       THEN /\ locks' = Locked(locks, {"fn", Target(c)})
            /\ has' = [has EXCEPT ![c] = {"fn", Target(c)}]
            /\ Step(c, "claim")
       ELSE /\ Step(c, "close")
            /\ UNCHANGED <<locks, has>>
    /\ UNCHANGED <<st, freeMe, detach, address, config, claimVars, hubVars, ioVars, prompt>>

\* Variant: __Function_Claim() does not look at the claims of interfaces.
ClaimsUnchecked == Usable /\ owner = none

FunctionFree == Usable /\ owner = none /\ claims = 0

\* FUNCTION_CLAIM(), under fkt_Semaphore.
ClaimFunction(c) ==
    /\ pc[c] = "claim" /\ Target(c) = "fn" /\ Turn
    /\ IF FunctionFree
       THEN /\ owner' = c
            /\ locks' = [locks EXCEPT !["fn"] = @ + 1]
            /\ has' = [has EXCEPT ![c] = @ \cup {"claim"}]
            /\ Step(c, "obtain")
       ELSE /\ Step(c, "close")
            /\ UNCHANGED <<owner, locks, has>>
    /\ UNCHANGED <<st, freeMe, detach, address, config, ihOwner, claims, hubVars, ioVars, prompt>>

\* INTERFACE_CLAIMHEADER(), under the same semaphore.
ClaimInterface(c) ==
    /\ pc[c] = "claim" /\ Target(c) = "ih" /\ Turn
    /\ IF Usable /\ owner \in {none, c} /\ ihOwner = none
       THEN /\ ihOwner' = c /\ claims' = claims + 1
            /\ locks' = [locks EXCEPT !["ih"] = @ + 1]
            /\ has' = [has EXCEPT ![c] = @ \cup {"claim"}]
            /\ Step(c, "obtain")
       ELSE /\ Step(c, "close")
            /\ UNCHANGED <<ihOwner, claims, locks, has>>
    /\ UNCHANGED <<st, freeMe, detach, address, config, owner, hubVars, ioVars, prompt>>

\* ENDPOINTRES_OBTAINLIST() with one request: IOREQUEST_ALLOCLIST() locks endpoint and function.
\* The control endpoint's is obtained by REGISTER_REGISTERLIST() itself.
Obtain(c, e, label) ==
    IF Valid(e) /\ Usable
    THEN /\ locks' = Locked(locks, {e, "fn"})
         /\ has' = [has EXCEPT ![c] = @ \cup {e}]
         /\ req' = [req EXCEPT ![<<c, e>>] = "user"]
         /\ Step(c, label)
    ELSE /\ Step(c, "close")
         /\ UNCHANGED <<locks, has, req>>

ObtainControl(c) ==
    /\ pc[c] = "obtain" /\ Turn /\ Obtain(c, "cep", "use")
    /\ UNCHANGED <<st, freeMe, detach, address, config, claimVars, hubVars, activeIO, aborts, overtaken, prompt>>

\* A driver's: the endpoint of an interface that is its own.
ObtainEndPoint(c) ==
    /\ c \in Driver /\ pc[c] = "use" /\ req[<<c, "ep">>] = "none" /\ Turn
    /\ config /\ c \in {owner, ihOwner}
    /\ Obtain(c, "ep", "use")
    /\ UNCHANGED <<st, freeMe, detach, address, config, claimVars, hubVars, activeIO, aborts, overtaken, prompt>>

-----------------------------------------------------------------------------
(* Requests: BeginIO(), AbortIO(), and the HCD task's part *)

Idle(c) == \A e \in {"cep", "ep"} : req[<<c, e>>] \notin {"port", "hcd"}

\* BeginIO(): a request of a function that goes is given back at once ...
Send(c, e) ==
    /\ pc[c] = "use" /\ <<c, e>> \in Sent /\ req[<<c, e>>] = "user" /\ Usable /\ Turn
    /\ req' = [req EXCEPT ![<<c, e>>] = "tested"]
    /\ Step(c, "begin")
    /\ UNCHANGED <<fnVars, claimVars, hubVars, has, activeIO, aborts, overtaken, prompt>>

\* ... and one of another is put in the begin port: nothing is held from the test on.
Put(c, e) ==
    /\ pc[c] = "begin" /\ req[<<c, e>>] = "tested" /\ Turn
    /\ req' = [req EXCEPT ![<<c, e>>] = "port"]
    /\ overtaken' = IF Usable THEN overtaken ELSE overtaken \cup {<<c, e>>}
    /\ Step(c, "use")
    /\ UNCHANGED <<fnVars, claimVars, hubVars, has, activeIO, aborts, prompt>>

\* __myHandle_Begin(): only fkt_Detach is looked at.  A request that was freed in the port is
\* not valid.
HandleBegin(q) ==
    /\ \/ /\ req[q] = "port"
          /\ IF detach THEN req' = [req EXCEPT ![q] = "user"] /\ UNCHANGED activeIO
                       ELSE req' = [req EXCEPT ![q] = "hcd"] /\ activeIO' = activeIO + 1
       \/ /\ req[q] = "dangling"
          /\ req' = [req EXCEPT ![q] = "freed"] /\ UNCHANGED activeIO
    /\ UNCHANGED <<fnVars, claimVars, hubVars, clientVars, aborts, overtaken, prompt>>

\* HCD_REPLY() holds usb_LockSemaphore from ReplyMsg() to the request's last use.
Replied(q) ==
    /\ req' = [req EXCEPT ![q] = "user"]
    /\ activeIO' = activeIO - 1

Finish(q) ==
    /\ req[q] = "hcd" /\ Replied(q)
    /\ UNCHANGED <<fnVars, claimVars, hubVars, clientVars, aborts, overtaken, prompt>>

\* __myHandle_Abort(): what the message has locked is unlocked again.
HandleAbort(q) ==
    /\ q \in aborts
    /\ aborts' = aborts \ {q}
    /\ locks' = Unlocked(locks, {"fn", "hn"})
    /\ IF req[q] = "hcd" THEN Replied(q) ELSE UNCHANGED <<req, activeIO>>
    /\ UNCHANGED <<st, freeMe, detach, address, config, claimVars, hubVars, clientVars, overtaken, prompt>>

-----------------------------------------------------------------------------
(* Giving resources back: ENDPOINTRES_RELEASE(), REGISTER_UNREGISTER() *)

UsersState == {"user", "port"}

\* IO_STOP(): AbortIO() locks request, function and hn for its message, unless the request is
\* its user's; WaitIO() waits for the answer.
Stop(c, e) ==
    /\ pc[c] \in {"close", "release"} /\ e \in has[c] /\ Turn
    /\ pc[c] = "release" => e = "ep"
    /\ req[<<c, e>>] = "hcd" /\ <<c, e>> \notin aborts
    /\ aborts' = aborts \cup {<<c, e>>}
    /\ locks' = Locked(locks, {"fn", "hn"})
    /\ UNCHANGED <<st, freeMe, detach, address, config, claimVars, hubVars, clientVars, req, activeIO, overtaken, prompt>>

\* Variant: IORequest_Free() leaves the function locked.
Kept(e) == {e}

Pointed(e) == {e, "fn"}

\* __Release() of a resource, its request not in the HCD task's hands: IOREQUEST_FREE() refuses a
\* request that an abort message has locked, which is forgotten; one in the begin port looks like
\* its user's, and is freed.
Freed(c, e) ==
    LET q == <<c, e>>
    IN  /\ req[q] \in UsersState
        /\ IF q \in aborts
           THEN /\ req' = [req EXCEPT ![q] = "lost"]
                /\ UNCHANGED locks
           ELSE /\ req' = [req EXCEPT ![q] = IF @ # "user" THEN "dangling" ELSE "freed"]
                /\ locks' = Unlocked(locks, Pointed(e))
        /\ has' = [has EXCEPT ![c] = @ \ {e}]

\* ENDPOINTRES_RELEASE() by the driver, before it ends.
Release(c) ==
    /\ pc[c] = "use" /\ c \in Driver /\ "ep" \in has[c]
    /\ Step(c, "release")
    /\ UNCHANGED <<fnVars, claimVars, hubVars, has, ioVars, prompt>>

Released(c) ==
    /\ pc[c] = "release" /\ Turn /\ Freed(c, "ep") /\ Step(c, "use")
    /\ UNCHANGED <<st, freeMe, detach, address, config, claimVars, hubVars, activeIO, aborts, overtaken, prompt>>

ClaimBack(c) ==
    IF Target(c) = "fn"
    THEN owner' = none /\ UNCHANGED <<ihOwner, claims>>
    ELSE ihOwner' = none /\ claims' = claims - 1 /\ UNCHANGED owner

\* REGISTER_UNREGISTER(): the resources one by one ...
CloseResource(c, e) ==
    /\ pc[c] = "close" /\ e \in has[c] /\ Turn /\ Freed(c, e)
    /\ UNCHANGED <<pc, st, freeMe, detach, address, config, claimVars, hubVars, activeIO, aborts, overtaken, prompt>>

\* ... then the claim, the function and the interface.
Unregister(c) ==
    /\ pc[c] = "close" /\ has[c] \cap {"cep", "ep"} = {} /\ Turn
    /\ LET l == IF "claim" \in has[c] THEN Unlocked(locks, {Target(c)}) ELSE locks
       IN  locks' = Unlocked(l, has[c] \cap {"fn", "ih"})
    /\ IF "claim" \in has[c] THEN ClaimBack(c) ELSE UNCHANGED claimVars
    /\ has' = [has EXCEPT ![c] = {}]
    /\ Step(c, IF c = init THEN "gone" ELSE "ended")
    /\ UNCHANGED <<st, freeMe, detach, address, config, hubVars, ioVars, prompt>>

\* The task has ended, and the Master frees its DriverNode.
FreeDriver(c) ==
    /\ pc[c] = "ended" /\ Turn
    /\ locks' = Unlocked(locks, {"fn", "hn"})
    /\ Step(c, "gone")
    /\ UNCHANGED <<st, freeMe, detach, address, config, claimVars, hubVars, has, ioVars, prompt>>

-----------------------------------------------------------------------------
(* The task of FUNCTION_INIT(): __myMain() of Function_Init *)

AllocConfig(s)    == Made(s, "cn")
AllocGroup(s)     == Made(s, "ig")
AllocHeader(s)    == Made(s, "ih")
AllocInterface(s) == Made(s, "in")
AllocEndPoint(s)  == Made(s, "ep")

\* CONFIG_PARSE(): the chain is allocated from the configuration on, as far as there is memory.
Parse ==
    LET none0 == [st |-> st, locks |-> locks]
        config1 == AllocConfig(none0)
        group2 == AllocGroup(config1)
        header3 == AllocHeader(group2)
        node4 == AllocInterface(header3)
        all == AllocEndPoint(node4)
    IN  /\ pc[init] = "use" /\ Idle(init) /\ ~ Valid("cn") /\ Usable /\ Turn
        /\ \E s \in {none0, config1, group2, header3, node4, all} :
              /\ st' = s.st /\ locks' = s.locks
              /\ Step(init, IF s = all THEN "parsed" ELSE "close")
        /\ UNCHANGED <<freeMe, detach, address, config, claimVars, hubVars, has, ioVars, prompt>>

\* CONFIG_SET(): the device takes the configuration, and __Update() enters it.
SetConfig ==
    /\ pc[init] = "parsed" /\ Turn
    /\ \/ config' = TRUE /\ ihOwner' = none
       \/ UNCHANGED <<config, ihOwner>>
    /\ Step(init, "close")
    /\ UNCHANGED <<st, locks, freeMe, detach, address, owner, claims, hubVars, has, ioVars, prompt>>

\* A client gives up, or is told to.
Quit(c) ==
    /\ pc[c] = "use" /\ Turn /\ Step(c, "close")
    /\ UNCHANGED <<fnVars, claimVars, hubVars, has, ioVars, prompt>>

-----------------------------------------------------------------------------
HubNext ==
    \/ AddFunction \/ Initialised \/ (\E c \in Driver : BindDriver(c)) \/ Unplug \/ StopHub
    \/ FreeFunction \/ ReleaseFunction \/ CheckFunction \/ (\E q \in Request : StopServed(q))

Closing(c) ==
    \/ \E e \in {"cep", "ep"} : Stop(c, e) \/ CloseResource(c, e)
    \/ Released(c) \/ Unregister(c) \/ FreeDriver(c) \/ Quit(c)

Opening(c) ==
    LockTarget(c) \/ ClaimFunction(c) \/ ClaimInterface(c) \/ ObtainControl(c)

ClientNext(c) ==
    \/ Opening(c) \/ Closing(c) \/ ObtainEndPoint(c) \/ Release(c)
    \/ \E e \in {"cep", "ep"} : Send(c, e) \/ Put(c, e)

HCDNext == \E q \in Request : HandleBegin(q) \/ HandleAbort(q)

Next ==
    \/ HubNext \/ MasterDetach \/ HCDNext \/ (\E q \in Request : Finish(q))
    \/ (\E c \in Client : ClientNext(c)) \/ Parse \/ SetConfig

Spec == Init /\ [][Next]_vars

\* Tasks that can run do; a driver whose device is gone is stopped (TASK_STOP_FN) and closes.
Fairness ==
    /\ WF_vars(FreeFunction \/ (\E q \in Request : StopServed(q)) \/ ReleaseFunction \/ CheckFunction)
    /\ WF_vars(MasterDetach) /\ WF_vars(HCDNext)
    /\ \A c \in Driver :
          WF_vars(Opening(c) \/ (\E e \in {"cep", "ep"} : Put(c, e)) \/ (detach /\ Closing(c)))

LiveSpec == Spec /\ Fairness

-----------------------------------------------------------------------------
(* Properties *)

One(condition) == IF condition THEN 1 ELSE 0
Alive(q)       == req[q] \in {"user", "tested", "port", "hcd", "lost"}
DriverNodes    == {c \in Driver : pc[c] \notin {"none", "gone"}}

\* What refers to an object: the objects below it, requests, registers and claims, and for the
\* function and hn also DriverNodes, messages and the hub's port.
Children(o) == {p \in Object : Valid(p) /\ o \in Parents(p)}
Requests(o) == {q \in Request : Alive(q) /\ (EndPoint(q) = o \/ o = "fn")}
Holders(o)  == {c \in Client : o \in has[c] /\ o \in {"fn", "ih"}}
Claimers(o) == {c \in Client : "claim" \in has[c] /\ Target(c) = o}

References(o) ==
    Cardinality(Children(o)) + Cardinality(Requests(o))
    + Cardinality(Holders(o)) + Cardinality(Claimers(o))
    + (IF o \in {"fn", "hn"} THEN Cardinality(DriverNodes) + Cardinality(aborts) ELSE 0)
    + One(o = "fn" /\ own) + One(o = "fn" /\ message)

\* Each object is locked exactly as often as something refers to it: nothing is freed under its
\* user, and nothing stays for nobody (the Lock.c, Unlock.c and Free.c of each kind).
LocksExact == \A o \in Object : IF Valid(o) THEN locks[o] = References(o) ELSE References(o) = 0

\* A request is never freed while the HCD task has it, nor forgotten (EndPointRes/Free.c), if the
\* HCD task is prompt.
RequestsKept == prompt => \A q \in Request : req[q] \notin {"dangling", "lost"}

\* A request is served only for a function that has its address, and keeps it meanwhile
\* (Function/Free.c's test of fkt_ActiveIOReq), if the HCD task is prompt; but for a request that
\* BeginIO() put in the port after the function had been taken out of use, which its test of
\* fkt_FreeMe came too early for.  Even that is not served once the device was unplugged.
AddressHeld ==
    prompt => \A q \in Request : req[q] = "hcd" => address \/ (q \in overtaken /\ ~ detach)

\* A function and one of its interfaces never belong to different registers, and a claim is
\* known to the one that holds it (Function/Claim.c, Interface/Header_Claim.c, Register/Free.c).
ClaimsAgree ==
    /\ claims = One(ihOwner # none)
    /\ owner # none /\ ihOwner # none => owner = ihOwner
    /\ \A c \in Client : ("claim" \in has[c]) = (c \in {owner, ihOwner})

\* A function whose device was unplugged is freed in the end, once its drivers have closed: if
\* the HCD task is prompt, so that no request was lost (HUB_Main__Free_FNs).
Freeing == detach ~> (st["fn"] = "freed" \/ ~ prompt)

\* Locks and claims are those of the objects and tasks that refer to an object.
LocksAgree == TypeOK /\ LocksExact /\ ClaimsAgree

\* What a request in the HCD task needs is kept for it: the request, and the device's address.
KeptWhileServed == RequestsKept /\ AddressHeld

-----------------------------------------------------------------------------
(* The inductive invariants behind them *)

\* What is not in use has no locks at all, and nothing refers to it.
Exact ==
    \A o \in Object : locks[o] = References(o) /\ (~ Valid(o) => References(o) = 0)

\* Where the hub's task is tells what there is of the function, and who can use it.
HubPlace ==
    /\ Valid("hn") /\ (hub = "add" => ~ Valid("fn") /\ ~ freeMe)
    /\ hub = "init" => Valid("fn")
    /\ own = (hub = "up")
    /\ message => hub \notin {"add", "init", "up"}
    /\ hub = "add" => \A c \in Client : pc[c] = "none"

\* What a register has, and its requests, by where its client is.
ClientAt(c) ==
    /\ pc[c] \in {"none", "start", "ended", "gone"} => has[c] = {}
    /\ pc[c] = "claim" => has[c] = {"fn", Target(c)}
    /\ pc[c] \in {"obtain", "use", "begin", "parsed", "release"} => "claim" \in has[c]
    /\ pc[c] \in {"none", "start", "claim", "obtain"} =>
          \A e \in {"cep", "ep"} : req[<<c, e>>] = "none"
    /\ \A e \in {"cep", "ep"} : req[<<c, e>>] = "tested" => pc[c] = "begin"
    /\ \E e \in {"cep", "ep"} : req[<<c, e>>] # "tested"

\* The owner of the function, and that of the interface, are registers of the right kind.
ClientPlace ==
    /\ \A c \in Client : ClientAt(c)
    /\ pc[init] # "ended" /\ \A c \in Driver : pc[c] # "parsed"
    /\ owner # none => Target(owner) = "fn"
    /\ ihOwner # none => Target(ihOwner) = "ih"

InHCD == {q \in Request : req[q] = "hcd"}

LocksInvariant ==
    /\ TypeOK /\ Exact /\ ClaimsAgree /\ HubPlace /\ ClientPlace
    /\ activeIO = Cardinality(InHCD)

\* With LocksInvariant, what keeps the address: a request is put in the port only while the
\* function has its address and is not being freed, or is overtaken, and the HCD task has none
\* when the address is given back.
ServedInvariant ==
    /\ ~ address /\ ~ freeMe => \A c \in Client : pc[c] = "none"
    /\ hub \in {"init", "up"} => address
    /\ hub \in {"release", "dropRelease", "check", "dropCheck"} => freeMe
    /\ freeMe \/ detach \/ overtaken # {} => hub \notin {"add", "init", "up"}
    /\ prompt =>
         \A q \in Request :
            /\ req[q] \notin {"dangling", "lost"}
            /\ req[q] \in {"port", "hcd"} =>
                  (address /\ hub \notin {"release", "dropRelease"}) \/ q \in overtaken
            /\ q \in overtaken /\ detach => req[q] # "hcd"
=============================================================================
