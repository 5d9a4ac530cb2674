------------------------------ MODULE TaskControl ------------------------------
(***************************************************************************)
(* How the stack starts, stops and frees its tasks (Stack/Master, Task,       *)
(* TaskMsg, Driver, Function_Bind, HCD and Misc/ASync).                       *)
(*                                                                         *)
(* Every task is started and stopped by the Master, on commands that callers  *)
(* send with MISC_DOCOMMAND() and wait for.  A task has a TaskNode, which is  *)
(* locked by the messages about it and by its DriverNode, counted by an       *)
(* ASync, and freed by the Master's sweep once the task has ended.  The       *)
(* instance is that of one controller: the application (ROMInit and ROMExit)  *)
(* starts the HCD task and binds the root hub's driver, and the hub's task    *)
(* binds a class driver to what is plugged into its port.                     *)
(***************************************************************************)
EXTENDS Integers, Sequences, FiniteSets

CONSTANTS
    app,            \* the task that opens and expunges the device
    master,         \* usb_Master_Task
    hcd,            \* the controller's HCD task
    hub,            \* the driver of its root hub
    Class,          \* the drivers of the devices plugged in, one after the other
    none,
    CreateFails,    \* BOOLEAN: the Master may fail to create a task
    InitFails,      \* BOOLEAN: the HCD task and the hub driver may fail to start up
    DriversEndEarly,\* BOOLEAN: a class driver may end before its DriverNode is linked
    StopsOvertake,  \* BOOLEAN: a stop may come between a task's answer to its starter and
                    \* its next statement
    Fullboots       \* BOOLEAN: DOS comes up after the stack (Device/Fullboot.c)

ASSUME TaskControlAssumption ==
    /\ app \notin {master, hcd, hub, none} /\ master \notin {hcd, hub, none}
    /\ hcd \notin {hub, none} /\ hub # none
    /\ {app, master, hcd, hub, none} \cap Class = {}
    /\ IsFiniteSet(Class)
    /\ {CreateFails, InitFails, DriversEndEarly, StopsOvertake, Fullboots} \subseteq BOOLEAN

Driver == {hub} \cup Class
Task   == {hcd} \cup Driver
Proc   == {app, master} \cup Task

\* The ASync a task is counted by: usb_HCDASync, hn_HUB_ASync, the hub's ASync_Drivers.
Groups   == {"HCD", "HUB", "Drivers"}
Group(t) == IF t = hcd THEN "HCD" ELSE IF t = hub THEN "HUB" ELSE "Drivers"

\* Who starts a task with TASK_START().
Starter(t) == IF t \in Class THEN hub ELSE app

VARIABLES
    pc,       \* where each task is
    arg,      \* the task a caller is starting or stopping
    tn,       \* the TaskNodes
    dn,       \* the DriverNodes
    kept,     \* Shutdown_TM_List: the stop messages about a task that the Master keeps
    keep,     \* tm_Keep of a caller's stop message
    result,   \* cm_Result of its start message
    queue,    \* Cmd_MsgPort
    sig,      \* the signals each task has
    mask,     \* those the Master has taken and still handles
    mode,     \* the Master is a "task", or a "process"
    stopping, \* in->Stopping
    count,    \* ua_Counter of each ASync
    bind,     \* the owner of usb_Bind_Semaphore
    fdriver,  \* the owner of usb_FDriver_Semaphore
    port,     \* the driver of the device in the hub's port
    root,     \* the root hub's function
    booted    \* Fullboot has signalled the Master

callVars == <<arg, keep, result>>
nodeVars == <<tn, dn, count>>
mastVars == <<kept, mask, mode, stopping>>
lockVars == <<bind, fdriver>>
vars == <<pc, callVars, nodeVars, mastVars, lockVars, queue, sig, port, root, booted>>

NoParent == <<none, "none">>
Awaited  == <<master, "ended">>     \* a stop message is kept until the task has ended
Lost     == <<none, "lost">>        \* NoParent, overwriting Awaited
NoNode   == [st |-> "none", adr |-> FALSE, locks |-> 0, parent |-> NoParent, listed |-> FALSE]
NoDriver == [st |-> "none", locks |-> 0, freeMe |-> FALSE, task |-> FALSE, ok |-> FALSE]

\* A node that has been allocated and not freed.
Alive(n) == n.st \notin {"none", "freed"}

\* Where the tasks are: in calls of the Master, starting, running, ending.
Binds       == {"awaitStart", "awaitDriver", "link", "list", "drop"}
AppLabels   == {"startHCD", "bind", "up", "exit", "awaitStop", "waitHCD", "waitMaster", "gone"} \cup Binds
Starts      == {"init", "announce", "initFailed"}
Ends        == {"freeRoot", "remove", "freeMisc", "finish"}
Early       == {"forget", "lock"}
HUBMain     == {"main", "bind", "awaitStop", "stopping", "parked"} \cup Binds
Locking(d)  == {"unlock"} \cup IF d = hub THEN {"setup"} \cup HUBMain ELSE {"main"}
LabelsOf(t) ==
    {"none", "entry", "dead"} \cup
    IF t = hcd THEN Starts \cup {"forget", "main", "awaitStop", "stopping", "end"} \cup Ends
    ELSE {"announce", "end", "finish"} \cup Early \cup Locking(t)
Labels ==
    AppLabels \cup {"wait", "handle", "none", "entry", "dead", "end", "unlock", "setup"}
    \cup HUBMain \cup Starts \cup Early \cup Ends

TaskNode   == [st : {"none", "unset", "starting", "running", "stopping", "stopped", "freed"},
               adr : BOOLEAN, locks : Nat, listed : BOOLEAN,
               parent : ({none} \cup Proc) \X {"none", "reply", "ended", "lost"}]
DriverNode == [st : {"none", "alloc", "listed", "freed"}, locks : 0 .. 2,
               freeMe : BOOLEAN, task : BOOLEAN, ok : BOOLEAN]
Signals    == {"C", "D", "E", "F", "reply", "ended", "cmd", "tick"}
Commands   == [op : {"start", "stop"}, by : {app, hub, hcd}, of : Task]

TypeOK ==
    /\ pc \in [Proc -> Labels] /\ pc[app] \in AppLabels /\ pc[master] \in {"wait", "handle", "dead"}
    /\ \A t \in Task : pc[t] \in LabelsOf(t)
    /\ arg \in [Proc -> Task \cup {none}] /\ keep \in [Proc -> BOOLEAN] /\ result \in [Proc -> BOOLEAN]
    /\ tn \in [Task -> TaskNode] /\ dn \in [Driver -> DriverNode] /\ kept \in [Task -> Nat]
    /\ queue \in Seq(Commands) /\ sig \in [Proc -> SUBSET Signals] /\ mask \subseteq Signals
    /\ mode \in {"task", "process"} /\ stopping \in BOOLEAN /\ booted \in BOOLEAN
    /\ count \in [Groups -> Nat]
    /\ bind \in Proc \cup {none} /\ fdriver \in Proc \cup {none}
    /\ port \in Class \cup {none} /\ root \in {"none", "used", "freed"}

Init ==
    /\ pc = [p \in Proc |-> IF p = app THEN "startHCD" ELSE IF p = master THEN "wait" ELSE "none"]
    /\ arg = [p \in Proc |-> none]
    /\ tn = [t \in Task |-> NoNode] /\ dn = [d \in Driver |-> NoDriver]
    /\ kept = [t \in Task |-> 0]
    /\ keep = [p \in Proc |-> FALSE] /\ result = [p \in Proc |-> FALSE]
    /\ queue = <<>> /\ sig = [p \in Proc |-> {}] /\ mask = {}
    /\ mode \in {"task", "process"} /\ stopping = FALSE
    /\ count = [g \in Groups |-> 0]
    /\ bind = none /\ fdriver = none /\ port = none /\ root = "none" /\ booted = FALSE

GoTo(p, label)  == pc' = [pc EXCEPT ![p] = label]
With(s, p, bit) == IF p = none THEN s ELSE [s EXCEPT ![p] = @ \cup {bit}]

\* TASK_UNLOCK(), n times.
Unlocked(nodes, t, n) == [nodes EXCEPT ![t].locks = @ - n]

-----------------------------------------------------------------------------
(* Sending a command: MISC_DOCOMMAND() *)

SendCommand(p, op, t, label) ==
    /\ queue' = Append(queue, [op |-> op, by |-> p, of |-> t])
    /\ sig' = With([sig EXCEPT ![p] = @ \ {"reply"}], master, "cmd")
    /\ arg' = [arg EXCEPT ![p] = t]
    /\ keep' = [keep EXCEPT ![p] = FALSE] /\ result' = [result EXCEPT ![p] = FALSE]
    /\ GoTo(p, label)

Answered(p) == "reply" \in sig[p]
TakeAnswer(p) == sig' = [sig EXCEPT ![p] = @ \ {"reply"}]

\* HCD_CONTROLLERS_START(), up to TASK_START().
StartHCD ==
    /\ pc[app] = "startHCD" /\ SendCommand(app, "start", hcd, "awaitStart")
    /\ UNCHANGED <<nodeVars, mastVars, lockVars, port, root, booted>>

\* TASK_START() returns: it frees the message, whose lock the TaskNode loses.
Started(p) ==
    LET t == arg[p]
        next == IF t = hcd THEN IF result[p] THEN "bind" ELSE "exit"
                ELSE IF ~ result[p] THEN "drop"
                ELSE IF t = hub THEN "awaitDriver" ELSE "link"
    IN  /\ pc[p] = "awaitStart" /\ Answered(p)
        /\ TakeAnswer(p)
        /\ tn' = IF Alive(tn[t]) THEN Unlocked(tn, t, 1) ELSE tn
        /\ arg' = IF next = "bind" THEN [arg EXCEPT ![p] = hub] ELSE arg
        /\ GoTo(p, next)
        /\ UNCHANGED <<dn, count, keep, result, mastVars, lockVars, queue, port, root, booted>>

-----------------------------------------------------------------------------
(* Binding a driver: FUNCTION_BIND(), under usb_FDriver_Semaphore *)

\* _Start_Function() and _Start_Interface(), up to TASK_START().
Bind(p) ==
    LET d == arg[p]
    IN  /\ pc[p] = "bind" /\ fdriver = none
        /\ fdriver' = p
        /\ dn' = [dn EXCEPT ![d] = [NoDriver EXCEPT !.st = "alloc"]]
        /\ SendCommand(p, "start", d, "awaitStart")
        /\ UNCHANGED <<tn, count, mastVars, bind, port, root, booted>>

\* The root hub's binder waits for the driver, which sends CTRL_E when it has set up or ended.
DriverReady ==
    /\ pc[app] = "awaitDriver" /\ "E" \in sig[app]
    /\ sig' = [sig EXCEPT ![app] = @ \ {"E"}]
    /\ GoTo(app, IF dn[hub].ok THEN "link" ELSE "drop")
    /\ UNCHANGED <<callVars, nodeVars, mastVars, lockVars, queue, port, root, booted>>

\* TASK_LOCK(tn) succeeds for a node that is still there; tn_Owner and dn_Task are set
\* whether it does or not.
Link(p) ==
    LET d == arg[p]
    IN  /\ pc[p] = "link"
        /\ tn' = IF Alive(tn[d]) THEN [tn EXCEPT ![d].locks = @ + 1] ELSE tn
        /\ dn' = [dn EXCEPT ![d].task = TRUE]
        /\ GoTo(p, "list")
        /\ UNCHANGED <<callVars, count, mastVars, lockVars, queue, sig, port, root, booted>>

\* The DriverNode goes to usb_Bind_Header, and FUNCTION_BIND() ends.
List(p) ==
    /\ pc[p] = "list" /\ bind = none
    /\ dn' = [dn EXCEPT ![arg[p]].st = "listed"]
    /\ fdriver' = none
    /\ GoTo(p, IF p = app THEN "up" ELSE "main")
    /\ UNCHANGED <<callVars, tn, count, mastVars, bind, queue, sig, port, root, booted>>

\* The driver did not start: DRIVER_FREE(), or the Master's list while the driver has it locked.
\* Without a driver for its root hub the controller is given up.
Dropped(p) ==
    LET d == arg[p] IN
    /\ pc[p] = "drop"
    /\ dn[d].locks > 0 => bind = none
    /\ dn' = [dn EXCEPT ![d].freeMe = TRUE, ![d].st = IF dn[d].locks > 0 THEN "listed" ELSE "freed"]
    /\ fdriver' = none
    /\ GoTo(p, IF p = app THEN "exit" ELSE "main")
    /\ UNCHANGED <<callVars, tn, count, mastVars, bind, queue, sig, port, root, booted>>

-----------------------------------------------------------------------------
(* Stopping a task: TASK_STOP_TN() and TASK_STOP_FN() *)

\* TASK_STOP_FN() for the function of driver d: it owns usb_Bind_Semaphore until the Master has
\* answered.  TASK_STOP_DN() locks both nodes, TASK_STOP_TN() the TaskNode once more for its
\* message.  TASK_SETTLE() waits a bounded time for a task that starts or stops, and goes on.
StopFunction(p, d, skip) ==
    /\ bind = none
    /\ \/ /\ dn[d].st = "listed" /\ dn[d].task /\ Alive(tn[d])
          /\ bind' = p
          /\ dn' = [dn EXCEPT ![d].locks = @ + 1]
          /\ tn' = [tn EXCEPT ![d].locks = @ + 2]
          /\ SendCommand(p, "stop", d, "awaitStop")
       \/ /\ ~ (dn[d].st = "listed" /\ dn[d].task /\ Alive(tn[d]))
          /\ GoTo(p, skip)
          /\ UNCHANGED <<bind, dn, tn, callVars, queue, sig>>
    /\ UNCHANGED <<count, mastVars, fdriver, root, booted>>

\* Where the caller goes on: the hub's task in its loop; the HCD task waits for what it stopped.
AfterStop(p) ==
    CASE p = app -> "waitHCD"
      [] p = hub -> "main"
      [] p = hcd -> IF tn[hcd].st = "running" THEN "stopping" ELSE "remove"

Own(p) == IF keep[p] THEN 0 ELSE 1

\* The Master has answered: the message is freed unless the Master has kept it.
Stopped(p) ==
    LET t == arg[p]
    IN  /\ pc[p] = "awaitStop" /\ Answered(p)
        /\ TakeAnswer(p)
        /\ IF bind = p
           THEN /\ tn' = Unlocked(tn, t, Own(p) + 1)
                /\ dn' = [dn EXCEPT ![t].locks = @ - 1]
                /\ bind' = none
           ELSE /\ tn' = Unlocked(tn, t, Own(p))
                /\ UNCHANGED <<dn, bind>>
        /\ GoTo(p, AfterStop(p))
        /\ UNCHANGED <<callVars, count, mastVars, fdriver, queue, port, root, booted>>

-----------------------------------------------------------------------------
(* The Master's loop: __myTask_Main() and __myProcess_Main() *)

MayExit == mode = "task" /\ stopping /\ (\A t \in Task : kept[t] = 0) /\ count["HCD"] = 0

MasterWaits ==
    /\ pc[master] = "wait" /\ ~ MayExit /\ sig[master] # {}
    /\ mask' = sig[master] /\ sig' = [sig EXCEPT ![master] = {}]
    /\ GoTo(master, "handle")
    /\ UNCHANGED <<callVars, nodeVars, lockVars, kept, mode, stopping, queue, port, root, booted>>

\* The task ends; __Master_Shutdown() waits for its CTRL_F.
MasterExits ==
    /\ pc[master] = "wait" /\ MayExit
    /\ sig' = With(sig, app, "F")
    /\ GoTo(master, "dead")
    /\ UNCHANGED <<callVars, nodeVars, mastVars, lockVars, queue, port, root, booted>>

\* The handlers run in this order, and each for the signals of one Wait().
Handlers == <<"C", "D", "E", "tick", "ended", "cmd">>
Handles(bit) ==
    /\ pc[master] = "handle" /\ bit \in mask
    /\ \E i \in 1 .. 6 : Handlers[i] = bit /\ \A j \in 1 .. i - 1 : Handlers[j] \notin mask
Done(bit) ==
    /\ mask' = mask \ {bit}
    /\ GoTo(master, IF mask = {bit} THEN "wait" ELSE "handle")

\* CTRL_C: only __Master_Shutdown() sets tn_Parent; a process has nothing for it.
HandleStop ==
    /\ Handles("C") /\ Done("C")
    /\ stopping' = (stopping \/ mode = "task")
    /\ UNCHANGED <<callVars, nodeVars, lockVars, kept, mode, queue, sig, port, root, booted>>

FreeableDriver(d) == dn[d].st = "listed" /\ dn[d].freeMe /\ dn[d].locks = 0

\* Variant: a task's node is freed though locked.
FreeableTaskLocked(n) == n.listed /\ n.st = "stopped" /\ ~ n.adr

FreeableTask(n) == n.listed /\ n.st = "stopped" /\ ~ n.adr /\ n.locks = 0

\* myFree_DNs() and myFree_TNs(), on CTRL_D and every two seconds.
Sweep(bit) ==
    LET drivers == {d \in Driver : FreeableDriver(d)}
        nodes == [t \in Task |-> IF t \in drivers /\ dn[t].task
                                 THEN [tn[t] EXCEPT !.locks = @ - 1] ELSE tn[t]]
        tasks == {t \in Task : FreeableTask(nodes[t])}
    IN  /\ Handles(bit) /\ bind = none
        /\ dn' = [d \in Driver |-> IF d \in drivers THEN [dn[d] EXCEPT !.st = "freed"] ELSE dn[d]]
        /\ tn' = [t \in Task |-> IF t \in tasks THEN [nodes[t] EXCEPT !.st = "freed"] ELSE nodes[t]]
        /\ count' = [g \in Groups |-> count[g] - Cardinality({t \in tasks : Group(t) = g})]
        /\ Done(bit)
        /\ UNCHANGED <<callVars, lockVars, kept, mode, stopping, queue, sig, port, root, booted>>

\* __myMaster_StartPromote(): the new process takes the ports over with signals of its own, and
\* reads the drivers' directory under usb_FDriver_Semaphore.  What the old task was sent is lost.
Promote ==
    /\ Handles("E")
    /\ \/ /\ ~ stopping /\ mode = "task" /\ fdriver = none
          /\ mode' = "process" /\ mask' = {}
          /\ sig' = [sig EXCEPT ![master] = {}]
          /\ tn' = [t \in Task |-> IF tn[t].parent[1] = master
                                   THEN [tn[t] EXCEPT !.parent = Lost] ELSE tn[t]]
          /\ GoTo(master, "wait")
       \/ /\ stopping \/ mode = "process"
          /\ Done("E")
          /\ UNCHANGED <<mode, sig, tn>>
    /\ UNCHANGED <<callVars, dn, count, lockVars, kept, stopping, queue, port, root, booted>>

EndedMsgs == [t \in Task |-> IF tn[t].adr THEN 0 ELSE kept[t]]

\* myHandle_Task_Ended(): the messages about tasks that are gone are freed.
HandleEnded ==
    /\ Handles("ended") /\ Done("ended")
    /\ tn' = [t \in Task |-> [tn[t] EXCEPT !.locks = @ - EndedMsgs[t]]]
    /\ kept' = [t \in Task |-> kept[t] - EndedMsgs[t]]
    /\ sig' = IF \E t \in Task : EndedMsgs[t] > 0 THEN With(sig, master, "D") ELSE sig
    /\ UNCHANGED <<callVars, dn, count, lockVars, mode, stopping, queue, port, root, booted>>

\* myHandle_Cmds() takes messages until there is none.
NoCommand ==
    /\ Handles("cmd") /\ queue = <<>> /\ Done("cmd")
    /\ UNCHANGED <<callVars, nodeVars, lockVars, kept, mode, stopping, queue, sig, port, root, booted>>

\* __Cmd_Start_Process(): the node is locked for the message before the task is created; when
\* that fails it is too locked to be freed, and is not in usb_Task_Header either.
StartTask ==
    LET m == Head(queue)
        node == [NoNode EXCEPT !.st = "unset", !.locks = 1]
    IN  /\ Handles("cmd") /\ queue # <<>> /\ m.op = "start"
        /\ queue' = Tail(queue)
        /\ \/ /\ ~ stopping
              /\ tn' = [tn EXCEPT ![m.of] = [node EXCEPT !.listed = TRUE]]
              /\ count' = [count EXCEPT ![Group(m.of)] = @ + 1]
              /\ GoTo(m.of, "entry")
              /\ UNCHANGED sig
           \/ /\ ~ stopping /\ CreateFails
              /\ tn' = [tn EXCEPT ![m.of] = node]
              /\ count' = [count EXCEPT ![Group(m.of)] = @ + 1]
              /\ sig' = With(sig, m.by, "reply")
              /\ UNCHANGED pc
           \/ /\ stopping
              /\ sig' = With(sig, m.by, "reply")
              /\ UNCHANGED <<tn, count, pc>>
        /\ UNCHANGED <<callVars, dn, lockVars, mastVars, port, root, booted>>

\* Variant: the task is signalled, and its parent is not changed.
ParentKept(t) == tn[t].parent

ParentOnStop(t) == Awaited

\* __Cmd_Stop_Process(): a task that runs is sent CTRL_C, and the message kept until it has
\* ended.  A timer of 30 s, then 5 s, goes with it; it is only ever restarted.
StopTask ==
    LET m == Head(queue) IN
    /\ Handles("cmd") /\ queue # <<>> /\ m.op = "stop"
    /\ queue' = Tail(queue)
    /\ IF tn[m.of].adr
       THEN /\ tn' = [tn EXCEPT ![m.of].parent = ParentOnStop(m.of)]
            /\ sig' = With(With(sig, m.of, "C"), m.by, "reply")
            /\ kept' = [kept EXCEPT ![m.of] = @ + 1]
            /\ keep' = [keep EXCEPT ![m.by] = TRUE]
       ELSE /\ sig' = With(sig, m.by, "reply")
            /\ UNCHANGED <<tn, kept, keep>>
    /\ UNCHANGED <<pc, arg, result, dn, count, mask, mode, stopping, lockVars, port, root, booted>>

-----------------------------------------------------------------------------
(* The life of a task: CmdStart_Entry() *)

EntryCounted(t) == [count EXCEPT ![Group(t)] = @ + 1]

\* The HCD task's node is locked for hn_Task.
Entry(t) ==
    /\ pc[t] = "entry"
    /\ count' = EntryCounted(t)
    /\ tn' = [tn EXCEPT ![t].st = "starting", ![t].parent = <<Starter(t), "reply">>,
                        ![t].locks = IF t = hcd THEN @ + 1 ELSE @]
    /\ GoTo(t, IF t = hcd THEN "init" ELSE "announce")
    /\ UNCHANGED <<callVars, dn, mastVars, lockVars, queue, sig, port, root, booted>>

\* __myInit() of the HCD task enters its task's address first, so that it can be stopped.
InitHCD ==
    /\ pc[hcd] = "init"
    /\ tn' = [tn EXCEPT ![hcd].adr = TRUE]
    /\ \/ root' = "used" /\ GoTo(hcd, "announce")
       \/ InitFails /\ root' \in {"none", "used"} /\ GoTo(hcd, "initFailed")
    /\ UNCHANGED <<callVars, dn, count, mastVars, lockVars, queue, sig, port, booted>>

InitFailed ==
    /\ pc[hcd] = "initFailed"
    /\ tn' = [tn EXCEPT ![hcd].adr = FALSE, ![hcd].st = "stopping"]
    /\ GoTo(hcd, "freeRoot")
    /\ UNCHANGED <<callVars, dn, count, mastVars, lockVars, queue, sig, port, root, booted>>

\* The task runs: it answers its starter, and then clears tn_Parent.
Announce(t) ==
    /\ pc[t] = "announce"
    /\ result' = [result EXCEPT ![Starter(t)] = TRUE]
    /\ tn' = [tn EXCEPT ![t].st = "running", ![t].adr = TRUE,
                        ![t].parent = IF StopsOvertake THEN @ ELSE NoParent]
    /\ sig' = With(sig, tn[t].parent[1], "reply")
    /\ GoTo(t, IF StopsOvertake THEN "forget" ELSE IF t = hcd THEN "main" ELSE "lock")
    /\ UNCHANGED <<arg, keep, dn, count, mastVars, lockVars, queue, port, root, booted>>

Forget(t) ==
    /\ pc[t] = "forget"
    /\ tn' = [tn EXCEPT ![t].parent = IF @ = Awaited THEN Lost ELSE NoParent]
    /\ GoTo(t, IF t = hcd THEN "main" ELSE "lock")
    /\ UNCHANGED <<callVars, dn, count, mastVars, lockVars, queue, sig, port, root, booted>>

\* main() has returned: the task has no address any more, and its free() runs.
End(t) ==
    /\ pc[t] = "end"
    /\ tn' = [tn EXCEPT ![t].st = "stopping", ![t].adr = FALSE]
    /\ GoTo(t, IF t = hcd THEN "freeRoot" ELSE "finish")
    /\ UNCHANGED <<callVars, dn, count, mastVars, lockVars, queue, sig, port, root, booted>>

\* Under Disable(): ASYNC_SUB(), TASK_UNLOCK() of the HCD's node, the signals to parent and Master.
Finish(t) ==
    LET to == tn[t].parent IN
    /\ pc[t] = "finish"
    /\ count' = [count EXCEPT ![Group(t)] = @ - 1]
    /\ tn' = [tn EXCEPT ![t].st = "stopped", ![t].locks = IF t = hcd THEN @ - 1 ELSE @]
    /\ sig' = With(IF to \in {NoParent, Lost} THEN sig ELSE With(sig, to[1], to[2]), master, "D")
    /\ GoTo(t, "dead")
    /\ UNCHANGED <<callVars, dn, mastVars, lockVars, queue, port, root, booted>>

-----------------------------------------------------------------------------
(* The HCD task: __myMain() and __myFree() *)

\* __Normal() ends with CTRL_C, and __Signal() stops the root hub's driver.
StopHUB ==
    /\ pc[hcd] = "main" /\ "C" \in sig[hcd]
    /\ StopFunction(hcd, hub, "stopping")
    /\ UNCHANGED <<port>>

\* __Stopping() serves requests until hn_HUB_ASync is 0; __Shutdown() frees the function
\* unless a DriverNode still has it locked.
InUse(d) == dn[d].st \in {"alloc", "listed"}

RootFreed == IF root = "used" /\ ~ InUse(hub) THEN "freed" ELSE root

HUBGone ==
    /\ pc[hcd] = "stopping" /\ count["HUB"] = 0
    /\ root' = RootFreed
    /\ GoTo(hcd, "end")
    /\ UNCHANGED <<callVars, nodeVars, mastVars, lockVars, queue, sig, port, booted>>

\* __Free_3_Rem_HUB(): TASK_STOP_FN() once more for a function that is still there.
FreeRoot ==
    /\ pc[hcd] = "freeRoot"
    /\ \/ /\ root = "used"
          /\ StopFunction(hcd, hub, "remove")
       \/ /\ root # "used"
          /\ GoTo(hcd, "remove")
          /\ UNCHANGED <<callVars, nodeVars, mastVars, lockVars, queue, sig, root, booted>>
    /\ UNCHANGED <<port>>

RemoveRoot ==
    /\ pc[hcd] = "remove"
    /\ root' = RootFreed
    /\ GoTo(hcd, "freeMisc")
    /\ UNCHANGED <<callVars, nodeVars, mastVars, lockVars, queue, sig, port, booted>>

\* __Free_3_Misc(): after ASYNC_WAIT() the ports and arrays of the controller are freed.
FreeMisc ==
    /\ pc[hcd] = "freeMisc" /\ count["HUB"] = 0
    /\ GoTo(hcd, "finish")
    /\ UNCHANGED <<callVars, nodeVars, mastVars, lockVars, queue, sig, port, root, booted>>

-----------------------------------------------------------------------------
(* The drivers: __myFKT_Entry() and __myIFC_Entry() *)

LockDriver(d) ==
    /\ pc[d] = "lock"
    /\ dn' = [dn EXCEPT ![d].locks = @ + 1]
    /\ GoTo(d, IF d = hub THEN "setup" ELSE "main")
    /\ UNCHANGED <<callVars, tn, count, mastVars, lockVars, queue, sig, port, root, booted>>

\* The root hub's driver answers its binder when it has set up, or has failed to.
SetupHUB ==
    /\ pc[hub] = "setup"
    /\ \/ dn' = [dn EXCEPT ![hub].ok = TRUE] /\ GoTo(hub, "main")
       \/ /\ InitFails
          /\ dn' = [dn EXCEPT ![hub].freeMe = TRUE] /\ GoTo(hub, "unlock")
    /\ sig' = With(sig, app, "E")
    /\ UNCHANGED <<callVars, tn, count, mastVars, lockVars, queue, port, root, booted>>

HubRuns == pc[hub] = "main" /\ "C" \notin sig[hub]

\* HUB__Port_Chg(): the device that was there is removed, and a new one is bound.
Plug(d) ==
    /\ HubRuns /\ port = none /\ dn[d].st = "none" /\ tn[d].st = "none"
    /\ port' = d
    /\ arg' = [arg EXCEPT ![hub] = d]
    /\ GoTo(hub, "bind")
    /\ UNCHANGED <<keep, result, nodeVars, mastVars, lockVars, queue, sig, root, booted>>

Unplug(d) ==
    /\ HubRuns /\ port = d
    /\ port' = none
    /\ StopFunction(hub, d, "main")

\* CTRL_C: HUB_Main__Stopping() frees the devices' functions and waits for their drivers, which
\* it does not tell.
StopDevices ==
    /\ pc[hub] = "main" /\ "C" \in sig[hub]
    /\ GoTo(hub, "stopping")
    /\ UNCHANGED <<callVars, nodeVars, mastVars, lockVars, queue, sig, port, root, booted>>

DriverEnds(d) ==
    /\ dn' = [dn EXCEPT ![d].freeMe = TRUE]
    /\ GoTo(d, "unlock")
    /\ UNCHANGED <<callVars, tn, count, mastVars, lockVars, queue, sig, port, root, booted>>

UnlockDriver(d) ==
    /\ pc[d] = "unlock"
    /\ dn' = [dn EXCEPT ![d].locks = @ - 1]
    /\ GoTo(d, "end")
    /\ UNCHANGED <<callVars, tn, count, mastVars, lockVars, queue, sig, port, root, booted>>

\* Variant: the driver ends without a wait.
NobodyCounts == TRUE

NobodyCounted == count["Drivers"] = 0

\* HUB_Free() frees the hub's register, and IO_STOP() waits for its interrupt request, if that
\* has not come back already: a driver that stops does not send it again.
DevicesGone ==
    /\ pc[hub] = "stopping" /\ NobodyCounted
    /\ \/ /\ GoTo(hub, "parked")
          /\ UNCHANGED <<callVars, nodeVars, mastVars, lockVars, queue, sig, port, root, booted>>
       \/ DriverEnds(hub)

\* The request waits in hn_HUB_Interrupts, where AbortIO() does not look for it: only a change of
\* a port of the root hub replies it.
PortChange ==
    /\ pc[hub] = "parked"
    /\ DriverEnds(hub)

\* A class driver ends on CTRL_C, when its device is unplugged and its requests are refused, or
\* for an error of its own.  When its hub stops, what it waits for need not come.
Gone(d) == "C" \in sig[d] \/ port # d

ClassEnds(d) ==
    /\ pc[d] = "main"
    /\ Gone(d) \/ DriversEndEarly \/ dn[d].st = "listed"
    /\ DriverEnds(d)

-----------------------------------------------------------------------------
(* ROMExit(), and the world *)

\* HCD_CONTROLLERS_STOP(): TASK_STOP_TN( hn->hn_Task ).
Exit ==
    /\ pc[app] = "exit"
    /\ \/ /\ Alive(tn[hcd]) /\ pc[hcd] \notin {"none", "entry", "dead"}
          /\ tn' = [tn EXCEPT ![hcd].locks = @ + 1]
          /\ SendCommand(app, "stop", hcd, "awaitStop")
       \/ /\ ~ (Alive(tn[hcd]) /\ pc[hcd] \notin {"none", "entry", "dead"})
          /\ GoTo(app, "waitHCD")
          /\ UNCHANGED <<callVars, tn, queue, sig>>
    /\ UNCHANGED <<dn, count, mastVars, lockVars, port, root, booted>>

\* The last user closes the device, and it is expunged.
Expunge ==
    /\ pc[app] = "up"
    /\ GoTo(app, "exit")
    /\ UNCHANGED <<callVars, nodeVars, mastVars, lockVars, queue, sig, port, root, booted>>

\* ASYNC_WAIT(); the controllers are freed; __Master_Shutdown().
ShutdownMaster ==
    /\ pc[app] = "waitHCD" /\ count["HCD"] = 0
    /\ sig' = With(sig, master, "C")
    /\ GoTo(app, "waitMaster")
    /\ UNCHANGED <<callVars, nodeVars, mastVars, lockVars, queue, port, root, booted>>

MasterGone ==
    /\ pc[app] = "waitMaster" /\ "F" \in sig[app]
    /\ GoTo(app, "gone")
    /\ UNCHANGED <<callVars, nodeVars, mastVars, lockVars, queue, sig, port, root, booted>>

\* The timer of the Master's tick.
Tick ==
    /\ pc[master] = "wait" /\ "tick" \notin sig[master]
    /\ sig' = With(sig, master, "tick")
    /\ UNCHANGED <<pc, callVars, nodeVars, mastVars, lockVars, queue, port, root, booted>>

Fullboot ==
    /\ Fullboots /\ ~ booted /\ pc[app] = "up"
    /\ booted' = TRUE /\ sig' = With(sig, master, "E")
    /\ UNCHANGED <<pc, callVars, nodeVars, mastVars, lockVars, queue, port, root>>

-----------------------------------------------------------------------------

CallerNext(p) == Started(p) \/ Bind(p) \/ Link(p) \/ List(p) \/ Dropped(p)

AppNext == StartHCD \/ DriverReady \/ CallerNext(app) \/ Stopped(app) \/ Exit
             \/ ShutdownMaster \/ MasterGone

MasterNext ==
    \/ MasterWaits \/ MasterExits \/ HandleStop \/ Sweep("D") \/ Sweep("tick") \/ Promote
    \/ HandleEnded \/ NoCommand \/ StartTask \/ StopTask

HCDNext ==
    \/ Entry(hcd) \/ InitHCD \/ InitFailed \/ Announce(hcd) \/ Forget(hcd) \/ StopHUB
    \/ Stopped(hcd) \/ HUBGone \/ End(hcd) \/ FreeRoot \/ RemoveRoot \/ FreeMisc \/ Finish(hcd)

HUBNext ==
    \/ Entry(hub) \/ Announce(hub) \/ Forget(hub) \/ LockDriver(hub) \/ SetupHUB
    \/ CallerNext(hub) \/ Stopped(hub) \/ StopDevices \/ DevicesGone
    \/ UnlockDriver(hub) \/ End(hub) \/ Finish(hub)

ClassNext(d) == Entry(d) \/ Announce(d) \/ Forget(d) \/ LockDriver(d) \/ ClassEnds(d)
                  \/ UnlockDriver(d) \/ End(d) \/ Finish(d)

World == Expunge \/ Tick \/ Fullboot \/ PortChange \/ \E d \in Class : Plug(d) \/ Unplug(d)

Next == AppNext \/ MasterNext \/ HCDNext \/ HUBNext \/ (\E d \in Class : ClassNext(d)) \/ World

Spec == Init /\ [][Next]_vars

\* Every task that can run does, in the end; the timer is fair; a driver whose device is gone
\* ends.  Nothing makes the application close the device, a device come and go, or a port of the
\* root hub change.
Fairness ==
    /\ WF_vars(AppNext) /\ WF_vars(MasterNext) /\ WF_vars(HCDNext) /\ WF_vars(HUBNext)
    /\ WF_vars(Tick)
    /\ \A d \in Class : WF_vars((pc[d] = "main" => Gone(d)) /\ ClassNext(d))

LiveSpec == Spec /\ Fairness

-----------------------------------------------------------------------------
(* Properties *)

InCall(p, t)   == arg[p] = t /\ pc[p] \in {"awaitStart", "awaitStop"}
One(condition) == IF condition THEN 1 ELSE 0

\* What holds a TaskNode: the message that starts it, a stop message on its way or kept,
\* TASK_STOP_DN(), its DriverNode, and the HCDNode.
References(t) ==
    Cardinality({p \in Proc : InCall(p, t) /\ pc[p] = "awaitStart"})
    + Cardinality({p \in Proc : InCall(p, t) /\ pc[p] = "awaitStop" /\ ~ keep[p]})
    + kept[t]
    + One(bind # none /\ InCall(bind, t) /\ pc[bind] = "awaitStop")
    + One(t # hcd /\ dn[t].task /\ InUse(t))
    + One(t = hcd /\ pc[t] \notin {"none", "entry", "dead"})

\* A TaskNode is locked exactly as often as something refers to it (Task/Lock.c, Unlock.c and
\* their callers): never freed under a user, and never kept for nobody.
LocksExact == \A t \in Task : Alive(tn[t]) => tn[t].locks = References(t)

\* Nothing refers to a TaskNode that the Master's sweep has freed (Master__Free_TNs.c).
NodeOutlivesUse == \A t \in Task : tn[t].st = "freed" => References(t) = 0

\* An ASync counts the TaskNodes and the running tasks of its group (Misc/ASync_Add.c, Sub.c).
CounterExact ==
    \A g \in Groups :
        count[g] = Cardinality({t \in Task : Group(t) = g /\ Alive(tn[t])})
                   + Cardinality({t \in Task : Group(t) = g /\ pc[t] \notin {"none", "entry", "dead"}})

\* What a task owns outlives those that use it: a hub's driver ends after the drivers of its
\* devices, the HCD task frees its arrays after the hub's driver, and the Master is shut down
\* after the HCD task, each with the TaskNodes gone too.
Over(t) == pc[t] \in {"none", "dead"} /\ ~ Alive(tn[t])
OwnerLast ==
    /\ pc[hub] \in {"end", "finish", "dead"} => \A d \in Class : Over(d)
    /\ pc[hcd] \in {"finish", "dead"} => Over(hub)
    /\ pc[app] \in {"waitMaster", "gone"} => Over(hcd)

\* The Master ends only when no task, no command and no stop message is left, and the nodes of
\* drivers and functions are freed with it (Master_Task_Main.c's condition to exit).
MasterLast ==
    pc[master] = "dead" =>
        /\ queue = <<>> /\ \A t \in Task : Over(t) /\ kept[t] = 0
        /\ root # "used" /\ \A d \in Driver : ~ InUse(d)

\* The Master waits for a semaphore whose owner waits for the Master: usb_Bind_Semaphore in its
\* sweep, or usb_FDriver_Semaphore when it is promoted (whose owner may wait for the former).
AwaitsMaster(p) == p # none /\ pc[p] \in {"awaitStart", "awaitStop"} /\ ~ Answered(p)
Embraced ==
    \/ (Handles("D") \/ Handles("tick")) /\ AwaitsMaster(bind)
    \/ /\ Handles("E") /\ fdriver # none /\ mode = "task" /\ ~ stopping
       /\ AwaitsMaster(fdriver) \/ (pc[fdriver] \in {"list", "drop"} /\ AwaitsMaster(bind))

\* What a stop or the shutdown may wait for in vain: a Master caught in the embrace, a task that
\* has forgotten that the Master waits for it, the node of a task that was never made.
Forgotten == \E t \in Task : tn[t].parent = Lost /\ kept[t] > 0
Leaked    == \E t \in Task : Alive(tn[t]) /\ tn[t].st = "unset" /\ ~ tn[t].listed
Stuck     == Embraced \/ Forgotten \/ Leaked

\* A driver that waits for its device does not learn that its hub stops.
Unaware == pc[hub] = "stopping" /\ \E d \in Class : pc[d] = "main" /\ ~ Gone(d)

\* The root hub's driver waits for a request that AbortIO() has passed over (Handle_Change.c:27-45),
\* and with it the HCD task and whoever stops that: for ever, if no port changes.
Parked == pc[hub] = "parked"

\* A task that has been told to stop ends, and the message about it is freed (_myHandle_Ended.c),
\* unless something is stuck, a driver goes on unaware, or the Master was promoted meanwhile; the
\* root hub's driver and the HCD task also may wait for ever for a change of a port.
Promoted == booted /\ mode = "process"
StopsEnd ==
    /\ \A t \in Class : kept[t] > 0 ~> (kept[t] = 0 \/ Stuck \/ Unaware \/ Promoted)
    /\ \A t \in {hub, hcd} : kept[t] > 0 ~> (kept[t] = 0 \/ Stuck \/ Unaware \/ Promoted \/ []Parked)

\* Expunging the device ends with the Master gone (Master/Shutdown.c), if the Master is a task,
\* nothing is stuck, no driver goes on unaware, and the root hub's does not wait for ever.
ShutdownEnds ==
    pc[app] = "exit" ~> (pc[app] = "gone" \/ Stuck \/ Unaware \/ mode = "process" \/ []Parked)

\* The nodes, with their types, are locked by what refers to them and freed when nothing does
\* (Task/Lock.c, Unlock.c, Master__Free_TNs.c).
NodesKept == TypeOK /\ LocksExact /\ NodeOutlivesUse

\* What others use outlives them: the counters are exact that an owner waits for, and no owner
\* ends before those it counts (Misc/ASync_Sub.c, Master_Task_Main.c).
OwnersLast == CounterExact /\ OwnerLast /\ MasterLast

\* What is told to stop ends (_myHandle_Ended.c, Master/Shutdown.c).
TasksEnd == StopsEnd /\ ShutdownEnds

-----------------------------------------------------------------------------
(* The inductive invariant behind NodesKept and OwnersLast *)

\* Who calls the Master to stop a task, and what a call is about.
Stopper(t)  == IF t = hcd THEN app ELSE IF t = hub THEN hcd ELSE hub
Starting(t) == pc[Starter(t)] = "awaitStart" /\ arg[Starter(t)] = t
Stopping(t) == pc[Stopper(t)] = "awaitStop" /\ arg[Stopper(t)] = t
Binding(d)  == pc[Starter(d)] \in Binds /\ arg[Starter(d)] = d
Queued(p)   == \E i \in DOMAIN queue : queue[i].by = p

\* The state of a TaskNode tells where its task is.
StatesAt(label) ==
    IF label = "none" THEN {"none", "unset"} ELSE IF label = "entry" THEN {"unset"}
    ELSE IF label \in Starts THEN {"starting"} ELSE IF label \in Ends THEN {"stopping"}
    ELSE IF label = "dead" THEN {"stopped", "freed"} ELSE {"running"}

\* A task that has to answer its starter, which waits for it.
ToAnswer(t) ==
    \/ pc[t] \in {"entry"} \cup Starts
    \/ pc[t] \in Ends /\ tn[t].parent = <<Starter(t), "reply">>
NodePlace(t) ==
    /\ tn[t].st \in StatesAt(pc[t])
    /\ tn[t].st = "none" => tn[t] = NoNode /\ kept[t] = 0
    /\ tn[t].listed <=> pc[t] # "none"
    /\ tn[t].adr => pc[t] \notin {"none", "entry", "dead"} \cup Ends
    /\ tn[t].parent \in {NoParent, Lost, Awaited, <<Starter(t), "reply">>}
    /\ pc[t] \in Starts => tn[t].parent = <<Starter(t), "reply">>
    /\ tn[t].parent = <<Starter(t), "reply">> =>
           pc[t] \in Starts \cup {"forget"} \/ (t = hcd /\ pc[t] \in Ends \cup {"dead"})
    /\ ToAnswer(t) => /\ Starting(t) /\ ~ Queued(Starter(t))
                      /\ ~ Answered(Starter(t)) /\ ~ result[Starter(t)]

\* References(t), where each caller has its name.
LockSum(t) ==
    One(Starting(t)) + One(Stopping(t) /\ ~ keep[Stopper(t)]) + kept[t]
    + One(Stopping(t) /\ bind = Stopper(t))
    + One(t # hcd /\ dn[t].task /\ InUse(t))
    + One(t = hcd /\ pc[t] \notin {"none", "entry", "dead"})
LockPlace(t) ==
    /\ Alive(tn[t]) => tn[t].locks = LockSum(t)
    /\ tn[t].st = "freed" => LockSum(t) = 0 /\ tn[t].locks = 0

\* A command in the port is its caller's, which waits for the answer; a start is of a new task.
Message(m) ==
    /\ arg[m.by] = m.of /\ ~ keep[m.by] /\ ~ result[m.by] /\ ~ Answered(m.by)
    /\ \/ /\ m.op = "start" /\ pc[m.by] = "awaitStart" /\ m.by = Starter(m.of)
          /\ tn[m.of] = NoNode /\ pc[m.of] = "none"
       \/ m.op = "stop" /\ pc[m.by] = "awaitStop" /\ m.by = Stopper(m.of)
QueuePlace ==
    /\ \A i \in DOMAIN queue : Message(queue[i])
    /\ \A i, j \in DOMAIN queue : queue[i].by = queue[j].by => i = j

\* A caller that has its answer has no command in the port; a result is of a task that has
\* started, none of one that never ran or has failed.
StartPlace(p) ==
    pc[p] = "awaitStart" =>
        /\ arg[p] \in Task /\ Starter(arg[p]) = p
        /\ result[p] \/ Answered(p) => ~ Queued(p)
        /\ result[p] => pc[arg[p]] \notin {"none", "entry"} \cup Starts
        /\ Answered(p) /\ ~ result[p] => pc[arg[p]] = "none" \/ (arg[p] = hcd /\ pc[hcd] = "dead")
StopPlace(p) ==
    /\ pc[p] = "awaitStop" =>
          /\ arg[p] \in Task /\ Stopper(arg[p]) = p /\ tn[arg[p]].st # "none"
          /\ ~ keep[p] => Alive(tn[arg[p]])
          /\ Answered(p) => ~ Queued(p)
          /\ p # app => /\ bind = p /\ Alive(tn[arg[p]])
                        /\ dn[arg[p]].st = "listed" /\ dn[arg[p]].task
    /\ bind = p => pc[p] = "awaitStop" /\ p # app

\* A DriverNode is in its binder's hand until it is listed or freed; its driver locks it, and
\* marks it when it ends; the TaskNode is not freed before it.
Late == {"unlock", "end", "finish", "dead"}
BinderPlace(d) ==
    /\ dn[d].st = "alloc" <=> Binding(d)
    /\ dn[d].task /\ dn[d].st = "alloc" => pc[Starter(d)] = "list"
    /\ Binding(d) /\ pc[Starter(d)] \in {"link", "list"} =>
           pc[d] \in IF d = hub THEN HUBMain \ {"stopping", "parked"} ELSE Early \cup {"main"}
    /\ Binding(d) /\ pc[Starter(d)] = "list" => dn[d].task
    /\ Binding(d) /\ pc[Starter(d)] = "drop" =>
           \/ ~ result[Starter(d)] /\ pc[d] = "none"
           \/ d = hub /\ pc[d] \in Late /\ ~ dn[d].ok
DriverPlace(d) ==
    /\ dn[d].st = "none" => dn[d] = NoDriver /\ tn[d] = NoNode /\ pc[d] = "none"
    /\ dn[d].task => tn[d].st # "none"
    /\ dn[d].st = "listed" => dn[d].task \/ (d = hub /\ pc[d] \in Late /\ ~ dn[d].ok)
    /\ dn[d].locks = One(pc[d] \in Locking(d)) + One(Stopping(d) /\ bind = Stopper(d))
    /\ pc[d] \in Locking(d) \cup Early => InUse(d)
    /\ pc[d] \in Late => dn[d].freeMe /\ (dn[d].st = "alloc" => d = hub /\ ~ dn[d].ok)
    /\ dn[d].freeMe => pc[d] \in Late \/ (pc[d] = "none" /\ dn[d].st = "freed")
    /\ dn[d].st = "freed" => dn[d].freeMe
    /\ tn[d].st = "freed" => dn[d].st \in {"alloc", "freed"}
    /\ "C" \in sig[d] => dn[d].st \in {"listed", "freed"}

\* The class drivers are the hub's while its driver runs, and one is bound for the port.
HUBPlace ==
    /\ pc[hub] \notin HUBMain \ {"parked"} => \A d \in Class : Over(d) /\ ~ InUse(d)
    /\ pc[hub] \in {"bind"} \cup Binds => arg[hub] \in Class /\ port = arg[hub]
    /\ pc[hub] = "bind" => dn[arg[hub]].st = "none"
    /\ pc[hub] \in {"stopping", "parked"} => "C" \in sig[hub]
    /\ pc[hub] \in HUBMain => dn[hub].ok
    /\ dn[hub].ok \/ "E" \in sig[app] => pc[hub] \in HUBMain \cup Late

\* The hub's driver is the HCD task's while that runs; the HCD task ends when the application
\* says so, or without having answered it.
Gave == {"awaitStop", "waitHCD", "waitMaster", "gone"}
HCDPlace ==
    /\ pc[hcd] \notin {"forget", "main", "awaitStop", "stopping"} => Over(hub) /\ ~ InUse(hub)
    /\ pc[hcd] \in {"none", "entry", "init", "end", "freeMisc", "finish", "dead"} => root # "used"
    /\ pc[hcd] \notin {"none", "entry", "init", "announce", "forget", "main"} =>
           \/ pc[app] \in Gave
           \/ pc[app] \in {"awaitStart", "exit"} /\ arg[app] = hcd /\ ~ result[app]
    /\ "C" \in sig[hcd] => pc[app] \in Gave

\* The application starts the HCD task, binds the hub's driver, and stops; the Master is shut
\* down last.
AppPlace ==
    /\ pc[app] = "startHCD" => tn[hcd] = NoNode /\ pc[hcd] = "none" /\ dn[hub].st = "none"
    /\ pc[app] = "bind" => arg[app] = hub /\ dn[hub].st = "none"
    /\ pc[app] \in Binds =>
           \/ arg[app] = hub
           \/ pc[app] = "awaitStart" /\ arg[app] = hcd /\ dn[hub].st = "none"
    /\ pc[app] \in {"awaitDriver", "link", "list"} => result[app]
    /\ pc[app] \in {"bind", "up"} \/ (pc[app] \in Binds /\ arg[app] = hub) => pc[hcd] \in {"forget", "main"}
    /\ pc[app] \in {"waitMaster", "gone"} => Over(hcd)
MasterPlace ==
    /\ stopping \/ "C" \in sig[master] \cup mask => pc[app] \in {"waitMaster", "gone"}
    /\ pc[master] = "dead" => stopping /\ \A t \in Task : kept[t] = 0

TaskInvariant ==
    /\ TypeOK /\ QueuePlace /\ CounterExact
    /\ \A t \in Task : NodePlace(t) /\ LockPlace(t)
    /\ \A p \in {app, hub, hcd} : StartPlace(p) /\ StopPlace(p)
    /\ \A d \in Driver : BinderPlace(d) /\ DriverPlace(d)
    /\ HUBPlace /\ HCDPlace /\ AppPlace /\ MasterPlace

=============================================================================
