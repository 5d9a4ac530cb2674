------------------------------- MODULE MSDDevice -------------------------------
(***************************************************************************)
(* Drivers/MSD: the units of usb3disk.device.  A task per mass storage device  *)
(* makes a disk for each of its logical units, gives it a unit number, serves   *)
(* its requests, and takes everything down when the device is gone; programs    *)
(* open, use and close the units at the same time.  What a request does with   *)
(* the medium is in MSDTransfer: here it is answered, or finds the device gone. *)
(***************************************************************************)
EXTENDS Naturals, Sequences, FiniteSets, FiniteSetsExt, Queues

CONSTANTS
    Devices,   \* struct MSDDevice, one task each
    Luns,      \* logical units a device may have, 0 first
    Single,    \* the devices that have LUN 0 only
    MaxUnits,  \* MAX_MSD_UNITS
    Clients,   \* programs that open a unit, and the mounter
    MaxCalls,  \* bound: units that each client opens and requests it sends
    TakenToo   \* the mounter may ask for a unit number that is taken

ASSUME MSDDeviceAssumption ==
    /\ Luns \subseteq Nat /\ 0 \in Luns /\ (\A n \in Luns : 0 .. n \subseteq Luns)
    /\ Single \subseteq Devices /\ MaxUnits \in Nat \ {0} /\ MaxCalls \in Nat
    /\ TakenToo \in BOOLEAN
    /\ IsFiniteSet(Devices) /\ IsFiniteSet(Clients) /\ "none" \notin Clients

Disks == Devices \X Luns
Units == 0 .. MaxUnits - 1
None == <<>>
\* "normal" and "waiting" are the two TASK_WAIT(), "serving" and "draining" what follows them.
Stages == {"off", "probe", "place", "announce", "list", "normal", "serving", "stopping", "waiting", "draining", "free", "gone"}

VARIABLES
    task,     \* stage of each device's task
    lun,      \* the LUN whose disk is made, or freed next
    last,     \* what GET MAX LUN answered
    early,    \* MSD_Device_Alloc() failed: the disks are freed without MSD_Main()
    disk,     \* struct MSDDisk: state, UnitNr, Announced, and OpenCnt
    units,    \* msdbase_MSDDisk_Units[]
    detached, \* msddev_Detached
    plugged,  \* the device is on the bus
    signals,  \* signals that wait for the task: "begin", "stop"
    port,     \* the clients whose request is in msddev_MsgPort_Begin
    client,   \* the unit it has open, its request, a request it left in a list ("parked"), and
              \* history: the task had looked at the openers for the last time when it opened
    closing,  \* the client that holds msdbase_MSDDisk_Semaphore in MSD_Manager_Close() ...
    opening,  \* ... or in MSD_Manager_Open(),
    found     \* and the disk that it has found in the unit table
vars == <<task, lun, last, early, disk, units, detached, plugged, signals, port, client, closing,
          opening, found>>

NoDisk == [state |-> "none", unit |-> 0, announced |-> FALSE, opens |-> 0]
NoClient == [open |-> None, cmd |-> "none", parked |-> "none", on |-> None, calls |-> 0, late |-> FALSE]

Init ==
    /\ task = [d \in Devices |-> "off"] /\ lun = [d \in Devices |-> 0] /\ last = [d \in Devices |-> 0]
    /\ early = [d \in Devices |-> FALSE] /\ disk = [k \in Disks |-> NoDisk] /\ units = [u \in Units |-> None]
    /\ detached = [d \in Devices |-> FALSE] /\ plugged = [d \in Devices |-> TRUE]
    /\ signals = [d \in Devices |-> {}] /\ port = [d \in Devices |-> <<>>]
    /\ client = [c \in Clients |-> NoClient] /\ closing = "none"
    /\ opening = "none" /\ found = None

Dev(k) == k[1]
Freed(k) == disk[k].state = "freed"
\* msdbase_MSDDisk_Semaphore is free.
Unlocked == closing = "none" /\ opening = "none"

-----------------------------------------------------------------------------
(* Answers *)

\* The requests that the clients in cs left in a list are answered.
Reply(cs) == [c \in Clients |-> IF c \in cs THEN [client[c] EXCEPT !.parked = "none", !.on = None] ELSE client[c]]
Parked(k, lists) == {c \in Clients : client[c].on = k /\ client[c].parked \in lists}

\* MSD_Disk_FireChangeInts(): the requests of the status list are answered, those of the
\* change list stay and their interrupt is caused.
Fired(ks) == UNION {Parked(k, {"stat"}) : k \in {j \in ks : disk[j].announced}}
\* MSD_Disk_Detach() for the disks in ks
Disk_Detach(ks) ==
    /\ client' = Reply(Fired(ks))
    /\ disk' = [k \in Disks |-> IF k \in ks THEN [disk[k] EXCEPT !.announced = FALSE] ELSE disk[k]]

\* The disks in msddev_MSDDisk_Header
Listed(d) == {k \in Disks : Dev(k) = d /\ disk[k].state = "up"}
AllListed(d) == Listed(d)
\* MSD_Device_Detach()
Device_Detach(d) == detached' = [detached EXCEPT ![d] = TRUE] /\ Disk_Detach(AllListed(d))

-----------------------------------------------------------------------------
(* MSD_Device_Alloc() and MSD_Disk_Alloc() *)

\* MSD_Entry(), and MSD_Device_GetMaxLun(): a device that does not answer has one LUN.
\* Anything before that may fail, which ends the task with nothing made.
MSD_Entry(d) ==
    /\ task[d] = "off"
    /\ \/ task' = [task EXCEPT ![d] = "gone"] /\ UNCHANGED <<last, detached>>
       \/ /\ task' = [task EXCEPT ![d] = "probe"]
          /\ IF plugged[d] THEN last' \in {[last EXCEPT ![d] = n] : n \in IF d \in Single THEN {0} ELSE Luns} /\ UNCHANGED detached
             ELSE UNCHANGED last /\ detached' = [detached EXCEPT ![d] = TRUE]
    /\ UNCHANGED <<lun, early, disk, units, plugged, signals, port, client, closing, opening, found>>

Now(d) == <<d, lun[d]>>
GoEarly(d) == task' = [task EXCEPT ![d] = "free"] /\ early' = [early EXCEPT ![d] = TRUE] /\ lun' = [lun EXCEPT ![d] = 0]
\* INQUIRY, TEST UNIT READY and READ CAPACITY: an empty slot, a device of another type or one
\* that is gone has no disk, and the whole device is given up.
Probe(d) ==
    /\ task[d] = "probe"
    /\ \/ /\ plugged[d] /\ task' = [task EXCEPT ![d] = "place"]
          /\ UNCHANGED <<lun, early, disk, detached, client>>
       \/ /\ GoEarly(d) /\ Device_Detach(d)
    /\ UNCHANGED <<last, units, plugged, signals, port, closing, opening, found>>

FreeUnits == {u \in Units : units[u] = None}
FreeUnit == Min(FreeUnits)
\* The unit table, under its semaphore: from here on a client can open the unit.
Place(d) ==
    /\ task[d] = "place" /\ Unlocked
    /\ IF FreeUnits = {}
       THEN GoEarly(d) /\ Device_Detach(d) /\ UNCHANGED units
       ELSE /\ units' = [units EXCEPT ![FreeUnit] = Now(d)]
            /\ disk' = [disk EXCEPT ![Now(d)].state = "placed", ![Now(d)].unit = FreeUnit]
            /\ task' = [task EXCEPT ![d] = "announce"]
            /\ UNCHANGED <<lun, early, detached, client>>
    /\ UNCHANGED <<last, plugged, signals, port, closing, opening, found>>

\* UnitNr, which nobody but this task looks at, and AnnounceDevice() to the mounter ...
Announce(d) ==
    /\ task[d] = "announce" /\ task' = [task EXCEPT ![d] = "list"]
    /\ \E a \in BOOLEAN : disk' = [disk EXCEPT ![Now(d)].announced = a]
    /\ UNCHANGED <<lun, last, early, units, detached, plugged, signals, port, client, closing, opening, found>>

\* ... and the list of the device.
List(d) ==
    /\ task[d] = "list" /\ disk' = [disk EXCEPT ![Now(d)].state = "up"]
    /\ task' = [task EXCEPT ![d] = IF lun[d] < last[d] THEN "probe" ELSE "normal"]
    /\ lun' = [lun EXCEPT ![d] = IF lun[d] < last[d] THEN @ + 1 ELSE 0]
    /\ UNCHANGED <<last, early, units, detached, plugged, signals, port, client, closing, opening, found>>

-----------------------------------------------------------------------------
(* MSD_Main() *)

\* MSD_Main_1_Normal(), MSD_Main_2_Stopping(): the two waits, and what wakes them.
Wake(d) ==
    /\ signals[d] # {}
    /\ \/ task[d] = "normal" /\ task' = [task EXCEPT ![d] = "serving"] /\ signals' = [signals EXCEPT ![d] = @ \ {"begin"}]
       \/ task[d] = "waiting" /\ task' = [task EXCEPT ![d] = "draining"] /\ signals' = [signals EXCEPT ![d] = {}]
    /\ UNCHANGED <<lun, last, early, disk, units, detached, plugged, port, client, closing, opening, found>>

Serves(d) == task[d] \in {"serving", "draining"}
\* The commands that a device that is detached still takes.
Harmless == {"query", "remove"}

\* The commands, each for the client c whose request is first in the port.
\* Any transfer may find that the device is gone: MSD_Disk_Detach() for this disk only.
Cmd_Transfer(c, k) ==
    IF plugged[Dev(k)] THEN UNCHANGED <<disk, detached>> /\ client' = [client EXCEPT ![c].cmd = "none"]
    ELSE /\ detached' = [detached EXCEPT ![Dev(k)] = TRUE]
         /\ disk' = [disk EXCEPT ![k].announced = FALSE]
         /\ client' = [Reply(Fired({k})) EXCEPT ![c].cmd = "none"]
\* The request stays in the list.
Park(c, k, list) ==
    /\ client' = [client EXCEPT ![c].cmd = "none", ![c].parked = list, ![c].on = k] /\ UNCHANGED <<disk, detached>>
TD_AddChangeInt(c, k) == Park(c, k, "change")
NSCmd_AddStatCallBack(c, k) == Park(c, k, "stat")
Answered(c) == client' = [client EXCEPT ![c].cmd = "none"] /\ UNCHANGED <<disk, detached>>
\* They look for the request that they are themselves: it is in no list.
TD_RemChangeInt(c) == Answered(c)
NSCmd_RemStatCallBack(c) == Answered(c)
\* TD_Motor, TD_ChangeState, TD_ProtStatus, TD_GetDriveType, NSCmd_DeviceQuery
Cmd_Query(c) == Answered(c)
Renumbered(k, old, new) == [units EXCEPT ![new] = k, ![old] = None]
\* MSD_Cmd_A005_NSCmd_ChangeUnit(): the old number is free after it, whoever had the new one.
Cmd_ChangeUnit(c, k) ==
    LET old == disk[k].unit
        asked == IF TakenToo THEN Units ELSE FreeUnits \cup {old}
    IN  /\ client' = [client EXCEPT ![c].cmd = "none"] /\ UNCHANGED detached
        /\ \E new \in asked :
            IF new = old THEN UNCHANGED <<disk, units>>
            ELSE /\ units' = Renumbered(k, old, new)
                 /\ disk' = [disk EXCEPT ![k].unit = new]

\* MSD_Main__myHandle_Begin()
Handle_Begin(d) ==
    LET c == Head(port[d])
        k == client[c].open
        cmd == client[c].cmd
    IN  /\ Serves(d) /\ port[d] # <<>> /\ port' = [port EXCEPT ![d] = Tail(@)]
        /\ IF detached[d] /\ cmd \notin Harmless THEN Answered(c) /\ UNCHANGED units
           ELSE \/ cmd = "transfer" /\ Cmd_Transfer(c, k) /\ UNCHANGED units
                \/ cmd = "change" /\ TD_AddChangeInt(c, k) /\ UNCHANGED units
                \/ cmd = "stat" /\ NSCmd_AddStatCallBack(c, k) /\ UNCHANGED units
                \/ cmd = "remove" /\ (TD_RemChangeInt(c) \/ NSCmd_RemStatCallBack(c)) /\ UNCHANGED units
                \/ cmd = "query" /\ Cmd_Query(c) /\ UNCHANGED units
                \/ cmd = "changeunit" /\ Unlocked /\ Cmd_ChangeUnit(c, k)
        /\ UNCHANGED <<task, lun, last, early, plugged, signals, closing, opening, found>>

\* The port is empty: the end of Normal detaches all disks, Stopping looks again.
Handled(d) ==
    /\ Serves(d) /\ port[d] = <<>>
    /\ \/ /\ task[d] = "serving" /\ "stop" \in signals[d]
          /\ task' = [task EXCEPT ![d] = "stopping"] /\ signals' = [signals EXCEPT ![d] = {}] /\ Device_Detach(d)
       \/ /\ task[d] = "serving" /\ "stop" \notin signals[d]
          /\ task' = [task EXCEPT ![d] = "normal"] /\ UNCHANGED <<signals, detached, disk, client>>
       \/ /\ task[d] = "draining"
          /\ task' = [task EXCEPT ![d] = "stopping"] /\ UNCHANGED <<signals, detached, disk, client>>
    /\ UNCHANGED <<lun, last, early, units, plugged, port, closing, opening, found>>

__AllUnitsClosed(d) == \A k \in Listed(d) : disk[k].opens = 0
Stopping(d) ==
    /\ task[d] = "stopping"
    /\ task' = [task EXCEPT ![d] = IF __AllUnitsClosed(d) THEN "free" ELSE "waiting"]
    /\ lun' = [lun EXCEPT ![d] = 0]
    /\ UNCHANGED <<last, early, disk, units, detached, plugged, signals, port, client, closing, opening, found>>

\* Variant: the unit table is not locked.
NoLock == TRUE
UnitsLocked == Unlocked
\* Its number is cleared only when it is still its own.
ClearUnit(k) == IF units[disk[k].unit] = k THEN [units EXCEPT ![disk[k].unit] = None] ELSE units
AbortedLists == {"change", "stat"}
\* MSD_Device_Free() with MSD_Disk_Free(): nobody asks for openers, nor empties the port.
Disk_Free(d) ==
    LET k == Now(d)
    IN  /\ task[d] = "free" /\ lun[d] \in Luns /\ k \in Listed(d) /\ UnitsLocked
        /\ client' = Reply(Parked(k, AbortedLists)) /\ units' = ClearUnit(k)
        /\ disk' = [disk EXCEPT ![k].state = "freed"] /\ lun' = [lun EXCEPT ![d] = @ + 1]
        /\ UNCHANGED <<task, last, early, detached, plugged, signals, port, closing, opening, found>>
Device_Freed(d) ==
    /\ task[d] = "free" /\ Listed(d) = {} /\ task' = [task EXCEPT ![d] = "gone"]
    /\ UNCHANGED <<lun, last, early, disk, units, detached, plugged, signals, port, client, closing, opening, found>>

Task(d) ==
    MSD_Entry(d) \/ Probe(d) \/ Place(d) \/ Announce(d) \/ List(d) \/ Wake(d) \/ Handle_Begin(d) \/ Handled(d) \/ Stopping(d)
    \/ Disk_Free(d) \/ Device_Freed(d)

-----------------------------------------------------------------------------
(* The stack and the clients *)

\* The device leaves the bus, and the stack ends its task with CTRL_C, then or at any time.
Unplug(d) ==
    /\ plugged[d] /\ plugged' = [plugged EXCEPT ![d] = FALSE]
    /\ UNCHANGED <<task, lun, last, early, disk, units, detached, signals, port, client, closing, opening, found>>
Stop(d) ==
    /\ task[d] \notin {"off", "gone"} /\ "stop" \notin signals[d] /\ ~detached[d]
    /\ signals' = [signals EXCEPT ![d] = @ \cup {"stop"}]
    /\ UNCHANGED <<task, lun, last, early, disk, units, detached, plugged, port, client, closing, opening, found>>

May(c) == client[c].calls < MaxCalls /\ client[c].cmd = "none" /\ closing # c
Call(c) == [client[c] EXCEPT !.calls = @ + 1]

\* MSD_Manager_Open(), under the semaphore of the unit table, which the task does not hold when
\* it detaches its device nor when it looks at the openers: the test of msddev_Detached ...
Open(c, u) ==
    LET k == units[u]
    IN  /\ May(c) /\ client[c].open = None /\ client[c].parked = "none" /\ Unlocked
        /\ k # None /\ ~detached[Dev(k)]
        /\ opening' = c /\ found' = k
        /\ UNCHANGED <<task, lun, last, early, disk, units, detached, plugged, signals, port, client, closing>>

\* ... and the counter.
Opened(c) ==
    /\ opening = c /\ opening' = "none" /\ found' = None
    /\ disk' = [disk EXCEPT ![found].opens = @ + 1]
    /\ client' = [client EXCEPT ![c] = [Call(c) EXCEPT !.open = found, !.late = task[Dev(found)] = "free"]]
    /\ UNCHANGED <<task, lun, last, early, units, detached, plugged, signals, port, closing>>

\* MSD_Manager_BeginIO(): the request goes to the port of the device.  AbortIO() does nothing.
Commands == {"transfer", "query", "remove", "changeunit", "change", "stat"}
CommandsOf(c) == IF client[c].parked = "none" THEN Commands ELSE Commands \ {"change", "stat"}
BeginIO(c, cmd) ==
    LET k == client[c].open
    IN  /\ May(c) /\ k # None /\ ~Freed(k) /\ cmd \in CommandsOf(c)
        /\ client' = [client EXCEPT ![c] = [Call(c) EXCEPT !.cmd = cmd]]
        /\ port' = [port EXCEPT ![Dev(k)] = Append(@, c)] /\ signals' = [signals EXCEPT ![Dev(k)] = @ \cup {"begin"}]
        /\ UNCHANGED <<task, lun, last, early, disk, units, detached, plugged, closing, opening, found>>

OneLess(k) == disk[k].opens - 1
\* MSD_Manager_Close(), its counter and then its look at the device, under the semaphore.
Close(c) ==
    LET k == client[c].open
    IN  /\ client[c].cmd = "none" /\ k # None /\ ~Freed(k) /\ Unlocked
        /\ closing' = c /\ disk' = [disk EXCEPT ![k].opens = OneLess(k)]
        /\ UNCHANGED <<task, lun, last, early, units, detached, plugged, signals, port, client, opening, found>>
CloseSignal(d) == IF detached[d] THEN signals[d] \cup {"begin"} ELSE signals[d]
Closed(c) ==
    LET d == Dev(client[c].open)
    IN  /\ closing = c /\ closing' = "none" /\ client' = [client EXCEPT ![c].open = None]
        /\ signals' = [signals EXCEPT ![d] = CloseSignal(d)]
        /\ UNCHANGED <<task, lun, last, early, disk, units, detached, plugged, port, opening, found>>

Next ==
    \/ \E d \in Devices : Task(d) \/ Unplug(d) \/ Stop(d)
    \/ \E c \in Clients :
          \/ Close(c) \/ Closed(c) \/ (\E u \in Units : Open(c, u)) \/ Opened(c)
          \/ \E cmd \in CommandsOf(c) : BeginIO(c, cmd)

\* The tasks run, and who holds the semaphore of the unit table lets go of it.
Spec == Init /\ [][Next]_vars /\ (\A d \in Devices : WF_vars(Task(d))) /\ \A c \in Clients : WF_vars(Opened(c) \/ Closed(c))

-----------------------------------------------------------------------------
(* Properties *)

Opener(c, k) == client[c].open = k /\ closing # c
OpensCounted == \A k \in Disks : disk[k].opens = Cardinality({c \in Clients : Opener(c, k)})

DiskType == [state : {"none", "placed", "up", "freed"}, unit : Units, announced : BOOLEAN, opens : Nat]
ClientType == [open : Disks \cup {None}, cmd : Commands \cup {"none"},
               parked : {"none", "change", "stat"}, on : Disks \cup {None}, calls : Nat, late : BOOLEAN]

\* The variables have their types, and a disk counts the clients that have it open.
TypeOK ==
    /\ task \in [Devices -> Stages] /\ lun \in [Devices -> Nat] /\ last \in [Devices -> Luns]
    /\ early \in [Devices -> BOOLEAN] /\ detached \in [Devices -> BOOLEAN]
    /\ plugged \in [Devices -> BOOLEAN] /\ signals \in [Devices -> SUBSET {"begin", "stop"}]
    /\ disk \in [Disks -> DiskType] /\ units \in [Units -> Disks \cup {None}]
    /\ port \in [Devices -> Seq(Clients)] /\ client \in [Clients -> ClientType]
    /\ {closing, opening} \subseteq Clients \cup {"none"} /\ found \in Disks \cup {None}
    /\ OpensCounted

\* The unit table never leads to a disk that is freed, or that has another number; nor is what
\* Open() has found there freed before it is counted.
UnitsLead ==
    /\ found # None => disk[found].state \in {"placed", "up"}
    /\ \A u \in Units : units[u] # None =>
          disk[units[u]].state \in {"placed", "up"} /\ disk[units[u]].unit = u

OpenOn(d) == {c \in Clients : client[c].open # None /\ Dev(client[c].open) = d}

\* A disk whose device came to serve is freed only when the last client closed it; a client that
\* is in Close() is done with it before.  But for a client whose Open() had tested msddev_Detached
\* before the device was detached, and counted when the task had looked for the last time.
Late(c) == client[c].late
FreedUnused ==
    \A c \in Clients :
        client[c].open # None /\ Freed(client[c].open) => early[Dev(client[c].open)] \/ Late(c)

\* What the comment at MSD_Disk_Free() says: the caller checks that no openers are left.
NoOpenersLeft == \A k \in Disks : Freed(k) => disk[k].opens = 0

\* When a task is gone no request is left behind: none waits in its port (unless the start
\* failed, or its client opened too late), and none in the lists of a disk that is freed.
NoRequestLost ==
    /\ \A c \in Clients : client[c].on # None => ~Freed(client[c].on)
    /\ \A d \in Devices : task[d] = "gone" /\ ~early[d] => \A c \in ToSet(port[d]) : Late(c)

\* When a device stops, its disks are denounced and everyone who waits for a change of state was
\* told, also when one of its units found out before the others.
Ending == {"stopping", "waiting", "draining", "free"}
Told(d) == task[d] \in Ending => \A k \in Listed(d) : ~disk[k].announced
WatchersTold == \A d \in Devices : Told(d)

\* A unit number is given to a new disk only when no disk is announced under it.
DenouncedBeforeReuse ==
    [][\A k \in Disks, u \in Units : disk[k].state = "none" /\ units'[u] = k =>
            \A j \in Disks \ {k} : disk[j].announced => disk[j].unit # u]_vars

\* A device that stops comes to its end as soon as nobody has a unit of it open.
StoppingEnds == \A d \in Devices : []<>(task[d] \in {"off", "normal", "gone"} \/ OpenOn(d) # {})

\* Units, disks, openers and requests agree.
UnitsAgree == TypeOK /\ UnitsLead /\ FreedUnused /\ NoRequestLost /\ WatchersTold

\* A device that stops comes down in order, and to its end.
ComesDown == DenouncedBeforeReuse /\ StoppingEnds

-----------------------------------------------------------------------------
(* The inductive invariant behind UnitsAgree *)

\* Where a task is tells which disks of its device there are, and which of them it makes.
Placing == {"announce", "list"}
TaskPlace(d) ==
    /\ task[d] = "off" => lun[d] = 0
    /\ task[d] \in {"probe", "place"} \cup Placing => lun[d] <= last[d]
    /\ task[d] \in {"off", "probe", "place"} =>
          \A n \in Luns : n >= lun[d] => disk[<<d, n>>].state = "none"
    /\ task[d] \in Placing =>
          /\ lun[d] \in Luns /\ disk[Now(d)].state = "placed"
          /\ \A n \in Luns : n > lun[d] => disk[<<d, n>>].state = "none"
    /\ \A n \in Luns : disk[<<d, n>>].state = "placed" => task[d] \in Placing /\ n = lun[d]
    /\ task[d] \in Ending => detached[d]
    /\ task[d] = "gone" => Listed(d) = {}
    /\ task[d] \notin {"free", "gone"} => \A n \in Luns : ~Freed(<<d, n>>)

\* When the disks of a device are freed, only a client that is in Close() still has one, or one
\* that opened it too late.
LastUse(d) ==
    task[d] \in {"free", "gone"} /\ ~early[d] => \A c \in OpenOn(d) : closing = c \/ Late(c)

DevicePlace == \A d \in Devices : TaskPlace(d) /\ LastUse(d) /\ Told(d)

\* A client is in Close() without a request, in Open() without a unit, and its disk was made.
ClientPlace ==
    /\ opening = "none" <=> found = None
    /\ \A c \in Clients :
        /\ client[c].on = None <=> client[c].parked = "none"
        /\ client[c].open # None => disk[client[c].open].state # "none"
        /\ client[c].cmd # "none" => client[c].open # None
        /\ closing = c => client[c].cmd = "none" /\ client[c].open # None
        /\ opening = c => closing = "none" /\ client[c].cmd = "none" /\ client[c].open = None

\* A request is in the port of the device whose unit its client has open, once.
Waits(c, d) == client[c].cmd # "none" /\ Dev(client[c].open) = d
PortPlace ==
    \A d \in Devices :
        Distinct(port[d]) /\ \A c \in Clients : c \in ToSet(port[d]) <=> Waits(c, d)

\* No list of a freed disk has a request.
ListsEmptied == \A c \in Clients : client[c].on # None => ~Freed(client[c].on)

UnitsInvariant ==
    /\ TypeOK /\ DevicePlace /\ ClientPlace /\ PortPlace /\ ListsEmptied
    /\ UnitsLead /\ FreedUnused
================================================================================
