---------------------------- MODULE MCMSD_proofs ----------------------------
(***************************************************************************)
(* The mass storage driver.  Its units, disks, openers and requests agree, for *)
(* any number of devices, logical units and clients, as long as the mounter    *)
(* does not ask for a unit number that is in use; and its transfers move what  *)
(* they should, for any disk, request and chunk, as long as the tag does not   *)
(* come round while the device still holds a command.                          *)
(***************************************************************************)
EXTENDS MCMSD, QueueLemmas, FiniteSetTheorems, WellFoundedInduction

-----------------------------------------------------------------------------
(* The data *)

\* A unit that is free is found if there is one.
LEMMA FreeUnitFound == ASSUME FreeUnits # {} PROVE FreeUnit \in FreeUnits
<1>1. FreeUnits \subseteq Nat
  BY MSDDeviceAssumption DEF FreeUnits, Units
<1> DEFINE Less == {p \in Nat \X Nat : p[1] < p[2]}
<1>2. IsWellFoundedOn(Less, Nat)
  BY NatLessThanWellFounded DEF OpToRel
<1>0. \A p, q \in Nat : <<p, q>> \in Less <=> p < q
  OBVIOUS
<1> HIDE DEF Less
<1>3. PICK x \in FreeUnits : \A y \in FreeUnits : ~ (<<y, x>> \in Less)
  BY <1>1, <1>2, WFMin
<1>4. \A y \in FreeUnits : x <= y
  <2> SUFFICES ASSUME NEW y \in FreeUnits PROVE x <= y
    OBVIOUS
  <2>1. x \in Nat /\ y \in Nat
    BY <1>1
  <2>2. ~ (y < x)
    BY <1>0, <1>3, <2>1
  <2> QED BY <2>1, <2>2
<1> QED BY <1>4 DEF FreeUnit, Min

\* A disk is the device it belongs to, and one of its units.
LEMMA DiskIsPair ==
    ASSUME NEW k \in Disks
    PROVE  /\ k = <<k[1], k[2]>> /\ k[1] \in Devices /\ k[2] \in Luns
           /\ k # None /\ Dev(k) \in Devices
BY DEF Disks, None, Dev

LEMMA NowIsDisk ==
    ASSUME TypeOK, NEW d \in Devices
    PROVE  /\ lun[d] \in Luns => Now(d) \in Disks
           /\ Dev(Now(d)) = d
           /\ TaskPlace(d) /\ task[d] \in {"probe", "place"} =>
                 Now(d) \in Disks /\ disk[Now(d)].state = "none"
           /\ TaskPlace(d) /\ task[d] \in Placing =>
                 Now(d) \in Disks /\ disk[Now(d)].state = "placed"
<1>1. Dev(Now(d)) = d /\ (lun[d] \in Luns => Now(d) \in Disks)
  BY DEF Now, Dev, Disks
<1>2. ASSUME TaskPlace(d), task[d] \in {"probe", "place"} \cup Placing
      PROVE  /\ lun[d] \in Luns
             /\ disk[Now(d)].state = IF task[d] \in Placing THEN "placed" ELSE "none"
  <2>1. lun[d] \in Nat /\ last[d] \in Luns /\ last[d] \in Nat /\ lun[d] <= last[d]
    BY <1>2, MSDDeviceAssumption DEF TypeOK, TaskPlace
  <2>2. lun[d] \in 0 .. last[d]
    BY <2>1
  <2>3. lun[d] \in Luns
    BY <2>1, <2>2, MSDDeviceAssumption
  <2> QED BY <1>2, <2>1, <2>3 DEF TaskPlace, Now, Placing
<1> QED BY <1>1, <1>2 DEF Placing

\* Answering what is in a list touches neither the unit a client has open nor its command.
LEMMA ReplyKeeps ==
    ASSUME TypeOK, ClientPlace, NEW cs
    PROVE  /\ Reply(cs) \in [Clients -> ClientType]
           /\ \A c \in Clients :
                 /\ Reply(cs)[c].open = client[c].open /\ Reply(cs)[c].cmd = client[c].cmd
                 /\ Reply(cs)[c].late = client[c].late
                 /\ (Reply(cs)[c].on = None <=> Reply(cs)[c].parked = "none")
                 /\ Reply(cs)[c].on = IF c \in cs THEN None ELSE client[c].on
<1>1. \A c \in Clients : /\ client[c] \in ClientType
                         /\ (client[c].on = None <=> client[c].parked = "none")
  BY DEF TypeOK, ClientPlace
<1>2. ASSUME NEW c \in Clients
      PROVE  /\ [client[c] EXCEPT !.parked = "none", !.on = None] \in ClientType
             /\ [client[c] EXCEPT !.parked = "none", !.on = None].late = client[c].late
  BY <1>1 DEF ClientType
<1>3. Reply(cs) \in [Clients -> ClientType]
  BY <1>1, <1>2 DEF Reply
<1>4. \A c \in Clients : Reply(cs)[c].late = client[c].late
  BY <1>2 DEF Reply
<1> QED BY <1>1, <1>3, <1>4 DEF Reply, ClientType

\* The count of openers stays as it is, as long as nobody opens or closes.
LEMMA OpensKept ==
    ASSUME OpensCounted, closing' = closing,
           \A c \in Clients : client'[c].open = client[c].open,
           \A k \in Disks : disk'[k].opens = disk[k].opens
    PROVE  OpensCounted'
<1> SUFFICES ASSUME NEW k \in Disks
             PROVE  disk'[k].opens = Cardinality({c \in Clients : Opener(c, k)'})
  BY DEF OpensCounted
<1>1. {c \in Clients : Opener(c, k)'} = {c \in Clients : Opener(c, k)}
  BY DEF Opener
<1> QED BY <1>1 DEF OpensCounted

-----------------------------------------------------------------------------
(* The parts *)

\* What is not about the task of a device.
Uses == ClientPlace /\ PortPlace /\ ListsEmptied /\ UnitsLead /\ FreedUnused

LEMMA Parts ==
    ASSUME UnitsInvariant PROVE TypeOK /\ DevicePlace /\ Uses
BY DEF UnitsInvariant, Uses

LEMMA UsesFrame ==
    ASSUME TypeOK, Uses, UNCHANGED <<disk, units, port, client, closing, opening, found>>,
           \A d \in Devices : early[d] => early'[d]
    PROVE  Uses'
<1>1. ClientPlace' /\ PortPlace' /\ ListsEmptied' /\ UnitsLead'
  BY DEF Uses, ClientPlace, PortPlace, ListsEmptied, UnitsLead, Waits, Freed
<1>2. FreedUnused'
  BY DiskIsPair DEF TypeOK, ClientType, Uses, FreedUnused, Freed, Late
<1> QED BY <1>1, <1>2 DEF Uses

\* The task of a device that is not concerned.
SameTask(e) ==
    /\ task'[e] = task[e] /\ lun'[e] = lun[e] /\ last'[e] = last[e] /\ early'[e] = early[e]
    /\ detached[e] => detached'[e]
    /\ \A n \in Luns : /\ disk'[<<e, n>>].state = disk[<<e, n>>].state
                       /\ disk'[<<e, n>>].announced => disk[<<e, n>>].announced
InUse(c, e) == c \in OpenOn(e) /\ closing # c /\ ~ Late(c)
NewOpener(e) == \E c \in Clients : InUse(c, e)' /\ ~ InUse(c, e)

LEMMA PlaceFrame ==
    ASSUME NEW e \in Devices, TaskPlace(e), Told(e), SameTask(e)
    PROVE  TaskPlace(e)' /\ Told(e)'
<1>1. \A k \in Disks : Dev(k) = e => disk'[k].state = disk[k].state
  BY DiskIsPair DEF SameTask, Dev
<1>0. \A k \in Disks : Dev(k) = e /\ disk'[k].announced => disk[k].announced
  BY DiskIsPair DEF SameTask, Dev
<1>2. Listed(e)' = Listed(e)
  BY <1>1 DEF Listed
<1>3. TaskPlace(e)'
  <2>1. Now(e)' = Now(e)
    BY DEF Now, SameTask
  <2>2. Now(e) = <<e, lun[e]>>
    BY DEF Now
  <2> QED BY <1>2, <2>1, <2>2 DEF TaskPlace, SameTask, Freed
<1>5. Told(e)'
  BY <1>0, <1>2 DEF Told, SameTask, Listed
<1> QED BY <1>3, <1>5

LEMMA DeviceFrame ==
    ASSUME NEW e \in Devices, TaskPlace(e), LastUse(e), Told(e), SameTask(e), ~ NewOpener(e)
    PROVE  TaskPlace(e)' /\ LastUse(e)' /\ Told(e)'
<1>1. TaskPlace(e)' /\ Told(e)'
  BY PlaceFrame
<1>2. LastUse(e)'
  BY DEF LastUse, SameTask, NewOpener, InUse, OpenOn, Late
<1> QED BY <1>1, <1>2

LEMMA DevicesStep ==
    ASSUME DevicePlace, NEW d \in Devices,
           \A e \in Devices \ {d} : SameTask(e) /\ ~ NewOpener(e),
           TaskPlace(d)', LastUse(d)', Told(d)'
    PROVE  DevicePlace'
<1>1. ASSUME NEW e \in Devices \ {d} PROVE (TaskPlace(e) /\ LastUse(e) /\ Told(e))'
  BY DeviceFrame DEF DevicePlace
<1> QED BY <1>1 DEF DevicePlace

LEMMA NoNewOpener ==
    ASSUME NEW e \in Devices, closing' = closing,
           \A c \in Clients : client'[c].open = client[c].open /\ client'[c].late = client[c].late
    PROVE  ~ NewOpener(e)
BY DEF NewOpener, InUse, OpenOn, Late

LEMMA Reassemble ==
    ASSUME TypeOK', DevicePlace', Uses' PROVE UnitsInvariant'
BY DEF UnitsInvariant, Uses

-----------------------------------------------------------------------------
(* What only moves the task of one device *)

LEMMA EntryKeeps ==
    ASSUME UnitsInvariant, NEW d \in Devices, MSD_Entry(d)
    PROVE  UnitsInvariant'
<1>p. TypeOK /\ DevicePlace /\ Uses
  BY Parts
<1>0. /\ UNCHANGED <<lun, early, disk, units, plugged, signals, port, client, closing, opening, found>>
      /\ task[d] = "off" /\ last' \in [Devices -> Luns] /\ detached' \in [Devices -> BOOLEAN]
      /\ \E s \in {"gone", "probe"} : task' = [task EXCEPT ![d] = s]
      /\ \A e \in Devices \ {d} : last'[e] = last[e] /\ detached'[e] = detached[e]
  <2>1. CASE task' = [task EXCEPT ![d] = "gone"] /\ UNCHANGED <<last, detached>>
    BY <1>p, <2>1 DEF MSD_Entry, TypeOK
  <2>2. CASE task' = [task EXCEPT ![d] = "probe"] /\ ~ plugged[d]
    BY <1>p, <2>2 DEF MSD_Entry, TypeOK
  <2>3. CASE task' = [task EXCEPT ![d] = "probe"] /\ plugged[d]
    <3>1. PICK n \in Luns : last' = [last EXCEPT ![d] = n]
      BY <1>p, <2>3, MSDDeviceAssumption DEF MSD_Entry, TypeOK
    <3> QED BY <1>p, <2>3, <3>1 DEF MSD_Entry, TypeOK
  <2> QED BY <2>1, <2>2, <2>3 DEF MSD_Entry
<1>1. Uses'
  BY <1>0, <1>p, UsesFrame
<1>2. TypeOK'
  <2>1. OpensCounted'
    BY <1>0, <1>p, OpensKept DEF TypeOK
  <2> QED BY <1>0, <1>p, <2>1 DEF TypeOK, Stages
<1>3. lun[d] = 0 /\ (\A n \in Luns : disk[<<d, n>>].state = "none") /\ task'[d] \in {"gone", "probe"}
  BY <1>0, <1>p, MSDDeviceAssumption DEF DevicePlace, TaskPlace, TypeOK
<1>4. \A k \in Disks : Dev(k) = d => disk[k].state = "none"
  BY <1>3, DiskIsPair DEF Dev
<1>5. TaskPlace(d)'
  <2>1. last'[d] \in Nat
    BY <1>0, MSDDeviceAssumption
  <2> QED BY <1>0, <1>3, <1>4, <2>1 DEF TaskPlace, Ending, Listed, Freed, Placing
<1>6. LastUse(d)'
  BY <1>0, <1>4, <1>p DEF LastUse, OpenOn, Uses, ClientPlace, TypeOK, ClientType
<1>7. Told(d)'
  BY <1>3 DEF Told, Ending
<1>8. \A e \in Devices \ {d} : SameTask(e) /\ ~ NewOpener(e)
  BY <1>0, <1>p, NoNewOpener DEF SameTask, TypeOK
<1> QED BY <1>1, <1>2, <1>5, <1>6, <1>7, <1>8, <1>p, DevicesStep, Reassemble

LEMMA WakeKeeps ==
    ASSUME UnitsInvariant, NEW d \in Devices, Wake(d)
    PROVE  UnitsInvariant'
<1>p. TypeOK /\ DevicePlace /\ Uses
  BY Parts
<1>0. /\ UNCHANGED <<lun, last, early, disk, units, detached, plugged, port, client, closing, opening, found>>
      /\ signals' \in [Devices -> SUBSET {"begin", "stop"}]
      /\ \/ task[d] = "normal" /\ task' = [task EXCEPT ![d] = "serving"]
         \/ task[d] = "waiting" /\ task' = [task EXCEPT ![d] = "draining"]
  BY <1>p DEF Wake, TypeOK
<1>1. Uses'
  BY <1>0, <1>p, UsesFrame
<1>2. TypeOK'
  <2>1. OpensCounted'
    BY <1>0, <1>p, OpensKept DEF TypeOK
  <2> QED BY <1>0, <1>p, <2>1 DEF TypeOK, Stages
<1>3. task'[d] \in {"serving", "draining"} /\ (task'[d] = "draining" => task[d] = "waiting")
      /\ (task'[d] = "serving" => task[d] = "normal")
  BY <1>0, <1>p DEF TypeOK
<1>5. TaskPlace(d)' /\ LastUse(d)' /\ Told(d)'
  <2>1. TaskPlace(d) /\ Told(d)
    BY <1>p DEF DevicePlace
  <2>2. TaskPlace(d)'
    BY <1>0, <1>3, <2>1 DEF TaskPlace, Ending, Listed, Freed, Placing
  <2>3. LastUse(d)' /\ Told(d)'
    BY <1>0, <1>3, <2>1 DEF LastUse, Told, Ending, Listed
  <2> QED BY <2>2, <2>3
<1>8. \A e \in Devices \ {d} : SameTask(e) /\ ~ NewOpener(e)
  BY <1>0, <1>p, NoNewOpener DEF SameTask, TypeOK
<1> QED BY <1>1, <1>2, <1>5, <1>8, <1>p, DevicesStep, Reassemble

\* The last user of a device that stops has closed.
LEMMA StoppingKeeps ==
    ASSUME UnitsInvariant, NEW d \in Devices, Stopping(d)
    PROVE  UnitsInvariant'
<1>p. TypeOK /\ DevicePlace /\ Uses
  BY Parts
<1>0. /\ UNCHANGED <<last, early, disk, units, detached, plugged, signals, port, client, closing, opening, found>>
      /\ task[d] = "stopping" /\ lun' = [lun EXCEPT ![d] = 0]
      /\ \/ __AllUnitsClosed(d) /\ task' = [task EXCEPT ![d] = "free"]
         \/ task' = [task EXCEPT ![d] = "waiting"]
  BY DEF Stopping
<1>1. Uses'
  BY <1>0, <1>p, UsesFrame
<1>2. TypeOK'
  <2>1. OpensCounted'
    BY <1>0, <1>p, OpensKept DEF TypeOK
  <2> QED BY <1>0, <1>p, <2>1 DEF TypeOK, Stages
<1>3. TaskPlace(d) /\ Told(d) /\ task'[d] \in {"free", "waiting"}
  BY <1>0, <1>p DEF DevicePlace, TypeOK
<1>5. TaskPlace(d)' /\ Told(d)'
  BY <1>0, <1>3 DEF TaskPlace, Ending, Listed, Freed, Told, Placing
<1>6. LastUse(d)'
  <2> SUFFICES ASSUME task'[d] = "free", NEW c \in OpenOn(d) PROVE closing = c \/ Late(c)
    BY <1>0, <1>3 DEF LastUse, OpenOn, Late
  <2> DEFINE k == client[c].open
  <2>1. k \in Disks /\ Dev(k) = d /\ disk[k].state # "none" /\ c \in Clients
    BY <1>p DEF OpenOn, TypeOK, ClientType, Uses, ClientPlace
  <2>2. disk[k].state \notin {"freed", "placed"}
    BY <1>0, <1>3, <2>1, DiskIsPair DEF TaskPlace, Freed, Dev, Placing
  <2>3. disk[k] \in DiskType
    BY <1>p, <2>1 DEF TypeOK
  <2>4. k \in Listed(d)
    BY <2>1, <2>2, <2>3 DEF Listed, DiskType
  <2>5. __AllUnitsClosed(d)
    BY <1>0, <1>p DEF TypeOK
  <2>6. disk[k].opens = 0
    BY <2>4, <2>5 DEF __AllUnitsClosed
  <2>7. IsFiniteSet({x \in Clients : Opener(x, k)})
    BY FS_Subset, MSDDeviceAssumption
  <2>8. {x \in Clients : Opener(x, k)} = {}
    BY <1>p, <2>1, <2>6, <2>7, FS_EmptySet DEF TypeOK, OpensCounted
  <2> QED BY <2>1, <2>8 DEF Opener
<1>8. \A e \in Devices \ {d} : SameTask(e) /\ ~ NewOpener(e)
  BY <1>0, <1>p, NoNewOpener DEF SameTask, TypeOK
<1> QED BY <1>1, <1>2, <1>5, <1>6, <1>8, <1>p, DevicesStep, Reassemble

LEMMA DeviceFreedKeeps ==
    ASSUME UnitsInvariant, NEW d \in Devices, Device_Freed(d)
    PROVE  UnitsInvariant'
<1>p. TypeOK /\ DevicePlace /\ Uses
  BY Parts
<1>0. /\ UNCHANGED <<lun, last, early, disk, units, detached, plugged, signals, port, client, closing, opening, found>>
      /\ task[d] = "free" /\ Listed(d) = {} /\ task' = [task EXCEPT ![d] = "gone"]
  BY DEF Device_Freed
<1>1. Uses'
  BY <1>0, <1>p, UsesFrame
<1>2. TypeOK'
  <2>1. OpensCounted'
    BY <1>0, <1>p, OpensKept DEF TypeOK
  <2> QED BY <1>0, <1>p, <2>1 DEF TypeOK, Stages
<1>5. TaskPlace(d)' /\ LastUse(d)' /\ Told(d)'
  <2>1. task'[d] = "gone" /\ LastUse(d) /\ TaskPlace(d)
    BY <1>0, <1>p DEF TypeOK, DevicePlace
  <2> QED BY <1>0, <2>1 DEF TaskPlace, LastUse, Told, Ending, Listed, OpenOn, Placing, Late
<1>8. \A e \in Devices \ {d} : SameTask(e) /\ ~ NewOpener(e)
  BY <1>0, <1>p, NoNewOpener DEF SameTask, TypeOK
<1> QED BY <1>1, <1>2, <1>5, <1>8, <1>p, DevicesStep, Reassemble

LEMMA WorldKeeps ==
    ASSUME UnitsInvariant, NEW d \in Devices, Unplug(d) \/ Stop(d)
    PROVE  UnitsInvariant'
<1>p. TypeOK /\ DevicePlace /\ Uses
  BY Parts
<1>0. /\ UNCHANGED <<task, lun, last, early, disk, units, detached, port, client, closing, opening, found>>
      /\ plugged' \in [Devices -> BOOLEAN] /\ signals' \in [Devices -> SUBSET {"begin", "stop"}]
  <2>1. \A e \in Devices : signals[e] \cup {"stop"} \in SUBSET {"begin", "stop"}
    BY <1>p DEF TypeOK
  <2>2. signals' \in [Devices -> SUBSET {"begin", "stop"}]
    BY <1>p, <2>1 DEF Unplug, Stop, TypeOK
  <2> QED BY <1>p, <2>2 DEF Unplug, Stop, TypeOK
<1>1. Uses'
  BY <1>0, <1>p, UsesFrame
<1>2. TypeOK'
  <2>1. OpensCounted'
    BY <1>0, <1>p, OpensKept DEF TypeOK
  <2> QED BY <1>0, <1>p, <2>1 DEF TypeOK
<1>3. DevicePlace'
  BY <1>0, <1>p DEF DevicePlace, TaskPlace, LastUse, Told, Listed, Freed, OpenOn, Now, Late
<1> QED BY <1>1, <1>2, <1>3, Reassemble

-----------------------------------------------------------------------------
(* What answers requests, and takes disks from the clients *)

\* What happens to clients and disks but in Open() and Close(): commands end, requests leave
\* the lists of disks or enter one of a disk that is there.
Served ==
    /\ client' \in [Clients -> ClientType] /\ disk' \in [Disks -> DiskType]
    /\ UNCHANGED <<closing, opening, found>>
    /\ \A c \in Clients :
          /\ client'[c].open = client[c].open /\ client'[c].cmd \in {client[c].cmd, "none"}
          /\ client'[c].late = client[c].late
          /\ client'[c].on = None <=> client'[c].parked = "none"
          /\ client'[c].on \in {None, client[c].on} \/ ~ Freed(client'[c].on)
    /\ \A k \in Disks : disk'[k].opens = disk[k].opens

LEMMA PlacesServed ==
    ASSUME TypeOK, Uses, Served, \A d \in Devices : early[d] => early'[d],
           \A k \in Disks : disk'[k].state = disk[k].state
    PROVE  ClientPlace' /\ ListsEmptied' /\ FreedUnused' /\ OpensCounted'
<1>0. \A c \in Clients : client[c].open \in Disks \cup {None} /\ client'[c].on \in Disks \cup {None}
  BY DEF TypeOK, ClientType, Served
<1>1. ClientPlace'
  BY <1>0 DEF Uses, ClientPlace, Served
<1>2. ListsEmptied'
  BY <1>0 DEF Uses, ListsEmptied, Freed, Served
<1>3. FreedUnused'
  BY <1>0, DiskIsPair DEF Uses, FreedUnused, Freed, Served, Late
<1>4. OpensCounted'
  BY OpensKept DEF TypeOK, Served
<1> QED BY <1>1, <1>2, <1>3, <1>4

LEMMA UnitsSame ==
    ASSUME TypeOK, Uses, units' = units, found' = found,
           \A k \in Disks : disk'[k].state = disk[k].state /\ disk'[k].unit = disk[k].unit
    PROVE  UnitsLead'
<1>1. \A u \in Units : units'[u] = units[u] /\ units[u] \in Disks \cup {None}
  BY DEF TypeOK
<1>2. \A u \in Units :
          units[u] # None => disk[units[u]].state \in {"placed", "up"} /\ disk[units[u]].unit = u
  BY DEF Uses, UnitsLead
<1>3. \A u \in Units :
          units'[u] # None => disk'[units'[u]].state \in {"placed", "up"} /\ disk'[units'[u]].unit = u
  BY <1>1, <1>2
<1>4. found # None => found \in Disks /\ disk[found].state \in {"placed", "up"}
  BY DEF TypeOK, Uses, UnitsLead
<1> QED BY <1>3, <1>4 DEF UnitsLead

LEMMA PortSame ==
    ASSUME Uses, port' = port,
           \A c \in Clients : client'[c].open = client[c].open /\ client'[c].cmd = client[c].cmd
    PROVE  PortPlace'
BY DEF Uses, PortPlace, Waits

\* MSD_Disk_Detach() denounces the disks, and answers who waits for a change of their state.
LEMMA DetachServes ==
    ASSUME TypeOK, Uses, UNCHANGED <<closing, opening, found>>, NEW ks \in SUBSET Disks, Disk_Detach(ks)
    PROVE  /\ Served
           /\ \A c \in Clients : /\ client'[c].open = client[c].open /\ client'[c].cmd = client[c].cmd
                                 /\ client'[c].late = client[c].late
           /\ \A k \in Disks : /\ disk'[k].state = disk[k].state /\ disk'[k].unit = disk[k].unit
                               /\ disk'[k].announced = (disk[k].announced /\ k \notin ks)
<1>1. ClientPlace /\ client' = Reply(Fired(ks))
  BY DEF Uses, Disk_Detach
<1>2. disk' \in [Disks -> DiskType]
      /\ \A k \in Disks : /\ disk'[k].state = disk[k].state /\ disk'[k].unit = disk[k].unit
                          /\ disk'[k].opens = disk[k].opens
                          /\ disk'[k].announced = (disk[k].announced /\ k \notin ks)
  BY DEF Disk_Detach, TypeOK, DiskType
<1> QED BY <1>1, <1>2, ReplyKeeps DEF Served

\* MSD_Device_Alloc() fails: the task goes on to free what there is.
LEMMA GivenUp ==
    ASSUME UnitsInvariant, NEW d \in Devices, task[d] \notin Placing, GoEarly(d), Device_Detach(d),
           UNCHANGED <<last, units, plugged, signals, port, closing, opening, found>>
    PROVE  UnitsInvariant'
<1>p. TypeOK /\ DevicePlace /\ Uses
  BY Parts
<1>t. TaskPlace(d)
  BY <1>p DEF DevicePlace
<1>1. AllListed(d) \in SUBSET Disks /\ Disk_Detach(AllListed(d))
  BY DEF Device_Detach, AllListed, Listed
<1>2. /\ Served
      /\ \A c \in Clients : /\ client'[c].open = client[c].open /\ client'[c].cmd = client[c].cmd
                            /\ client'[c].late = client[c].late
      /\ \A k \in Disks : /\ disk'[k].state = disk[k].state /\ disk'[k].unit = disk[k].unit
                          /\ disk'[k].announced = (disk[k].announced /\ k \notin AllListed(d))
  BY <1>p, <1>1, DetachServes
<1>3. /\ task' = [task EXCEPT ![d] = "free"] /\ early' = [early EXCEPT ![d] = TRUE]
      /\ lun' = [lun EXCEPT ![d] = 0] /\ detached' = [detached EXCEPT ![d] = TRUE]
  BY DEF GoEarly, Device_Detach
<1>4. \A e \in Devices : early[e] => early'[e]
  BY <1>3, <1>p DEF TypeOK
<1>5. ClientPlace' /\ ListsEmptied' /\ FreedUnused' /\ OpensCounted' /\ UnitsLead' /\ PortPlace'
  BY <1>p, <1>2, <1>4, PlacesServed, UnitsSame, PortSame
<1>6. TypeOK'
  BY <1>p, <1>2, <1>3, <1>5 DEF TypeOK, Served, Stages
<1>7. task'[d] = "free" /\ early'[d] /\ detached'[d]
  BY <1>3, <1>p DEF TypeOK
<1>8. TaskPlace(d)' /\ LastUse(d)'
  <2>1. \A n \in Luns : disk'[<<d, n>>].state # "placed"
    BY <1>p, <1>2, <1>7, <1>t DEF TaskPlace, Placing, Disks
  <2> QED BY <1>7, <2>1 DEF TaskPlace, LastUse, Ending, Placing
<1>9. Told(d)'
  <2>1. \A k \in Listed(d)' : k \in Disks /\ k \in AllListed(d)
    BY <1>2 DEF Listed, AllListed
  <2> QED BY <1>2, <2>1 DEF Told
<1>10. \A e \in Devices \ {d} : SameTask(e) /\ ~ NewOpener(e)
  <2>1. \A e \in Devices : \A n \in Luns : <<e, n>> \in Disks
    BY DEF Disks
  <2> QED BY <1>p, <1>2, <1>3, <2>1, NoNewOpener DEF SameTask, TypeOK
<1> QED BY <1>p, <1>5, <1>6, <1>8, <1>9, <1>10, DevicesStep, Reassemble DEF Uses

LEMMA ProbeKeeps ==
    ASSUME UnitsInvariant, NEW d \in Devices, Probe(d)
    PROVE  UnitsInvariant'
<1>p. TypeOK /\ DevicePlace /\ Uses
  BY Parts
<1>0. UNCHANGED <<last, units, plugged, signals, port, closing, opening, found>> /\ task[d] = "probe"
  BY DEF Probe
<1>t. TaskPlace(d)
  BY <1>p DEF DevicePlace
<1>1. CASE task' = [task EXCEPT ![d] = "place"] /\ UNCHANGED <<lun, early, disk, detached, client>>
  <2>1. Uses'
    BY <1>0, <1>1, <1>p, UsesFrame
  <2>2. TypeOK'
    <3>1. OpensCounted'
      BY <1>0, <1>1, <1>p, OpensKept DEF TypeOK
    <3> QED BY <1>0, <1>1, <1>p, <3>1 DEF TypeOK, Stages
  <2>3. task'[d] = "place"
    BY <1>1, <1>p DEF TypeOK
  <2>4. TaskPlace(d)' /\ LastUse(d)' /\ Told(d)'
    BY <1>0, <1>1, <2>3, <1>t DEF TaskPlace, LastUse, Told, Ending, Listed, Freed, Placing
  <2>5. \A e \in Devices \ {d} : SameTask(e) /\ ~ NewOpener(e)
    BY <1>0, <1>1, <1>p, NoNewOpener DEF SameTask, TypeOK
  <2> QED BY <1>p, <2>1, <2>2, <2>4, <2>5, DevicesStep, Reassemble
<1>2. CASE GoEarly(d) /\ Device_Detach(d)
  BY <1>0, <1>2, GivenUp DEF Placing
<1> QED BY <1>0, <1>1, <1>2 DEF Probe

\* A disk is made where there was none: nobody has it, and no number leads to it.
LEMMA PlaceKeeps ==
    ASSUME UnitsInvariant, NEW d \in Devices, Place(d)
    PROVE  UnitsInvariant'
<1>p. TypeOK /\ DevicePlace /\ Uses
  BY Parts
<1>0. UNCHANGED <<last, plugged, signals, port, closing, opening, found>> /\ task[d] = "place"
  BY DEF Place
<1>t. TaskPlace(d)
  BY <1>p DEF DevicePlace
<1>1. CASE FreeUnits # {}
  <2> DEFINE k == Now(d)
             u == FreeUnit
  <2>1. /\ UNCHANGED <<lun, early, detached, client>>
        /\ units' = [units EXCEPT ![u] = k]
        /\ task' = [task EXCEPT ![d] = "announce"]
        /\ disk' = [disk EXCEPT ![k].state = "placed", ![k].unit = u]
    BY <1>1 DEF Place
  <2>3. /\ u \in Units /\ units[u] = None
        /\ k \in Disks /\ k # None /\ Dev(k) = d /\ disk[k].state = "none"
    BY <1>0, <1>1, <1>p, <1>t, FreeUnitFound, NowIsDisk, DiskIsPair DEF FreeUnits
  <2>4. /\ disk' \in [Disks -> DiskType]
        /\ disk'[k].state = "placed" /\ disk'[k].unit = u
        /\ \A j \in Disks \ {k} : disk'[j] = disk[j]
        /\ \A j \in Disks : disk'[j].opens = disk[j].opens /\ disk'[j].announced = disk[j].announced
    BY <1>p, <2>1, <2>3 DEF TypeOK, DiskType
  <2>5. \A c \in Clients : client[c].open # k
    BY <1>p, <2>3 DEF Uses, ClientPlace
  <2>6. ClientPlace' /\ PortPlace'
    <3>1. \A c \in Clients : client[c].open \in Disks \cup {None}
      BY <1>p DEF TypeOK, ClientType
    <3>2. ClientPlace'
      BY <1>0, <1>p, <2>1, <2>4, <2>5, <3>1 DEF Uses, ClientPlace
    <3> QED BY <1>0, <1>p, <2>1, <3>2, PortSame
  <2>7. ListsEmptied' /\ FreedUnused'
    <3>1. \A c \in Clients : client[c].open \in Disks \cup {None} /\ client[c].on \in Disks \cup {None}
      BY <1>p DEF TypeOK, ClientType
    <3> QED BY <1>0, <1>p, <2>1, <2>4, <3>1 DEF Uses, ListsEmptied, FreedUnused, Freed, Late
  <2>8. UnitsLead'
    <3>1. \A w \in Units : units[w] \in Disks \cup {None} /\ units[w] # k
      BY <1>p, <2>3 DEF TypeOK, Uses, UnitsLead
    <3>2. \A w \in Units : units'[w] = IF w = u THEN k ELSE units[w]
      BY <1>p, <2>1 DEF TypeOK
    <3>3. found # None => found \in Disks /\ disk[found].state \in {"placed", "up"}
      BY <1>p DEF TypeOK, Uses, UnitsLead
    <3> QED BY <1>0, <1>p, <2>3, <2>4, <3>1, <3>2, <3>3 DEF Uses, UnitsLead
  <2>9. OpensCounted'
    BY <1>0, <1>p, <2>1, <2>4, OpensKept DEF TypeOK
  <2>10. TypeOK'
    BY <1>0, <1>p, <2>1, <2>3, <2>4, <2>9 DEF TypeOK, Stages
  <2>11. task'[d] = "announce"
    BY <1>p, <2>1 DEF TypeOK
  <2>12. TaskPlace(d)'
    <3>0. lun'[d] = lun[d] /\ last'[d] = last[d] /\ Now(d)' = k /\ lun[d] \in Nat
      BY <1>0, <1>p, <2>1 DEF TypeOK, Now
    <3>1. \A n \in Luns : <<d, n>> \in Disks /\ (n # lun[d] => <<d, n>> # k) /\ n \in Nat
      BY MSDDeviceAssumption DEF Disks, Now
    <3>2. \A n \in Luns : disk'[<<d, n>>].state = IF n = lun[d] THEN "placed" ELSE disk[<<d, n>>].state
      BY <2>4, <3>1 DEF Now
    <3>3. \A n \in Luns : disk[<<d, n>>].state \notin {"placed", "freed"}
      BY <1>0, <1>t DEF TaskPlace, Placing, Freed
    <3>4. \A n \in Luns : n > lun[d] => disk[<<d, n>>].state = "none"
      BY <1>0, <1>t, <3>0, <3>1 DEF TaskPlace
    <3>5. lun'[d] <= last'[d] /\ lun'[d] \in Luns
      BY <1>0, <1>p, <1>t, <3>0, NowIsDisk DEF TaskPlace, Disks, Now
    <3>6. \A n \in Luns : n > lun'[d] => disk'[<<d, n>>].state = "none"
      BY <3>0, <3>1, <3>2, <3>4
    <3>7. \A n \in Luns : /\ disk'[<<d, n>>].state # "freed"
                          /\ disk'[<<d, n>>].state = "placed" => n = lun'[d]
      BY <3>0, <3>2, <3>3
    <3>8. disk'[<<d, lun'[d]>>].state = "placed"
      BY <3>0, <3>2, <3>5
    <3> QED BY <2>11, <3>5, <3>6, <3>7, <3>8 DEF TaskPlace, Ending, Freed, Placing, Now
  <2>13. LastUse(d)' /\ Told(d)'
    BY <2>11 DEF LastUse, Told, Ending
  <2>14. \A e \in Devices \ {d} : SameTask(e) /\ ~ NewOpener(e)
    <3>1. \A e \in Devices \ {d} : \A n \in Luns : <<e, n>> \in Disks /\ <<e, n>> # k
      BY DEF Disks, Now
    <3> QED BY <1>0, <1>p, <2>1, <2>4, <3>1, NoNewOpener DEF SameTask, TypeOK
  <2> QED BY <1>p, <2>6, <2>7, <2>8, <2>10, <2>12, <2>13, <2>14, DevicesStep, Reassemble DEF Uses
<1>2. CASE FreeUnits = {}
  <2>0. GoEarly(d) /\ Device_Detach(d) /\ UNCHANGED units
    BY <1>2 DEF Place
  <2> QED BY <1>0, <1>p, <2>0, GivenUp DEF Placing
<1> QED BY <1>1, <1>2

LEMMA AnnounceKeeps ==
    ASSUME UnitsInvariant, NEW d \in Devices, Announce(d)
    PROVE  UnitsInvariant'
<1>p. TypeOK /\ DevicePlace /\ Uses
  BY Parts
<1> DEFINE k == Now(d)
<1>0. /\ UNCHANGED <<lun, last, early, units, detached, plugged, signals, port, client, closing, opening, found>>
      /\ task[d] = "announce" /\ task' = [task EXCEPT ![d] = "list"]
      /\ \E a \in BOOLEAN : disk' = [disk EXCEPT ![k].announced = a]
  BY DEF Announce
<1>t. TaskPlace(d)
  BY <1>p DEF DevicePlace
<1>k. k \in Disks
  BY <1>0, <1>p, <1>t, NowIsDisk DEF Placing
<1>1. /\ disk' \in [Disks -> DiskType] /\ \A j \in Disks \ {k} : disk'[j] = disk[j]
      /\ \A j \in Disks : /\ disk'[j].state = disk[j].state /\ disk'[j].unit = disk[j].unit
                          /\ disk'[j].opens = disk[j].opens
  <2>1. PICK a \in BOOLEAN : disk' = [disk EXCEPT ![k].announced = a]
    BY <1>0
  <2> QED BY <1>k, <1>p, <2>1 DEF TypeOK, DiskType
<1>2. Served
  BY <1>0, <1>1, <1>p DEF Served, TypeOK, Uses, ClientPlace
<1>3. ClientPlace' /\ ListsEmptied' /\ FreedUnused' /\ OpensCounted' /\ UnitsLead' /\ PortPlace'
  BY <1>0, <1>1, <1>2, <1>p, PlacesServed, UnitsSame, PortSame
<1>4. TypeOK'
  BY <1>0, <1>1, <1>3, <1>p DEF TypeOK, Stages
<1>5. task'[d] = "list" /\ Now(d)' = Now(d) /\ (\A n \in Luns : <<d, n>> \in Disks)
  BY <1>0, <1>p DEF TypeOK, Now, Disks
<1>6. TaskPlace(d)' /\ LastUse(d)' /\ Told(d)'
  <2>1. TaskPlace(d)'
    BY <1>0, <1>1, <1>5, <1>k, <1>t DEF TaskPlace, Placing, Ending, Freed
  <2> QED BY <1>5, <2>1 DEF LastUse, Told, Ending
<1>7. \A e \in Devices \ {d} : SameTask(e) /\ ~ NewOpener(e)
  <2>1. \A e \in Devices \ {d} : \A n \in Luns : <<e, n>> \in Disks /\ <<e, n>> # k
    BY DEF Disks, Now
  <2> QED BY <1>0, <1>1, <1>p, <2>1, NoNewOpener DEF SameTask, TypeOK
<1> QED BY <1>p, <1>3, <1>4, <1>6, <1>7, DevicesStep, Reassemble DEF Uses

\* The disk is in the list of its device: the task goes on with the next, or to serve.
LEMMA ListKeeps ==
    ASSUME UnitsInvariant, NEW d \in Devices, List(d)
    PROVE  UnitsInvariant'
<1>p. TypeOK /\ DevicePlace /\ Uses
  BY Parts
<1> DEFINE k == Now(d)
<1>0. /\ UNCHANGED <<last, early, units, detached, plugged, signals, port, client, closing, opening, found>>
      /\ task[d] = "list" /\ disk' = [disk EXCEPT ![k].state = "up"]
      /\ task' = [task EXCEPT ![d] = IF lun[d] < last[d] THEN "probe" ELSE "normal"]
      /\ lun' = [lun EXCEPT ![d] = IF lun[d] < last[d] THEN lun[d] + 1 ELSE 0]
  BY DEF List
<1>t. TaskPlace(d)
  BY <1>p DEF DevicePlace
<1>k. k \in Disks /\ disk[k].state = "placed"
  BY <1>0, <1>p, <1>t, NowIsDisk DEF Placing
<1>1. /\ disk' \in [Disks -> DiskType] /\ disk'[k].state = "up"
      /\ \A j \in Disks \ {k} : disk'[j] = disk[j]
      /\ \A j \in Disks : /\ disk'[j].unit = disk[j].unit /\ disk'[j].opens = disk[j].opens
                          /\ disk'[j].announced = disk[j].announced
                          /\ disk'[j].state = IF j = k THEN "up" ELSE disk[j].state
  BY <1>0, <1>k, <1>p DEF TypeOK, DiskType
<1>2. ClientPlace' /\ ListsEmptied' /\ FreedUnused' /\ UnitsLead' /\ OpensCounted' /\ PortPlace'
  <2>1. \A c \in Clients : client[c].open \in Disks \cup {None} /\ client[c].on \in Disks \cup {None}
    BY <1>p DEF TypeOK, ClientType
  <2>2. ClientPlace' /\ ListsEmptied'
    BY <1>0, <1>1, <1>p, <2>1 DEF Uses, ClientPlace, ListsEmptied, Freed
  <2>3. FreedUnused'
    BY <1>0, <1>1, <1>p, <2>1 DEF Uses, FreedUnused, Freed, Late
  <2>4. UnitsLead'
    <3>1. \A w \in Units : units[w] \in Disks \cup {None}
      BY <1>p DEF TypeOK
    <3>2. found \in Disks \cup {None}
      BY <1>p DEF TypeOK
    <3> QED BY <1>0, <1>1, <1>p, <3>1, <3>2 DEF Uses, UnitsLead
  <2>5. OpensCounted'
    BY <1>0, <1>1, <1>p, OpensKept DEF TypeOK
  <2> QED BY <1>0, <1>p, <2>2, <2>3, <2>4, <2>5, PortSame
<1>3. task'[d] = (IF lun[d] < last[d] THEN "probe" ELSE "normal")
      /\ lun'[d] = (IF lun[d] < last[d] THEN lun[d] + 1 ELSE 0)
  BY <1>0, <1>p DEF TypeOK
<1>4. TypeOK'
  <2>1. lun' \in [Devices -> Nat]
    BY <1>0, <1>p DEF TypeOK
  <2> QED BY <1>0, <1>1, <1>2, <1>p, <2>1 DEF TypeOK, Stages
<1>5. TaskPlace(d)'
  <2>1. \A n \in Luns : <<d, n>> \in Disks /\ (n # lun[d] => <<d, n>> # k) /\ n \in Nat
    BY MSDDeviceAssumption DEF Disks, Now
  <2>2. /\ \A n \in Luns : disk[<<d, n>>].state # "freed" /\ (disk[<<d, n>>].state = "placed" => <<d, n>> = k)
        /\ \A n \in Luns : n > lun[d] => disk[<<d, n>>].state = "none"
    BY <1>0, <1>t DEF TaskPlace, Placing, Freed, Now
  <2>3. \A n \in Luns : disk'[<<d, n>>].state \notin {"placed", "freed"}
    BY <1>1, <2>1, <2>2
  <2>4. ASSUME task'[d] = "probe"
        PROVE  /\ lun'[d] <= last'[d]
               /\ \A n \in Luns : n >= lun'[d] => disk'[<<d, n>>].state = "none"
    <3>1. lun[d] \in Nat /\ last[d] \in Nat /\ lun[d] < last[d] /\ lun'[d] = lun[d] + 1
      BY <1>3, <1>p, <2>4, MSDDeviceAssumption DEF TypeOK
    <3>2. \A n \in Luns : n >= lun'[d] => n > lun[d] /\ n # lun[d]
      <4>1. \A n, m \in Nat : n >= m + 1 => n > m /\ n # m
        OBVIOUS
      <4> QED BY <2>1, <3>1, <4>1
    <3>3. \A n \in Luns : n >= lun'[d] => <<d, n>> \in Disks \ {k} /\ disk[<<d, n>>].state = "none"
      BY <2>1, <2>2, <3>2
    <3> QED BY <1>0, <1>1, <3>1, <3>3
  <2> QED BY <1>3, <2>3, <2>4 DEF TaskPlace, Placing, Ending, Freed
<1>6. LastUse(d)' /\ Told(d)'
  BY <1>3 DEF LastUse, Told, Ending
<1>7. \A e \in Devices \ {d} : SameTask(e) /\ ~ NewOpener(e)
  <2>1. \A e \in Devices \ {d} : \A n \in Luns : <<e, n>> \in Disks /\ <<e, n>> # k
    BY DEF Disks, Now
  <2> QED BY <1>0, <1>1, <1>p, <2>1, NoNewOpener DEF SameTask, TypeOK
<1> QED BY <1>p, <1>2, <1>4, <1>5, <1>6, <1>7, DevicesStep, Reassemble DEF Uses

LEMMA HandledKeeps ==
    ASSUME UnitsInvariant, NEW d \in Devices, Handled(d)
    PROVE  UnitsInvariant'
<1>p. TypeOK /\ DevicePlace /\ Uses
  BY Parts
<1>0. UNCHANGED <<lun, last, early, units, plugged, port, closing, opening, found>>
  BY DEF Handled
<1>t. TaskPlace(d) /\ Told(d)
  BY <1>p DEF DevicePlace
<1>1. CASE /\ \/ task[d] = "serving" /\ task' = [task EXCEPT ![d] = "normal"]
              \/ task[d] = "draining" /\ task' = [task EXCEPT ![d] = "stopping"]
           /\ UNCHANGED <<signals, detached, disk, client>>
  <2>1. Uses'
    BY <1>0, <1>1, <1>p, UsesFrame
  <2>2. TypeOK'
    <3>1. OpensCounted'
      BY <1>0, <1>1, <1>p, OpensKept DEF TypeOK
    <3> QED BY <1>0, <1>1, <1>p, <3>1 DEF TypeOK, Stages
  <2>3. \/ task[d] = "serving" /\ task'[d] = "normal"
        \/ task[d] = "draining" /\ task'[d] = "stopping"
    BY <1>1, <1>p DEF TypeOK
  <2>4. TaskPlace(d)' /\ LastUse(d)' /\ Told(d)'
    BY <1>0, <1>1, <2>3, <1>t DEF TaskPlace, LastUse, Told, Ending, Listed, Freed, Placing
  <2>5. \A e \in Devices \ {d} : SameTask(e) /\ ~ NewOpener(e)
    BY <1>0, <1>1, <1>p, NoNewOpener DEF SameTask, TypeOK
  <2> QED BY <1>p, <2>1, <2>2, <2>4, <2>5, DevicesStep, Reassemble
<1>2. CASE /\ task[d] = "serving" /\ task' = [task EXCEPT ![d] = "stopping"]
           /\ signals' = [signals EXCEPT ![d] = {}] /\ Device_Detach(d)
  <2>1. AllListed(d) \in SUBSET Disks /\ Disk_Detach(AllListed(d))
    BY <1>2 DEF Device_Detach, AllListed, Listed
  <2>2. /\ Served
        /\ \A c \in Clients : /\ client'[c].open = client[c].open /\ client'[c].cmd = client[c].cmd
                              /\ client'[c].late = client[c].late
        /\ \A k \in Disks : /\ disk'[k].state = disk[k].state /\ disk'[k].unit = disk[k].unit
                            /\ disk'[k].announced = (disk[k].announced /\ k \notin AllListed(d))
    BY <1>0, <1>p, <2>1, DetachServes
  <2>3. detached' = [detached EXCEPT ![d] = TRUE]
    BY <1>2 DEF Device_Detach
  <2>4. ClientPlace' /\ ListsEmptied' /\ FreedUnused' /\ OpensCounted' /\ UnitsLead' /\ PortPlace'
    BY <1>0, <1>p, <2>2, PlacesServed, UnitsSame, PortSame
  <2>5. TypeOK'
    <3>1. signals' \in [Devices -> SUBSET {"begin", "stop"}]
      BY <1>2, <1>p DEF TypeOK
    <3> QED BY <1>0, <1>2, <1>p, <2>2, <2>3, <2>4, <3>1 DEF TypeOK, Served, Stages
  <2>6. task'[d] = "stopping" /\ detached'[d]
    BY <1>2, <1>p, <2>3 DEF TypeOK
  <2>7. \A e \in Devices : \A n \in Luns : <<e, n>> \in Disks
    BY DEF Disks
  <2>8. TaskPlace(d)' /\ LastUse(d)'
    BY <1>2, <1>t, <2>2, <2>6, <2>7 DEF TaskPlace, LastUse, Ending, Freed, Placing
  <2>9. Told(d)'
    <3>1. \A k \in Listed(d)' : k \in Disks /\ k \in AllListed(d)
      BY <2>2 DEF Listed, AllListed
    <3> QED BY <2>2, <3>1 DEF Told
  <2>10. \A e \in Devices \ {d} : SameTask(e) /\ ~ NewOpener(e)
    BY <1>0, <1>2, <1>p, <2>2, <2>3, <2>7, NoNewOpener DEF SameTask, TypeOK
  <2> QED BY <1>p, <2>4, <2>5, <2>8, <2>9, <2>10, DevicesStep, Reassemble DEF Uses
<1> QED BY <1>1, <1>2 DEF Handled

\* A disk is freed when no client has it, its number leads nowhere, and its lists are empty.
LEMMA DiskFreeKeeps ==
    ASSUME UnitsInvariant, NEW d \in Devices, Disk_Free(d)
    PROVE  UnitsInvariant'
<1>p. TypeOK /\ DevicePlace /\ Uses
  BY Parts
<1> DEFINE k == Now(d)
           cs == Parked(k, AbortedLists)
<1>0. /\ UNCHANGED <<task, last, early, detached, plugged, signals, port, closing, opening, found>>
      /\ task[d] = "free" /\ closing = "none" /\ opening = "none" /\ k \in Disks /\ Dev(k) = d /\ k # None
      /\ disk[k].state = "up" /\ client' = Reply(cs) /\ units' = ClearUnit(k)
      /\ disk' = [disk EXCEPT ![k].state = "freed"] /\ lun' = [lun EXCEPT ![d] = lun[d] + 1]
  BY DiskIsPair DEF Disk_Free, UnitsLocked, Unlocked, Listed
<1>t. TaskPlace(d) /\ LastUse(d) /\ Told(d)
  BY <1>p DEF DevicePlace
<1>1. ClientPlace
  BY <1>p DEF Uses
<1>2. /\ client' \in [Clients -> ClientType]
      /\ \A c \in Clients :
            /\ client'[c].open = client[c].open /\ client'[c].cmd = client[c].cmd
            /\ client'[c].late = client[c].late
            /\ client'[c].on = None <=> client'[c].parked = "none"
            /\ client'[c].on = IF c \in cs THEN None ELSE client[c].on
  BY <1>p, <1>0, <1>1, ReplyKeeps
<1>3. /\ disk' \in [Disks -> DiskType] /\ disk'[k].state = "freed"
      /\ \A j \in Disks \ {k} : disk'[j] = disk[j]
      /\ \A j \in Disks : /\ disk'[j].opens = disk[j].opens /\ disk'[j].unit = disk[j].unit
                          /\ disk'[j].announced = disk[j].announced
  BY <1>p, <1>0 DEF TypeOK, DiskType
<1>4. \A c \in Clients : /\ client[c].open \in Disks \cup {None} /\ client[c].on \in Disks \cup {None}
                         /\ client[c].parked \in {"none", "change", "stat"}
  BY <1>p DEF TypeOK, ClientType
<1>5. Served
  <2>1. \A c \in Clients : client'[c].on \in {None, client[c].on}
    BY <1>2
  <2> QED BY <1>0, <1>2, <1>3, <2>1 DEF Served
<1>6. ClientPlace' /\ PortPlace'
  <2>1. ClientPlace'
    BY <1>0, <1>1, <1>2, <1>3, <1>4 DEF ClientPlace
  <2> QED BY <1>0, <1>2, <1>p, <2>1, PortSame
<1>7. ListsEmptied'
  <2> SUFFICES ASSUME NEW c \in Clients, client'[c].on # None
               PROVE  disk'[client'[c].on].state # "freed"
    BY DEF ListsEmptied, Freed
  <2>1. c \notin cs /\ client'[c].on = client[c].on /\ client[c].on \in Disks
    BY <1>2, <1>4
  <2>2. client[c].on # k
    BY <1>1, <1>4, <1>0, <2>1 DEF Parked, AbortedLists, ClientPlace
  <2>3. disk[client[c].on].state # "freed"
    BY <1>p, <2>1, DiskIsPair DEF Uses, ListsEmptied, Freed
  <2> QED BY <1>3, <2>1, <2>2, <2>3
<1>8. FreedUnused'
  <2> SUFFICES ASSUME NEW c \in Clients, client[c].open # None, disk'[client[c].open].state = "freed"
               PROVE  early[Dev(client[c].open)] \/ Late(c)
    BY <1>0, <1>2 DEF FreedUnused, Freed, Late
  <2>1. CASE client[c].open = k
    <3>1. c \in OpenOn(d) /\ closing # c
      BY <1>0, <2>1, MSDDeviceAssumption DEF OpenOn
    <3> QED BY <1>0, <1>t, <2>1, <3>1 DEF LastUse
  <2>2. CASE client[c].open # k
    BY <1>3, <1>4, <1>p, <2>2 DEF Uses, FreedUnused, Freed, Late
  <2> QED BY <2>1, <2>2
<1>9. UnitsLead' /\ units' \in [Units -> Disks \cup {None}]
  <2>1. disk[k].unit \in Units
    BY <1>0, <1>p DEF TypeOK, DiskType
  <2>2. \A w \in Units : units[w] \in Disks \cup {None}
    BY <1>p DEF TypeOK
  <2>3. \A w \in Units : units[w] = k => w = disk[k].unit
    BY <1>0, <1>p DEF Uses, UnitsLead
  <2>4. units' \in [Units -> Disks \cup {None}]
        /\ \A w \in Units : units'[w] \in {None, units[w]} /\ units'[w] # k
    BY <1>0, <1>p, <2>1, <2>2, <2>3 DEF ClearUnit, TypeOK
  <2>5. \A w \in Units : units[w] # None => disk[units[w]].state \in {"placed", "up"} /\ disk[units[w]].unit = w
    BY <1>p DEF Uses, UnitsLead
  <2>6. found' = None
    BY <1>0, <1>1 DEF ClientPlace
  <2> QED BY <1>3, <2>2, <2>4, <2>5, <2>6 DEF UnitsLead
<1>10. TypeOK'
  <2>1. OpensCounted'
    BY <1>0, <1>2, <1>3, <1>p, OpensKept DEF TypeOK
  <2> QED BY <1>0, <1>2, <1>3, <1>9, <1>p, <2>1 DEF TypeOK
<1>11. TaskPlace(d)' /\ LastUse(d)' /\ Told(d)'
  <2>1. \A j \in Disks : disk'[j].state = "up" => disk[j].state = "up"
    BY <1>0, <1>3
  <2>2. \A j \in Listed(d)' : j \in Listed(d)
    BY <2>1 DEF Listed
  <2>3. \A j \in Listed(d)' : ~ disk'[j].announced
    BY <1>0, <1>3, <1>t, <2>2 DEF Told, Ending, Listed
  <2>4. LastUse(d)' /\ Told(d)'
    BY <1>0, <1>2, <1>t, <2>3 DEF LastUse, Told, Ending, OpenOn, Late
  <2>5. \A n \in Luns : disk'[<<d, n>>].state # "placed"
    BY <1>0, <1>3, <1>t DEF TaskPlace, Placing, Disks
  <2> QED BY <1>0, <1>2, <1>t, <2>4, <2>5 DEF TaskPlace, Ending, Placing
<1>12. \A e \in Devices \ {d} : SameTask(e) /\ ~ NewOpener(e)
  <2>1. \A e \in Devices \ {d} : \A n \in Luns : <<e, n>> \in Disks /\ <<e, n>> # k
    BY DEF Disks, Now
  <2> QED BY <1>0, <1>2, <1>3, <1>p, <2>1, NoNewOpener DEF SameTask, TypeOK
<1> QED BY <1>6, <1>7, <1>8, <1>9, <1>10, <1>11, <1>12, <1>p, DevicesStep, Reassemble DEF Uses

-----------------------------------------------------------------------------
(* The commands *)

\* What each command does: the request is answered or parked, nothing is opened, closed, made
\* or freed, and nothing is announced.
Done(c) ==
    /\ Served
    /\ \A x \in Clients \ {c} : client'[x].cmd = client[x].cmd
    /\ client'[c].cmd = "none"
    /\ \A k \in Disks : /\ disk'[k].state = disk[k].state
                        /\ disk'[k].announced => disk[k].announced
    /\ detached' \in [Devices -> BOOLEAN] /\ \A e \in Devices : detached[e] => detached'[e]

LEMMA AnsweredDone ==
    ASSUME TypeOK, Uses, UNCHANGED <<closing, opening, found>>, NEW c \in Clients, Answered(c)
    PROVE  Done(c) /\ disk' = disk
<1>1. client' \in [Clients -> ClientType] /\ UNCHANGED <<disk, detached>>
  <2>1. client \in [Clients -> ClientType] /\ client' = [client EXCEPT ![c].cmd = "none"]
    BY DEF Answered, TypeOK
  <2>2. client[c] \in ClientType
    BY <2>1
  <2>3. [client[c] EXCEPT !.cmd = "none"] \in ClientType
    BY <2>2 DEF ClientType
  <2> QED BY <2>1, <2>3 DEF Answered
<1>2. \A x \in Clients : /\ client'[x].open = client[x].open /\ client'[x].on = client[x].on
                         /\ client'[x].parked = client[x].parked /\ client'[x].late = client[x].late
                         /\ client'[x].cmd = IF x = c THEN "none" ELSE client[x].cmd
  <2>1. client \in [Clients -> ClientType] /\ client' = [client EXCEPT ![c].cmd = "none"]
    BY DEF Answered, TypeOK
  <2>2. \A x \in Clients : client'[x] = IF x = c THEN [client[c] EXCEPT !.cmd = "none"] ELSE client[x]
    BY <2>1
  <2>3. client[c] \in ClientType
    BY <2>1
  <2> QED BY <2>2, <2>3 DEF ClientType
<1>3. Served
  BY <1>1, <1>2 DEF Served, TypeOK, Uses, ClientPlace
<1> QED BY <1>1, <1>2, <1>3 DEF Done, TypeOK

LEMMA ParkDone ==
    ASSUME TypeOK, Uses, UNCHANGED <<closing, opening, found>>, NEW c \in Clients, NEW k \in Disks, ~ Freed(k),
           NEW list \in {"change", "stat"}, Park(c, k, list)
    PROVE  Done(c) /\ disk' = disk
<1>1. client' \in [Clients -> ClientType] /\ UNCHANGED <<disk, detached>>
  <2> DEFINE Parks == [client[c] EXCEPT !.cmd = "none", !.parked = list, !.on = k]
  <2>1. client[c] \in ClientType
    BY DEF TypeOK
  <2>2. Parks \in ClientType
    BY <2>1 DEF ClientType
  <2>3. client' = [client EXCEPT ![c] = Parks]
    BY <2>1 DEF Park, TypeOK, ClientType
  <2> HIDE DEF Parks
  <2> QED BY <2>2, <2>3 DEF Park, TypeOK
<1>2. \A x \in Clients : /\ client'[x].open = client[x].open /\ client'[x].late = client[x].late
                         /\ client'[x].on = IF x = c THEN k ELSE client[x].on
                         /\ client'[x].parked = IF x = c THEN list ELSE client[x].parked
                         /\ client'[x].cmd = IF x = c THEN "none" ELSE client[x].cmd
  BY DEF Park, TypeOK, ClientType
<1>3. Served
  <2>1. \A x \in Clients : client'[x].on = None <=> client'[x].parked = "none"
    BY <1>2, DiskIsPair DEF Uses, ClientPlace
  <2>2. \A x \in Clients : client'[x].on \in {None, client[x].on} \/ ~ Freed(client'[x].on)
    BY <1>2
  <2> QED BY <1>1, <1>2, <2>1, <2>2 DEF Served, TypeOK
<1> QED BY <1>1, <1>2, <1>3 DEF Done, TypeOK

LEMMA TransferDone ==
    ASSUME TypeOK, Uses, UNCHANGED <<closing, opening, found>>, NEW c \in Clients, NEW k \in Disks, Cmd_Transfer(c, k)
    PROVE  Done(c) /\ \A j \in Disks : disk'[j].unit = disk[j].unit
<1>1. CASE plugged[Dev(k)]
  <2>1. Answered(c)
    BY <1>1 DEF Cmd_Transfer, Answered
  <2> QED BY <2>1, AnsweredDone
<1>2. CASE ~ plugged[Dev(k)]
  <2> DEFINE r == Reply(Fired({k}))
  <2>1. /\ detached' = [detached EXCEPT ![Dev(k)] = TRUE]
        /\ disk' = [disk EXCEPT ![k].announced = FALSE]
        /\ client' = [r EXCEPT ![c].cmd = "none"]
    BY <1>2 DEF Cmd_Transfer
  <2>2. /\ r \in [Clients -> ClientType]
        /\ \A x \in Clients :
              /\ r[x].open = client[x].open /\ r[x].cmd = client[x].cmd /\ r[x].late = client[x].late
              /\ r[x].on = None <=> r[x].parked = "none"
              /\ r[x].on \in {None, client[x].on}
    <3>1. ClientPlace
      BY DEF Uses
    <3> QED BY <3>1, ReplyKeeps
  <2> HIDE DEF r
  <2>3. /\ client' \in [Clients -> ClientType]
        /\ \A x \in Clients : /\ client'[x].open = r[x].open /\ client'[x].on = r[x].on
                              /\ client'[x].parked = r[x].parked /\ client'[x].late = r[x].late
                              /\ client'[x].cmd = IF x = c THEN "none" ELSE r[x].cmd
    BY <2>1, <2>2 DEF ClientType
  <2>4. /\ disk' \in [Disks -> DiskType]
        /\ \A j \in Disks : /\ disk'[j].opens = disk[j].opens /\ disk'[j].unit = disk[j].unit
                            /\ disk'[j].state = disk[j].state
                            /\ disk'[j].announced = (disk[j].announced /\ j # k)
    BY <2>1 DEF TypeOK, DiskType
  <2>5. Served
    BY <2>2, <2>3, <2>4 DEF Served
  <2>6. detached' \in [Devices -> BOOLEAN] /\ \A e \in Devices : detached[e] => detached'[e]
    BY <2>1, DiskIsPair DEF TypeOK
  <2> QED BY <2>2, <2>3, <2>4, <2>5, <2>6 DEF Done
<1> QED BY <1>1, <1>2

\* The mounter gives a disk another number: its old one is free, the new one was.
LEMMA ChangeUnitDone ==
    ASSUME TypeOK, Uses, UNCHANGED <<closing, opening, found>>, ~ TakenToo, NEW c \in Clients, NEW k \in Disks,
           disk[k].state = "up", opening = "none", Cmd_ChangeUnit(c, k)
    PROVE  Done(c) /\ UnitsLead' /\ units' \in [Units -> Disks \cup {None}]
<1> DEFINE old == disk[k].unit
<1>0. old \in Units
  BY DEF TypeOK, DiskType
<1>1. PICK new \in FreeUnits \cup {old} :
          IF new = old THEN UNCHANGED <<disk, units>>
          ELSE units' = Renumbered(k, old, new) /\ disk' = [disk EXCEPT ![k].unit = new]
  BY DEF Cmd_ChangeUnit
<1>2. client' = [client EXCEPT ![c].cmd = "none"] /\ UNCHANGED detached
  BY DEF Cmd_ChangeUnit
<1>3. /\ client' \in [Clients -> ClientType]
      /\ \A x \in Clients : /\ client'[x].open = client[x].open /\ client'[x].on = client[x].on
                            /\ client'[x].parked = client[x].parked /\ client'[x].late = client[x].late
                            /\ client'[x].cmd = IF x = c THEN "none" ELSE client[x].cmd
  BY <1>2 DEF TypeOK, ClientType
<1>4. new \in Units
  BY <1>0, <1>1 DEF FreeUnits
<1>5. /\ disk' \in [Disks -> DiskType]
      /\ \A j \in Disks : /\ disk'[j].opens = disk[j].opens /\ disk'[j].announced = disk[j].announced
                          /\ disk'[j].state = disk[j].state
                          /\ disk'[j].unit = IF j = k THEN new ELSE disk[j].unit
  <2>1. CASE new = old
    BY <1>1, <2>1 DEF TypeOK
  <2>2. CASE new # old
    <3>1. disk' = [disk EXCEPT ![k].unit = new] /\ disk \in [Disks -> DiskType] /\ k \in Disks
      BY <1>1, <2>2 DEF TypeOK
    <3>2. \A j \in Disks : disk'[j] = IF j = k THEN [disk[k] EXCEPT !.unit = new] ELSE disk[j]
      BY <3>1
    <3>3. disk[k] \in DiskType /\ [disk[k] EXCEPT !.unit = new] \in DiskType
      BY <1>4, <3>1 DEF DiskType
    <3>4. disk' \in [Disks -> DiskType]
      BY <3>1, <3>3
    <3>5. \A j \in Disks : disk'[j].opens = disk[j].opens /\ disk'[j].state = disk[j].state
                          /\ disk'[j].unit = IF j = k THEN new ELSE disk[j].unit
      BY <3>2, <3>3 DEF DiskType
    <3>6. \A j \in Disks : disk'[j].announced = disk[j].announced
      BY <3>2, <3>3 DEF DiskType
    <3> QED BY <3>4, <3>5, <3>6
  <2> QED BY <2>1, <2>2
<1>6. Served
  BY <1>3, <1>5 DEF Served, Uses, ClientPlace
<1>7. Done(c)
  BY <1>2, <1>3, <1>5, <1>6 DEF Done, TypeOK
<1>8. \A w \in Units : units[w] \in Disks \cup {None} /\ (units[w] = k => w = old)
  BY DiskIsPair DEF TypeOK, Uses, UnitsLead
<1>9. /\ units' \in [Units -> Disks \cup {None}]
      /\ new # old => \A w \in Units : units'[w] = IF w = old THEN None ELSE IF w = new THEN k ELSE units[w]
      /\ new = old => units' = units
  BY <1>0, <1>1, <1>4 DEF TypeOK, Renumbered
<1>10. UnitsLead'
  <2>1. found' = None
    BY DEF Uses, ClientPlace
  <2> QED BY <1>5, <1>8, <1>9, <1>0, <2>1 DEF Uses, UnitsLead
<1> QED BY <1>7, <1>9, <1>10

LEMMA HandleBeginKeeps ==
    ASSUME UnitsInvariant, ~ TakenToo, NEW d \in Devices, Handle_Begin(d)
    PROVE  UnitsInvariant'
<1>p. TypeOK /\ DevicePlace /\ Uses
  BY Parts
<1>0. /\ UNCHANGED <<task, lun, last, early, plugged, signals, closing, opening, found>>
      /\ task[d] \in {"serving", "draining"} /\ port[d] # <<>>
      /\ port' = [port EXCEPT ![d] = Tail(port[d])]
  BY DEF Handle_Begin, Serves
<1>q. port[d] \in Seq(Clients) /\ Distinct(port[d])
  BY <1>p DEF TypeOK, Uses, PortPlace
<1>c. PICK c \in Clients : c = Head(port[d])
  BY <1>0, <1>q, TailPlace
<1>k. PICK k : k = client[c].open
  OBVIOUS
<1>1. /\ c \in Clients /\ Tail(port[d]) \in Seq(Clients) /\ c \in ToSet(port[d])
      /\ ToSet(port[d]) = ToSet(Tail(port[d])) \cup {c}
      /\ Distinct(Tail(port[d])) /\ c \notin ToSet(Tail(port[d]))
  BY <1>0, <1>q, <1>c, TailPlace
<1>2. client[c].cmd # "none" /\ Dev(k) = d
  BY <1>1, <1>k, <1>p DEF Uses, PortPlace, Waits
<1>3. k \in Disks /\ disk[k].state = "up"
  <2>1. k \in Disks /\ disk[k].state # "none"
    BY <1>1, <1>2, <1>k, <1>p DEF Uses, ClientPlace, TypeOK, ClientType
  <2>2. disk[k].state \notin {"freed", "placed"}
    BY <1>0, <1>2, <1>p, <2>1, DiskIsPair DEF DevicePlace, TaskPlace, Placing, Freed, Dev
  <2> QED BY <1>p, <2>1, <2>2 DEF TypeOK, DiskType
<1>4. Done(c) /\ UnitsLead' /\ units' \in [Units -> Disks \cup {None}]
  <2>0. ~ Freed(k) /\ units \in [Units -> Disks \cup {None}]
    BY <1>3, <1>p DEF Freed, TypeOK
  <2>1. CASE Answered(c) /\ UNCHANGED units
    BY <1>0, <1>1, <1>p, <2>0, <2>1, AnsweredDone, UnitsSame
  <2>2. CASE Cmd_Transfer(c, k) /\ UNCHANGED units
    <3>1. Done(c) /\ \A j \in Disks : disk'[j].unit = disk[j].unit
      BY <1>0, <1>1, <1>3, <1>p, <2>2, TransferDone
    <3> QED BY <1>0, <1>p, <2>0, <2>2, <3>1, UnitsSame DEF Done
  <2>3. CASE (Park(c, k, "change") \/ Park(c, k, "stat")) /\ UNCHANGED units
    BY <1>0, <1>1, <1>3, <1>p, <2>0, <2>3, ParkDone, UnitsSame
  <2>4. CASE Cmd_ChangeUnit(c, k) /\ Unlocked
    BY <1>0, <1>1, <1>3, <1>p, <2>4, ChangeUnitDone DEF Unlocked
  <2> QED BY <1>c, <1>k, <2>1, <2>2, <2>3, <2>4
          DEF Handle_Begin, Cmd_Query, TD_RemChangeInt, NSCmd_RemStatCallBack, TD_AddChangeInt,
              NSCmd_AddStatCallBack
<1>5. ClientPlace' /\ ListsEmptied' /\ FreedUnused' /\ OpensCounted'
  BY <1>0, <1>4, <1>p, PlacesServed DEF Done
<1>6. PortPlace'
  <2> SUFFICES ASSUME NEW e \in Devices
               PROVE  Distinct(port'[e]) /\ \A x \in Clients : x \in ToSet(port'[e]) <=> Waits(x, e)'
    BY DEF PortPlace
  <2>1. \A x \in Clients \ {c} : Waits(x, e)' <=> Waits(x, e)
    BY <1>4 DEF Done, Served, Waits
  <2>2. ~ Waits(c, e)'
    BY <1>4 DEF Done, Waits
  <2>3. Distinct(port[e]) /\ \A x \in Clients : x \in ToSet(port[e]) <=> Waits(x, e)
    BY <1>p DEF Uses, PortPlace
  <2>4. CASE e = d
    <3>1. port'[e] = Tail(port[d])
      BY <1>0, <1>p, <2>4 DEF TypeOK
    <3> QED BY <1>1, <2>1, <2>2, <2>3, <2>4, <3>1
  <2>5. CASE e # d
    <3>1. port'[e] = port[e] /\ ~ Waits(c, e)
      BY <1>0, <1>2, <1>k, <1>p, <2>5 DEF TypeOK, Waits
    <3> QED BY <2>1, <2>2, <2>3, <3>1
  <2> QED BY <2>4, <2>5
<1>7. TypeOK'
  <2>1. port' \in [Devices -> Seq(Clients)]
    BY <1>0, <1>1, <1>p DEF TypeOK
  <2> QED BY <1>0, <1>4, <1>5, <1>p, <2>1 DEF TypeOK, Done, Served
<1>8. \A e \in Devices : SameTask(e) /\ ~ NewOpener(e)
  <2>1. \A e \in Devices : \A n \in Luns : <<e, n>> \in Disks
    BY DEF Disks
  <2> QED BY <1>0, <1>4, <2>1, NoNewOpener DEF SameTask, Done, Served
<1>9. DevicePlace'
  BY <1>8, <1>p, DeviceFrame DEF DevicePlace
<1> QED BY <1>4, <1>5, <1>6, <1>7, <1>9, Reassemble DEF Uses

-----------------------------------------------------------------------------
(* The clients *)

\* A call is counted and changes nothing else.
LEMMA CallKeeps ==
    ASSUME TypeOK, NEW x \in Clients
    PROVE  \E r \in ClientType : /\ r = Call(x) /\ r.open = client[x].open /\ r.cmd = client[x].cmd
                                 /\ r.on = client[x].on /\ r.parked = client[x].parked /\ r.late = client[x].late
<1>1. client[x] \in ClientType
  BY DEF TypeOK
<1>2. Call(x) \in ClientType
  BY <1>1 DEF Call, ClientType
<1>3. /\ Call(x).open = client[x].open /\ Call(x).cmd = client[x].cmd
      /\ Call(x).on = client[x].on /\ Call(x).parked = client[x].parked /\ Call(x).late = client[x].late
  BY <1>1 DEF Call, ClientType
<1> QED BY <1>2, <1>3

\* The client keeps the semaphore: what it has found stays.
LEMMA OpenKeeps ==
    ASSUME UnitsInvariant, NEW x \in Clients, NEW u \in Units, Open(x, u)
    PROVE  UnitsInvariant'
<1>p. TypeOK /\ DevicePlace /\ Uses
  BY Parts
<1>0. /\ UNCHANGED <<task, lun, last, early, disk, units, detached, plugged, signals, port, client, closing>>
      /\ client[x].open = None /\ client[x].cmd = "none" /\ closing = "none" /\ opening = "none"
      /\ units[u] # None /\ opening' = x /\ found' = units[u] /\ x # "none"
  BY MSDDeviceAssumption DEF Open, May, Unlocked
<1>1. found' \in Disks /\ disk[found'].state \in {"placed", "up"}
  BY <1>0, <1>p DEF TypeOK, Uses, UnitsLead
<1>2. ClientPlace'
  BY <1>0, <1>p DEF Uses, ClientPlace
<1>3. PortPlace' /\ ListsEmptied' /\ UnitsLead'
  BY <1>0, <1>1, <1>p DEF Uses, PortPlace, Waits, ListsEmptied, Freed, UnitsLead
<1>4. FreedUnused'
  BY <1>0, <1>p DEF Uses, FreedUnused, Freed, Late
<1>5. TypeOK'
  <2>1. OpensCounted'
    BY <1>0, <1>p, OpensKept DEF TypeOK
  <2> QED BY <1>0, <1>1, <1>p, <2>1 DEF TypeOK
<1>6. DevicePlace'
  <2>1. \A e \in Devices : SameTask(e) /\ ~ NewOpener(e)
    BY <1>0, NoNewOpener DEF SameTask
  <2> QED BY <1>p, <2>1, DeviceFrame DEF DevicePlace
<1> QED BY <1>2, <1>3, <1>4, <1>5, <1>6, Reassemble DEF Uses

\* What was found is counted: the task has not come to its end, unless the client is late.
LEMMA OpenedKeeps ==
    ASSUME UnitsInvariant, NEW x \in Clients, Opened(x)
    PROVE  UnitsInvariant'
<1>p. TypeOK /\ DevicePlace /\ Uses
  BY Parts
<1>k. PICK k : k = found
  OBVIOUS
<1>0. /\ UNCHANGED <<task, lun, last, early, units, detached, plugged, signals, port, closing>>
      /\ client[x].open = None /\ client[x].cmd = "none" /\ closing = "none" /\ k # None
      /\ opening' = "none" /\ found' = None
      /\ disk' = [disk EXCEPT ![k].opens = disk[k].opens + 1]
      /\ client' = [client EXCEPT ![x] = [Call(x) EXCEPT !.open = k, !.late = task[Dev(k)] = "free"]]
  BY <1>k, <1>p, MSDDeviceAssumption DEF Opened, Uses, ClientPlace
<1>1. k \in Disks /\ disk[k].state \in {"placed", "up"}
  BY <1>0, <1>k, <1>p DEF TypeOK, Uses, UnitsLead
<1>2. /\ disk' \in [Disks -> DiskType]
      /\ \A j \in Disks :
            /\ disk'[j].state = disk[j].state /\ disk'[j].unit = disk[j].unit
            /\ disk'[j].opens = IF j = k THEN disk[k].opens + 1 ELSE disk[j].opens
      /\ \A j \in Disks : disk'[j].announced = disk[j].announced
  <2>1. disk \in [Disks -> DiskType]
    BY <1>p DEF TypeOK
  <2>2. disk[k] \in DiskType /\ [disk[k] EXCEPT !.opens = disk[k].opens + 1] \in DiskType
    BY <1>1, <2>1 DEF DiskType
  <2>3. disk' = [disk EXCEPT ![k] = [disk[k] EXCEPT !.opens = disk[k].opens + 1]]
    BY <1>0
  <2>4. \A j \in Disks : disk'[j] = IF j = k THEN [disk[k] EXCEPT !.opens = disk[k].opens + 1] ELSE disk[j]
    BY <2>1, <2>3
  <2>5. \A j \in Disks : /\ disk'[j].state = disk[j].state /\ disk'[j].unit = disk[j].unit
                         /\ disk'[j].opens = IF j = k THEN disk[k].opens + 1 ELSE disk[j].opens
    BY <2>2, <2>4 DEF DiskType
  <2>6. \A j \in Disks : disk'[j].announced = disk[j].announced
    BY <2>2, <2>4 DEF DiskType
  <2> QED BY <2>1, <2>2, <2>3, <2>5, <2>6
<1>3. /\ client' \in [Clients -> ClientType]
      /\ \A c \in Clients :
            /\ client'[c].open = IF c = x THEN k ELSE client[c].open
            /\ client'[c].cmd = client[c].cmd /\ client'[c].on = client[c].on
            /\ client'[c].parked = client[c].parked
            /\ client'[c].late = IF c = x THEN task[Dev(k)] = "free" ELSE client[c].late
  <2>1. PICK r \in ClientType : /\ r = Call(x) /\ r.open = client[x].open /\ r.cmd = client[x].cmd
                                /\ r.on = client[x].on /\ r.parked = client[x].parked /\ r.late = client[x].late
    BY <1>p, CallKeeps
  <2>2. PICK t : t = [r EXCEPT !.open = k, !.late = task[Dev(k)] = "free"]
    OBVIOUS
  <2>3. /\ t \in ClientType /\ t.open = k /\ t.cmd = r.cmd /\ t.on = r.on /\ t.parked = r.parked
        /\ t.late = (task[Dev(k)] = "free")
    BY <1>1, <2>2 DEF ClientType
  <2>4. client' = [client EXCEPT ![x] = t]
    BY <1>0, <2>1, <2>2
  <2> QED BY <1>p, <2>1, <2>3, <2>4 DEF TypeOK
<1>4. \A c \in Clients : client[c].open \in Disks \cup {None} /\ client[c].on \in Disks \cup {None}
  BY <1>p DEF TypeOK, ClientType
<1>5. ClientPlace'
  BY <1>0, <1>1, <1>2, <1>3, <1>4, <1>p, MSDDeviceAssumption DEF Uses, ClientPlace
<1>6. PortPlace'
  <2>1. \A c \in Clients : \A e \in Devices : Waits(c, e)' <=> Waits(c, e)
    BY <1>0, <1>3 DEF Waits
  <2> QED BY <1>0, <1>p, <2>1 DEF Uses, PortPlace
<1>7. ListsEmptied' /\ FreedUnused'
  <2>1. \A j \in Disks : disk'[j].state = disk[j].state
    BY <1>2
  <2>2. ListsEmptied'
    BY <1>3, <1>4, <1>p, <2>1 DEF Uses, ListsEmptied, Freed
  <2>3. FreedUnused'
    BY <1>0, <1>1, <1>3, <1>4, <1>p, <2>1 DEF Uses, FreedUnused, Freed, Late
  <2> QED BY <2>2, <2>3
<1>8. UnitsLead'
  <2>1. \A w \in Units : units[w] \in Disks \cup {None}
    BY <1>p DEF TypeOK
  <2> QED BY <1>0, <1>2, <1>p, <2>1 DEF Uses, UnitsLead
<1>9. OpensCounted'
  <2> SUFFICES ASSUME NEW j \in Disks
               PROVE  disk'[j].opens = Cardinality({c \in Clients : Opener(c, j)'})
    BY DEF OpensCounted
  <2>0. disk[j].opens = Cardinality({c \in Clients : Opener(c, j)})
    BY <1>p DEF TypeOK, OpensCounted
  <2>1. CASE j = k
    <3>1. {c \in Clients : Opener(c, j)'} = {c \in Clients : Opener(c, j)} \cup {x}
      BY <1>0, <1>3, <2>1, MSDDeviceAssumption DEF Opener
    <3>2. x \notin {c \in Clients : Opener(c, j)}
      BY <1>0, <2>1 DEF Opener
    <3>3. IsFiniteSet({c \in Clients : Opener(c, j)})
      BY FS_Subset, MSDDeviceAssumption
    <3>4. PICK n \in Nat : n = Cardinality({c \in Clients : Opener(c, j)})
      BY <3>3, FS_CardinalityType
    <3>5. Cardinality({c \in Clients : Opener(c, j)} \cup {x}) = n + 1
      BY <3>2, <3>3, <3>4, FS_AddElement
    <3>6. disk'[j].opens = n + 1
      BY <1>2, <2>0, <2>1, <3>4
    <3> QED BY <3>1, <3>5, <3>6
  <2>2. CASE j # k
    <3>1. {c \in Clients : Opener(c, j)'} = {c \in Clients : Opener(c, j)}
      BY <1>0, <1>3, <1>4, <1>1, <2>2, DiskIsPair DEF Opener
    <3> QED BY <1>2, <2>0, <2>2, <3>1
  <2> QED BY <2>1, <2>2
<1>10. TypeOK'
  BY <1>0, <1>2, <1>3, <1>9, <1>p DEF TypeOK
<1>11. PICK d \in Devices : d = Dev(k)
  BY <1>1, DiskIsPair
<1>12. TaskPlace(d) /\ LastUse(d) /\ Told(d)
  BY <1>p DEF DevicePlace
<1>13. \A e \in Devices : SameTask(e)
  <2>1. \A e \in Devices : \A n \in Luns : <<e, n>> \in Disks
    BY DEF Disks
  <2> QED BY <1>0, <1>2, <2>1 DEF SameTask
<1>14. \A e \in Devices \ {d} : ~ NewOpener(e)
  BY <1>0, <1>3, <1>11 DEF NewOpener, InUse, OpenOn, Late
<1>15. task[d] # "gone"
  BY <1>1, <1>11, <1>12 DEF TaskPlace, Listed, Placing, Disks, Dev
<1>16. ASSUME task[d] # "free" PROVE TaskPlace(d)' /\ LastUse(d)' /\ Told(d)'
  <2>1. TaskPlace(d)' /\ Told(d)'
    BY <1>12, <1>13, PlaceFrame
  <2> QED BY <1>0, <1>15, <1>16, <2>1 DEF LastUse
<1>17. ASSUME task[d] = "free" PROVE TaskPlace(d)' /\ LastUse(d)' /\ Told(d)'
  <2>1. ~ NewOpener(d)
    BY <1>0, <1>3, <1>11, <1>17 DEF NewOpener, InUse, OpenOn, Late
  <2> QED BY <1>12, <1>13, <2>1, DeviceFrame
<1> QED BY <1>5, <1>6, <1>7, <1>8, <1>10, <1>13, <1>14, <1>16, <1>17, <1>p, DevicesStep, Reassemble DEF Uses

\* Signals that wait for a task do not matter.
LEMMA SignalsKept ==
    ASSUME TypeOK, NEW d \in Devices, NEW more \in SUBSET {"begin", "stop"},
           signals' = [signals EXCEPT ![d] = signals[d] \cup more]
    PROVE  signals' \in [Devices -> SUBSET {"begin", "stop"}]
<1>1. signals[d] \cup more \in SUBSET {"begin", "stop"}
  BY DEF TypeOK
<1> QED BY <1>1 DEF TypeOK

\* A request enters the port once: its client has no other.
LEMMA BeginIOKeeps ==
    ASSUME UnitsInvariant, NEW x \in Clients, NEW cmd, BeginIO(x, cmd)
    PROVE  UnitsInvariant'
<1>p. TypeOK /\ DevicePlace /\ Uses
  BY Parts
<1>k. PICK k : k = client[x].open
  OBVIOUS
<1>d. PICK d : d = Dev(k)
  OBVIOUS
<1>0. /\ UNCHANGED <<task, lun, last, early, disk, units, detached, plugged, closing, opening, found>>
      /\ client[x].cmd = "none" /\ closing # x /\ k # None /\ cmd \in Commands
      /\ client' = [client EXCEPT ![x] = [Call(x) EXCEPT !.cmd = cmd]]
      /\ port' = [port EXCEPT ![d] = Append(port[d], x)]
      /\ signals' = [signals EXCEPT ![d] = signals[d] \cup {"begin"}]
  BY <1>k, <1>d DEF BeginIO, May, CommandsOf
<1>1. k \in Disks /\ d \in Devices
  BY <1>0, <1>k, <1>d, <1>p, DiskIsPair DEF TypeOK, ClientType
<1>2. /\ client' \in [Clients -> ClientType]
      /\ \A c \in Clients :
            /\ client'[c].open = client[c].open
            /\ client'[c].cmd = IF c = x THEN cmd ELSE client[c].cmd
            /\ client'[c].on = client[c].on /\ client'[c].parked = client[c].parked
            /\ client'[c].late = client[c].late
  <2>1. PICK r \in ClientType : /\ r = Call(x) /\ r.open = client[x].open /\ r.cmd = client[x].cmd
                                /\ r.on = client[x].on /\ r.parked = client[x].parked /\ r.late = client[x].late
    BY <1>p, CallKeeps
  <2>2. PICK t : t = [r EXCEPT !.cmd = cmd]
    OBVIOUS
  <2>3. /\ t \in ClientType /\ t.cmd = cmd /\ t.open = r.open /\ t.on = r.on /\ t.parked = r.parked
        /\ t.late = r.late
    BY <1>0, <2>2 DEF ClientType
  <2>4. client' = [client EXCEPT ![x] = t]
    BY <1>0, <2>1, <2>2
  <2> QED BY <1>p, <2>1, <2>3, <2>4 DEF TypeOK
<1>3. ClientPlace' /\ ListsEmptied' /\ FreedUnused'
  BY <1>0, <1>2, <1>k, <1>p DEF Uses, ClientPlace, ListsEmptied, FreedUnused, Freed, Late
<1>4. UnitsLead'
  BY <1>0, <1>p DEF Uses, UnitsLead
<1>5. cmd # "none"
  BY <1>0 DEF Commands
<1>6. port[d] \in Seq(Clients) /\ Distinct(port[d]) /\ x \notin ToSet(port[d])
  BY <1>0, <1>1, <1>p DEF TypeOK, Uses, PortPlace, Waits
<1>7. /\ Append(port[d], x) \in Seq(Clients) /\ Distinct(Append(port[d], x))
      /\ ToSet(Append(port[d], x)) = ToSet(port[d]) \cup {x}
  BY <1>6, AppendPlace
<1>8. PortPlace'
  <2> SUFFICES ASSUME NEW e \in Devices
               PROVE  Distinct(port'[e]) /\ \A c \in Clients : c \in ToSet(port'[e]) <=> Waits(c, e)'
    BY DEF PortPlace
  <2>1. \A c \in Clients \ {x} : Waits(c, e)' <=> Waits(c, e)
    BY <1>2 DEF Waits
  <2>2. Waits(x, e)' <=> e = d
    BY <1>2, <1>5, <1>k, <1>d DEF Waits
  <2>3. Distinct(port[e]) /\ \A c \in Clients : c \in ToSet(port[e]) <=> Waits(c, e)
    BY <1>p DEF Uses, PortPlace
  <2>4. ~ Waits(x, e)
    BY <1>0 DEF Waits
  <2>5. CASE e = d
    <3>1. port'[e] = Append(port[d], x)
      BY <1>0, <1>p, <2>5 DEF TypeOK
    <3> QED BY <1>7, <2>1, <2>2, <2>3, <2>5, <3>1
  <2>6. CASE e # d
    <3>1. port'[e] = port[e]
      BY <1>0, <1>p, <2>6 DEF TypeOK
    <3> QED BY <2>1, <2>2, <2>3, <2>4, <2>6, <3>1
  <2> QED BY <2>5, <2>6
<1>9. TypeOK'
  <2>1. OpensCounted'
    BY <1>0, <1>2, <1>p, OpensKept DEF TypeOK
  <2>2. port' \in [Devices -> Seq(Clients)]
    BY <1>0, <1>7, <1>p DEF TypeOK
  <2>3. signals' \in [Devices -> SUBSET {"begin", "stop"}]
    BY <1>0, <1>1, <1>p, SignalsKept
  <2> QED BY <1>0, <1>2, <1>p, <2>1, <2>2, <2>3 DEF TypeOK
<1>10. DevicePlace'
  <2>1. \A e \in Devices : SameTask(e) /\ ~ NewOpener(e)
    BY <1>0, <1>2, NoNewOpener DEF SameTask
  <2> QED BY <1>p, <2>1, DeviceFrame DEF DevicePlace
<1> QED BY <1>3, <1>4, <1>8, <1>9, <1>10, Reassemble DEF Uses

\* The client that closes keeps the unit until it let go of the semaphore, and counts no more.
LEMMA CloseKeeps ==
    ASSUME UnitsInvariant, NEW x \in Clients, Close(x)
    PROVE  UnitsInvariant'
<1>p. TypeOK /\ DevicePlace /\ Uses
  BY Parts
<1>k. PICK k : k = client[x].open
  OBVIOUS
<1>0. /\ UNCHANGED <<task, lun, last, early, units, detached, plugged, signals, port, client, opening, found>>
      /\ client[x].cmd = "none" /\ k # None /\ closing = "none" /\ closing' = x /\ opening = "none"
      /\ disk' = [disk EXCEPT ![k].opens = disk[k].opens - 1]
  BY <1>k DEF Close, Unlocked, OneLess
<1>1. k \in Disks /\ x # "none"
  BY <1>0, <1>k, <1>p, MSDDeviceAssumption DEF TypeOK, ClientType
<1>c. /\ {c \in Clients : Opener(c, k)} = {c \in Clients : Opener(c, k)'} \cup {x}
      /\ x \notin {c \in Clients : Opener(c, k)'} /\ IsFiniteSet({c \in Clients : Opener(c, k)'})
  <2>1. {c \in Clients : Opener(c, k)} = {c \in Clients : Opener(c, k)'} \cup {x}
    BY <1>0, <1>k, <1>1, MSDDeviceAssumption DEF Opener
  <2>2. x \notin {c \in Clients : Opener(c, k)'}
    BY <1>0 DEF Opener
  <2> QED BY <2>1, <2>2, FS_Subset, MSDDeviceAssumption
<1>o. /\ disk[k].opens - 1 \in Nat
      /\ disk[k].opens - 1 = Cardinality({c \in Clients : Opener(c, k)'})
  <2>1. disk[k].opens = Cardinality({c \in Clients : Opener(c, k)})
    BY <1>1, <1>p DEF TypeOK, OpensCounted
  <2>2. PICK n \in Nat : n = Cardinality({c \in Clients : Opener(c, k)'})
    BY <1>c, FS_CardinalityType
  <2>3. disk[k].opens = n + 1
    BY <1>c, <2>1, <2>2, FS_AddElement
  <2> QED BY <2>2, <2>3
<1>2. /\ disk' \in [Disks -> DiskType]
      /\ \A j \in Disks :
            /\ disk'[j].state = disk[j].state /\ disk'[j].unit = disk[j].unit
            /\ disk'[j].opens = IF j = k THEN disk[k].opens - 1 ELSE disk[j].opens
      /\ \A j \in Disks : disk'[j].announced = disk[j].announced
  <2>1. disk \in [Disks -> DiskType]
    BY <1>p DEF TypeOK
  <2>2. disk[k] \in DiskType /\ [disk[k] EXCEPT !.opens = disk[k].opens - 1] \in DiskType
    BY <1>1, <1>o, <2>1 DEF DiskType
  <2>3. disk' = [disk EXCEPT ![k] = [disk[k] EXCEPT !.opens = disk[k].opens - 1]]
    BY <1>0
  <2>4. \A j \in Disks : disk'[j] = IF j = k THEN [disk[k] EXCEPT !.opens = disk[k].opens - 1] ELSE disk[j]
    BY <2>1, <2>3
  <2>5. \A j \in Disks : /\ disk'[j].state = disk[j].state /\ disk'[j].unit = disk[j].unit
                         /\ disk'[j].opens = IF j = k THEN disk[k].opens - 1 ELSE disk[j].opens
    BY <2>2, <2>4 DEF DiskType
  <2>6. \A j \in Disks : disk'[j].announced = disk[j].announced
    BY <2>2, <2>4 DEF DiskType
  <2> QED BY <2>1, <2>2, <2>3, <2>5, <2>6
<1>3. \A c \in Clients : client[c].open \in Disks \cup {None} /\ client[c].on \in Disks \cup {None}
  BY <1>p DEF TypeOK, ClientType
<1>4. ClientPlace'
  BY <1>0, <1>2, <1>3, <1>k, <1>p, MSDDeviceAssumption DEF Uses, ClientPlace
<1>5. PortPlace' /\ UnitsLead'
  BY <1>0, <1>2, <1>p, PortSame, UnitsSame
<1>6. ListsEmptied' /\ FreedUnused'
  <2>1. \A j \in Disks : disk'[j].state = disk[j].state
    BY <1>2
  <2> QED BY <1>0, <1>3, <1>p, <2>1 DEF Uses, ListsEmptied, FreedUnused, Freed, Late
<1>7. OpensCounted'
  <2> SUFFICES ASSUME NEW j \in Disks
               PROVE  disk'[j].opens = Cardinality({c \in Clients : Opener(c, j)'})
    BY DEF OpensCounted
  <2>1. CASE j = k
    BY <1>2, <1>o, <2>1
  <2>2. CASE j # k
    <3>1. {c \in Clients : Opener(c, j)'} = {c \in Clients : Opener(c, j)}
      BY <1>0, <1>k, <2>2, MSDDeviceAssumption DEF Opener
    <3> QED BY <1>2, <1>p, <2>2, <3>1 DEF TypeOK, OpensCounted
  <2> QED BY <2>1, <2>2
<1>8. TypeOK'
  BY <1>0, <1>2, <1>7, <1>p DEF TypeOK
<1>9. DevicePlace'
  <2>1. \A e \in Devices : \A n \in Luns : <<e, n>> \in Disks
    BY DEF Disks
  <2>2. \A e \in Devices : SameTask(e)
    BY <1>0, <1>2, <2>1 DEF SameTask
  <2>3. \A e \in Devices : ~ NewOpener(e)
    BY <1>0, MSDDeviceAssumption DEF NewOpener, InUse, OpenOn, Late
  <2> QED BY <1>p, <2>2, <2>3, DeviceFrame DEF DevicePlace
<1> QED BY <1>4, <1>5, <1>6, <1>8, <1>9, Reassemble DEF Uses

LEMMA ClosedKeeps ==
    ASSUME UnitsInvariant, NEW x \in Clients, Closed(x)
    PROVE  UnitsInvariant'
<1>p. TypeOK /\ DevicePlace /\ Uses
  BY Parts
<1>d. PICK d : d = Dev(client[x].open)
  OBVIOUS
<1>0. /\ UNCHANGED <<task, lun, last, early, disk, units, detached, plugged, port, opening, found>>
      /\ closing = x /\ closing' = "none" /\ client' = [client EXCEPT ![x].open = None]
      /\ \E more \in SUBSET {"begin", "stop"} : signals' = [signals EXCEPT ![d] = signals[d] \cup more]
  <2>1. CloseSignal(d) = signals[d] \cup (IF detached[d] THEN {"begin"} ELSE {})
    BY DEF CloseSignal
  <2>2. (IF detached[d] THEN {"begin"} ELSE {}) \in SUBSET {"begin", "stop"}
    OBVIOUS
  <2> QED BY <1>d, <2>1, <2>2 DEF Closed
<1>1. client[x].cmd = "none" /\ client[x].open # None /\ d \in Devices
  BY <1>0, <1>d, <1>p, DiskIsPair DEF Uses, ClientPlace, TypeOK, ClientType
<1>2. /\ client' \in [Clients -> ClientType]
      /\ \A c \in Clients :
            /\ client'[c].open = IF c = x THEN None ELSE client[c].open
            /\ client'[c].cmd = client[c].cmd /\ client'[c].on = client[c].on
            /\ client'[c].parked = client[c].parked /\ client'[c].late = client[c].late
  <2>1. client[x] \in ClientType
    BY <1>p DEF TypeOK
  <2>2. PICK t : t = [client[x] EXCEPT !.open = None]
    OBVIOUS
  <2>3. t \in ClientType /\ t.open = None /\ t.cmd = client[x].cmd /\ t.on = client[x].on
        /\ t.parked = client[x].parked /\ t.late = client[x].late
    BY <2>1, <2>2 DEF ClientType
  <2>4. client' = [client EXCEPT ![x] = t]
    BY <1>0, <2>2
  <2> QED BY <1>p, <2>3, <2>4 DEF TypeOK
<1>3. ClientPlace' /\ ListsEmptied' /\ FreedUnused'
  BY <1>0, <1>1, <1>2, <1>p, MSDDeviceAssumption DEF Uses, ClientPlace, ListsEmptied, FreedUnused, Freed, Late
<1>4. UnitsLead'
  BY <1>0, <1>p DEF Uses, UnitsLead
<1>5. PortPlace'
  <2>1. \A c \in Clients : \A e \in Devices : Waits(c, e)' <=> Waits(c, e)
    BY <1>1, <1>2 DEF Waits
  <2> QED BY <1>0, <1>p, <2>1 DEF Uses, PortPlace
<1>6. OpensCounted'
  <2> SUFFICES ASSUME NEW j \in Disks
               PROVE  disk[j].opens = Cardinality({c \in Clients : Opener(c, j)'})
    BY <1>0 DEF OpensCounted
  <2>1. {c \in Clients : Opener(c, j)'} = {c \in Clients : Opener(c, j)}
    BY <1>0, <1>2, MSDDeviceAssumption, DiskIsPair DEF Opener
  <2> QED BY <1>p, <2>1 DEF TypeOK, OpensCounted
<1>7. TypeOK'
  <2>1. signals' \in [Devices -> SUBSET {"begin", "stop"}]
    BY <1>0, <1>1, <1>p, SignalsKept
  <2> QED BY <1>0, <1>2, <1>6, <1>p, <2>1 DEF TypeOK
<1>8. DevicePlace'
  <2>1. \A e \in Devices : SameTask(e)
    BY <1>0 DEF SameTask
  <2>2. \A e \in Devices : ~ NewOpener(e)
    BY <1>0, <1>2, MSDDeviceAssumption DEF NewOpener, InUse, OpenOn, Late
  <2> QED BY <1>p, <2>1, <2>2, DeviceFrame DEF DevicePlace
<1> QED BY <1>3, <1>4, <1>5, <1>7, <1>8, Reassemble DEF Uses

-----------------------------------------------------------------------------
(* The theorem *)

LEMMA InitHolds == ASSUME Init PROVE UnitsInvariant
<1>1. /\ \A k \in Disks : disk[k] = NoDisk
      /\ \A c \in Clients : client[c] = NoClient
      /\ \A u \in Units : units[u] = None
      /\ \A d \in Devices : task[d] = "off" /\ lun[d] = 0 /\ port[d] = <<>> /\ ~ detached[d]
      /\ closing = "none" /\ opening = "none" /\ found = None
  BY DEF Init
<1>2. /\ \A k \in Disks : disk[k].state = "none" /\ disk[k].opens = 0 /\ disk[k].announced = FALSE
      /\ \A c \in Clients : /\ client[c].open = None /\ client[c].cmd = "none"
                            /\ client[c].parked = "none" /\ client[c].on = None
  BY <1>1 DEF NoDisk, NoClient
<1>3. OpensCounted
  <2> SUFFICES ASSUME NEW k \in Disks PROVE Cardinality({c \in Clients : Opener(c, k)}) = 0
    BY <1>2 DEF OpensCounted
  <2>1. {c \in Clients : Opener(c, k)} = {}
    BY <1>2, DiskIsPair DEF Opener
  <2> QED BY <2>1, FS_EmptySet
<1>4. 0 \in Units /\ 0 \in Luns /\ 0 \in Nat
  BY MSDDeviceAssumption DEF Units
<1>5. NoDisk \in DiskType /\ NoClient \in ClientType
  BY <1>4 DEF NoDisk, NoClient, DiskType, ClientType
<1>6. disk \in [Disks -> DiskType] /\ client \in [Clients -> ClientType]
  BY <1>5 DEF Init
<1>7. TypeOK
  BY <1>3, <1>4, <1>6 DEF Init, TypeOK, Stages
<1>8. \A d \in Devices : \A n \in Luns : <<d, n>> \in Disks
  BY DEF Disks
<1>9. DevicePlace
  BY <1>1, <1>2, <1>8 DEF DevicePlace, TaskPlace, LastUse, Told, Ending, Freed, Placing
<1>10. PortPlace
  BY <1>1, <1>2 DEF PortPlace, Waits, Distinct, ToSet
<1>11. ClientPlace /\ ListsEmptied /\ UnitsLead /\ FreedUnused
  BY <1>1, <1>2, MSDDeviceAssumption DEF ClientPlace, ListsEmptied, UnitsLead, FreedUnused
<1> QED BY <1>7, <1>9, <1>10, <1>11 DEF UnitsInvariant

LEMMA UnitsStep ==
    ASSUME UnitsInvariant, ~ TakenToo, [Next]_vars PROVE UnitsInvariant'
<1>1. ASSUME NEW d \in Devices, Task(d) PROVE UnitsInvariant'
  BY <1>1, EntryKeeps, ProbeKeeps, PlaceKeeps, AnnounceKeeps, ListKeeps, WakeKeeps, HandleBeginKeeps, HandledKeeps,
     StoppingKeeps, DiskFreeKeeps, DeviceFreedKeeps DEF Task
<1>2. ASSUME NEW d \in Devices, Unplug(d) \/ Stop(d) PROVE UnitsInvariant'
  BY <1>2, WorldKeeps
<1>3. ASSUME NEW x \in Clients, NEW u \in Units, Open(x, u) PROVE UnitsInvariant'
  BY <1>3, OpenKeeps
<1>4. ASSUME NEW x \in Clients, NEW cmd \in CommandsOf(x), BeginIO(x, cmd) PROVE UnitsInvariant'
  BY <1>4, BeginIOKeeps
<1>5. ASSUME NEW x \in Clients, Close(x) \/ Closed(x) \/ Opened(x) PROVE UnitsInvariant'
  BY <1>5, CloseKeeps, ClosedKeeps, OpenedKeeps
<1>6. ASSUME UNCHANGED vars PROVE UnitsInvariant'
  <2>0. /\ UNCHANGED <<task, lun, last, early, disk, units, detached, plugged>>
        /\ UNCHANGED <<signals, port, client, closing, opening, found>>
    BY <1>6 DEF vars
  <2>p. TypeOK /\ DevicePlace /\ Uses
    BY Parts
  <2>1. OpensCounted'
    BY <2>0, <2>p, OpensKept DEF TypeOK
  <2>2. TypeOK'
    BY <2>0, <2>1, <2>p DEF TypeOK
  <2>3. Uses'
    BY <2>0, <2>p, UsesFrame
  <2>4. \A e \in Devices : SameTask(e) /\ ~ NewOpener(e)
    BY <2>0, NoNewOpener DEF SameTask
  <2>5. DevicePlace'
    BY <2>4, <2>p, DeviceFrame DEF DevicePlace
  <2> QED BY <2>2, <2>3, <2>5, Reassemble
<1> QED BY <1>1, <1>2, <1>3, <1>4, <1>5, <1>6 DEF Next

\* A request in the port of a device is of a client that has a unit of it open, and is not in
\* Close(): when the task is gone, only one that opened it too late has one.
LEMMA InvariantSuffices == ASSUME UnitsInvariant PROVE UnitsAgree
<1>p. TypeOK /\ DevicePlace /\ Uses
  BY Parts
<1>1. ASSUME NEW d \in Devices, task[d] = "gone", ~ early[d], NEW c \in ToSet(port[d]) PROVE Late(c)
  <2>2. c \in Clients
    BY <1>1, <1>p DEF TypeOK, ToSet
  <2>3. client[c].cmd # "none" /\ Dev(client[c].open) = d
    BY <1>1, <1>p, <2>2 DEF Uses, PortPlace, Waits
  <2>4. c \in OpenOn(d)
    BY <1>p, <2>2, <2>3 DEF Uses, ClientPlace, OpenOn
  <2>5. closing = c \/ Late(c)
    BY <1>1, <1>p, <2>4 DEF DevicePlace, LastUse
  <2> QED BY <1>p, <2>2, <2>3, <2>5 DEF Uses, ClientPlace
<1>2. NoRequestLost
  BY <1>1, <1>p DEF NoRequestLost, Uses, ListsEmptied
<1>3. WatchersTold
  BY <1>p DEF DevicePlace, WatchersTold
<1> QED BY <1>p, <1>2, <1>3 DEF UnitsAgree, Uses

\* The unit table leads only to disks that are there, under their number; what clients have open
\* is counted; a disk is freed only when nobody uses it, but for a client that Open() counted when
\* the task had looked for the last time; no other's request is lost; whoever waits for a change of
\* state is told that the device stops.
THEOREM UnitsAgreeAlways == ASSUME ~ TakenToo PROVE Spec => []UnitsAgree
<1>1. Init => UnitsInvariant
  BY InitHolds
<1>2. ~ TakenToo
  OBVIOUS
<1>3. UnitsInvariant /\ [Next]_vars => UnitsInvariant'
  BY <1>2, UnitsStep
<1>4. UnitsInvariant => UnitsAgree
  BY InvariantSuffices
<1> QED BY <1>1, <1>3, <1>4, PTL DEF Spec

-----------------------------------------------------------------------------
(* Blocks, tags and faults of a transfer *)

\* The types of the device and of the loop.
Devs == [cmd : T!Cmds, blocks : Nat, in : BOOLEAN, out : BOOLEAN, gone : BOOLEAN, stale : T!Cmds, fair : BOOLEAN]
Bulks == [tag : 0 .. TagLimit, tries : 0 .. T!Tries - 1, stalled : BOOLEAN]

LEMMA DivisionFits ==
    ASSUME NEW a \in Nat, NEW t \in Nat \ {0}
    PROVE  (a \div t) \in Nat /\ (a % t = 0 => (a > 0 <=> (a \div t) > 0))
BY SMTT(30)

LEMMA DivisionGrows ==
    ASSUME NEW a \in Nat, NEW b \in Nat, NEW t \in Nat \ {0}, a <= b
    PROVE  (a \div t) <= (b \div t)
BY SMTT(30)

LEMMA RemainderFits ==
    ASSUME NEW t \in Nat \ {0}, NEW a \in 0 .. t
    PROVE  a % t = IF a = t THEN 0 ELSE a
BY SMTT(30)

LEMMA OneLessFits ==
    ASSUME NEW t \in Nat \ {0}, NEW a \in 0 .. t - 1
    PROVE  (a - 1) % t = IF a = 0 THEN t - 1 ELSE a - 1
BY SMTT(30)

\* The blocks of a request have their places in the buffer.
LEMMA BlocksFit ==
    ASSUME NEW r, r.off \in Nat, r.len \in Lengths \cup {0}
    PROVE  /\ T!First(r) \in Nat /\ T!Blocks(r) \in Nat
           /\ 0 .. T!Blocks(r) - 1 \subseteq T!Slots
           /\ T!Accepted(r) => T!Blocks(r) > 0
<1>0. BlockSize \in Nat \ {0} /\ Lengths \subseteq Nat
  BY TransferAssumption DEF T!MSDTransferAssumption
<1>1. T!Max(Lengths) \in Nat /\ \A l \in Lengths : l <= T!Max(Lengths)
  BY TransferAssumption DEF T!MSDTransferAssumption, T!Max
<1>2. r.len \in Nat /\ r.len <= T!Max(Lengths)
  <2>1. CASE r.len \in Lengths
    BY <1>0, <1>1, <2>1
  <2>2. CASE r.len = 0
    BY <1>1, <2>2
  <2> QED BY <2>1, <2>2
<1>3. T!First(r) \in Nat /\ T!Blocks(r) \in Nat
  BY <1>0, <1>2, DivisionFits DEF T!First, T!Blocks
<1>4. (T!Max(Lengths) \div BlockSize) \in Nat /\ T!Blocks(r) <= (T!Max(Lengths) \div BlockSize)
  BY <1>0, <1>1, <1>2, DivisionFits, DivisionGrows DEF T!Blocks
<1>5. 0 .. T!Blocks(r) - 1 \subseteq T!Slots
  BY <1>3, <1>4 DEF T!Slots
<1>6. T!Accepted(r) => T!Blocks(r) > 0
  BY <1>0, <1>2, DivisionFits DEF T!Accepted, T!Aligned, T!Blocks
<1> QED BY <1>3, <1>5, <1>6

LEMMA SlotsFit == IsFiniteSet(T!Slots) /\ Cardinality(T!Slots) \in Nat
<1>0. BlockSize \in Nat \ {0} /\ Lengths \subseteq Nat
  BY TransferAssumption DEF T!MSDTransferAssumption
<1>1. T!Max(Lengths) \in Nat
  BY TransferAssumption DEF T!MSDTransferAssumption, T!Max
<1>2. (T!Max(Lengths) \div BlockSize) - 1 \in Int
  BY <1>0, <1>1, DivisionFits
<1>3. IsFiniteSet(T!Slots)
  BY <1>2, FS_Interval DEF T!Slots
<1> QED BY <1>3, FS_CardinalityType

\* The size of a set is the same in the instance.
LEMMA SameCount == ASSUME NEW X PROVE T!Cardinality(X) = Cardinality(X)
BY Zenon DEF T!Cardinality, Cardinality

LEMMA ValueFits == ASSUME t_rounds \in Nat, NEW s \in Nat PROVE T!Value(s) \in Nat
<1>1. t_rounds * Cardinality(T!Slots) \in Nat
  BY SlotsFit
<1> QED BY <1>1, SameCount DEF T!Value

LEMMA TagFits ==
    ASSUME t_bulk.tag \in 0 .. TagLimit
    PROVE  T!NextTag \in 1 .. TagLimit /\ T!NextTag = IF t_bulk.tag = TagLimit THEN 1 ELSE t_bulk.tag + 1
<1>1. TagLimit \in Nat \ {0}
  BY TransferAssumption DEF T!MSDTransferAssumption
<1>2. t_bulk.tag % TagLimit = IF t_bulk.tag = TagLimit THEN 0 ELSE t_bulk.tag
  BY <1>1, RemainderFits
<1> QED BY <1>1, <1>2 DEF T!NextTag

\* What the loop moves next are blocks of the request, which a command reaches.
LEMMA LoopFits ==
    ASSUME T!TypesFit, T!RunFits, t_pc # "idle"
    PROVE  /\ T!Count \in Nat /\ T!First(t_req) \in Nat /\ T!Blocks(t_req) \in Nat
           /\ 0 .. T!Blocks(t_req) - 1 \subseteq T!Slots
           /\ (t_run.op \in {"read", "write"} <=> T!OnBlocks(t_req)) /\ (t_run.op = "other" <=> T!Count = 0)
           /\ t_run.op \in {"read", "write"} =>
                 /\ T!WireLBA = t_run.start /\ t_run.start < LBALimit
                 /\ T!Done \in Nat /\ T!Count \in 1 .. t_run.left /\ t_run.left \in Nat
                 /\ t_run.start = T!First(t_req) + T!Done /\ T!Done + t_run.left = T!Blocks(t_req)
                 /\ t_run.start + t_run.left <= t_total /\ t_total <= t_dev.blocks /\ t_total \in Nat
                 /\ t_dev.blocks \in Nat
<1>0. LBALimit \in Nat \ {0} /\ ChunkBlocks \in Nat \ {0}
  BY TransferAssumption DEF T!MSDTransferAssumption
<1>1. T!First(t_req) \in Nat /\ T!Blocks(t_req) \in Nat /\ 0 .. T!Blocks(t_req) - 1 \subseteq T!Slots
  BY BlocksFit DEF T!TypesFit
<1>2. t_run \in [op : T!Ops, wide : BOOLEAN, short : BOOLEAN, start : Nat, left : Nat] /\ t_run.op # "none"
  BY DEF T!TypesFit, T!RunFits, T!TellsTheSize, T!OneBlockWraps
<1>3. t_run.op \in {"read", "write"} <=> T!OnBlocks(t_req)
  BY DEF T!RunFits, T!TellsTheSize, T!OneBlockWraps, T!Reads, T!OnBlocks
<1>4. t_total \in Nat /\ t_total <= t_dev.blocks /\ t_total < LBALimit /\ t_dev.blocks \in Nat
  BY DEF T!TypesFit, T!TypeOK, T!RunFits, T!TellsTheSize, T!OneBlockWraps
<1>5. ASSUME t_run.op \in {"read", "write"}
      PROVE  /\ T!Done \in Nat /\ t_run.left \in 1 .. T!Blocks(t_req) /\ T!Done + t_run.left = T!Blocks(t_req)
             /\ t_run.start = T!First(t_req) + T!Done /\ t_run.start + t_run.left <= t_total
             /\ t_run.start < LBALimit
  <2>1. /\ t_run.left \in 1 .. T!Blocks(t_req) /\ t_run.start = T!First(t_req) + T!Done
        /\ T!First(t_req) + T!Blocks(t_req) <= t_total
    BY <1>3, <1>5 DEF T!RunFits, T!TellsTheSize, T!OneBlockWraps
  <2> QED BY <1>0, <1>1, <1>4, <2>1 DEF T!Done
<1>6. t_run.op \in {"read", "write"} => T!WireLBA = t_run.start
  BY <1>0, <1>2, <1>5, RemainderFits DEF T!WireLBA
<1>7. t_run.op \in {"read", "write"} => T!Count \in 1 .. t_run.left
  BY <1>0, <1>1, <1>5 DEF T!Count, T!Lower
<1>8. T!Count \in Nat /\ (t_run.op = "other" <=> T!Count = 0)
  BY <1>1, <1>2, <1>5, <1>7 DEF T!Count, T!Ops
<1> QED BY <1>1, <1>3, <1>4, <1>5, <1>6, <1>7, <1>8

-----------------------------------------------------------------------------
(* Steps within a request *)

\* n faults hit the request.
Faulted(n) == t_faults' = t_faults + n /\ t_faults' <= MaxFaults /\ t_req' = [t_req EXCEPT !.met = @ + n]

\* What the device holds is a command or nothing.
HeldFits == /\ t_dev.cmd.state = "ready" <=> t_dev.cmd = T!Ready
            /\ t_dev.stale # T!Ready => t_dev.stale.state = "status"

LEMMA Basics ==
    ASSUME T!TransferInvariant
    PROVE  /\ t_dev \in Devs /\ t_bulk \in Bulks /\ HeldFits /\ t_dev.cmd \in T!Cmds /\ t_dev.stale \in T!Cmds
           /\ t_req \in [cmd : Sent \cup {"none"}, off : Nat, len : Lengths \cup {0}, met : Nat]
           /\ t_run \in [op : T!Ops, wide : BOOLEAN, short : BOOLEAN, start : Nat, left : Nat]
           /\ t_faults \in Nat /\ t_faults <= MaxFaults /\ MaxFaults \in Nat /\ TagLimit \in Nat \ {0}
           /\ t_disk \in [0 .. t_dev.blocks - 1 -> Nat] /\ t_buf \in [T!Slots -> Nat]
           /\ t_rounds \in Nat /\ t_rounds <= Rounds /\ Rounds \in Nat
BY TransferAssumption DEF T!TransferInvariant, T!TypesFit, T!TypeOK, Devs, Bulks, HeldFits,
    T!MSDTransferAssumption

LEMMA ReadyFits == T!Ready \in T!Cmds /\ T!Ready.state = "ready" /\ T!Ready.tag = 0
BY TransferAssumption DEF T!Ready, T!Cmds, T!Ops, T!MSDTransferAssumption

LEMMA AgeFits == ASSUME T!TransferInvariant, NEW c \in T!Cmds PROVE T!Age(c) \in Int
<1>1. c.tag \in Nat /\ t_bulk.tag \in Nat /\ TagLimit \in Nat
  BY Basics DEF T!Cmds, Bulks
<1> QED BY <1>1 DEF T!Age

\* Faults are counted one by one, or by the requests that were lost.
LEMMA FaultsCounted ==
    ASSUME T!TransferInvariant
    PROVE  /\ T!NoFault => Faulted(0)
           /\ T!Fault => Faulted(1)
           /\ \A pipes, lost : T!Destall(pipes, lost) /\ pipes \subseteq {"in", "out", "reset"} =>
                 \E n \in Nat : Faulted(n) /\ (lost # {} => n > 0)
<1>1. T!NoFault => Faulted(0)
  BY Basics DEF T!NoFault, Faulted
<1>2. T!Fault => Faulted(1)
  BY Basics DEF T!Fault, Faulted
<1>3. ASSUME NEW pipes, NEW lost, T!Destall(pipes, lost), pipes \subseteq {"in", "out", "reset"}
      PROVE  \E n \in Nat : Faulted(n) /\ (lost # {} => n > 0)
  <2>1. IsFiniteSet({"in", "out", "reset"})
    <3>1. IsFiniteSet({})
      BY FS_EmptySet
    <3>2. IsFiniteSet({} \cup {"in"})
      BY <3>1, FS_AddElement
    <3>3. IsFiniteSet({} \cup {"in"} \cup {"out"})
      BY <3>2, FS_AddElement
    <3>4. IsFiniteSet({} \cup {"in"} \cup {"out"} \cup {"reset"})
      BY <3>3, FS_AddElement
    <3>5. {} \cup {"in"} \cup {"out"} \cup {"reset"} = {"in", "out", "reset"}
      OBVIOUS
    <3> QED BY <3>4, <3>5
  <2>2. lost \subseteq {"in", "out", "reset"}
    BY <1>3 DEF T!Destall
  <2>3. IsFiniteSet(lost)
    BY <2>1, <2>2, FS_Subset
  <2>4. Cardinality(lost) \in Nat /\ (lost # {} => Cardinality(lost) # 0)
    BY <2>3, FS_CardinalityType, FS_EmptySet
  <2>5. Faulted(Cardinality(lost))
    BY <1>3, SameCount DEF T!Destall, Faulted
  <2> QED BY <2>4, <2>5
<1> QED BY <1>1, <1>2, <1>3

\* Between two phases of a command, the loop stays where it is.
LEMMA PhaseKeeps ==
    ASSUME T!TransferInvariant, t_pc # "idle", t_pc' \in {"command", "data", "status", "recover"},
           UNCHANGED <<t_run, t_total, t_io, t_rounds>>, NEW n \in Nat, Faulted(n),
           t_bulk' \in Bulks, t_bulk'.tag > 0, t_detached' \in BOOLEAN,
           t_dev' \in Devs, t_dev'.blocks = t_dev.blocks, HeldFits',
           t_disk' \in [0 .. t_dev.blocks - 1 -> Nat], t_buf' \in [T!Slots -> Nat]
    PROVE  T!TypesFit' /\ T!RunFits' /\ T!ReadIsRight' /\ T!WriteIsRight'
<1>0. T!TypesFit /\ T!RunFits /\ T!TypeOK
  BY DEF T!TransferInvariant, T!TypesFit
<1>1. /\ t_req' \in [cmd : Sent \cup {"none"}, off : Nat, len : Lengths \cup {0}, met : Nat]
      /\ t_req'.cmd = t_req.cmd /\ t_req'.off = t_req.off /\ t_req'.len = t_req.len
      /\ t_faults' \in Nat /\ t_faults' <= MaxFaults
  <2>1. t_req \in [cmd : Sent \cup {"none"}, off : Nat, len : Lengths \cup {0}, met : Nat] /\ t_faults \in Nat
    BY Basics
  <2>2. t_req' = [t_req EXCEPT !.met = @ + n] /\ t_req.met + n \in Nat
    BY <2>1 DEF Faulted
  <2>3. t_faults' \in Nat /\ t_faults' <= MaxFaults
    BY <2>1 DEF Faulted
  <2> QED BY <2>1, <2>2, <2>3
<1>2. T!First(t_req') = T!First(t_req) /\ T!Blocks(t_req') = T!Blocks(t_req) /\ T!Reads(t_req') = T!Reads(t_req)
      /\ T!OnBlocks(t_req') = T!OnBlocks(t_req)
  BY <1>1 DEF T!First, T!Blocks, T!Reads, T!OnBlocks
<1>3. T!TypeOK'
  <2>1. {t_dev'.in, t_dev'.out, t_dev'.gone, t_detached'} \subseteq BOOLEAN
    BY DEF Devs
  <2>2. t_dev'.cmd.state \in {"ready", "data", "status"}
    BY DEF Devs, T!Cmds
  <2>3. DOMAIN t_disk' = 0 .. t_dev'.blocks - 1 /\ t_buf' \in [T!Slots -> Nat]
    OBVIOUS
  <2>4. t_bulk'.tag \in 0 .. TagLimit /\ t_bulk'.tries \in 0 .. T!Tries - 1 /\ t_bulk'.stalled \in BOOLEAN
    BY DEF Bulks
  <2>5. t_faults' \in 0 .. MaxFaults
    BY <1>1, Basics
  <2> QED BY <1>0, <2>1, <2>2, <2>3, <2>4, <2>5 DEF T!TypeOK
<1>4. T!TypesFit'
  BY <1>0, <1>1, <1>3 DEF T!TypesFit, Devs, Bulks, HeldFits
<1>5. T!RunFits'
  BY <1>0, <1>2 DEF T!RunFits, T!TellsTheSize, T!OneBlockWraps, T!Done
<1>6. ~T!Answered'
  BY DEF T!Answered
<1> QED BY <1>4, <1>5, <1>6 DEF T!ReadIsRight, T!WriteIsRight

\* So do the blocks before it, if nothing is moved.
LEMMA DoneKept ==
    ASSUME T!TransferInvariant, t_pc # "idle", UNCHANGED <<t_run, t_disk, t_buf, t_rounds>>, NEW n \in Nat, Faulted(n)
    PROVE  /\ T!BlocksDone'
           /\ T!WireLBA' = T!WireLBA /\ T!Count' = T!Count /\ T!Done' = T!Done
           /\ T!First(t_req') = T!First(t_req) /\ T!Blocks(t_req') = T!Blocks(t_req) /\ \A s : T!Value(s)' = T!Value(s)
<1>1. t_req'.off = t_req.off /\ t_req'.len = t_req.len
  BY Basics DEF Faulted
<1>2. T!First(t_req') = T!First(t_req) /\ T!Blocks(t_req') = T!Blocks(t_req)
  BY <1>1 DEF T!First, T!Blocks
<1>3. T!WireLBA' = T!WireLBA /\ T!Count' = T!Count /\ T!Done' = T!Done /\ \A s : T!Value(s)' = T!Value(s)
  BY <1>2 DEF T!WireLBA, T!Count, T!Done, T!Value
<1> QED BY <1>2, <1>3 DEF T!TransferInvariant, T!BlocksDone

\* A command that the device takes is the one in hand.
LEMMA TakenFits ==
    ASSUME T!TransferInvariant, t_pc # "idle", NEW c \in T!Taken
    PROVE  /\ c \in T!Cmds /\ c # T!Ready /\ c.state = (IF T!Count = 0 THEN "status" ELSE "data")
           /\ c.tag = t_bulk.tag /\ c.op = t_run.op /\ c.at = T!WireLBA /\ c.todo + c.miss = T!Count
           /\ c.halt => c.miss > 0 \/ T!Count = 0
<1>0. t_bulk.tag > 0 /\ t_run.op \in {"read", "write", "capacity", "sense", "other"}
  BY Basics DEF T!TransferInvariant, T!RunFits, T!TellsTheSize, T!OneBlockWraps, T!Ops
<1>1. T!WireLBA \in Nat /\ T!Count \in Nat
  <2>1. T!Count \in Nat
    BY LoopFits DEF T!TransferInvariant
  <2>2. t_run.start \in Nat /\ LBALimit \in Nat \ {0}
    BY TransferAssumption, Basics DEF T!MSDTransferAssumption
  <2>3. t_run.start % LBALimit \in Nat
    BY <2>2
  <2> QED BY <2>1, <2>2, <2>3 DEF T!WireLBA
<1>2. /\ c.state = (IF T!Count = 0 THEN "status" ELSE "data") /\ c.tag = t_bulk.tag /\ c.op = t_run.op
      /\ c.at = T!WireLBA
      /\ c.todo + c.miss = T!Count /\ (c.halt => c.miss > 0 \/ T!Count = 0)
  BY DEF T!Taken
<1>3. c \in T!Cmds
  <2>1. PICK s \in {IF T!Count = 0 THEN "status" ELSE "data"}, t \in {t_bulk.tag}, o \in {t_run.op}, a \in {T!WireLBA},
             d \in 0 .. T!Count, m \in 0 .. T!Count, h \in BOOLEAN, v \in {"passed", "failed", "phase"} :
             c = [state |-> s, tag |-> t, op |-> o, at |-> a, todo |-> d, miss |-> m, halt |-> h, verdict |-> v]
    BY DEF T!Taken
  <2>2. /\ s \in {"ready", "data", "status"} /\ t \in 0 .. TagLimit /\ o \in T!Ops /\ a \in Nat /\ d \in Nat
        /\ m \in Nat
    BY <1>0, <1>1, <2>1, Basics DEF Bulks, T!Ops
  <2> QED BY <2>1, <2>2 DEF T!Cmds
<1> QED BY <1>2, <1>3, ReadyFits

\* A step of a phase that moves no data.
LEMMA PhaseFrame ==
    ASSUME T!TransferInvariant, t_pc # "idle", t_pc' \in {"command", "data", "status", "recover"},
           UNCHANGED <<t_run, t_disk, t_buf, t_total, t_io, t_rounds>>, NEW n \in Nat, Faulted(n),
           t_bulk' \in Bulks, t_bulk'.tag > 0, t_detached' \in BOOLEAN,
           t_dev' \in Devs, t_dev'.blocks = t_dev.blocks, HeldFits',
           ~t_dev'.gone => T!AgesFit' /\ T!DataFits' /\ T!FaultsMet'
    PROVE  T!TransferInvariant'
<1>1. t_disk' \in [0 .. t_dev.blocks - 1 -> Nat] /\ t_buf' \in [T!Slots -> Nat]
  BY Basics
<1>2. T!TypesFit' /\ T!RunFits' /\ T!ReadIsRight' /\ T!WriteIsRight'
  BY <1>1, PhaseKeeps
<1>3. T!BlocksDone'
  BY DoneKept
<1> QED BY <1>2, <1>3 DEF T!TransferInvariant

\* Clearing halts changes nothing else of the device.
LEMMA HaltsFit ==
    ASSUME NEW d \in Devs, NEW pipes, NEW lost
    PROVE  LET h == T!Halts(pipes, lost, d)
           IN  /\ h \in Devs /\ h.cmd = d.cmd /\ h.stale = d.stale /\ h.blocks = d.blocks
               /\ h.gone = d.gone /\ h.fair = d.fair /\ (h.in => d.in) /\ (h.out => d.out)
               /\ lost = {} => (h.in => "in" \notin pipes) /\ (h.out => "out" \notin pipes)
BY DEF T!Halts, Devs

\* A command at its end is still that command.
LEMMA CutShortFits ==
    ASSUME NEW c \in T!Cmds
    PROVE  /\ T!Finished(c) \in T!Cmds /\ T!Finished(c) = [c EXCEPT !.state = "status", !.todo = 0]
           /\ T!Finished(c).state = "status" /\ T!Finished(c).tag = c.tag /\ T!Finished(c).miss = c.miss
           /\ T!Finished(c).verdict = c.verdict /\ T!Finished(c).op = c.op
           /\ T!CutShort(c) \in T!Cmds /\ T!CutShort(c).state = "status" /\ T!CutShort(c).tag = c.tag
<1>1. /\ T!Finished(c) \in T!Cmds /\ T!Finished(c) = [c EXCEPT !.state = "status", !.todo = 0]
      /\ T!Finished(c).state = "status" /\ T!Finished(c).tag = c.tag /\ T!Finished(c).miss = c.miss
      /\ T!Finished(c).verdict = c.verdict /\ T!Finished(c).op = c.op
  BY DEF T!Finished, T!Cmds
<1>2. c.miss + c.todo \in Nat
  BY DEF T!Cmds
<1>3. T!CutShort(c) \in T!Cmds /\ T!CutShort(c).state = "status" /\ T!CutShort(c).tag = c.tag
  BY <1>1, <1>2 DEF T!CutShort, T!Cmds
<1> QED BY <1>1, <1>3

\* What the device holds of the command phase before, if it is there.
LEMMA CommandFacts ==
    ASSUME T!TransferInvariant, t_pc = "command", ~t_dev.gone
    PROVE  /\ t_bulk.tag \in 1 .. TagLimit
           /\ t_dev.cmd # T!Ready => /\ t_dev.cmd.tag \in 1 .. TagLimit /\ T!Age(t_dev.cmd) \in 1 .. t_faults
                                     /\ ~T!RightTag(t_dev.cmd)
           /\ t_dev.stale # T!Ready => t_dev.stale.tag \in 1 .. TagLimit /\ T!Age(t_dev.stale) \in 1 .. t_faults
           /\ t_dev.fair => /\ t_req.met >= t_bulk.tries /\ t_req.met \in Nat /\ t_bulk.tries \in Nat
                            /\ ~T!Undisturbed => t_req.met >= t_bulk.tries + 1
<1>1. t_bulk.tag \in 1 .. TagLimit /\ t_req.met \in Nat /\ t_bulk.tries \in Nat
  BY Basics DEF Bulks, T!TransferInvariant, T!RunFits, T!TellsTheSize, T!OneBlockWraps, T!Tries
<1>2. T!AgesFit /\ T!FaultsMet
  BY DEF T!TransferInvariant
<1>3. t_dev.cmd # T!Ready => /\ t_dev.cmd.tag \in 1 .. TagLimit /\ T!Age(t_dev.cmd) \in 1 .. t_faults
                             /\ ~T!RightTag(t_dev.cmd)
  <2> SUFFICES ASSUME t_dev.cmd # T!Ready
               PROVE  t_dev.cmd.tag \in 1 .. TagLimit /\ T!Age(t_dev.cmd) \in 1 .. t_faults /\ ~T!RightTag(t_dev.cmd)
    OBVIOUS
  <2>1. t_dev.cmd.tag \in 1 .. TagLimit
    <3>1. t_dev.cmd.tag \in 0 .. TagLimit /\ TagLimit \in Nat
      BY Basics DEF T!Cmds
    <3> QED BY <1>2, <3>1 DEF T!AgesFit
  <2>2. T!Age(t_dev.cmd) <= t_faults /\ T!Age(t_dev.cmd) > 0
    BY <1>2 DEF T!AgesFit
  <2>3. T!Age(t_dev.cmd) \in Int /\ t_faults \in Nat
    BY <1>1, <2>1, Basics DEF T!Age
  <2>4. ~T!RightTag(t_dev.cmd)
    BY <1>1, <2>1, <2>2 DEF T!Age, T!RightTag
  <2> QED BY <2>1, <2>2, <2>3, <2>4
<1>4. t_dev.stale # T!Ready => t_dev.stale.tag \in 1 .. TagLimit /\ T!Age(t_dev.stale) \in 1 .. t_faults
  BY <1>2, Basics DEF T!AgesFit, T!Cmds
<1>5. t_dev.fair => /\ t_req.met >= t_bulk.tries
                    /\ ~T!Undisturbed => t_req.met >= t_bulk.tries + 1
  BY <1>1, <1>2 DEF T!FaultsMet
<1> QED BY <1>1, <1>3, <1>4, <1>5

\* MSD_Bulk_Cmd_Phase()
LEMMA CommandKeeps == ASSUME T!TransferInvariant, T!Bulk_Cmd_Phase PROVE T!TransferInvariant'
<1>0. /\ t_pc = "command" /\ UNCHANGED <<t_run, t_bulk, t_disk, t_buf, t_total, t_io, t_rounds>>
      /\ t_bulk' \in Bulks /\ t_bulk'.tag > 0 /\ t_detached \in BOOLEAN
  BY Basics DEF T!Bulk_Cmd_Phase, T!TransferInvariant, T!RunFits, T!TellsTheSize, T!OneBlockWraps, T!TypesFit, T!TypeOK
<1>b. t_dev \in Devs /\ HeldFits /\ t_dev.cmd \in T!Cmds /\ t_dev.stale \in T!Cmds /\ t_run.op \in T!Ops
  BY Basics
<1>1. CASE T!Cmd_Gone
  <2>1. Faulted(0) /\ t_pc' = "recover" /\ t_dev' = t_dev /\ t_dev.gone /\ t_detached' \in BOOLEAN
    BY <1>1, FaultsCounted DEF T!Cmd_Gone, T!Unplugged
  <2>2. HeldFits' /\ t_dev' \in Devs /\ t_dev'.blocks = t_dev.blocks
    BY <1>b, <2>1 DEF HeldFits
  <2> QED BY <1>0, <2>1, <2>2, PhaseFrame
<1>s. SUFFICES ASSUME T!Still PROVE T!TransferInvariant'
  BY <1>0, <1>1 DEF T!Bulk_Cmd_Phase, T!Cmd_Halted, T!Cmd_Taken, T!Cmd_AsData, T!Cmd_Queued,
      T!Cmd_TimedOut, T!Cmd_Lost
<1>g. ~t_dev.gone /\ t_detached' \in BOOLEAN
  BY <1>0, <1>s DEF T!Still
<1> DEFINE Facts == /\ t_bulk.tag \in 1 .. TagLimit
                    /\ t_dev.cmd # T!Ready => /\ t_dev.cmd.tag \in 1 .. TagLimit /\ T!Age(t_dev.cmd) \in 1 .. t_faults
                                              /\ ~T!RightTag(t_dev.cmd)
                    /\ t_dev.stale # T!Ready => t_dev.stale.tag \in 1 .. TagLimit /\ T!Age(t_dev.stale) \in 1 .. t_faults
                    /\ t_dev.fair => /\ t_req.met >= t_bulk.tries /\ t_req.met \in Nat /\ t_bulk.tries \in Nat
                                     /\ ~T!Undisturbed => t_req.met >= t_bulk.tries + 1
<1>f. Facts
  BY <1>0, <1>g, CommandFacts
<1>c. T!Count \in Nat /\ T!Count' = T!Count /\ T!Done \in Int /\ (T!Count = 0 => t_run.op = "other")
  BY <1>0, Basics, LoopFits DEF T!TransferInvariant, T!Count, T!Done
<1>n. \A n \in Nat : Faulted(n) => /\ t_faults' \in Nat /\ t_faults' >= t_faults /\ t_faults \in Nat
                                   /\ t_req'.met \in Nat /\ t_req'.met = t_req.met + n
  BY Basics DEF Faulted
<1>2. CASE T!Cmd_Halted
  <2>1. PICK lost \in SUBSET {"out"} : T!Destall({"out"}, lost) /\ t_dev' = T!Halts({"out"}, lost, t_dev)
    BY <1>2 DEF T!Cmd_Halted
  <2>2. PICK n \in Nat : Faulted(n)
    BY <2>1, FaultsCounted
  <2>3. /\ t_dev' \in Devs /\ t_dev'.blocks = t_dev.blocks /\ t_dev'.cmd = t_dev.cmd /\ t_dev'.stale = t_dev.stale
        /\ t_dev'.fair = t_dev.fair /\ t_dev'.gone = t_dev.gone
    BY <1>b, <2>1, HaltsFit
  <2>4. t_pc' = "recover" /\ t_dev.out
    BY <1>2 DEF T!Cmd_Halted
  <2>5. HeldFits'
    BY <1>b, <2>3 DEF HeldFits
  <2>6. T!AgesFit'
    BY <1>0, <1>f, <1>n, <2>2, <2>3, <2>4 DEF T!AgesFit, T!Age
  <2>7. T!DataFits'
    BY <2>4 DEF T!DataFits
  <2>8. T!FaultsMet'
    BY <1>0, <1>f, <1>n, <2>2, <2>3, <2>4 DEF T!FaultsMet, T!Undisturbed, T!RightTag
  <2> QED BY <1>0, <1>g, <2>2, <2>3, <2>4, <2>5, <2>6, <2>7, <2>8, PhaseFrame
<1>t. ASSUME NEW c \in T!Taken, NEW i \in BOOLEAN, NEW n \in Nat, Faulted(n), t_dev.cmd.state = "ready", ~t_dev.out,
             i => t_dev.in \/ (c.halt /\ T!Count = 0), t_pc' \in {"data", "status", "recover"},
             t_pc' # "recover" => T!AfterCommand, t_pc' = "recover" => n > 0,
             t_dev' = [t_dev EXCEPT !.cmd = c, !.in = i, !.fair = @ /\ c.verdict = "passed" /\ c.miss = 0]
      PROVE  T!TransferInvariant'
  <2>1. /\ c \in T!Cmds /\ c # T!Ready /\ c.state = (IF T!Count = 0 THEN "status" ELSE "data")
        /\ c.tag = t_bulk.tag /\ c.op = t_run.op /\ c.at = T!WireLBA /\ c.todo + c.miss = T!Count
        /\ c.halt => c.miss > 0 \/ T!Count = 0
    BY <1>0, <1>t, TakenFits
  <2>2. /\ t_dev' \in Devs /\ t_dev'.blocks = t_dev.blocks /\ t_dev'.gone = t_dev.gone
        /\ t_dev'.cmd = c /\ t_dev'.stale = t_dev.stale /\ t_dev'.in = i /\ t_dev'.out = t_dev.out
        /\ t_dev'.fair <=> t_dev.fair /\ c.verdict = "passed" /\ c.miss = 0
    BY <1>b, <1>t, <2>1 DEF Devs
  <2>3. HeldFits'
    BY <1>b, <2>1, <2>2 DEF HeldFits, T!Ready
  <2>4. T!AgesFit'
    BY <1>0, <1>f, <1>n, <1>t, <2>1, <2>2 DEF T!AgesFit, T!Age
  <2>5. t_pc' = "data" => T!Count > 0
    BY <1>t, <1>c DEF T!AfterCommand
  <2>6. t_pc' = "status" => T!Count = 0
    BY <1>t, <1>c DEF T!AfterCommand
  <2>7. T!DataFits'
    <3>1. T!WireLBA' = T!WireLBA /\ T!Done' = T!Done
      BY <1>0, <1>t, DoneKept
    <3> QED BY <1>0, <1>c, <2>1, <2>2, <2>5, <2>6, <3>1 DEF T!DataFits, T!RightTag
  <2>8. T!FaultsMet'
    <3> SUFFICES ASSUME t_dev'.fair PROVE T!FaultsMet'
      BY DEF T!FaultsMet
    <3>1. t_dev.fair /\ c.verdict = "passed" /\ c.miss = 0 /\ t_bulk'.tries = t_bulk.tries
      BY <1>0, <2>2
    <3>2. T!Undisturbed => t_pc' = "recover" \/ T!Undisturbed'
      BY <1>0, <1>c, <1>t, <2>1, <2>2, <2>5, <2>6, <3>1 DEF T!Undisturbed, T!RightTag
    <3>3. t_req'.met >= t_bulk'.tries + IF T!Undisturbed' THEN 0 ELSE 1
      BY <1>f, <1>n, <1>t, <3>1, <3>2
    <3> QED BY <2>2, <3>1, <3>3 DEF T!FaultsMet
  <2> QED BY <1>0, <1>g, <1>t, <2>2, <2>3, <2>4, <2>7, <2>8, PhaseFrame
<1>3. CASE T!Cmd_Taken
  <2>1. PICK c \in T!Taken :
           t_dev' = [t_dev EXCEPT !.cmd = c, !.in = @ \/ (c.halt /\ T!Count = 0),
                                   !.fair = @ /\ c.verdict = "passed" /\ c.miss = 0]
    BY <1>3 DEF T!Cmd_Taken, T!Took
  <2> DEFINE i == t_dev.in \/ (c.halt /\ T!Count = 0)
  <2>2. /\ t_dev' = [t_dev EXCEPT !.cmd = c, !.in = i, !.fair = @ /\ c.verdict = "passed" /\ c.miss = 0]
        /\ i \in BOOLEAN
    BY <2>1
  <2>3. Faulted(0) /\ ~t_dev.out /\ t_dev.cmd.state = "ready" /\ T!AfterCommand
    BY <1>3, FaultsCounted DEF T!Cmd_Taken
  <2>4. t_pc' \in {"data", "status"}
    BY <2>3 DEF T!AfterCommand
  <2> QED BY <1>t, <2>2, <2>3, <2>4
<1>4. CASE T!Cmd_Lost
  <2>1. Faulted(1) /\ ~t_dev.out /\ t_dev.cmd.state = "ready" /\ t_pc' = "recover" /\ (T!Took \/ t_dev' = t_dev)
    BY <1>4, FaultsCounted DEF T!Cmd_Lost
  <2>2. CASE T!Took
    <3>1. PICK c \in T!Taken :
             t_dev' = [t_dev EXCEPT !.cmd = c, !.in = @ \/ (c.halt /\ T!Count = 0), !.fair = @ /\ c.verdict = "passed" /\ c.miss = 0]
      BY <2>2 DEF T!Took
    <3> DEFINE i == t_dev.in \/ (c.halt /\ T!Count = 0)
    <3>2. /\ t_dev' = [t_dev EXCEPT !.cmd = c, !.in = i, !.fair = @ /\ c.verdict = "passed" /\ c.miss = 0]
          /\ i \in BOOLEAN
      BY <3>1
    <3>3. 1 \in Nat /\ 1 > 0 /\ t_pc' \in {"data", "status", "recover"}
      BY <2>1
    <3> HIDE DEF i
    <3>4. i => t_dev.in \/ (c.halt /\ T!Count = 0)
      BY DEF i
    <3> QED BY <1>t, <2>1, <3>2, <3>3, <3>4
  <2>3. CASE t_dev' = t_dev
    <3>1. HeldFits' /\ t_dev' \in Devs
      BY <1>b, <2>3 DEF HeldFits
    <3>2. T!AgesFit'
      BY <1>0, <1>f, <1>n, <2>1, <2>3 DEF T!AgesFit, T!Age
    <3>3. T!DataFits'
      BY <2>1 DEF T!DataFits
    <3>4. T!FaultsMet'
      BY <1>0, <1>f, <1>n, <2>1, <2>3 DEF T!FaultsMet, T!RightTag
    <3> QED BY <1>0, <1>g, <2>1, <2>3, <3>1, <3>2, <3>3, <3>4, PhaseFrame
  <2> QED BY <2>1, <2>2, <2>3
<1>5. CASE T!Cmd_AsData
  <2>1. /\ ~t_dev.out /\ t_dev.cmd.state = "data" /\ Faulted(0) /\ T!AfterCommand
        /\ t_dev' = [t_dev EXCEPT !.cmd = T!CutShort(t_dev.cmd)]
    BY <1>5, FaultsCounted DEF T!Cmd_AsData
  <2> DEFINE c == T!CutShort(t_dev.cmd)
  <2>2. c \in T!Cmds /\ c.state = "status" /\ c.tag = t_dev.cmd.tag
    BY <1>b, CutShortFits
  <2>3. /\ t_dev' \in Devs /\ t_dev'.blocks = t_dev.blocks /\ t_dev'.gone = t_dev.gone
        /\ t_dev'.cmd = c /\ t_dev'.stale = t_dev.stale /\ t_dev'.in = t_dev.in /\ t_dev'.out = t_dev.out
        /\ t_dev'.fair = t_dev.fair
    BY <1>b, <2>1, <2>2 DEF Devs
  <2>h. c # T!Ready /\ t_dev.cmd # T!Ready
    BY <2>1, <2>2, ReadyFits
  <2> HIDE DEF c
  <2>4. HeldFits'
    BY <1>b, <2>2, <2>3, <2>h, ReadyFits DEF HeldFits
  <2>p. t_pc' \in {"data", "status"} /\ (t_pc' = "data" => T!Count > 0) /\ (t_pc' = "status" => T!Count = 0)
    BY <1>c, <2>1 DEF T!AfterCommand
  <2>5. T!AgesFit'
    BY <1>0, <1>f, <1>n, <2>1, <2>2, <2>3, <2>h, <2>p DEF T!AgesFit, T!Age
  <2>6. T!DataFits'
    <3>1. T!Done' = T!Done
      BY <1>0, <2>1, DoneKept
    <3> QED BY <1>0, <1>c, <1>f, <2>2, <2>3, <2>h, <2>p, <3>1 DEF T!DataFits, T!RightTag
  <2>7. T!FaultsMet'
    <3>1. ~T!Undisturbed /\ ~T!RightTag(t_dev.cmd)'
      BY <1>0, <1>f, <2>1, <2>2, <2>3, <2>h DEF T!Undisturbed, T!RightTag
    <3> QED BY <1>0, <1>f, <1>n, <2>1, <2>3, <3>1 DEF T!FaultsMet
  <2> QED BY <1>0, <1>g, <2>1, <2>3, <2>4, <2>5, <2>6, <2>7, <2>p, PhaseFrame
<1>6. CASE T!Cmd_Queued
  <2>1. /\ t_dev.cmd.state = "status" /\ t_dev.stale = T!Ready /\ Faulted(0) /\ T!AfterCommand
        /\ \E c \in T!Taken : t_dev' = [t_dev EXCEPT !.cmd = c, !.stale = t_dev.cmd, !.fair = FALSE]
    BY <1>6, FaultsCounted DEF T!Cmd_Queued
  <2>2. PICK c \in T!Taken : t_dev' = [t_dev EXCEPT !.cmd = c, !.stale = t_dev.cmd, !.fair = FALSE]
    BY <2>1
  <2>3. /\ c \in T!Cmds /\ c # T!Ready /\ c.state = (IF T!Count = 0 THEN "status" ELSE "data")
        /\ c.tag = t_bulk.tag /\ c.op = t_run.op /\ c.at = T!WireLBA /\ c.todo + c.miss = T!Count
        /\ c.halt => c.miss > 0 \/ T!Count = 0
    BY <1>0, TakenFits
  <2>4. /\ t_dev' \in Devs /\ t_dev'.blocks = t_dev.blocks /\ t_dev'.gone = t_dev.gone
        /\ t_dev'.cmd = c /\ t_dev'.stale = t_dev.cmd /\ ~t_dev'.fair
    BY <1>b, <2>2, <2>3 DEF Devs
  <2>5. HeldFits'
    BY <1>b, <2>1, <2>3, <2>4 DEF HeldFits, T!Ready
  <2>p. t_pc' \in {"data", "status"} /\ (t_pc' = "data" => T!Count > 0) /\ (t_pc' = "status" => T!Count = 0)
    BY <1>c, <2>1 DEF T!AfterCommand
  <2>6. T!AgesFit'
    BY <1>0, <1>f, <1>n, <2>1, <2>3, <2>4, <2>p, ReadyFits DEF T!AgesFit, T!Age
  <2>7. T!DataFits'
    <3>1. T!WireLBA' = T!WireLBA /\ T!Done' = T!Done
      BY <1>0, <2>1, DoneKept
    <3> QED BY <1>0, <1>c, <2>3, <2>4, <2>p, <3>1 DEF T!DataFits, T!RightTag
  <2>8. T!FaultsMet'
    BY <2>4 DEF T!FaultsMet
  <2> QED BY <1>0, <1>g, <2>1, <2>4, <2>5, <2>6, <2>7, <2>8, <2>p, PhaseFrame
<1>7. CASE T!Cmd_TimedOut
  <2>1. t_dev.cmd.state # "ready" /\ Faulted(0) /\ t_pc' = "recover" /\ t_dev' = t_dev
    BY <1>7, FaultsCounted DEF T!Cmd_TimedOut
  <2>2. HeldFits' /\ t_dev' \in Devs
    BY <1>b, <2>1 DEF HeldFits
  <2>3. T!AgesFit'
    BY <1>0, <1>f, <1>n, <2>1 DEF T!AgesFit, T!Age
  <2>4. T!DataFits'
    BY <2>1 DEF T!DataFits
  <2>5. T!FaultsMet'
    <3>1. ~T!Undisturbed
      BY <1>0, <2>1, ReadyFits DEF T!Undisturbed
    <3> QED BY <1>0, <1>f, <1>n, <2>1, <3>1 DEF T!FaultsMet, T!RightTag
  <2> QED BY <1>0, <1>g, <2>1, <2>2, <2>3, <2>4, <2>5, PhaseFrame
<1> QED BY <1>1, <1>2, <1>3, <1>4, <1>5, <1>6, <1>7 DEF T!Bulk_Cmd_Phase

\* What is moved of the command in hand goes where it belongs, and leaves what is done.
LEMMA MovedFits ==
    ASSUME T!TransferInvariant, t_pc = "data", ~t_dev.gone, T!Mine, NEW j \in 0 .. t_dev.cmd.todo, T!Moved(t_dev.cmd, j),
           NEW n \in Nat, Faulted(n), UNCHANGED <<t_run, t_rounds>>
    PROVE  /\ t_disk' \in [0 .. t_dev.blocks - 1 -> Nat] /\ t_buf' \in [T!Slots -> Nat]
           /\ T!BlocksDone'
           /\ \A s \in T!Done .. T!Done + j - 1 :
                 /\ t_run.op = "read" => t_buf'[s] = t_disk'[T!First(t_req) + s]
                 /\ t_run.op = "write" => t_disk'[T!First(t_req) + s] = T!Value(s)
           /\ T!Done' = T!Done /\ T!Count' = T!Count /\ T!First(t_req') = T!First(t_req) /\ \A s : T!Value(s)' = T!Value(s)
           /\ \A b \in DOMAIN t_disk :
                 t_disk'[b] # t_disk[b] => b \in T!First(t_req) .. T!First(t_req) + T!Blocks(t_req) - 1
<1> DEFINE c == t_dev.cmd
<1>0. T!TypesFit /\ T!RunFits /\ T!DataFits /\ T!BlocksDone
  BY DEF T!TransferInvariant
<1>1. /\ c \in T!Cmds /\ c.op = t_run.op /\ c.at = T!WireLBA /\ c.todo + c.miss = T!Count /\ j \in Nat
      /\ j <= T!Count
      /\ T!Count \in Nat
  <2>1. c \in T!Cmds /\ c.op = t_run.op /\ c.at = T!WireLBA /\ c.todo + c.miss = T!Count
    BY <1>0, Basics DEF T!DataFits, T!Mine
  <2>2. c.todo \in Nat /\ c.miss \in Nat
    BY <2>1 DEF T!Cmds
  <2> QED BY <2>1, <2>2
<1>2. t_disk \in [0 .. t_dev.blocks - 1 -> Nat] /\ t_buf \in [T!Slots -> Nat] /\ t_rounds \in Nat
  BY Basics
<1>3. T!First(t_req) \in Nat /\ T!Blocks(t_req) \in Nat /\ 0 .. T!Blocks(t_req) - 1 \subseteq T!Slots
  BY <1>0, LoopFits
<1>4. t_run.op \in {"read", "write"} =>
         /\ c.at = T!First(t_req) + T!Done /\ T!Done \in Nat /\ T!Done + j <= T!Blocks(t_req)
         /\ T!First(t_req) + T!Blocks(t_req) <= t_dev.blocks /\ t_dev.blocks \in Nat
  <2> SUFFICES ASSUME t_run.op \in {"read", "write"}
               PROVE  /\ c.at = T!First(t_req) + T!Done /\ T!Done \in Nat /\ T!Done + j <= T!Blocks(t_req)
                      /\ T!First(t_req) + T!Blocks(t_req) <= t_dev.blocks /\ t_dev.blocks \in Nat
    OBVIOUS
  <2>1. /\ T!WireLBA = t_run.start /\ T!Done \in Nat /\ T!Count \in 1 .. t_run.left /\ t_run.left \in Nat
        /\ t_run.start = T!First(t_req) + T!Done /\ T!Done + t_run.left = T!Blocks(t_req)
        /\ t_run.start + t_run.left <= t_total /\ t_total <= t_dev.blocks /\ t_total \in Nat /\ t_dev.blocks \in Nat
    BY <1>0, LoopFits
  <2> HIDE DEF c
  <2> QED BY <1>1, <1>3, <2>1
<1>5. /\ T!Done' = T!Done /\ T!Count' = T!Count /\ T!First(t_req') = T!First(t_req)
      /\ T!Blocks(t_req') = T!Blocks(t_req)
      /\ \A s : T!Value(s)' = T!Value(s)
  <2>1. t_req'.off = t_req.off /\ t_req'.len = t_req.len
    BY Basics DEF Faulted
  <2> QED BY <2>1 DEF T!First, T!Blocks, T!Done, T!Count, T!Value
<1>6. CASE t_run.op = "write"
  <2>1. /\ t_disk' = [b \in DOMAIN t_disk |-> IF b \in c.at .. c.at + j - 1 THEN T!Value(T!Done + b - c.at)
                                              ELSE t_disk[b]]
        /\ t_buf' = t_buf
    BY <1>1, <1>6 DEF T!Moved, T!IsWrite, T!Write
  <2> HIDE DEF c
  <2>2. ASSUME NEW b \in c.at .. c.at + j - 1
        PROVE  b \in Nat /\ T!Done + b - c.at \in Nat /\ T!Done + b - c.at = b - T!First(t_req)
               /\ b \in T!First(t_req) .. T!First(t_req) + T!Blocks(t_req) - 1 /\ b \in DOMAIN t_disk
    <3>1. c.at \in Nat /\ c.at = T!First(t_req) + T!Done /\ T!Done \in Nat /\ T!Done + j <= T!Blocks(t_req)
          /\ T!First(t_req) + T!Blocks(t_req) <= t_dev.blocks /\ t_dev.blocks \in Nat
      BY <1>3, <1>4, <1>6
    <3>2. b \in Int /\ c.at <= b /\ b <= c.at + j - 1
      BY <1>1, <3>1
    <3>3. b \in Nat /\ b >= T!First(t_req) + T!Done /\ b < T!First(t_req) + T!Blocks(t_req)
      BY <1>1, <1>3, <3>1, <3>2
    <3>4. DOMAIN t_disk = 0 .. t_dev.blocks - 1
      BY <1>2
    <3>5. T!Done + b - c.at = b - T!First(t_req) /\ b - T!First(t_req) \in Nat
      BY <1>3, <3>1, <3>3
    <3>6. b \in T!First(t_req) .. T!First(t_req) + T!Blocks(t_req) - 1
      BY <1>3, <3>1, <3>3
    <3>7. b \in 0 .. t_dev.blocks - 1
      BY <1>3, <3>1, <3>3
    <3> QED BY <3>3, <3>4, <3>5, <3>6, <3>7
  <2>3. t_disk' \in [0 .. t_dev.blocks - 1 -> Nat]
    BY <1>2, <2>1, <2>2, ValueFits
  <2>4. ASSUME NEW s \in T!Done .. T!Done + j - 1 PROVE t_disk'[T!First(t_req) + s] = T!Value(s)
    <3>1. T!First(t_req) + s \in c.at .. c.at + j - 1 /\ T!Done + (T!First(t_req) + s) - c.at = s
      BY <1>1, <1>3, <1>4, <1>6
    <3>2. T!First(t_req) + s \in DOMAIN t_disk
      BY <2>2, <3>1
    <3> QED BY <2>1, <3>1, <3>2
  <2>5. ASSUME NEW s \in 0 .. T!Done - 1 PROVE t_disk'[T!First(t_req) + s] = T!Value(s)
    <3>1. T!First(t_req) + s \notin c.at .. c.at + j - 1 /\ T!First(t_req) + s \in 0 .. t_dev.blocks - 1
      BY <1>1, <1>3, <1>4, <1>6
    <3>2. t_disk[T!First(t_req) + s] = T!Value(s)
      BY <1>0, <1>6 DEF T!BlocksDone
    <3> QED BY <1>2, <2>1, <3>1, <3>2
  <2>6. T!BlocksDone'
    BY <1>5, <1>6, <2>5 DEF T!BlocksDone
  <2>7. \A b \in DOMAIN t_disk : t_disk'[b] # t_disk[b] => b \in T!First(t_req) .. T!First(t_req) + T!Blocks(t_req) - 1
    BY <2>1, <2>2
  <2> QED BY <1>2, <1>5, <1>6, <2>1, <2>3, <2>4, <2>6, <2>7
<1>7. CASE t_run.op # "write"
  <2>1. /\ t_buf' = [s \in T!Slots |->
                       IF s \in T!Done .. T!Done + j - 1 /\ c.op = "read" THEN t_disk[c.at + s - T!Done]
                       ELSE t_buf[s]]
        /\ t_disk' = t_disk
    BY <1>1, <1>7 DEF T!Moved, T!IsWrite, T!Read
  <2> HIDE DEF c
  <2>2. ASSUME t_run.op = "read", NEW s \in T!Done .. T!Done + j - 1
        PROVE  s \in T!Slots /\ c.at + s - T!Done = T!First(t_req) + s /\ T!First(t_req) + s \in 0 .. t_dev.blocks - 1
    <3>1. s \in 0 .. T!Blocks(t_req) - 1
      BY <1>1, <1>3, <1>4, <2>2
    <3> QED BY <1>1, <1>3, <1>4, <2>2, <3>1
  <2>3. t_buf' \in [T!Slots -> Nat]
    BY <1>1, <1>2, <2>1, <2>2
  <2>4. ASSUME t_run.op = "read", NEW s \in T!Done .. T!Done + j - 1 PROVE t_buf'[s] = t_disk'[T!First(t_req) + s]
    BY <1>1, <2>1, <2>2, <2>4
  <2>5. ASSUME t_run.op = "read", NEW s \in 0 .. T!Done - 1 PROVE t_buf'[s] = t_disk'[T!First(t_req) + s]
    <3>1. s \in 0 .. T!Blocks(t_req) - 1 /\ s \notin T!Done .. T!Done + j - 1
      BY <1>1, <1>3, <1>4, <2>5
    <3>2. t_buf[s] = t_disk[T!First(t_req) + s]
      BY <1>0, <2>5 DEF T!BlocksDone
    <3> QED BY <1>3, <2>1, <3>1, <3>2
  <2>6. T!BlocksDone'
    BY <1>5, <1>7, <2>5 DEF T!BlocksDone
  <2> QED BY <1>2, <1>5, <1>7, <2>1, <2>3, <2>4, <2>6
<1> QED BY <1>6, <1>7

\* What is known in the data phase.
LEMMA DataFacts ==
    ASSUME T!TransferInvariant, t_pc = "data", ~t_dev.gone
    PROVE  /\ T!Count \in Nat /\ T!Count > 0 /\ t_dev.cmd # T!Ready /\ t_dev.cmd \in T!Cmds
           /\ t_dev.cmd.state = "data" =>
                 /\ T!RightTag(t_dev.cmd) /\ t_dev.cmd.op = t_run.op /\ t_dev.cmd.todo \in Nat
                 /\ t_dev.cmd.miss \in Nat
                 /\ t_dev.cmd.todo + t_dev.cmd.miss = T!Count /\ (t_dev.cmd.halt => t_dev.cmd.miss > 0)
           /\ t_dev.cmd.state = "status" => ~T!RightTag(t_dev.cmd)
           /\ t_dev.cmd.state \in {"data", "status"}
           /\ t_dev.fair => /\ t_req.met >= t_bulk.tries /\ t_req.met \in Nat /\ t_bulk.tries \in Nat
                            /\ ~T!Undisturbed => t_req.met >= t_bulk.tries + 1
                            /\ T!RightTag(t_dev.cmd) => t_dev.cmd.verdict = "passed" /\ t_dev.cmd.miss = 0
           /\ T!Undisturbed => T!Mine /\ ~T!HaltedPipe
<1>1. T!DataFits /\ T!FaultsMet /\ T!TypesFit /\ T!RunFits
  BY DEF T!TransferInvariant
<1>2. t_dev.cmd \in T!Cmds /\ HeldFits /\ t_req.met \in Nat /\ t_bulk.tries \in Nat
  BY Basics DEF Bulks, T!Tries
<1>3. T!Count \in Nat /\ T!Count > 0 /\ t_dev.cmd # T!Ready /\ t_dev.cmd.state \in {"data", "status"}
  BY <1>1, <1>2, LoopFits DEF T!DataFits, HeldFits, T!Cmds
<1>4. T!Undisturbed => T!Mine /\ ~T!HaltedPipe
  BY <1>1 DEF T!Undisturbed, T!Mine, T!HaltedPipe, T!StaleInPipe, T!DataFits, T!IsWrite
<1>5. t_dev.fair => /\ t_req.met >= t_bulk.tries
                    /\ ~T!Undisturbed => t_req.met >= t_bulk.tries + 1
                    /\ T!RightTag(t_dev.cmd) => t_dev.cmd.verdict = "passed" /\ t_dev.cmd.miss = 0
  BY <1>1, <1>2, <1>3 DEF T!FaultsMet
<1>6. t_dev.cmd.state = "data" =>
                 /\ T!RightTag(t_dev.cmd) /\ t_dev.cmd.op = t_run.op /\ t_dev.cmd.todo \in Nat
                 /\ t_dev.cmd.miss \in Nat
                 /\ t_dev.cmd.todo + t_dev.cmd.miss = T!Count /\ (t_dev.cmd.halt => t_dev.cmd.miss > 0)
  BY <1>1, <1>2 DEF T!DataFits, T!Cmds
<1>7. t_dev.cmd.state = "status" => ~T!RightTag(t_dev.cmd)
  BY <1>1 DEF T!DataFits
<1> QED BY <1>2, <1>3, <1>4, <1>5, <1>6, <1>7

\* A step of the data phase that moves some data of the command in hand.
LEMMA MovedKeeps ==
    ASSUME T!TransferInvariant, t_pc = "data", t_pc' = "status", UNCHANGED <<t_run, t_bulk, t_total, t_io,
                                                                             t_rounds>>,
           ~t_dev.gone, t_detached' \in BOOLEAN, T!Mine, NEW j \in 0 .. t_dev.cmd.todo, T!Moved(t_dev.cmd, j),
           NEW n \in Nat, Faulted(n), NEW c \in T!Cmds, c.tag = t_dev.cmd.tag, c.verdict = t_dev.cmd.verdict,
           c.miss = t_dev.cmd.miss, c.state \in {"data", "status"}, c.state = "status" => j = t_dev.cmd.todo,
           t_dev' \in Devs, t_dev'.blocks = t_dev.blocks, t_dev'.cmd = c, t_dev'.stale = t_dev.stale,
           t_dev'.gone = t_dev.gone, t_dev'.fair = t_dev.fair,
           t_dev.fair /\ n = 0 =>
              (T!Undisturbed => c.state = "status" /\ ~t_dev'.in /\ ~t_dev'.out)
    PROVE  T!TransferInvariant'
<1>0. t_disk' \in [0 .. t_dev.blocks - 1 -> Nat] /\ t_buf' \in [T!Slots -> Nat] /\ T!BlocksDone'
  BY MovedFits
<1>1. \A s \in T!Done .. T!Done + j - 1 :
                 /\ t_run.op = "read" => t_buf'[s] = t_disk'[T!First(t_req) + s]
                 /\ t_run.op = "write" => t_disk'[T!First(t_req) + s] = T!Value(s)
  BY MovedFits
<1>2. T!Done' = T!Done /\ T!Count' = T!Count /\ T!First(t_req') = T!First(t_req) /\ \A s : T!Value(s)' = T!Value(s)
  BY MovedFits
<1>3. /\ T!Count \in Nat /\ t_dev.cmd # T!Ready /\ t_dev.cmd.state = "data"
      /\ T!RightTag(t_dev.cmd) /\ t_dev.cmd.todo \in Nat /\ t_dev.cmd.miss \in Nat
      /\ t_dev.cmd.todo + t_dev.cmd.miss = T!Count
      /\ t_dev.fair => /\ t_req.met >= t_bulk.tries /\ t_req.met \in Nat /\ t_bulk.tries \in Nat
                       /\ ~T!Undisturbed => t_req.met >= t_bulk.tries + 1
                       /\ t_dev.cmd.verdict = "passed" /\ t_dev.cmd.miss = 0
  BY DataFacts DEF T!Mine
<1>4. HeldFits'
  BY Basics, ReadyFits DEF HeldFits
<1>5. t_bulk' \in Bulks /\ t_bulk'.tag > 0
  BY Basics DEF T!TransferInvariant, T!RunFits, T!TellsTheSize, T!OneBlockWraps
<1>6. T!TypesFit' /\ T!RunFits' /\ T!ReadIsRight' /\ T!WriteIsRight'
  BY <1>0, <1>4, <1>5, PhaseKeeps
<1>n. /\ t_faults' \in Nat /\ t_faults' >= t_faults /\ t_faults \in Nat /\ t_req'.met = t_req.met + n
      /\ t_req.met \in Nat
  BY Basics DEF Faulted
<1>7. T!AgesFit'
  <2>1. c # T!Ready
    BY ReadyFits
  <2>2. T!AgesFit
    BY DEF T!TransferInvariant
  <2>3. T!Age(t_dev.cmd) \in Int /\ T!Age(t_dev.stale) \in Int
    BY Basics, AgeFits
  <2>4. T!Age(c)' = T!Age(t_dev.cmd) /\ T!Age(t_dev.stale)' = T!Age(t_dev.stale)
    BY DEF T!Age
  <2>5. t_dev'.cmd.tag > 0 /\ T!Age(t_dev.cmd)' <= t_faults'
    BY <1>3, <1>n, <2>2, <2>3 DEF T!AgesFit, T!Age
  <2>6. t_dev.stale # T!Ready => t_dev'.stale.tag > 0 /\ T!Age(t_dev.stale)' \in 1 .. t_faults'
    BY <1>n, <2>2, <2>3 DEF T!AgesFit, T!Age
  <2> QED BY <2>5, <2>6 DEF T!AgesFit
<1>8. T!DataFits'
  <2> SUFFICES ASSUME c.state = "status", c.miss = 0
               PROVE  \A s \in T!Done .. T!Done + T!Count - 1 :
                         /\ t_run.op = "read" => t_buf'[s] = t_disk'[T!First(t_req) + s]
                         /\ t_run.op = "write" => t_disk'[T!First(t_req) + s] = T!Value(s)
    BY <1>2 DEF T!DataFits
  <2>1. j = T!Count
    BY <1>3
  <2> QED BY <1>1, <2>1
<1>9. T!FaultsMet'
  <2> SUFFICES ASSUME t_dev'.fair PROVE T!FaultsMet'
    BY DEF T!FaultsMet
  <2>1. c.verdict = "passed" /\ c.miss = 0
    BY <1>3
  <2>2. CASE n = 0
    <3>1. T!Undisturbed => T!Undisturbed'
      BY <1>3, <2>2 DEF T!Undisturbed, T!RightTag
    <3> QED BY <1>3, <1>n, <2>1, <2>2, <3>1 DEF T!FaultsMet
  <2>3. CASE n > 0
    BY <1>3, <1>n, <2>1, <2>3 DEF T!FaultsMet
  <2> QED BY <2>2, <2>3
<1> QED BY <1>0, <1>6, <1>7, <1>8, <1>9 DEF T!TransferInvariant

\* MSD_Bulk_Cmd_Data()
LEMMA DataKeeps == ASSUME T!TransferInvariant, T!Bulk_Cmd_Data PROVE T!TransferInvariant'
<1>0. /\ t_pc = "data" /\ t_pc' = "status" /\ UNCHANGED <<t_run, t_bulk, t_total, t_io, t_rounds>>
      /\ t_bulk' \in Bulks /\ t_bulk'.tag > 0 /\ t_detached \in BOOLEAN
  BY Basics DEF T!Bulk_Cmd_Data, T!TransferInvariant, T!RunFits, T!TellsTheSize, T!OneBlockWraps, T!TypesFit, T!TypeOK
<1>b. t_dev \in Devs /\ HeldFits /\ t_dev.cmd \in T!Cmds /\ t_dev.stale \in T!Cmds
  BY Basics
<1>1. CASE T!Data_Gone
  <2>1. Faulted(0) /\ t_dev' = t_dev /\ t_dev.gone /\ t_detached' \in BOOLEAN /\ UNCHANGED <<t_disk, t_buf>>
    BY <1>1, FaultsCounted DEF T!Data_Gone, T!Unplugged, T!NothingMoved
  <2>2. HeldFits' /\ t_dev' \in Devs /\ t_dev'.blocks = t_dev.blocks
    BY <1>b, <2>1 DEF HeldFits
  <2> QED BY <1>0, <2>1, <2>2, PhaseFrame
<1>s. SUFFICES ASSUME T!Still PROVE T!TransferInvariant'
  BY <1>0, <1>1 DEF T!Bulk_Cmd_Data, T!Data_Halted, T!Data_Okay, T!Data_Stall, T!Data_Stale, T!Data_Lost
<1>g. ~t_dev.gone /\ t_detached' \in BOOLEAN
  BY <1>0, <1>s DEF T!Still
<1>f. /\ t_dev.cmd # T!Ready
      /\ t_dev.cmd.state = "data" => T!RightTag(t_dev.cmd) /\ (t_dev.cmd.halt => t_dev.cmd.miss > 0)
      /\ t_dev.cmd.state = "status" => ~T!RightTag(t_dev.cmd)
      /\ t_dev.fair => /\ t_req.met >= t_bulk.tries /\ t_req.met \in Nat /\ t_bulk.tries \in Nat
                       /\ ~T!Undisturbed => t_req.met >= t_bulk.tries + 1
                       /\ T!RightTag(t_dev.cmd) => t_dev.cmd.verdict = "passed" /\ t_dev.cmd.miss = 0
      /\ T!Undisturbed => T!Mine /\ ~T!HaltedPipe
  BY <1>0, <1>g, DataFacts
<1>a. /\ t_dev.cmd # T!Ready => t_dev.cmd.tag > 0 /\ T!Age(t_dev.cmd) <= t_faults
      /\ t_dev.stale # T!Ready => t_dev.stale.tag > 0 /\ T!Age(t_dev.stale) \in 1 .. t_faults
      /\ T!Age(t_dev.cmd) \in Int
  BY <1>b, <1>g, AgeFits DEF T!TransferInvariant, T!AgesFit
<1>n. \A n \in Nat : Faulted(n) => /\ t_faults' \in Nat /\ t_faults' >= t_faults /\ t_faults \in Nat
                                   /\ t_req'.met \in Nat /\ t_req'.met = t_req.met + n
  BY Basics DEF Faulted
<1>2. CASE T!Data_Halted
  <2>1. PICK lost \in SUBSET T!Both : T!Destall(T!Both, lost) /\ t_dev' = T!Halts(T!Both, lost, t_dev)
    BY <1>2 DEF T!Data_Halted
  <2>2. PICK n \in Nat : Faulted(n)
    BY <2>1, FaultsCounted DEF T!Both
  <2>3. /\ t_dev' \in Devs /\ t_dev'.blocks = t_dev.blocks /\ t_dev'.cmd = t_dev.cmd /\ t_dev'.stale = t_dev.stale
        /\ t_dev'.fair = t_dev.fair /\ t_dev'.gone = t_dev.gone
    BY <1>b, <2>1, HaltsFit
  <2>4. T!HaltedPipe /\ UNCHANGED <<t_disk, t_buf>>
    BY <1>2 DEF T!Data_Halted, T!NothingMoved
  <2>5. HeldFits'
    BY <1>b, <2>3 DEF HeldFits
  <2>6. T!AgesFit'
    BY <1>0, <1>a, <1>n, <2>2, <2>3 DEF T!AgesFit, T!Age
  <2>7. T!DataFits'
    BY <1>0, <1>f, <2>3 DEF T!DataFits, T!RightTag
  <2>8. T!FaultsMet'
    BY <1>0, <1>f, <1>n, <2>2, <2>3, <2>4 DEF T!FaultsMet, T!RightTag
  <2> QED BY <1>0, <1>g, <2>2, <2>3, <2>4, <2>5, <2>6, <2>7, <2>8, PhaseFrame
<1>3. CASE T!Data_Stale
  <2>1. /\ ~T!Mine /\ Faulted(0) /\ UNCHANGED <<t_disk, t_buf>>
        /\ \/ t_dev' = [t_dev EXCEPT !.stale = T!Ready]
           \/ t_dev' = [t_dev EXCEPT !.cmd = T!Ready]
           \/ t_dev' = t_dev
    BY <1>3, FaultsCounted DEF T!Data_Stale, T!NothingMoved
  <2>2. /\ t_dev' \in Devs /\ t_dev'.blocks = t_dev.blocks /\ t_dev'.fair = t_dev.fair /\ t_dev'.gone = t_dev.gone
        /\ t_dev'.cmd \in {t_dev.cmd, T!Ready} /\ t_dev'.stale \in {t_dev.stale, T!Ready}
    BY <1>b, <2>1, ReadyFits DEF Devs
  <2>3. HeldFits'
    BY <1>b, <2>2, ReadyFits DEF HeldFits
  <2>4. T!AgesFit'
    BY <1>0, <1>a, <1>n, <2>1, <2>2 DEF T!AgesFit, T!Age
  <2>5. T!DataFits'
    BY <1>0, <1>f, <2>2, ReadyFits DEF T!DataFits, T!RightTag
  <2>6. T!FaultsMet'
    BY <1>0, <1>f, <1>n, <2>1, <2>2 DEF T!FaultsMet, T!RightTag
  <2> QED BY <1>0, <1>g, <2>1, <2>2, <2>3, <2>4, <2>5, <2>6, PhaseFrame
<1>d. /\ T!Finished(t_dev.cmd) \in T!Cmds /\ T!Finished(t_dev.cmd).state = "status"
      /\ T!Finished(t_dev.cmd).tag = t_dev.cmd.tag /\ T!Finished(t_dev.cmd).miss = t_dev.cmd.miss
      /\ T!Finished(t_dev.cmd).verdict = t_dev.cmd.verdict /\ t_dev.cmd.todo \in Nat
  BY <1>b, CutShortFits DEF T!Cmds
<1>4. CASE T!Data_Okay
  <2>1. /\ T!Mine /\ Faulted(0) /\ T!Moved(t_dev.cmd, t_dev.cmd.todo)
        /\ t_dev' = [t_dev EXCEPT !.cmd = T!Finished(t_dev.cmd)]
    BY <1>4, FaultsCounted DEF T!Data_Okay
  <2>2. /\ t_dev' \in Devs /\ t_dev'.blocks = t_dev.blocks /\ t_dev'.cmd = T!Finished(t_dev.cmd)
        /\ t_dev'.stale = t_dev.stale
        /\ t_dev'.gone = t_dev.gone /\ t_dev'.fair = t_dev.fair /\ t_dev'.in = t_dev.in /\ t_dev'.out = t_dev.out
    BY <1>b, <1>d, <2>1 DEF Devs
  <2>3. T!Undisturbed => ~t_dev'.in /\ ~t_dev'.out
    BY <1>0, <2>2 DEF T!Undisturbed
  <2> QED BY <1>0, <1>d, <1>g, <2>1, <2>2, <2>3, MovedKeeps
<1>5. CASE T!Data_Stall
  <2> DEFINE d == [t_dev EXCEPT !.cmd = T!Finished(@), ![T!Pipe] = TRUE]
  <2>1. PICK lost \in SUBSET T!Both : T!Destall(T!Both, lost) /\ t_dev' = T!Halts(T!Both, lost, d)
    BY <1>5 DEF T!Data_Stall
  <2>2. PICK n \in Nat : Faulted(n)
    BY <2>1, FaultsCounted DEF T!Both
  <2>3. T!Mine /\ t_dev.cmd.halt /\ T!Moved(t_dev.cmd, t_dev.cmd.todo)
    BY <1>5 DEF T!Data_Stall
  <2>4. /\ d \in Devs /\ d.blocks = t_dev.blocks /\ d.cmd = T!Finished(t_dev.cmd) /\ d.stale = t_dev.stale
        /\ d.gone = t_dev.gone /\ d.fair = t_dev.fair
    <3>1. CASE T!Pipe = "in"
      <4>1. d = [t_dev EXCEPT !.cmd = T!Finished(t_dev.cmd), !.in = TRUE]
        BY <3>1
      <4> QED BY <1>b, <1>d, <4>1 DEF Devs
    <3>2. CASE T!Pipe = "out"
      <4>1. d = [t_dev EXCEPT !.cmd = T!Finished(t_dev.cmd), !.out = TRUE]
        BY <3>2
      <4> QED BY <1>b, <1>d, <4>1 DEF Devs
    <3> QED BY <3>1, <3>2 DEF T!Pipe
  <2> HIDE DEF d
  <2>5. /\ t_dev' \in Devs /\ t_dev'.blocks = t_dev.blocks /\ t_dev'.cmd = T!Finished(t_dev.cmd)
        /\ t_dev'.stale = t_dev.stale
        /\ t_dev'.gone = t_dev.gone /\ t_dev'.fair = t_dev.fair
    BY <2>1, <2>4, HaltsFit
  <2>6. ~t_dev.fair
    BY <1>f, <2>3 DEF T!Mine
  <2> QED BY <1>0, <1>d, <1>g, <2>2, <2>3, <2>5, <2>6, MovedKeeps
<1>6. CASE T!Data_Lost
  <2>1. T!Mine /\ Faulted(1)
    BY <1>6, FaultsCounted DEF T!Data_Lost
  <2>2. PICK j \in 0 .. t_dev.cmd.todo :
        /\ T!Moved(t_dev.cmd, j)
        /\ \/ j = t_dev.cmd.todo /\ ~t_dev.cmd.halt /\ t_dev' = [t_dev EXCEPT !.cmd = T!Finished(@)]
           \/ t_dev' = [t_dev EXCEPT !.cmd.todo = @ - j, !.cmd.at = @ + j]
    BY <1>6 DEF T!Data_Lost
  <2>3. CASE j = t_dev.cmd.todo /\ t_dev' = [t_dev EXCEPT !.cmd = T!Finished(@)]
    <3>1. /\ t_dev' \in Devs /\ t_dev'.blocks = t_dev.blocks /\ t_dev'.cmd = T!Finished(t_dev.cmd)
          /\ t_dev'.stale = t_dev.stale
          /\ t_dev'.gone = t_dev.gone /\ t_dev'.fair = t_dev.fair
      BY <1>b, <1>d, <2>3 DEF Devs
    <3> QED BY <1>0, <1>d, <1>g, <2>1, <2>2, <2>3, <3>1, MovedKeeps
  <2>4. CASE t_dev' = [t_dev EXCEPT !.cmd.todo = @ - j, !.cmd.at = @ + j]
    <3> DEFINE c == [t_dev.cmd EXCEPT !.todo = t_dev.cmd.todo - j, !.at = t_dev.cmd.at + j]
    <3>1. t_dev' = [t_dev EXCEPT !.cmd = c]
      BY <1>b, <2>4 DEF Devs, T!Cmds
    <3>2. /\ c \in T!Cmds /\ c.tag = t_dev.cmd.tag /\ c.verdict = t_dev.cmd.verdict /\ c.miss = t_dev.cmd.miss
          /\ c.state = "data"
      <4>1. t_dev.cmd.todo - j \in Nat /\ t_dev.cmd.at + j \in Nat
        BY <1>b, <1>d DEF T!Cmds
      <4> QED BY <1>b, <2>1, <4>1 DEF T!Cmds, T!Mine
    <3> HIDE DEF c
    <3>3. /\ t_dev' \in Devs /\ t_dev'.blocks = t_dev.blocks /\ t_dev'.cmd = c /\ t_dev'.stale = t_dev.stale
          /\ t_dev'.gone = t_dev.gone /\ t_dev'.fair = t_dev.fair
      BY <1>b, <3>1, <3>2 DEF Devs
    <3> QED BY <1>0, <1>g, <2>1, <2>2, <3>2, <3>3, MovedKeeps
  <2> QED BY <2>2, <2>3, <2>4
<1> QED BY <1>1, <1>2, <1>3, <1>4, <1>5, <1>6 DEF T!Bulk_Cmd_Data

-----------------------------------------------------------------------------
(* Steps that end a phase, a try or a request *)

Runs == [op : T!Ops, wide : BOOLEAN, short : BOOLEAN, start : Nat, left : Nat]
Answers == [err : {"NoError", "Pending", "NoCmd", "DiskChanged", "BadLength"}, actual : Nat,
            status : {"none", "good", "check"}, told : Nat]

LEMMA TypesKept ==
    ASSUME T!TransferInvariant, t_pc' \in {"idle", "command", "data", "status", "recover"},
           t_req' \in [cmd : Sent \cup {"none"}, off : Nat, len : Lengths \cup {0}, met : Nat],
           t_faults' \in 0 .. MaxFaults, t_rounds' \in 0 .. Rounds, t_bulk' \in Bulks, t_run' \in Runs, t_io' \in Answers,
           t_dev' \in Devs, t_dev'.blocks = t_dev.blocks, HeldFits', t_detached' \in BOOLEAN,
           t_total' \in 0 .. t_dev.blocks, t_disk' \in [0 .. t_dev.blocks - 1 -> Nat], t_buf' \in [T!Slots -> Nat]
    PROVE  T!TypesFit'
<1>1. {t_dev'.in, t_dev'.out, t_dev'.gone, t_detached'} \subseteq BOOLEAN
  BY DEF Devs
<1>2. t_dev'.cmd.state \in {"ready", "data", "status"}
  BY DEF Devs, T!Cmds
<1>3. DOMAIN t_disk' = 0 .. t_dev'.blocks - 1 /\ t_buf' \in [T!Slots -> Nat]
  OBVIOUS
<1>4. t_bulk'.tag \in 0 .. TagLimit /\ t_bulk'.tries \in 0 .. T!Tries - 1 /\ t_bulk'.stalled \in BOOLEAN
  BY DEF Bulks
<1>5. /\ t_run'.op \in {"none", "read", "write", "capacity", "sense", "other"}
      /\ t_run'.start \in Nat /\ t_run'.left \in Nat /\ t_io'.actual \in Nat
  BY DEF Runs, T!Ops, Answers
<1>6. T!TypeOK'
  BY <1>1, <1>2, <1>3, <1>4, <1>5 DEF T!TypeOK
<1> QED BY <1>6 DEF T!TypesFit, Devs, Bulks, Runs, Answers, HeldFits

\* A request that stays the same but for its faults.
LEMMA SameRequest ==
    ASSUME T!TransferInvariant, NEW n \in Nat, Faulted(n)
    PROVE  /\ t_req' \in [cmd : Sent \cup {"none"}, off : Nat, len : Lengths \cup {0}, met : Nat]
           /\ t_req'.cmd = t_req.cmd /\ t_req'.off = t_req.off /\ t_req'.len = t_req.len
           /\ T!First(t_req') = T!First(t_req) /\ T!Blocks(t_req') = T!Blocks(t_req)
           /\ T!Reads(t_req') = T!Reads(t_req) /\ T!OnBlocks(t_req') = T!OnBlocks(t_req)
           /\ t_faults' \in 0 .. MaxFaults /\ t_faults' = t_faults + n /\ t_faults \in Nat
           /\ t_req'.met = t_req.met + n /\ t_req.met \in Nat
<1>1. t_req \in [cmd : Sent \cup {"none"}, off : Nat, len : Lengths \cup {0}, met : Nat] /\ t_faults \in Nat
  BY Basics
<1>2. t_req' = [t_req EXCEPT !.met = @ + n] /\ t_req.met + n \in Nat /\ MaxFaults \in Nat
  BY <1>1, Basics DEF Faulted
<1>3. /\ t_req' \in [cmd : Sent \cup {"none"}, off : Nat, len : Lengths \cup {0}, met : Nat]
      /\ t_req'.cmd = t_req.cmd /\ t_req'.off = t_req.off /\ t_req'.len = t_req.len
      /\ t_req'.met = t_req.met + n /\ t_req.met \in Nat
  BY <1>1, <1>2
<1>4. t_faults' \in 0 .. MaxFaults /\ t_faults' = t_faults + n
  BY <1>1, <1>2 DEF Faulted
<1> QED BY <1>1, <1>3, <1>4 DEF T!First, T!Blocks, T!Reads, T!OnBlocks

\* Answering a request: what is answered for is there.
LEMMA AnswerKeeps ==
    ASSUME T!TransferInvariant, t_pc # "idle", NEW err \in {"NoError", "BadLength"}, NEW actual \in Nat,
           NEW status \in {"none", "good", "check"}, T!Answer(err, actual, status),
           UNCHANGED <<t_disk, t_buf, t_rounds>>, NEW n \in Nat, Faulted(n), t_detached' \in BOOLEAN,
           t_dev' \in Devs, t_dev'.blocks = t_dev.blocks, t_dev'.gone = t_dev.gone, HeldFits',
           t_total' \in 0 .. t_dev.blocks, t_total' < LBALimit,
           T!OnBlocks(t_req) => /\ err = "NoError" => actual = T!Blocks(t_req)
                                /\ \A s \in 0 .. actual - 1 :
                                      /\ t_run.op = "read" => t_buf[s] = t_disk[T!First(t_req) + s]
                                      /\ t_run.op = "write" => t_disk[T!First(t_req) + s] = T!Value(s),
           ~t_dev.gone => /\ t_dev'.cmd # T!Ready => t_dev'.cmd = t_dev.cmd /\ T!Age(t_dev.cmd) < t_faults'
                          /\ t_dev'.stale # T!Ready => t_dev'.stale = t_dev.stale /\ T!Age(t_dev.stale) < t_faults'
    PROVE  T!TransferInvariant'
<1>1. /\ t_pc' = "idle" /\ t_io' = [err |-> err, actual |-> actual, status |-> status, told |-> 0]
      /\ t_run' = T!NoRun /\ t_bulk' = T!NoBulk(t_bulk.tag)
  BY DEF T!Answer
<1>2. t_run' \in Runs /\ t_bulk' \in Bulks /\ t_io' \in Answers
  BY <1>1, Basics DEF T!NoRun, T!NoBulk, Runs, Bulks, Answers, T!Ops, T!Tries
<1>3. /\ t_req' \in [cmd : Sent \cup {"none"}, off : Nat, len : Lengths \cup {0}, met : Nat]
      /\ T!First(t_req') = T!First(t_req) /\ T!Blocks(t_req') = T!Blocks(t_req)
      /\ T!Reads(t_req') = T!Reads(t_req) /\ T!OnBlocks(t_req') = T!OnBlocks(t_req)
      /\ t_faults' \in 0 .. MaxFaults /\ t_faults' = t_faults + n /\ t_faults \in Nat
  BY SameRequest
<1>4. t_rounds' \in 0 .. Rounds /\ t_disk' \in [0 .. t_dev.blocks - 1 -> Nat] /\ t_buf' \in [T!Slots -> Nat]
  BY Basics
<1>5. T!TypesFit'
  BY <1>1, <1>2, <1>3, <1>4, TypesKept
<1>6. T!RunFits'
  <2>1. t_io'.told = 0 /\ t_dev'.blocks \in Nat
    BY <1>1 DEF Devs
  <2> QED BY <1>1, <2>1 DEF T!RunFits, T!TellsTheSize, T!OneBlockWraps
<1>7. T!BlocksDone'
  BY <1>1 DEF T!BlocksDone
<1>8. t_run.op = "read" <=> T!Reads(t_req)
  BY DEF T!TransferInvariant, T!RunFits, T!TellsTheSize, T!OneBlockWraps
<1>9. t_run.op = "write" <=> T!OnBlocks(t_req) /\ ~T!Reads(t_req)
  BY DEF T!TransferInvariant, T!RunFits, T!TellsTheSize, T!OneBlockWraps
<1>10. \A s : T!Value(s)' = T!Value(s)
  BY DEF T!Value
<1>11. T!ReadIsRight'
  <2>1. T!Reads(t_req) => T!OnBlocks(t_req)
    BY DEF T!Reads, T!OnBlocks
  <2> QED BY <1>1, <1>3, <1>8, <2>1 DEF T!ReadIsRight
<1>12. T!WriteIsRight'
  BY <1>1, <1>3, <1>9, <1>10 DEF T!WriteIsRight
<1>13. ~t_dev'.gone => T!AgesFit'
  <2> SUFFICES ASSUME ~t_dev.gone PROVE T!AgesFit'
    OBVIOUS
  <2>1. T!AgesFit /\ t_bulk'.tag = t_bulk.tag
    BY <1>1 DEF T!TransferInvariant, T!NoBulk
  <2>2. T!Age(t_dev.cmd) \in Int /\ T!Age(t_dev.stale) \in Int
    BY Basics, AgeFits
  <2>3. t_dev'.cmd # T!Ready => T!Age(t_dev.cmd)' = T!Age(t_dev.cmd) /\ T!Age(t_dev.cmd) < t_faults' /\ t_dev'.cmd.tag > 0
    BY <2>1 DEF T!Age, T!AgesFit
  <2>4. t_dev'.stale # T!Ready =>
           T!Age(t_dev.stale)' = T!Age(t_dev.stale) /\ T!Age(t_dev.stale) < t_faults' /\ t_dev'.stale.tag > 0 /\ T!Age(t_dev.stale) >= 1
    BY <2>1 DEF T!Age, T!AgesFit
  <2> QED BY <1>1, <1>3, <2>2, <2>3, <2>4 DEF T!AgesFit
<1>14. T!DataFits' /\ T!FaultsMet'
  BY <1>1 DEF T!DataFits, T!FaultsMet
<1> QED BY <1>5, <1>6, <1>7, <1>11, <1>12, <1>13, <1>14 DEF T!TransferInvariant

\* A command that the device still has is one older with the next one, and its tag has not come
\* round.
LEMMA OlderFits ==
    ASSUME T!TransferInvariant, MaxFaults < TagLimit, NEW c \in T!Cmds, c.tag > 0, t_faults' \in 0 .. MaxFaults,
           T!Age(c) < t_faults', t_bulk'.tag = T!NextTag
    PROVE  c.tag \in 1 .. TagLimit /\ T!Age(c)' \in 1 .. t_faults' /\ ~T!RightTag(c)'
<1>1. /\ T!NextTag \in 1 .. TagLimit /\ T!NextTag = IF t_bulk.tag = TagLimit THEN 1 ELSE t_bulk.tag + 1
      /\ t_bulk.tag \in 0 .. TagLimit /\ MaxFaults \in Nat /\ TagLimit \in Nat
  BY Basics, TagFits DEF Bulks
<1>2. c.tag \in 1 .. TagLimit
  BY <1>1 DEF T!Cmds
<1>3. T!Age(c) \in Int /\ T!Age(c) >= 0 /\ T!Age(c) + 1 < TagLimit
  BY <1>1, <1>2 DEF T!Age
<1>4. T!Age(c)' = T!Age(c) + 1
  BY <1>1, <1>2, <1>3 DEF T!Age
<1>5. T!Age(c)' \in 1 .. t_faults'
  BY <1>3, <1>4
<1>6. ~T!RightTag(c)'
  BY <1>1, <1>2, <1>5 DEF T!RightTag, T!Age
<1> QED BY <1>2, <1>5, <1>6

\* The next try, of this command or of the next one.  A command that the device still has is one
\* older then, and the tag has not come round.
LEMMA TryKeeps ==
    ASSUME T!TransferInvariant, MaxFaults < TagLimit, t_pc # "idle", NEW t \in 0 .. T!Tries - 1, T!Try(T!NextTag, t),
           UNCHANGED <<t_total, t_io, t_disk, t_buf, t_rounds>>, NEW n \in Nat, Faulted(n), t_detached' \in BOOLEAN,
           t_dev' \in Devs, t_dev'.blocks = t_dev.blocks, t_dev'.gone = t_dev.gone, HeldFits',
           t_run' \in Runs, T!RunFits', T!BlocksDone',
           ~t_dev.gone => /\ t_dev'.cmd # T!Ready => t_dev'.cmd = t_dev.cmd /\ T!Age(t_dev.cmd) < t_faults'
                          /\ t_dev'.stale # T!Ready => t_dev'.stale = t_dev.stale /\ T!Age(t_dev.stale) < t_faults'
                          /\ t_dev'.fair => \/ t_req'.met >= t + 1
                                            \/ /\ t_req'.met >= t /\ t_dev'.cmd = T!Ready /\ t_dev'.stale = T!Ready
                                               /\ ~t_dev'.in /\ ~t_dev'.out
    PROVE  T!TransferInvariant'
<1>1. /\ t_pc' = "command" /\ t_bulk' = [tag |-> T!NextTag, tries |-> t, stalled |-> FALSE]
  BY DEF T!Try
<1>2. /\ T!NextTag \in 1 .. TagLimit /\ T!NextTag = IF t_bulk.tag = TagLimit THEN 1 ELSE t_bulk.tag + 1
      /\ t_bulk.tag \in 0 .. TagLimit
  BY Basics, TagFits DEF Bulks
<1>3. t_bulk' \in Bulks /\ t_bulk'.tag = T!NextTag /\ t_bulk'.tries = t /\ t_bulk'.stalled = FALSE
  BY <1>1, <1>2, Basics DEF Bulks
<1>4. /\ t_req' \in [cmd : Sent \cup {"none"}, off : Nat, len : Lengths \cup {0}, met : Nat]
      /\ t_faults' \in 0 .. MaxFaults /\ t_faults' = t_faults + n /\ t_faults \in Nat /\ t_req'.met \in Nat
  BY SameRequest
<1>5. /\ t_rounds' \in 0 .. Rounds /\ t_disk' \in [0 .. t_dev.blocks - 1 -> Nat] /\ t_buf' \in [T!Slots -> Nat]
      /\ t_io' \in Answers /\ t_total' \in 0 .. t_dev.blocks
  BY Basics DEF T!TransferInvariant, T!TypesFit, T!TypeOK, Answers
<1>6. T!TypesFit'
  BY <1>1, <1>3, <1>4, <1>5, TypesKept
<1>7. T!ReadIsRight' /\ T!WriteIsRight'
  BY <1>1 DEF T!ReadIsRight, T!WriteIsRight, T!Answered
<1>8. ASSUME ~t_dev.gone PROVE T!AgesFit' /\ T!DataFits' /\ T!FaultsMet'
  <2>1. T!AgesFit
    BY <1>8 DEF T!TransferInvariant
  <2>3. t_dev'.cmd # T!Ready => /\ t_dev'.cmd.tag \in 1 .. TagLimit /\ T!Age(t_dev.cmd)' \in 1 .. t_faults'
                                /\ ~T!RightTag(t_dev.cmd)'
    <3> SUFFICES ASSUME t_dev'.cmd # T!Ready
                 PROVE  /\ t_dev'.cmd.tag \in 1 .. TagLimit /\ T!Age(t_dev.cmd)' \in 1 .. t_faults'
                        /\ ~T!RightTag(t_dev.cmd)'
      OBVIOUS
    <3>1. t_dev'.cmd = t_dev.cmd /\ t_dev.cmd.tag > 0 /\ T!Age(t_dev.cmd) < t_faults' /\ t_dev.cmd \in T!Cmds
      BY <1>8, <2>1, Basics DEF T!AgesFit
    <3> QED BY <1>3, <1>4, <3>1, OlderFits DEF T!Age, T!RightTag
  <2>4. t_dev'.stale # T!Ready => t_dev'.stale.tag \in 1 .. TagLimit /\ T!Age(t_dev.stale)' \in 1 .. t_faults'
    <3> SUFFICES ASSUME t_dev'.stale # T!Ready
                 PROVE  t_dev'.stale.tag \in 1 .. TagLimit /\ T!Age(t_dev.stale)' \in 1 .. t_faults'
      OBVIOUS
    <3>1. /\ t_dev'.stale = t_dev.stale /\ t_dev.stale.tag > 0 /\ T!Age(t_dev.stale) < t_faults'
          /\ t_dev.stale \in T!Cmds
      BY <1>8, <2>1, Basics DEF T!AgesFit
    <3> QED BY <1>3, <1>4, <3>1, OlderFits DEF T!Age
  <2>5. T!AgesFit'
    BY <1>1, <1>4, <2>3, <2>4 DEF T!AgesFit
  <2>6. T!DataFits'
    BY <1>1 DEF T!DataFits
  <2>8. T!FaultsMet'
    <3> SUFFICES ASSUME t_dev'.fair PROVE t_req'.met >= t + IF T!Undisturbed' THEN 0 ELSE 1
      BY <1>3, <2>3 DEF T!FaultsMet
    <3>1. /\ t_req'.met >= t + 1
          \/ /\ t_req'.met >= t /\ t_dev'.cmd = T!Ready /\ t_dev'.stale = T!Ready
             /\ ~t_dev'.in /\ ~t_dev'.out
      BY <1>8
    <3>2. CASE t_req'.met >= t + 1
      BY <1>4, <3>2
    <3>3. CASE t_req'.met >= t /\ t_dev'.cmd = T!Ready /\ t_dev'.stale = T!Ready /\ ~t_dev'.in /\ ~t_dev'.out
      <4>1. T!Undisturbed'
        BY <1>1, <1>3, <3>3 DEF T!Undisturbed
      <4> QED BY <1>4, <3>3, <4>1
    <3> QED BY <3>1, <3>2, <3>3
  <2> QED BY <2>5, <2>6, <2>8
<1> QED BY <1>6, <1>7, <1>8 DEF T!TransferInvariant

\* A status phase that ends with a recovery has had a fault, in this try.
LEMMA RecoverKeeps ==
    ASSUME T!TransferInvariant, t_pc = "status", t_pc' = "recover",
           UNCHANGED <<t_run, t_bulk, t_disk, t_buf, t_total, t_io, t_rounds>>, NEW n \in Nat, Faulted(n),
           t_detached' \in BOOLEAN, t_dev' \in Devs, t_dev'.blocks = t_dev.blocks, t_dev'.gone = t_dev.gone,
           t_dev'.fair = t_dev.fair, t_dev'.cmd \in {t_dev.cmd, T!Ready}, t_dev'.stale \in {t_dev.stale, T!Ready},
           ~t_dev.gone /\ t_dev.fair => n > 0 \/ ~T!Undisturbed
    PROVE  T!TransferInvariant'
<1>1. HeldFits'
  BY Basics, ReadyFits DEF HeldFits
<1>2. t_bulk' \in Bulks /\ t_bulk'.tag > 0
  BY Basics DEF T!TransferInvariant, T!RunFits, T!TellsTheSize, T!OneBlockWraps
<1>3. /\ t_faults' \in Nat /\ t_faults' >= t_faults /\ t_faults \in Nat /\ t_req'.met = t_req.met + n
      /\ t_req.met \in Nat
  BY SameRequest
<1>4. ASSUME ~t_dev.gone PROVE T!AgesFit' /\ T!DataFits' /\ T!FaultsMet'
  <2>1. T!AgesFit /\ T!FaultsMet
    BY <1>4 DEF T!TransferInvariant
  <2>2. T!Age(t_dev.cmd) \in Int /\ T!Age(t_dev.stale) \in Int /\ t_bulk.tries \in Nat
    BY Basics, AgeFits DEF Bulks, T!Tries
  <2>3. T!AgesFit'
    BY <1>3, <2>1, <2>2 DEF T!AgesFit, T!Age
  <2>4. T!DataFits'
    BY DEF T!DataFits
  <2>5. T!FaultsMet'
    BY <1>3, <1>4, <2>1, <2>2 DEF T!FaultsMet, T!RightTag
  <2> QED BY <2>3, <2>4, <2>5
<1> QED BY <1>1, <1>2, <1>4, PhaseFrame

\* A status with the right tag is that of the command in hand, and nothing else is left.
LEMMA StatusFacts ==
    ASSUME T!TransferInvariant, t_pc = "status", ~t_dev.gone, T!FirstStatus.state = "status"
    PROVE  /\ T!StatusRead \in Devs /\ T!StatusRead.blocks = t_dev.blocks /\ T!StatusRead.gone = t_dev.gone
           /\ T!StatusRead.fair = t_dev.fair /\ T!StatusRead.in = t_dev.in /\ T!StatusRead.out = t_dev.out
           /\ T!StatusRead.cmd \in {t_dev.cmd, T!Ready} /\ T!StatusRead.stale \in {t_dev.stale, T!Ready}
           /\ T!Undisturbed => T!RightTag(T!FirstStatus) /\ T!FirstStatus = t_dev.cmd /\ ~t_dev.out
           /\ T!RightTag(T!FirstStatus) =>
                 /\ T!FirstStatus = t_dev.cmd /\ t_dev.cmd # T!Ready
                 /\ T!StatusRead.cmd = T!Ready /\ T!StatusRead.stale = T!Ready
                 /\ t_dev.fair => t_dev.cmd.verdict = "passed" /\ t_dev.cmd.miss = 0
<1>1. /\ t_dev \in Devs /\ t_dev.cmd \in T!Cmds /\ t_dev.stale \in T!Cmds /\ t_bulk.tag \in 0 .. TagLimit
      /\ TagLimit \in Nat \ {0}
  BY Basics DEF Bulks
<1>2. T!AgesFit /\ T!FaultsMet /\ t_bulk.tag > 0
  BY DEF T!TransferInvariant, T!RunFits, T!TellsTheSize, T!OneBlockWraps
<1>3. /\ T!StatusRead \in Devs /\ T!StatusRead.blocks = t_dev.blocks /\ T!StatusRead.gone = t_dev.gone
      /\ T!StatusRead.fair = t_dev.fair /\ T!StatusRead.in = t_dev.in /\ T!StatusRead.out = t_dev.out
      /\ t_dev.stale = T!Ready => T!StatusRead.cmd = T!Ready /\ T!StatusRead.stale = T!Ready
      /\ T!StatusRead.cmd \in {t_dev.cmd, T!Ready} /\ T!StatusRead.stale \in {t_dev.stale, T!Ready}
  BY <1>1, ReadyFits DEF T!StatusRead, Devs
<1>4. t_dev.stale # T!Ready => ~T!RightTag(t_dev.stale)
  <2> SUFFICES ASSUME t_dev.stale # T!Ready PROVE ~T!RightTag(t_dev.stale)
    OBVIOUS
  <2>1. t_dev.stale.tag \in 1 .. TagLimit /\ T!Age(t_dev.stale) >= 1
    BY <1>1, <1>2 DEF T!AgesFit, T!Cmds
  <2> QED BY <1>1, <1>2, <2>1 DEF T!RightTag, T!Age
<1>5. T!RightTag(T!FirstStatus) => T!FirstStatus = t_dev.cmd /\ t_dev.stale = T!Ready
  BY <1>4 DEF T!FirstStatus
<1>6. T!Undisturbed => T!RightTag(T!FirstStatus) /\ T!FirstStatus = t_dev.cmd /\ ~t_dev.out
  BY DEF T!Undisturbed, T!FirstStatus
<1>7. T!RightTag(T!FirstStatus) => t_dev.cmd # T!Ready
  BY <1>5, ReadyFits
<1>8. T!RightTag(T!FirstStatus) /\ t_dev.fair => t_dev.cmd.verdict = "passed" /\ t_dev.cmd.miss = 0
  BY <1>2, <1>5, <1>7 DEF T!FaultsMet
<1> QED BY <1>3, <1>5, <1>6, <1>7, <1>8

\* The loop after a command that has moved its data.
LEMMA ChunkPassedKeeps ==
    ASSUME T!TransferInvariant, MaxFaults < TagLimit, t_pc = "status", ~t_dev.gone, Faulted(0),
           t_run.op \in {"read", "write"}, T!Chunk_Passed, UNCHANGED <<t_disk, t_buf, t_rounds,
                                                                       t_detached>>,
           t_dev' \in Devs, t_dev'.blocks = t_dev.blocks, t_dev'.gone = t_dev.gone, t_dev'.fair = t_dev.fair,
           t_dev'.in = t_dev.in, t_dev'.out = t_dev.out, ~t_dev.in,
           t_dev'.cmd = T!Ready, t_dev'.stale = T!Ready,
           t_dev.cmd.state = "status", T!RightTag(t_dev.cmd), t_dev.cmd.miss = 0
    PROVE  T!TransferInvariant'
<1>0. T!TypesFit /\ T!RunFits /\ T!DataFits /\ T!BlocksDone /\ T!FaultsMet
  BY DEF T!TransferInvariant
<1>1. /\ T!Count \in 1 .. t_run.left /\ t_run.left \in Nat /\ T!Done \in Nat
      /\ T!Done + t_run.left = T!Blocks(t_req)
      /\ T!First(t_req) \in Nat /\ T!Blocks(t_req) \in Nat /\ T!OnBlocks(t_req)
      /\ t_run.start = T!First(t_req) + T!Done
      /\ t_total \in Nat /\ t_total <= t_dev.blocks /\ t_dev.blocks \in Nat
  BY <1>0, LoopFits
<1>2. \A s \in 0 .. T!Done + T!Count - 1 :
         /\ t_run.op = "read" => t_buf[s] = t_disk[T!First(t_req) + s]
         /\ t_run.op = "write" => t_disk[T!First(t_req) + s] = T!Value(s)
  <2> TAKE s \in 0 .. T!Done + T!Count - 1
  <2>1. s \in 0 .. T!Done - 1 \/ s \in T!Done .. T!Done + T!Count - 1
    BY <1>1
  <2> QED BY <1>0, <2>1 DEF T!BlocksDone, T!DataFits
<1>3. HeldFits' /\ t_detached' \in BOOLEAN
  BY <1>0, ReadyFits DEF HeldFits, T!TypesFit, T!TypeOK
<1>4. t_total' = t_total /\ t_total' < LBALimit
  BY <1>0 DEF T!Chunk_Passed, T!RunFits, T!TellsTheSize, T!OneBlockWraps
<1>5. CASE t_run.left = T!Count
  <2>1. T!Answer("NoError", T!Blocks(t_req), "none")
    BY <1>1, <1>5, Basics DEF T!Chunk_Passed
  <2>2. T!Done + T!Count = T!Blocks(t_req)
    BY <1>1, <1>5
  <2> QED BY <1>1, <1>2, <1>3, <1>4, <2>1, <2>2, AnswerKeeps
<1>6. CASE t_run.left # T!Count
  <2> DEFINE r == [t_run EXCEPT !.start = T!NextStart, !.left = @ - T!Count]
  <2>1. /\ r \in Runs /\ r.left = t_run.left - T!Count /\ r.start = t_run.start + T!Count /\ r.op = t_run.op
        /\ r.left # 0
    <3>1. t_run \in Runs
      BY Basics DEF Runs
    <3>2. t_run.left - T!Count \in Nat /\ t_run.start + T!Count \in Nat /\ t_run.left - T!Count # 0
      BY <1>1, <1>6
    <3> QED BY <3>1, <3>2 DEF Runs, T!NextStart
  <2>2. t_run' = r /\ T!Again /\ t_io' = t_io
    BY <2>1 DEF T!Chunk_Passed
  <2> HIDE DEF r
  <2>3. T!Try(T!NextTag, 0)
    BY <2>2 DEF T!Again
  <2>4. /\ T!First(t_req') = T!First(t_req) /\ T!Blocks(t_req') = T!Blocks(t_req)
        /\ T!Reads(t_req') = T!Reads(t_req) /\ T!OnBlocks(t_req') = T!OnBlocks(t_req)
    BY SameRequest
  <2>5. T!Done' = T!Done + T!Count
    BY <1>1, <2>1, <2>2, <2>4 DEF T!Done
  <2>6. T!RunFits'
    <3>1. t_pc' = "command" /\ t_bulk'.tag > 0
      BY <2>3, Basics, TagFits DEF T!Try, Bulks
    <3>2. t_run'.left \in 1 .. T!Blocks(t_req) /\ t_run'.start = T!First(t_req) + T!Done'
      BY <1>1, <2>1, <2>2, <2>5
    <3> QED BY <1>0, <1>1, <1>4, <2>1, <2>2, <2>4, <3>1, <3>2 DEF T!RunFits, T!TellsTheSize, T!OneBlockWraps
  <2>7. T!BlocksDone'
    <3>2. t_run'.op = t_run.op /\ T!First(t_req') = T!First(t_req) /\ T!Done' = T!Done + T!Count
      BY <2>1, <2>2, <2>4, <2>5
    <3>3. \A s \in 0 .. T!Done' - 1 : /\ t_run'.op = "read" => t_buf'[s] = t_disk'[T!First(t_req') + s]
                                      /\ t_run'.op = "write" => t_disk'[T!First(t_req') + s] = T!Value(s)'
      <4> TAKE s \in 0 .. T!Done' - 1
      <4>0. T!Value(s)' = T!Value(s)
        BY DEF T!Value
      <4>1. s \in 0 .. T!Done + T!Count - 1
        BY <1>1, <3>2
      <4>2. /\ t_run.op = "read" => t_buf[s] = t_disk[T!First(t_req) + s]
            /\ t_run.op = "write" => t_disk[T!First(t_req) + s] = T!Value(s)
        BY <1>2, <4>1
      <4> QED BY <3>2, <4>0, <4>2
    <3> QED BY <3>3 DEF T!BlocksDone
  <2>8. t_dev.fair => \/ t_req'.met >= 1
                      \/ t_req'.met >= 0 /\ ~t_dev'.in /\ ~t_dev'.out
    <3>1. t_bulk.tries \in Nat /\ t_req'.met = t_req.met /\ t_req.met \in Nat
      BY Basics, SameRequest DEF Bulks, T!Tries
    <3>2. CASE T!Undisturbed
      BY <3>1, <3>2 DEF T!Undisturbed
    <3>3. CASE ~T!Undisturbed
      BY <1>0, <3>1, <3>3 DEF T!FaultsMet, T!TransferInvariant
    <3> QED BY <3>2, <3>3
  <2> QED BY <1>3, <1>4, <2>1, <2>2, <2>3, <2>6, <2>7, <2>8, TryKeeps DEF T!Tries
<1> QED BY <1>5, <1>6

\* A request that failed has the blocks before the loop.
LEMMA FailedKeeps ==
    ASSUME T!TransferInvariant, t_pc # "idle", NEW err \in {"NoError", "BadLength"},
           NEW actual \in Nat, NEW status \in {"none", "good", "check"}, T!Answer(err, actual, status),
           t_run.op \in {"read", "write"} => actual = T!Done /\ err = "BadLength",
           UNCHANGED <<t_disk, t_buf, t_rounds>>, NEW n \in Nat, Faulted(n), t_detached' \in BOOLEAN,
           t_dev' \in Devs, t_dev'.blocks = t_dev.blocks, t_dev'.gone = t_dev.gone, HeldFits',
           t_total' = t_total \/ (t_total' \in 0 .. t_dev.blocks /\ t_total' < LBALimit),
           ~t_dev.gone => /\ t_dev'.cmd # T!Ready => t_dev'.cmd = t_dev.cmd /\ T!Age(t_dev.cmd) < t_faults'
                          /\ t_dev'.stale # T!Ready => t_dev'.stale = t_dev.stale /\ T!Age(t_dev.stale) < t_faults'
    PROVE  T!TransferInvariant'
<1>1. t_total' \in 0 .. t_dev.blocks /\ t_total' < LBALimit
  BY DEF T!TransferInvariant, T!TypesFit, T!TypeOK, T!RunFits, T!TellsTheSize, T!OneBlockWraps
<1>2. T!OnBlocks(t_req) => /\ err = "NoError" => actual = T!Blocks(t_req)
                           /\ \A s \in 0 .. actual - 1 :
                                 /\ t_run.op = "read" => t_buf[s] = t_disk[T!First(t_req) + s]
                                 /\ t_run.op = "write" => t_disk[T!First(t_req) + s] = T!Value(s)
  <2>1. T!OnBlocks(t_req) => t_run.op \in {"read", "write"}
    BY LoopFits DEF T!TransferInvariant
  <2> QED BY <2>1 DEF T!TransferInvariant, T!BlocksDone
<1> QED BY <1>1, <1>2, AnswerKeeps

LEMMA DoneIsCount == ASSUME T!TransferInvariant, t_pc # "idle", t_run.op \in {"read", "write"} PROVE T!Done \in Nat
BY LoopFits DEF T!TransferInvariant

\* The status of the command in hand, read.
LEMMA JudgedKeeps ==
    ASSUME T!TransferInvariant, MaxFaults < TagLimit, t_pc = "status", ~t_dev.gone, Faulted(0), ~t_dev.in,
           UNCHANGED <<t_disk, t_buf, t_rounds, t_detached>>, T!FirstStatus.state = "status", t_dev' = T!StatusRead,
           T!Judge(T!FirstStatus)
    PROVE  T!TransferInvariant'
<1>1. /\ t_dev' \in Devs /\ t_dev'.blocks = t_dev.blocks /\ t_dev'.gone = t_dev.gone /\ t_dev'.fair = t_dev.fair
      /\ t_dev'.in = t_dev.in /\ t_dev'.out = t_dev.out
      /\ t_dev'.cmd \in {t_dev.cmd, T!Ready} /\ t_dev'.stale \in {t_dev.stale, T!Ready}
      /\ T!Undisturbed => T!RightTag(T!FirstStatus) /\ T!FirstStatus = t_dev.cmd
      /\ T!RightTag(T!FirstStatus) =>
                 /\ T!FirstStatus = t_dev.cmd /\ t_dev.cmd # T!Ready
                 /\ t_dev'.cmd = T!Ready /\ t_dev'.stale = T!Ready
                 /\ t_dev.fair => t_dev.cmd.verdict = "passed" /\ t_dev.cmd.miss = 0
  BY StatusFacts
<1>2. t_detached' \in BOOLEAN
  BY DEF T!TransferInvariant, T!TypesFit, T!TypeOK
<1>3. CASE T!Recover
  <2>1. t_pc' = "recover" /\ UNCHANGED <<t_run, t_bulk, t_total, t_io>>
    BY <1>3 DEF T!Recover
  <2>2. t_dev.fair => ~T!Undisturbed
    <3> SUFFICES ASSUME t_dev.fair, T!Undisturbed PROVE FALSE
      OBVIOUS
    <3>1. T!RightTag(T!FirstStatus) /\ T!FirstStatus.verdict = "passed" /\ T!FirstStatus.miss = 0
      BY <1>1
    <3>2. T!Succeed(T!Residue(T!FirstStatus)) /\ T!Residue(T!FirstStatus) = 0
      BY <3>1 DEF T!Judge, T!Residue
    <3>3. t_run.op \in {"read", "write", "capacity", "other", "sense"}
      BY Basics DEF T!TransferInvariant, T!RunFits, T!TellsTheSize, T!OneBlockWraps, T!Ops
    <3>4. t_pc' # "recover"
      BY <3>2, <3>3 DEF T!Succeed, T!Chunk_Passed, T!GetGeometry, T!Answer, T!Again, T!Try
    <3> QED BY <2>1, <3>4
  <2> QED BY <1>1, <1>2, <2>1, <2>2, RecoverKeeps
<1>4. CASE ~T!Recover
  <2>0. /\ T!RightTag(T!FirstStatus)
        /\ \/ T!FirstStatus.verdict = "passed" /\ T!Succeed(T!Residue(T!FirstStatus))
           \/ T!FirstStatus.verdict = "failed" /\ T!Fail(TRUE)
    <3>1. T!FirstStatus.verdict \in {"passed", "failed", "phase"}
      BY Basics DEF T!FirstStatus, T!Cmds
    <3> QED BY <1>4, <3>1 DEF T!Judge
  <2>1. /\ T!FirstStatus = t_dev.cmd /\ t_dev.cmd # T!Ready /\ t_dev'.cmd = T!Ready /\ t_dev'.stale = T!Ready
        /\ HeldFits'
    BY <1>1, <2>0, ReadyFits DEF HeldFits
  <2>2. t_dev.cmd.miss \in Nat /\ t_dev.cmd.state = "status" /\ T!RightTag(t_dev.cmd)
    BY <2>0, <2>1, Basics DEF T!Cmds
  <2>3. t_run.op \in {"read", "write", "capacity", "other", "sense"}
    BY Basics DEF T!TransferInvariant, T!RunFits, T!TellsTheSize, T!OneBlockWraps, T!Ops
  <2>4. CASE T!Chunk_Passed /\ t_run.op \in {"read", "write"} /\ t_dev.cmd.miss = 0
    BY <1>1, <2>1, <2>2, <2>4, ChunkPassedKeeps
  <2>5. CASE T!Chunk_Failed /\ t_run.op \in {"read", "write"}
    <3>1. T!Done \in Nat /\ T!Answer("BadLength", T!Done, "none") /\ t_total' = t_total
      BY <2>5, DoneIsCount DEF T!Chunk_Failed
    <3> QED BY <1>1, <1>2, <2>1, <3>1, FailedKeeps
  <2>6. CASE t_run.op = "capacity" /\ (T!GetGeometry \/ (T!Answer("BadLength", 0, "none") /\ UNCHANGED t_total))
    <3>1. CASE T!Answer("BadLength", 0, "none") /\ UNCHANGED t_total
      BY <1>1, <1>2, <2>1, <2>6, <3>1, FailedKeeps
    <3>2. CASE T!Answer("NoError", 0, "none") /\ t_total' = T!LastBlock(t_dev.blocks) + 1 /\ T!LastBlock(t_dev.blocks) # T!AllOnes
      <4>1. LBALimit \in Nat \ {0} /\ t_dev.blocks \in Nat
        BY TransferAssumption, Basics DEF T!MSDTransferAssumption, Devs
      <4>2. t_total' \in 0 .. t_dev.blocks /\ t_total' < LBALimit
        BY <3>2, <4>1 DEF T!LastBlock, T!AllOnes, T!Lower
      <4> QED BY <1>1, <1>2, <2>1, <2>6, <3>2, <4>2, FailedKeeps
    <3> QED BY <2>6, <3>1, <3>2 DEF T!GetGeometry
  <2>7. CASE /\ t_run.op \in {"other", "sense"} /\ UNCHANGED t_total
             /\ \E status \in {"good", "check"} : T!Answer("NoError", 0, status)
    <3>1. PICK status \in {"good", "check"} : T!Answer("NoError", 0, status)
      BY <2>7
    <3> QED BY <1>1, <1>2, <2>1, <2>7, <3>1, FailedKeeps
  <2>8. CASE t_run.op = "other" /\ UNCHANGED t_total /\ t_run' = T!SCSI_RequestSense /\ T!Again /\ UNCHANGED t_io /\ ~t_dev.fair
    <3>1. T!Try(T!NextTag, 0)
      BY <2>8 DEF T!Again
    <3>2. t_run' \in Runs
      BY <2>8 DEF T!SCSI_RequestSense, T!NoRun, Runs, T!Ops
    <3>3. T!RunFits /\ T!BlocksDone
      BY DEF T!TransferInvariant
    <3>4. T!Reads(t_req') = T!Reads(t_req) /\ T!OnBlocks(t_req') = T!OnBlocks(t_req)
      BY SameRequest
    <3>5. t_run'.op = "sense" /\ ~T!OnBlocks(t_req) /\ ~T!Reads(t_req)
      BY <2>8, <3>3 DEF T!SCSI_RequestSense, T!NoRun, T!RunFits, T!TellsTheSize, T!OneBlockWraps, T!OnBlocks, T!Reads
    <3>6. t_pc' = "command" /\ t_bulk'.tag > 0
      BY <3>1, Basics, TagFits DEF T!Try, Bulks
    <3>7. T!RunFits'
      BY <1>1, <2>8, <3>3, <3>4, <3>5, <3>6 DEF T!RunFits, T!TellsTheSize, T!OneBlockWraps
    <3>8. T!BlocksDone'
      BY <3>5 DEF T!BlocksDone
    <3> QED BY <1>1, <1>2, <2>1, <2>8, <3>1, <3>2, <3>7, <3>8, TryKeeps DEF T!Tries
  <2>9. CASE T!FirstStatus.verdict = "passed" /\ T!Succeed(T!Residue(T!FirstStatus))
    <3>1. T!Succeed(t_dev.cmd.miss)
      BY <2>1, <2>9 DEF T!Residue
    <3>2. CASE t_run.op \in {"read", "write"}
      BY <2>4, <2>5, <3>1, <3>2 DEF T!Succeed
    <3>3. CASE t_run.op = "capacity"
      BY <2>6, <3>1, <3>3 DEF T!Succeed
    <3>4. CASE t_run.op \in {"other", "sense"}
      BY <2>7, <3>1, <3>4 DEF T!Succeed
    <3> QED BY <2>3, <3>2, <3>3, <3>4
  <2>10. CASE T!FirstStatus.verdict = "failed" /\ T!Fail(TRUE)
    <3>1. ~t_dev.fair
      BY <1>1, <2>0, <2>1, <2>10
    <3>2. CASE t_run.op \in {"read", "write"}
      BY <2>5, <2>10, <3>2 DEF T!Fail
    <3>3. CASE t_run.op = "capacity"
      BY <2>6, <2>10, <3>3 DEF T!Fail
    <3>4. CASE t_run.op = "other"
      BY <2>8, <2>10, <3>1, <3>4 DEF T!Fail
    <3>5. CASE t_run.op = "sense"
      BY <2>7, <2>10, <3>5 DEF T!Fail
    <3> QED BY <2>3, <3>2, <3>3, <3>4, <3>5
  <2> QED BY <2>0, <2>9, <2>10
<1> QED BY <1>3, <1>4

\* MSD_Bulk_Cmd_Status()
LEMMA StatusKeeps ==
    ASSUME T!TransferInvariant, MaxFaults < TagLimit, T!Bulk_Cmd_Status PROVE T!TransferInvariant'
<1>0. /\ t_pc = "status" /\ UNCHANGED <<t_disk, t_buf, t_rounds>> /\ t_detached \in BOOLEAN
      /\ t_dev \in Devs /\ t_dev.cmd \in T!Cmds /\ t_dev.stale \in T!Cmds /\ HeldFits
  BY Basics DEF T!Bulk_Cmd_Status, T!TransferInvariant, T!TypesFit, T!TypeOK
<1>1. CASE T!Status_Gone
  <2>1. /\ Faulted(0) /\ t_dev' = t_dev /\ t_dev.gone /\ t_detached' \in BOOLEAN /\ t_pc' = "recover"
        /\ UNCHANGED <<t_run, t_bulk, t_total, t_io>>
    BY <1>1, FaultsCounted DEF T!Status_Gone, T!Unplugged, T!Recover
  <2> QED BY <1>0, <2>1, RecoverKeeps
<1>s. SUFFICES ASSUME T!Still PROVE T!TransferInvariant'
  BY <1>0, <1>1 DEF T!Bulk_Cmd_Status, T!Status_Halted, T!Status_Okay, T!Status_None, T!Status_Lost
<1>g. ~t_dev.gone /\ t_detached' = t_detached /\ t_detached' \in BOOLEAN
  BY <1>0, <1>s DEF T!Still
<1>2. CASE T!Status_Halted
  <2>1. PICK lost \in SUBSET {"in"} : T!Destall({"in"}, lost) /\ t_dev' = T!Halts({"in"}, lost, t_dev)
    BY <1>2 DEF T!Status_Halted
  <2>2. PICK n \in Nat : Faulted(n) /\ (lost # {} => n > 0)
    BY <2>1, FaultsCounted
  <2>3. /\ t_dev' \in Devs /\ t_dev'.blocks = t_dev.blocks /\ t_dev'.cmd = t_dev.cmd /\ t_dev'.stale = t_dev.stale
        /\ t_dev'.fair = t_dev.fair /\ t_dev'.gone = t_dev.gone /\ (t_dev'.out => t_dev.out) /\ (lost = {} => ~t_dev'.in)
    BY <1>0, <2>1, HaltsFit
  <2>4. CASE t_bulk.stalled
    <3>1. t_pc' = "recover" /\ UNCHANGED <<t_run, t_bulk, t_total, t_io>> /\ t_dev.in
      BY <1>2, <2>4 DEF T!Status_Halted, T!Recover
    <3>2. ~T!Undisturbed
      BY <1>0, <2>4, <3>1 DEF T!Undisturbed
    <3> QED BY <1>0, <1>g, <2>2, <2>3, <3>1, <3>2, RecoverKeeps
  <2>5. CASE ~t_bulk.stalled
    <3>1. t_bulk' = [t_bulk EXCEPT !.stalled = TRUE] /\ UNCHANGED <<t_pc, t_run, t_total, t_io>>
      BY <1>2, <2>5 DEF T!Status_Halted
    <3>2. t_bulk' \in Bulks /\ t_bulk'.tag = t_bulk.tag /\ t_bulk'.tries = t_bulk.tries /\ t_bulk'.tag > 0
      BY <1>0, <3>1, Basics DEF Bulks, T!TransferInvariant, T!RunFits, T!TellsTheSize, T!OneBlockWraps
    <3>3. HeldFits'
      BY <1>0, <2>3 DEF HeldFits
    <3>4. T!AgesFit /\ T!DataFits /\ T!FaultsMet
      BY <1>g DEF T!TransferInvariant
    <3>5. /\ t_faults' \in Nat /\ t_faults' >= t_faults /\ t_faults \in Nat /\ t_req'.met = t_req.met + n
          /\ t_req.met \in Nat
          /\ t_bulk.tries \in Nat /\ T!Age(t_dev.cmd) \in Int /\ T!Age(t_dev.stale) \in Int
      <4>1. /\ t_faults' \in Nat /\ t_faults' >= t_faults /\ t_faults \in Nat /\ t_req'.met = t_req.met + n
            /\ t_req.met \in Nat
        BY <2>2, SameRequest
      <4>2. t_bulk.tries \in Nat
        BY Basics DEF Bulks, T!Tries
      <4> QED BY <1>0, <4>1, <4>2, AgeFits
    <3>6. T!AgesFit'
      BY <1>0, <2>3, <3>1, <3>2, <3>4, <3>5 DEF T!AgesFit, T!Age
    <3>7. T!DataFits'
      <4>1. T!Done' = T!Done /\ T!Count' = T!Count /\ T!First(t_req') = T!First(t_req) /\ \A s : T!Value(s)' = T!Value(s)
        BY <1>0, <2>2, <3>1, DoneKept
      <4> QED BY <1>0, <2>3, <3>1, <3>2, <3>4, <4>1 DEF T!DataFits, T!RightTag
    <3>8. T!FaultsMet'
      <4>1. lost = {} /\ T!Undisturbed => T!Undisturbed'
        BY <1>0, <2>3, <3>1, <3>2 DEF T!Undisturbed, T!RightTag
      <4>2. t_dev.fair => /\ t_req'.met >= t_bulk'.tries + IF T!Undisturbed' THEN 0 ELSE 1
                          /\ t_dev.cmd # T!Ready /\ T!RightTag(t_dev.cmd) => t_dev.cmd.verdict = "passed" /\ t_dev.cmd.miss = 0
        BY <1>0, <2>2, <3>2, <3>4, <3>5, <4>1 DEF T!FaultsMet
      <4> QED BY <2>3, <3>2, <4>2 DEF T!FaultsMet, T!RightTag
    <3> QED BY <1>0, <1>g, <2>2, <2>3, <3>1, <3>2, <3>3, <3>6, <3>7, <3>8, PhaseFrame
  <2> QED BY <2>4, <2>5
<1>3. CASE T!Status_Okay
  <2>1. ~t_dev.in /\ T!FirstStatus.state = "status" /\ Faulted(0) /\ t_dev' = T!StatusRead /\ T!Judge(T!FirstStatus)
    BY <1>3, FaultsCounted DEF T!Status_Okay
  <2> QED BY <1>0, <1>g, <2>1, JudgedKeeps
<1>4. CASE T!Status_None
  <2>1. /\ T!FirstStatus.state # "status" /\ Faulted(0) /\ t_dev' = t_dev /\ t_pc' = "recover"
        /\ UNCHANGED <<t_run, t_bulk, t_total, t_io>>
    BY <1>4, FaultsCounted DEF T!Status_None, T!Recover
  <2>2. ~T!Undisturbed
    BY <1>0, <2>1 DEF T!Undisturbed, T!FirstStatus
  <2> QED BY <1>0, <1>g, <2>1, <2>2, RecoverKeeps
<1>5. CASE T!Status_Lost
  <2>1. /\ T!FirstStatus.state = "status" /\ Faulted(1) /\ t_dev' \in {t_dev, T!StatusRead} /\ t_pc' = "recover"
        /\ UNCHANGED <<t_run, t_bulk, t_total, t_io>>
    BY <1>5, FaultsCounted DEF T!Status_Lost, T!Recover
  <2>2. /\ t_dev' \in Devs /\ t_dev'.blocks = t_dev.blocks /\ t_dev'.gone = t_dev.gone /\ t_dev'.fair = t_dev.fair
        /\ t_dev'.cmd \in {t_dev.cmd, T!Ready} /\ t_dev'.stale \in {t_dev.stale, T!Ready}
    BY <1>0, <1>g, <2>1, StatusFacts
  <2>3. 1 \in Nat /\ 1 > 0
    OBVIOUS
  <2> QED BY <1>0, <1>g, <2>1, <2>2, <2>3, RecoverKeeps
<1> QED BY <1>1, <1>2, <1>3, <1>4, <1>5 DEF T!Bulk_Cmd_Status

\* The device after a recovery: what it still holds took a fault.
LEMMA ResetFits ==
    ASSUME T!TransferInvariant, NEW lost \in SUBSET {"in", "out", "reset"}, t_dev' = T!Reset(lost)
    PROVE  /\ t_dev' \in Devs /\ t_dev'.blocks = t_dev.blocks /\ t_dev'.gone = t_dev.gone /\ t_dev'.fair = t_dev.fair
           /\ t_dev'.cmd \in {t_dev.cmd, T!Ready} /\ t_dev'.stale \in {t_dev.stale, T!Ready}
           /\ ~t_dev.gone /\ lost = {} => t_dev'.cmd = T!Ready /\ t_dev'.stale = T!Ready /\ ~t_dev'.in /\ ~t_dev'.out
<1>1. t_dev \in Devs
  BY Basics
<1>2. CASE t_dev.gone
  BY <1>1, <1>2 DEF T!Reset
<1>3. CASE ~t_dev.gone
  <2> DEFINE d == T!Halts(T!Both, lost, t_dev)
  <2>1. /\ d \in Devs /\ d.cmd = t_dev.cmd /\ d.stale = t_dev.stale /\ d.blocks = t_dev.blocks
        /\ d.gone = t_dev.gone /\ d.fair = t_dev.fair /\ (lost = {} => ~d.in /\ ~d.out)
    <3>1. "in" \in T!Both /\ "out" \in T!Both
      BY DEF T!Both
    <3>2. d \in Devs
      BY <1>1, HaltsFit
    <3> QED BY <1>1, <3>1, <3>2, HaltsFit DEF Devs
  <2>2. t_dev' = IF "reset" \in lost THEN d ELSE [d EXCEPT !.cmd = T!Ready, !.stale = T!Ready]
    BY <1>3 DEF T!Reset
  <2> HIDE DEF d
  <2> QED BY <2>1, <2>2, ReadyFits DEF Devs
<1> QED BY <1>2, <1>3

\* MSD_DoBulk_Recovery()
LEMMA RecoveryKeeps ==
    ASSUME T!TransferInvariant, MaxFaults < TagLimit, T!DoBulk_Recovery PROVE T!TransferInvariant'
<1>0. /\ t_pc = "recover" /\ UNCHANGED <<t_disk, t_buf, t_detached, t_rounds>> /\ t_detached' \in BOOLEAN
      /\ t_dev.cmd \in T!Cmds /\ t_dev.stale \in T!Cmds /\ HeldFits
  BY Basics DEF T!DoBulk_Recovery, T!TransferInvariant, T!TypesFit, T!TypeOK
<1>1. PICK lost \in SUBSET (T!Both \cup {"reset"}) :
         T!Destall(T!Both \cup {"reset"}, lost) /\ (t_dev.gone => lost = {}) /\ t_dev' = T!Reset(lost)
  BY DEF T!DoBulk_Recovery
<1>2. PICK n \in Nat : Faulted(n) /\ (lost # {} => n > 0)
  BY <1>1, FaultsCounted DEF T!Both
<1>3. /\ t_dev' \in Devs /\ t_dev'.blocks = t_dev.blocks /\ t_dev'.gone = t_dev.gone /\ t_dev'.fair = t_dev.fair
      /\ t_dev'.cmd \in {t_dev.cmd, T!Ready} /\ t_dev'.stale \in {t_dev.stale, T!Ready}
      /\ ~t_dev.gone /\ lost = {} => t_dev'.cmd = T!Ready /\ t_dev'.stale = T!Ready /\ ~t_dev'.in /\ ~t_dev'.out
  BY <1>1, ResetFits DEF T!Both
<1>4. HeldFits'
  BY <1>0, <1>3, ReadyFits DEF HeldFits
<1>5. t_faults' = t_faults + n /\ t_faults \in Nat /\ t_req'.met = t_req.met + n /\ t_req.met \in Nat
  BY <1>2, SameRequest
<1>6. ~t_dev.gone => /\ t_dev'.cmd # T!Ready => t_dev'.cmd = t_dev.cmd /\ T!Age(t_dev.cmd) < t_faults'
                     /\ t_dev'.stale # T!Ready => t_dev'.stale = t_dev.stale /\ T!Age(t_dev.stale) < t_faults'
  <2> SUFFICES ASSUME ~t_dev.gone, t_dev'.cmd # T!Ready \/ t_dev'.stale # T!Ready
               PROVE  /\ t_dev'.cmd # T!Ready => t_dev'.cmd = t_dev.cmd /\ T!Age(t_dev.cmd) < t_faults'
                      /\ t_dev'.stale # T!Ready => t_dev'.stale = t_dev.stale /\ T!Age(t_dev.stale) < t_faults'
    OBVIOUS
  <2>1. n > 0 /\ T!AgesFit
    BY <1>2, <1>3 DEF T!TransferInvariant
  <2>2. T!Age(t_dev.cmd) \in Int /\ T!Age(t_dev.stale) \in Int
    BY <1>0, AgeFits
  <2> QED BY <1>3, <1>5, <2>1, <2>2 DEF T!AgesFit
<1>7. ~t_dev.gone /\ t_dev.fair => t_req.met >= t_bulk.tries + 1
  BY <1>0, <1>5, Basics DEF T!TransferInvariant, T!FaultsMet, T!Undisturbed, Bulks, T!Tries
<1>8. CASE T!NextTry < T!Tries
  <2>1. T!Try(T!NextTag, T!NextTry) /\ UNCHANGED <<t_run, t_total, t_io>>
    BY <1>8 DEF T!DoBulk_Recovery
  <2>2. t_bulk.tries \in 0 .. T!Tries - 1 /\ T!NextTry \in 0 .. T!Tries - 1 /\ T!NextTry = t_bulk.tries + 1
    BY <1>8, Basics DEF Bulks, T!NextTry, T!Tries
  <2>3. t_run' \in Runs
    BY <2>1, Basics DEF Runs
  <2>4. T!BlocksDone'
    BY <1>0, <1>2, <2>1, DoneKept
  <2>5. T!RunFits'
    <3>1. t_pc' = "command" /\ t_bulk'.tag > 0
      BY <2>1, Basics, TagFits DEF T!Try, Bulks
    <3>2. /\ T!First(t_req') = T!First(t_req) /\ T!Blocks(t_req') = T!Blocks(t_req)
          /\ T!Reads(t_req') = T!Reads(t_req) /\ T!OnBlocks(t_req') = T!OnBlocks(t_req)
      BY <1>2, SameRequest
    <3> QED BY <1>0, <1>3, <2>1, <3>1, <3>2 DEF T!TransferInvariant, T!RunFits, T!TellsTheSize, T!OneBlockWraps, T!Done
  <2>6. ~t_dev.gone /\ t_dev'.fair =>
           \/ t_req'.met >= T!NextTry + 1
           \/ t_req'.met >= T!NextTry /\ t_dev'.cmd = T!Ready /\ t_dev'.stale = T!Ready /\ ~t_dev'.in /\ ~t_dev'.out
    BY <1>2, <1>3, <1>5, <1>7, <2>2
  <2> QED BY <1>0, <1>2, <1>3, <1>4, <1>6, <2>1, <2>2, <2>3, <2>4, <2>5, <2>6, TryKeeps
<1>9. CASE ~(T!NextTry < T!Tries)
  <2>1. T!Fail(FALSE)
    BY <1>9 DEF T!DoBulk_Recovery
  <2>2. t_run.op \in {"read", "write", "capacity", "other", "sense"}
    BY <1>0, Basics DEF T!TransferInvariant, T!RunFits, T!TellsTheSize, T!OneBlockWraps, T!Ops
  <2>3. CASE t_run.op \in {"read", "write"}
    <3>1. T!Done \in Nat /\ T!Answer("BadLength", T!Done, "none") /\ t_total' = t_total
      BY <1>0, <2>1, <2>3, DoneIsCount DEF T!Fail, T!Chunk_Failed
    <3> QED BY <1>0, <1>2, <1>3, <1>4, <1>6, <3>1, FailedKeeps
  <2>4. CASE t_run.op \in {"capacity", "other"}
    <3>1. T!Answer("BadLength", 0, "none") /\ t_total' = t_total
      BY <2>1, <2>4 DEF T!Fail
    <3> QED BY <1>0, <1>2, <1>3, <1>4, <1>6, <2>4, <3>1, FailedKeeps
  <2>5. CASE t_run.op = "sense"
    <3>1. T!Answer("NoError", 0, "check") /\ t_total' = t_total
      BY <2>1, <2>5 DEF T!Fail
    <3> QED BY <1>0, <1>2, <1>3, <1>4, <1>6, <2>5, <3>1, FailedKeeps
  <2> QED BY <2>2, <2>3, <2>4, <2>5
<1> QED BY <1>8, <1>9

-----------------------------------------------------------------------------
(* The requests *)

LEMMA RequestFits ==
    ASSUME NEW r \in T!Requests
    PROVE  /\ r \in [cmd : Sent \cup {"none"}, off : Nat, len : Lengths \cup {0}, met : Nat]
           /\ r.met = 0 /\ r.cmd \in T!Advertised
<1>0. Sent \subseteq T!Advertised /\ Offsets \subseteq Nat
  BY TransferAssumption DEF T!MSDTransferAssumption
<1>1. \/ \E c \in Sent, o \in Offsets, l \in Lengths : r = [cmd |-> c, off |-> o, len |-> l, met |-> 0]
      \/ \E c \in Sent : r = [T!NoRequest EXCEPT !.cmd = c]
  <2> DEFINE sized == {c \in Sent : T!OnBlocks([cmd |-> c])}
  <2>1. \/ r \in {[cmd |-> c, off |-> o, len |-> l, met |-> 0] : c \in sized, o \in Offsets, l \in Lengths}
        \/ r \in {[T!NoRequest EXCEPT !.cmd = c] : c \in Sent \ sized}
    BY DEF T!Requests
  <2>2. sized \subseteq Sent
    OBVIOUS
  <2> HIDE DEF sized
  <2> QED BY <2>1, <2>2
<1> QED BY <1>0, <1>1 DEF T!NoRequest

\* The loop that a command starts with reaches all the blocks of the request.
LEMMA RunOfFits ==
    ASSUME NEW r \in T!Requests, T!Refusal(r) = "none", r.cmd \notin T!Local
    PROVE  /\ T!RunOf(r) \in Runs /\ T!RunOf(r).op # "none"
           /\ T!RunOf(r).op = "read" <=> T!Reads(r)
           /\ T!RunOf(r).op = "write" <=> T!OnBlocks(r) /\ ~T!Reads(r)
           /\ T!OnBlocks(r) => /\ T!RunOf(r).start = T!First(r) /\ T!RunOf(r).left = T!Blocks(r)
                               /\ T!First(r) + T!Blocks(r) <= t_total /\ T!Blocks(r) > 0
           /\ T!First(r) \in Nat /\ T!Blocks(r) \in Nat
<1>1. r.cmd \in {"CMD_READ", "CMD_WRITE", "TD_READ64", "NSCMD_READ64", "TD_GETGEOMETRY", "HD_SCSICMD"}
  BY RequestFits DEF T!Refusal, T!Served, T!Advertised, T!Local
<1>2. T!First(r) \in Nat /\ T!Blocks(r) \in Nat /\ (T!Accepted(r) => T!Blocks(r) > 0)
  BY RequestFits, BlocksFit
<1>3. T!OnBlocks(r) => T!First(r) + T!Blocks(r) <= t_total /\ T!Blocks(r) > 0
  BY <1>2 DEF T!Refusal, T!Accepted
<1>4. /\ T!SCSI_Read10(r) \in Runs /\ T!SCSI_Read16(r) \in Runs /\ T!SCSI_Write10(r) \in Runs
      /\ T!SCSI_ReadCapacity10 \in Runs /\ T!__HDSCSI_Default \in Runs
      /\ T!SCSI_Read10(r).op = "read" /\ T!SCSI_Read16(r).op = "read" /\ T!SCSI_Write10(r).op = "write"
      /\ T!SCSI_ReadCapacity10.op = "capacity" /\ T!__HDSCSI_Default.op = "other"
      /\ \A x \in {T!SCSI_Read10(r), T!SCSI_Read16(r), T!SCSI_Write10(r)} : x.start = T!First(r) /\ x.left = T!Blocks(r)
  <2>1. T!SCSI_Read10(r) \in Runs /\ T!SCSI_Write10(r) \in Runs
    BY <1>2 DEF T!SCSI_Read10, T!SCSI_Write10, Runs, T!Ops
  <2>2. T!SCSI_Read16(r) \in Runs
    BY <2>1 DEF T!SCSI_Read16, Runs
  <2>3. T!SCSI_ReadCapacity10 \in Runs /\ T!__HDSCSI_Default \in Runs
    BY DEF T!SCSI_ReadCapacity10, T!__HDSCSI_Default, T!NoRun, Runs, T!Ops
  <2>4. /\ T!SCSI_Read10(r).op = "read" /\ T!SCSI_Read16(r).op = "read" /\ T!SCSI_Write10(r).op = "write"
        /\ T!SCSI_Read10(r).start = T!First(r) /\ T!SCSI_Read16(r).start = T!First(r)
        /\ T!SCSI_Write10(r).start = T!First(r)
        /\ T!SCSI_Read10(r).left = T!Blocks(r) /\ T!SCSI_Read16(r).left = T!Blocks(r)
        /\ T!SCSI_Write10(r).left = T!Blocks(r)
    BY DEF T!SCSI_Read10, T!SCSI_Read16, T!SCSI_Write10
  <2>5. T!SCSI_ReadCapacity10.op = "capacity" /\ T!__HDSCSI_Default.op = "other"
    BY DEF T!SCSI_ReadCapacity10, T!__HDSCSI_Default, T!NoRun
  <2> QED BY <2>1, <2>2, <2>3, <2>4, <2>5
<1>5. CASE r.cmd = "CMD_READ"
  <2>1. T!RunOf(r) = T!SCSI_Read10(r)
    BY <1>5 DEF T!RunOf, T!CMD_Read
  <2> QED BY <1>2, <1>3, <1>4, <1>5, <2>1 DEF T!Reads, T!OnBlocks
<1>6. CASE r.cmd = "CMD_WRITE"
  <2>1. T!RunOf(r) = T!SCSI_Write10(r)
    BY <1>6 DEF T!RunOf, T!CMD_Write
  <2> QED BY <1>2, <1>3, <1>4, <1>6, <2>1 DEF T!Reads, T!OnBlocks
<1>7. CASE r.cmd \in {"TD_READ64", "NSCMD_READ64"}
  <2>1. T!RunOf(r) \in {T!SCSI_Read10(r), T!SCSI_Read16(r)}
    BY <1>7 DEF T!RunOf, T!NSCmd_Read64, T!TD_Read64
  <2> QED BY <1>2, <1>3, <1>4, <1>7, <2>1 DEF T!Reads, T!OnBlocks
<1>8. CASE r.cmd = "TD_GETGEOMETRY"
  <2>1. T!RunOf(r) = T!SCSI_ReadCapacity10
    BY <1>8 DEF T!RunOf
  <2> QED BY <1>2, <1>4, <1>8, <2>1 DEF T!Reads, T!OnBlocks
<1>9. CASE r.cmd = "HD_SCSICMD"
  <2>1. T!RunOf(r) = T!__HDSCSI_Default
    BY <1>9 DEF T!RunOf
  <2> QED BY <1>2, <1>4, <1>9, <2>1 DEF T!Reads, T!OnBlocks
<1> QED BY <1>1, <1>5, <1>6, <1>7, <1>8, <1>9

\* MSD_Manager_BeginIO(): a new request starts with its own tag and nothing done.
LEMMA TransferBeginKeeps ==
    ASSUME T!TransferInvariant, MaxFaults < TagLimit, T!BeginIO PROVE T!TransferInvariant'
<1>0. /\ t_pc = "idle" /\ UNCHANGED <<t_disk, t_total, t_detached, t_faults>> /\ t_detached' \in BOOLEAN
      /\ t_dev \in Devs /\ t_dev.cmd \in T!Cmds /\ t_dev.stale \in T!Cmds /\ HeldFits
      /\ t_run = T!NoRun /\ t_run \in Runs /\ t_bulk \in Bulks
      /\ t_total \in 0 .. t_dev.blocks /\ t_total < LBALimit /\ t_dev.blocks \in Nat /\ t_faults \in 0 .. MaxFaults
  BY Basics DEF T!BeginIO, T!TransferInvariant, T!TypesFit, T!RunFits, T!TellsTheSize, T!OneBlockWraps, T!TypeOK, Runs, Devs
<1>1. PICK r \in T!Requests : t_req' = r /\ (T!Refuse(r) \/ T!Tell(r) \/ T!Start(r))
  BY DEF T!BeginIO
<1>2. /\ r \in [cmd : Sent \cup {"none"}, off : Nat, len : Lengths \cup {0}, met : Nat] /\ r.met = 0
      /\ T!Reads(r) => T!OnBlocks(r)
  BY RequestFits DEF T!Reads, T!OnBlocks
<1>3. t_rounds' \in 0 .. Rounds /\ t_disk' \in [0 .. t_dev.blocks - 1 -> Nat] /\ t_buf' \in [T!Slots -> Nat]
  <2>1. t_rounds' \in 0 .. Rounds
    BY Basics DEF T!BeginIO
  <2>2. T!Unread \in Nat
    BY Basics DEF T!Unread
  <2>3. t_buf' = [s \in T!Slots |-> T!Unread]
    BY DEF T!BeginIO
  <2> QED BY <1>0, <2>1, <2>2, <2>3, Basics
<1>4. /\ t_dev' \in Devs /\ t_dev'.blocks = t_dev.blocks /\ t_dev'.gone = t_dev.gone /\ t_dev'.cmd = t_dev.cmd
      /\ t_dev'.stale = t_dev.stale /\ t_dev'.in = t_dev.in /\ t_dev'.out = t_dev.out
      /\ t_dev'.fair => t_dev.cmd = T!Ready /\ t_dev.stale = T!Ready /\ ~t_dev.in /\ ~t_dev.out
  <2>1. t_dev' = [t_dev EXCEPT !.fair = t_dev.cmd = T!Ready /\ t_dev.stale = T!Ready /\ ~t_dev.in /\ ~t_dev.out]
    BY DEF T!BeginIO
  <2> QED BY <1>0, <2>1 DEF Devs
<1>5. HeldFits'
  BY <1>0, <1>4 DEF HeldFits
<1>6. ~t_dev.gone => T!AgesFit
  BY DEF T!TransferInvariant
<1>7. CASE T!Refuse(r) \/ T!Tell(r)
  <2>1. UNCHANGED <<t_pc, t_run, t_bulk>> /\ UNCHANGED t_total
    BY <1>7 DEF T!Refuse, T!Tell, T!BeginIO
  <2>2. /\ t_io' \in Answers /\ (t_io'.told <= t_dev.blocks \/ (t_total = 0 /\ t_io'.told = LBALimit)) /\ t_io'.actual = 0
        /\ T!OnBlocks(r) => t_io'.err # "NoError"
    <3>1. CASE T!Refuse(r)
      <4>1. T!Refusal(r) \in {"NoCmd", "DiskChanged", "BadLength"}
        BY <3>1 DEF T!Refuse, T!Refusal
      <4> QED BY <1>0, <3>1, <4>1 DEF T!Refuse, Answers
    <3>2. CASE T!Tell(r)
      <4>1. ~T!OnBlocks(r)
        BY <3>2 DEF T!Tell, T!Local, T!OnBlocks
      <4>2. LBALimit \in Nat \ {0} /\ t_total \in 0 .. LBALimit - 1 /\ t_total <= t_dev.blocks
        BY <1>0, TransferAssumption DEF T!MSDTransferAssumption, T!TransferInvariant, T!TypesFit, T!TypeOK, T!RunFits
      <4>3. T!ReadCap10 + 1 = IF t_total = 0 THEN LBALimit ELSE t_total
        BY <4>2, OneLessFits DEF T!ReadCap10, T!AllOnes
      <4>4. \E n \in {t_total, IF t_total = 0 THEN LBALimit ELSE t_total} :
                t_io' = [err |-> "NoError", actual |-> 0, status |-> "none", told |-> n]
        BY <3>2, <4>3 DEF T!Tell, T!GetGeometry64
      <4> QED BY <1>0, <4>1, <4>2, <4>4 DEF Answers
    <3> QED BY <1>7, <3>1, <3>2
  <2>3. T!TypesFit'
    BY <1>0, <1>1, <1>2, <1>3, <1>4, <1>5, <2>1, <2>2, TypesKept
  <2>4. T!RunFits'
    BY <1>0, <1>4, <2>1, <2>2 DEF T!RunFits, T!TellsTheSize, T!OneBlockWraps
  <2>5. T!BlocksDone' /\ T!DataFits' /\ T!FaultsMet'
    BY <1>0, <2>1 DEF T!BlocksDone, T!DataFits, T!FaultsMet
  <2>6. T!ReadIsRight' /\ T!WriteIsRight'
    BY <1>1, <1>2, <2>2 DEF T!ReadIsRight, T!WriteIsRight
  <2>7. ~t_dev.gone => T!AgesFit'
    BY <1>0, <1>4, <1>6, <2>1 DEF T!AgesFit, T!Age
  <2> QED BY <1>4, <2>3, <2>4, <2>5, <2>6, <2>7 DEF T!TransferInvariant
<1>8. CASE T!Start(r)
  <2>1. /\ r.cmd \notin T!Local /\ T!Refusal(r) = "none" /\ t_run' = T!RunOf(r)
        /\ t_io' = [err |-> "Pending", actual |-> 0, status |-> "none", told |-> 0]
        /\ t_pc' = "command" /\ t_bulk' = [tag |-> T!NextTag, tries |-> 0, stalled |-> FALSE]
    BY <1>8 DEF T!Start, T!Try
  <2>2. /\ t_run' \in Runs /\ t_run'.op # "none"
        /\ t_run'.op = "read" <=> T!Reads(r)
        /\ t_run'.op = "write" <=> T!OnBlocks(r) /\ ~T!Reads(r)
        /\ T!OnBlocks(r) => /\ t_run'.start = T!First(r) /\ t_run'.left = T!Blocks(r)
                            /\ T!First(r) + T!Blocks(r) <= t_total /\ T!Blocks(r) > 0
        /\ T!First(r) \in Nat /\ T!Blocks(r) \in Nat
    BY <2>1, RunOfFits
  <2>3. /\ t_bulk' \in Bulks /\ t_bulk'.tag = T!NextTag /\ t_bulk'.tag > 0 /\ t_bulk'.tries = 0
        /\ t_bulk'.stalled = FALSE
    BY <1>0, <2>1, TagFits, Basics DEF Bulks, T!Tries
  <2>4. t_io' \in Answers /\ t_io'.told = 0
    BY <2>1 DEF Answers
  <2>5. T!TypesFit'
    BY <1>0, <1>1, <1>2, <1>3, <1>4, <1>5, <2>1, <2>2, <2>3, <2>4, TypesKept
  <2>6. T!OnBlocks(r) => T!Done' = 0
    BY <1>1, <2>2 DEF T!Done
  <2>7. T!RunFits'
    BY <1>0, <1>1, <1>4, <2>1, <2>2, <2>3, <2>4, <2>6 DEF T!RunFits, T!TellsTheSize, T!OneBlockWraps
  <2>8. T!BlocksDone'
    BY <1>2, <2>2, <2>6 DEF T!BlocksDone
  <2>9. T!ReadIsRight' /\ T!WriteIsRight' /\ T!DataFits'
    BY <2>1 DEF T!ReadIsRight, T!WriteIsRight, T!Answered, T!DataFits
  <2>10. ~t_dev.gone => T!AgesFit'
    <3> SUFFICES ASSUME ~t_dev.gone PROVE T!AgesFit'
      OBVIOUS
    <3>1. t_faults' \in 0 .. MaxFaults /\ t_faults' = t_faults
      BY <1>0
    <3>2. t_dev.cmd # T!Ready => t_dev'.cmd.tag > 0 /\ T!Age(t_dev.cmd)' \in 1 .. t_faults'
      BY <1>0, <1>4, <1>6, <2>3, <3>1, OlderFits DEF T!AgesFit
    <3>3. t_dev.stale # T!Ready => t_dev'.stale.tag > 0 /\ T!Age(t_dev.stale)' \in 1 .. t_faults'
      BY <1>0, <1>4, <1>6, <2>3, <3>1, OlderFits DEF T!AgesFit
    <3> QED BY <1>4, <2>1, <3>1, <3>2, <3>3, Basics DEF T!AgesFit, T!Age
  <2>11. T!FaultsMet'
    <3> SUFFICES ASSUME t_dev'.fair PROVE T!FaultsMet'
      BY DEF T!FaultsMet
    <3>1. T!Undisturbed'
      BY <1>4, <2>1, <2>3 DEF T!Undisturbed
    <3> QED BY <1>1, <1>2, <1>4, <2>3, <3>1 DEF T!FaultsMet
  <2> QED BY <1>4, <2>5, <2>7, <2>8, <2>9, <2>10, <2>11 DEF T!TransferInvariant
<1> QED BY <1>1, <1>7, <1>8

LEMMA UnplugKeeps == ASSUME T!TransferInvariant, T!Unplug PROVE T!TransferInvariant'
<1>1. UNCHANGED <<t_pc, t_req, t_run, t_bulk, t_disk, t_buf, t_total, t_detached, t_io, t_faults,
                  t_rounds>> /\ t_dev' = [t_dev EXCEPT !.gone = TRUE]
  BY DEF T!Unplug
<1>2. /\ t_dev' \in Devs /\ t_dev'.blocks = t_dev.blocks /\ t_dev'.gone /\ t_dev'.cmd = t_dev.cmd
      /\ t_dev'.stale = t_dev.stale
      /\ HeldFits'
  BY <1>1, Basics DEF Devs, HeldFits
<1>3. T!TypesFit /\ T!RunFits /\ T!BlocksDone /\ T!ReadIsRight /\ T!WriteIsRight
  BY DEF T!TransferInvariant
<1>4. T!TypesFit'
  BY <1>1, <1>2, <1>3, TypesKept, Basics DEF T!TypesFit, T!TypeOK, Runs, Answers
<1>5. T!RunFits' /\ T!BlocksDone' /\ T!ReadIsRight' /\ T!WriteIsRight'
  BY <1>1, <1>2, <1>3 DEF T!RunFits, T!TellsTheSize, T!OneBlockWraps, T!BlocksDone, T!ReadIsRight, T!WriteIsRight, T!Answered, T!Done,
      T!Value
<1> QED BY <1>2, <1>4, <1>5 DEF T!TransferInvariant

-----------------------------------------------------------------------------
(* The specification *)

LEMMA TransferInit == T!Init => T!TransferInvariant
<1> SUFFICES ASSUME T!Init PROVE T!TransferInvariant
  OBVIOUS
<1>1. /\ BlockCounts \subseteq Nat \ {0} /\ LBALimit \in Nat \ {0} /\ TagLimit \in Nat \ {0}
      /\ MaxFaults \in Nat /\ Rounds \in Nat
  BY TransferAssumption DEF T!MSDTransferAssumption
<1>2. PICK n \in BlockCounts :
        /\ t_pc = "idle" /\ t_req = T!NoRequest /\ t_run = T!NoRun /\ t_bulk = T!NoBulk(0)
        /\ t_dev = [cmd |-> T!Ready, blocks |-> n, in |-> FALSE, out |-> FALSE, gone |-> FALSE, stale |-> T!Ready, fair |-> TRUE]
        /\ t_disk = [b \in 0 .. n - 1 |-> 0] /\ t_buf = [s \in T!Slots |-> T!Unread]
        /\ t_total = T!LastBlock(n) /\ t_detached = FALSE /\ t_io = [err |-> "NoError", actual |-> 0, status |-> "none", told |-> 0]
        /\ t_faults = 0 /\ t_rounds = 0
  BY DEF T!Init
<1>3. n \in Nat \ {0} /\ t_total \in 0 .. n /\ t_total < LBALimit /\ T!Unread \in Nat
  BY <1>1, <1>2 DEF T!LastBlock, T!Lower, T!Unread
<1>4. /\ t_dev \in Devs /\ t_dev.cmd = T!Ready /\ t_dev.stale = T!Ready /\ t_dev.cmd.state = "ready"
      /\ t_dev.blocks = n
      /\ {t_dev.in, t_dev.out, t_dev.gone, t_detached} \subseteq BOOLEAN
  BY <1>2, <1>3, ReadyFits DEF Devs
<1>5. /\ t_run.op = "none" /\ t_run \in Runs /\ t_bulk \in Bulks /\ t_io \in Answers
      /\ t_req \in [cmd : Sent \cup {"none"}, off : Nat, len : Lengths \cup {0}, met : Nat]
      /\ t_run.start = 0 /\ t_run.left = 0 /\ t_bulk.tag = 0 /\ t_bulk.tries = 0 /\ t_bulk.stalled = FALSE
      /\ t_io.actual = 0
      /\ t_io.told = 0
  BY <1>1, <1>2 DEF T!NoRun, T!NoBulk, T!NoRequest, Runs, Bulks, Answers, T!Ops, T!Tries
<1>6. t_disk \in [0 .. n - 1 -> Nat] /\ t_buf \in [T!Slots -> Nat]
  BY <1>2, <1>3
<1>7. T!TypeOK
  <2>1. DOMAIN t_disk = 0 .. t_dev.blocks - 1
    BY <1>4, <1>6
  <2>2. t_bulk.tag \in 0 .. TagLimit /\ t_bulk.tries \in 0 .. T!Tries - 1 /\ t_bulk.stalled \in BOOLEAN
    BY <1>5 DEF Bulks
  <2>3. t_total \in 0 .. t_dev.blocks /\ t_faults \in 0 .. MaxFaults /\ t_rounds \in 0 .. Rounds
    BY <1>1, <1>2, <1>3, <1>4
  <2>4. t_dev.cmd.state \in {"ready", "data", "status"} /\ t_pc \in {"idle", "command", "data", "status", "recover"}
    BY <1>2, <1>4
  <2>5. /\ t_run.op \in {"none", "read", "write", "capacity", "sense", "other"}
        /\ t_run.start \in Nat /\ t_run.left \in Nat /\ t_io.actual \in Nat
    BY <1>5
  <2> QED BY <1>4, <1>6, <2>1, <2>2, <2>3, <2>4, <2>5 DEF T!TypeOK
<1>8. T!TypesFit
  BY <1>4, <1>5, <1>6, <1>7 DEF T!TypesFit, Devs, Bulks, Runs, Answers
<1>9. T!RunFits
  BY <1>2, <1>3, <1>4, <1>5 DEF T!RunFits, T!TellsTheSize, T!OneBlockWraps
<1>10. T!BlocksDone /\ T!ReadIsRight /\ T!WriteIsRight /\ T!AgesFit /\ T!DataFits /\ T!FaultsMet
  BY <1>2, <1>4 DEF T!BlocksDone, T!ReadIsRight, T!WriteIsRight, T!Answered, T!AgesFit, T!DataFits,
      T!FaultsMet
<1> QED BY <1>8, <1>9, <1>10 DEF T!TransferInvariant

LEMMA TransferStep ==
    ASSUME T!TransferInvariant, MaxFaults < TagLimit, [T!Next]_(T!vars) PROVE T!TransferInvariant'
<1>1. CASE UNCHANGED T!vars
  BY <1>1 DEF T!vars, T!TransferInvariant, T!TypesFit, T!TypeOK, T!RunFits, T!TellsTheSize, T!OneBlockWraps, T!BlocksDone, T!ReadIsRight,
      T!WriteIsRight, T!Answered,
              T!AgesFit, T!Age, T!DataFits, T!RightTag, T!Done, T!Count, T!WireLBA, T!Value, T!FaultsMet,
              T!Undisturbed
<1>2. CASE T!BeginIO
  BY <1>2, TransferBeginKeeps
<1>3. CASE T!Serve
  BY <1>3, CommandKeeps, DataKeeps, StatusKeeps, RecoveryKeeps DEF T!Serve
<1>4. CASE T!Unplug
  BY <1>4, UnplugKeeps
<1> QED BY <1>1, <1>2, <1>3, <1>4 DEF T!Next

LEMMA TransferIsRight == T!TransferInvariant => T!DataIsRight
<1> SUFFICES ASSUME T!TransferInvariant PROVE T!DataIsRight
  OBVIOUS
<1>1. T!TypesFit /\ T!RunFits /\ T!ReadIsRight /\ T!WriteIsRight /\ T!TypeOK
  BY DEF T!TransferInvariant, T!TypesFit
<1>2. t_run.op \in {"read", "write"} => t_pc # "idle"
  BY <1>1 DEF T!RunFits, T!TellsTheSize, T!OneBlockWraps, T!NoRun
<1>3. t_run.op \in {"read", "write"} => t_run.start + t_run.left <= t_dev.blocks /\ t_run.start < LBALimit
  BY <1>1, <1>2, LoopFits
<1> QED BY <1>1, <1>3 DEF T!DataIsRight, T!InsideTheDisk, T!RunFits, T!TellsTheSize, T!OneBlockWraps

-----------------------------------------------------------------------------
(* What a step does *)

LEMMA StepWritesItsBlocks ==
    ASSUME T!TransferInvariant, T!Next, NEW b \in DOMAIN t_disk, t_disk'[b] # t_disk[b]
    PROVE  t_pc # "idle" /\ b \in T!First(t_req) .. T!First(t_req) + T!Blocks(t_req) - 1
<1>1. T!Bulk_Cmd_Data
  BY DEF T!Next, T!BeginIO, T!Serve, T!Bulk_Cmd_Phase, T!Bulk_Cmd_Status, T!DoBulk_Recovery, T!Unplug
<1>2. t_pc = "data" /\ UNCHANGED <<t_run, t_rounds>>
  BY <1>1 DEF T!Bulk_Cmd_Data
<1>3. t_dev.cmd.todo \in 0 .. t_dev.cmd.todo
  <2>1. t_dev.cmd \in T!Cmds
    BY Basics
  <2>2. t_dev.cmd.todo \in Nat
    BY <2>1 DEF T!Cmds
  <2> QED BY <2>2
<1>4. CASE T!Data_Okay
  <2>1. ~t_dev.gone /\ T!Mine /\ T!Moved(t_dev.cmd, t_dev.cmd.todo) /\ Faulted(0)
    BY <1>4, FaultsCounted DEF T!Data_Okay, T!Still
  <2> QED BY <1>2, <1>3, <2>1, MovedFits
<1>5. CASE T!Data_Stall
  <2>1. ~t_dev.gone /\ T!Mine /\ T!Moved(t_dev.cmd, t_dev.cmd.todo)
    BY <1>5 DEF T!Data_Stall, T!Still
  <2>2. \E n \in Nat : Faulted(n)
    BY <1>5, FaultsCounted DEF T!Data_Stall, T!Both
  <2> QED BY <1>2, <1>3, <2>1, <2>2, MovedFits
<1>6. CASE T!Data_Lost
  <2>1. ~t_dev.gone /\ T!Mine /\ Faulted(1) /\ \E j \in 0 .. t_dev.cmd.todo : T!Moved(t_dev.cmd, j)
    BY <1>6, FaultsCounted DEF T!Data_Lost, T!Still
  <2> QED BY <1>2, <2>1, MovedFits
<1> QED BY <1>1, <1>4, <1>5, <1>6 DEF T!Bulk_Cmd_Data, T!Data_Gone, T!Data_Halted, T!Data_Stale, T!NothingMoved

LEMMA StepReportsTheDevice ==
    ASSUME T!TransferInvariant, T!Next, t_pc = "status", t_pc' = "idle", t_io'.status = "good"
    PROVE  t_dev.cmd.verdict = "passed" /\ t_dev'.cmd = T!Ready
<1>1. T!Bulk_Cmd_Status
  BY DEF T!Next, T!BeginIO, T!Serve, T!Bulk_Cmd_Phase, T!Bulk_Cmd_Data, T!DoBulk_Recovery, T!Unplug
<1>2. T!Status_Okay
  BY <1>1 DEF T!Bulk_Cmd_Status, T!Status_Gone, T!Status_Halted, T!Status_None, T!Status_Lost, T!Recover
<1>3. ~t_dev.gone /\ T!FirstStatus.state = "status" /\ t_dev' = T!StatusRead /\ T!Judge(T!FirstStatus)
  BY <1>2 DEF T!Status_Okay, T!Still
<1>4. ~T!Recover
  BY DEF T!Recover
<1>5. /\ T!RightTag(T!FirstStatus)
      /\ \/ T!FirstStatus.verdict = "passed" /\ T!Succeed(T!Residue(T!FirstStatus))
         \/ T!FirstStatus.verdict = "failed" /\ T!Fail(TRUE)
  <2>1. T!FirstStatus.verdict \in {"passed", "failed", "phase"}
    BY Basics DEF T!FirstStatus, T!Cmds
  <2> QED BY <1>3, <1>4, <2>1 DEF T!Judge
<1>6. T!FirstStatus = t_dev.cmd /\ t_dev'.cmd = T!Ready
  BY <1>3, <1>5, StatusFacts
<1>7. ~T!Fail(TRUE)
  <2> SUFFICES ASSUME T!Fail(TRUE) PROVE FALSE
    OBVIOUS
  <2>1. t_run.op \in {"read", "write", "capacity", "other", "sense"}
    BY Basics DEF T!TransferInvariant, T!RunFits, T!TellsTheSize, T!OneBlockWraps, T!Ops
  <2>2. /\ \A err, actual : ~T!Answer(err, actual, "none")
        /\ \A err, actual : ~T!Answer(err, actual, "check")
        /\ ~T!Again
    BY DEF T!Answer, T!Again, T!Try
  <2>3. CASE t_run.op \in {"read", "write"}
    BY <2>2, <2>3 DEF T!Fail, T!Chunk_Failed
  <2>4. CASE t_run.op = "capacity"
    BY <2>2, <2>4 DEF T!Fail
  <2>5. CASE t_run.op = "other"
    BY <2>2, <2>5 DEF T!Fail
  <2>6. CASE t_run.op = "sense"
    BY <2>2, <2>6 DEF T!Fail
  <2> QED BY <2>1, <2>3, <2>4, <2>5, <2>6
<1> QED BY <1>5, <1>6, <1>7

LEMMA StepSurvivesOneFault ==
    ASSUME T!TransferInvariant, T!Next, t_pc = "recover", t_pc' = "idle", t_req'.met <= 1
    PROVE  t_dev.gone \/ ~t_dev.fair
<1> SUFFICES ASSUME ~t_dev.gone, t_dev.fair PROVE FALSE
  OBVIOUS
<1>1. T!DoBulk_Recovery
  BY DEF T!Next, T!BeginIO, T!Serve, T!Bulk_Cmd_Phase, T!Bulk_Cmd_Data, T!Bulk_Cmd_Status, T!Unplug
<1>2. ~(T!NextTry < T!Tries) /\ t_bulk.tries \in Nat
  <2>1. t_bulk.tries \in Nat
    BY Basics DEF Bulks, T!Tries
  <2>2. \A t, n : ~T!Try(t, n)
    BY DEF T!Try
  <2> QED BY <1>1, <2>1, <2>2 DEF T!DoBulk_Recovery
<1>3. \E n \in Nat : Faulted(n)
  BY <1>1, FaultsCounted DEF T!DoBulk_Recovery, T!Both
<1>4. t_req'.met >= t_req.met /\ t_req.met \in Nat /\ t_req'.met \in Nat
  BY <1>3, SameRequest
<1>5. t_req.met >= t_bulk.tries + 1
  BY <1>2, <1>4 DEF T!TransferInvariant, T!FaultsMet, T!Undisturbed
<1> QED BY <1>2, <1>4, <1>5 DEF T!NextTry, T!Tries

-----------------------------------------------------------------------------
(* The transfers of every behaviour *)

LEMMA OneModule ==
    ASSUME [MCNext]_<<which, vars, t_vars>> PROVE [T!Next]_(T!vars)
<1>1. UNCHANGED t_vars => UNCHANGED T!vars
  BY DEF t_vars, T!vars
<1> QED BY <1>1 DEF MCNext

\* What a read is answered with is there and what was counted as written is on the disk, whatever
\* was retried and whichever status came late; the driver never thinks that the disk is larger than
\* it is, nor tells so of any but a disk of one block, and a block number fits its command: for every size of disk, request, buffer and chunk, and
\* every number of lost transfers for which the tag does not come round.
THEOREM DataIsRightAlways == ASSUME MaxFaults < TagLimit PROVE MCSpec => []DataIsRight
<1>1. MCInit => T!TransferInvariant
  BY TransferInit DEF MCInit
<1>2. T!TransferInvariant /\ [MCNext]_<<which, vars, t_vars>> => T!TransferInvariant'
  BY OneModule, TransferStep
<1>3. T!TransferInvariant => DataIsRight
  BY TransferIsRight DEF DataIsRight
<1> QED BY <1>1, <1>2, <1>3, PTL DEF MCSpec

\* A step writes no block but those of the request in hand, SCSI_GOOD is reported only of a command
\* that the device passed, and a request is not given up for one lost transfer: for the same values.
THEOREM TransportIsSoundAlways == ASSUME MaxFaults < TagLimit PROVE MCSpec => TransportIsSound
<1> DEFINE Own == \A b \in DOMAIN t_disk : t_disk'[b] # t_disk[b] =>
                    t_pc # "idle" /\ b \in T!First(t_req) .. T!First(t_req) + T!Blocks(t_req) - 1
           Good == t_pc = "status" /\ t_pc' = "idle" /\ t_io'.status = "good" =>
                     t_dev.cmd.verdict = "passed" /\ t_dev'.cmd = T!Ready
           Kept == t_pc = "recover" /\ t_pc' = "idle" /\ t_req'.met <= 1 => t_dev.gone \/ ~t_dev.fair
<1>1. MCInit => T!TransferInvariant
  BY TransferInit DEF MCInit
<1>2. T!TransferInvariant /\ [MCNext]_<<which, vars, t_vars>> => T!TransferInvariant'
  BY OneModule, TransferStep
<1>3. T!TransferInvariant /\ [MCNext]_<<which, vars, t_vars>> => [Own]_(T!vars)
  BY OneModule, StepWritesItsBlocks
<1>4. T!TransferInvariant /\ [MCNext]_<<which, vars, t_vars>> => [Good]_(T!vars)
  BY OneModule, StepReportsTheDevice
<1>5. T!TransferInvariant /\ [MCNext]_<<which, vars, t_vars>> => [Kept]_(T!vars)
  BY OneModule, StepSurvivesOneFault
<1> HIDE DEF Own, Good, Kept
<1>6. MCSpec => [][Own]_(T!vars) /\ [][Good]_(T!vars) /\ [][Kept]_(T!vars)
  BY <1>1, <1>2, <1>3, <1>4, <1>5, PTL DEF MCSpec
<1> QED BY <1>6 DEF TransportIsSound, T!TransportIsSound, T!OnlyItsBlocks, T!StatusIsTheDevices,
                    T!OneFaultIsSurvived, Own, Good, Kept

=============================================================================
