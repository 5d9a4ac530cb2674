------------------------- MODULE TaskControl_proofs -------------------------
(***************************************************************************)
(* For any number of class drivers: a TaskNode has exactly the locks of what  *)
(* refers to it and is freed when nothing does, the counters are exact that   *)
(* an owner waits for, and no owner ends before those it counts.              *)
(***************************************************************************)
EXTENDS TaskControl, FiniteSetTheorems, TLAPS

-----------------------------------------------------------------------------
(* Names and records *)

LEMMA Names ==
    /\ app \notin Task /\ master \notin Task /\ none \notin Proc /\ app # master
    /\ hcd \in Task /\ hub \in Task /\ hub \in Driver /\ hcd \notin Driver /\ hub # hcd
    /\ hub \notin Class /\ hcd \notin Class /\ Class \subseteq Driver /\ Driver \subseteq Task
    /\ Task \subseteq Proc /\ app \in Proc /\ master \in Proc
    /\ \A t \in Task : t = hcd \/ t = hub \/ t \in Class
    /\ \A d \in Driver : d = hub \/ d \in Class
BY TaskControlAssumption DEF Task, Driver, Proc

LEMMA Callers ==
    /\ Starter(hcd) = app /\ Starter(hub) = app /\ Stopper(hcd) = app /\ Stopper(hub) = hcd
    /\ \A d \in Class : Starter(d) = hub /\ Stopper(d) = hub
BY Names DEF Starter, Stopper

LEMMA NoNodeIs ==
    /\ NoNode \in TaskNode /\ NoNode.st = "none" /\ ~ NoNode.adr /\ NoNode.locks = 0
    /\ NoNode.parent = NoParent /\ ~ NoNode.listed
BY DEF NoNode, TaskNode, NoParent

LEMMA NoDriverIs ==
    /\ NoDriver \in DriverNode /\ NoDriver.st = "none" /\ NoDriver.locks = 0
    /\ ~ NoDriver.freeMe /\ ~ NoDriver.task /\ ~ NoDriver.ok
BY DEF NoDriver, DriverNode

-----------------------------------------------------------------------------
(* Tasks that a step does nothing to *)

SameTask(t) ==
    /\ pc'[t] = pc[t] /\ tn'[t] = tn[t] /\ kept'[t] = kept[t]
    /\ t \in Driver => dn'[t] = dn[t]
    /\ "C" \in sig'[t] => "C" \in sig[t]

\* A caller in a call stands as it did, or it is in none before and after.
Caller == {app, hub, hcd}
Calls  == {"awaitStop"} \cup Binds
SameCall(p) ==
    /\ bind' = p <=> bind = p
    /\ Queued(p)' => Queued(p)
    /\ \/ pc[p] \notin Calls /\ pc'[p] \notin Calls
       \/ /\ pc'[p] = pc[p] /\ arg'[p] = arg[p] /\ keep'[p] = keep[p] /\ result'[p] = result[p]
          /\ Answered(p)' => Answered(p)

\* Neither t nor a call about it changes.
Apart(t) ==
    /\ SameTask(t)
    /\ SameCall(Starter(t)) \/ ~ (Starting(t) \/ Binding(t) \/ Starting(t)' \/ Binding(t)')
    /\ SameCall(Stopper(t)) \/ ~ (Stopping(t) \/ Stopping(t)')

Place(t) == NodePlace(t) /\ LockPlace(t) /\ (t \in Driver => BinderPlace(t) /\ DriverPlace(t))

LEMMA Sides ==
    ASSUME NEW t \in Task, Apart(t)
    PROVE  /\ Starting(t)' = Starting(t) /\ Stopping(t)' = Stopping(t) /\ Binding(t)' = Binding(t)
           /\ Starting(t) \/ Binding(t) =>
                  /\ SameCall(Starter(t)) /\ pc'[Starter(t)] = pc[Starter(t)]
                  /\ result'[Starter(t)] = result[Starter(t)]
                  /\ Answered(Starter(t))' => Answered(Starter(t))
           /\ Stopping(t) => /\ SameCall(Stopper(t)) /\ pc'[Stopper(t)] = pc[Stopper(t)]
                             /\ keep'[Stopper(t)] = keep[Stopper(t)]
BY DEF Apart, SameCall, Starting, Stopping, Binding, Binds, Calls

LEMMA ApartKeeps ==
    ASSUME NEW t \in Task, Place(t), Apart(t) PROVE Place(t)'
<1>1. NodePlace(t)'
  BY Sides DEF Place, Apart, SameTask, SameCall, NodePlace, ToAnswer
<1>2. LockSum(t)' = LockSum(t)
  BY Sides, Names DEF Apart, SameTask, SameCall, LockSum, InUse
<1>3. LockPlace(t)'
  BY <1>2 DEF Place, Apart, SameTask, LockPlace
<1>4. ASSUME t \in Driver PROVE BinderPlace(t)'
  BY <1>4, Sides DEF Place, Apart, SameTask, SameCall, BinderPlace
<1>5. ASSUME t \in Driver PROVE DriverPlace(t)'
  BY <1>5, Sides DEF Place, Apart, SameTask, SameCall, DriverPlace, InUse
<1> QED BY <1>1, <1>3, <1>4, <1>5 DEF Place

-----------------------------------------------------------------------------
(* What the rest of the invariant needs of a step *)

\* What a caller in a call about t needs: t is not born, does not die and is not freed.
Before == {"none", "entry"} \cup Starts
Stands(t) ==
    /\ pc[t] \notin Before => pc'[t] \notin Before
    /\ pc[t] = "none" => pc'[t] = "none"
    /\ pc[t] = "dead" => pc'[t] = "dead"
    /\ tn[t].st # "none" => tn'[t].st # "none"
    /\ tn[t] = NoNode => tn'[t] = NoNode
    /\ Alive(tn[t]) => Alive(tn'[t])
    /\ t \in Driver /\ dn[t].st = "listed" /\ dn[t].task => dn'[t].st = "listed" /\ dn'[t].task
SameWith(p) == SameCall(p) /\ \A t \in Task : InCall(p, t) => Stands(t)

LEMMA SameStands == ASSUME NEW t \in Task, SameTask(t) PROVE Stands(t)
BY DEF SameTask, Stands

LEMMA CallerKeeps ==
    ASSUME NEW p \in Caller, StartPlace(p), StopPlace(p), SameWith(p)
    PROVE  StartPlace(p)' /\ StopPlace(p)'
<1>1. CASE pc[p] \in {"awaitStart", "awaitStop"}
  <2>1. PICK t \in Task : arg[p] = t
    BY <1>1 DEF StartPlace, StopPlace
  <2>2. Stands(t) /\ SameCall(p)
    BY <1>1, <2>1 DEF SameWith, InCall
  <2>3. pc'[p] = pc[p] /\ arg'[p] = t /\ keep'[p] = keep[p] /\ result'[p] = result[p]
        /\ (Answered(p)' => Answered(p)) /\ (Queued(p)' => Queued(p)) /\ (bind' = p <=> bind = p)
    BY <1>1, <2>1, <2>2 DEF SameCall, Calls, Binds
  <2>4. t \in Driver \/ p = app \/ pc[p] # "awaitStop"
    BY <2>1, Names, Callers DEF StopPlace
  <2>5. StartPlace(p)'
    BY <2>1, <2>2, <2>3 DEF StartPlace, Stands, Before
  <2>6. StopPlace(p)'
    BY <2>1, <2>2, <2>3, <2>4 DEF StopPlace, Stands
  <2> QED BY <2>5, <2>6
<1>2. CASE pc[p] \notin {"awaitStart", "awaitStop"}
  BY <1>2 DEF StartPlace, StopPlace, SameWith, SameCall, Calls, Binds
<1> QED BY <1>1, <1>2

LEMMA MessageKeeps ==
    ASSUME NEW m \in Commands, Message(m), SameWith(m.by)
    PROVE  Message(m)'
<1>1. m.by \in Caller /\ m.of \in Task /\ InCall(m.by, m.of)
  BY DEF Commands, Caller, Message, InCall
<1>2. SameCall(m.by) /\ Stands(m.of)
  BY <1>1 DEF SameWith
<1> QED BY <1>1, <1>2 DEF Message, SameCall, Stands, Calls, Binds, InCall

LEMMA QueueKeeps ==
    ASSUME TypeOK, QueuePlace, queue' = queue, \A p \in Caller : Queued(p) => SameWith(p)
    PROVE  QueuePlace'
<1>1. ASSUME NEW i \in DOMAIN queue PROVE Message(queue[i])'
  <2>1. PICK m \in Commands : queue[i] = m
    BY DEF TypeOK
  <2>2. Message(m) /\ m.by \in Caller /\ Queued(m.by)
    BY <2>1 DEF QueuePlace, Commands, Caller, Queued
  <2>3. Message(m)'
    BY <2>2, MessageKeeps
  <2> QED BY <2>1, <2>3
<1>2. \A i \in DOMAIN queue' : Message(queue[i])'
  BY <1>1
<1>3. \A i, j \in DOMAIN queue' : queue'[i].by = queue'[j].by => i = j
  BY DEF QueuePlace
<1> QED BY <1>2, <1>3 DEF QueuePlace

LEMMA HUBKeeps ==
    ASSUME HUBPlace, pc'[hub] = pc[hub], arg'[hub] = arg[hub], port' = port,
           "C" \in sig[hub] => "C" \in sig'[hub], "E" \in sig'[app] => "E" \in sig[app],
           \A d \in Class : Over(d) /\ ~ InUse(d) => Over(d)' /\ ~ InUse(d)',
           \A d \in Class : dn[d].st = "none" => dn'[d].st = "none",
           dn'[hub].ok = dn[hub].ok
    PROVE  HUBPlace'
BY DEF HUBPlace

LEMMA HCDKeeps ==
    ASSUME HCDPlace, pc'[hcd] = pc[hcd], "C" \in sig'[hcd] => "C" \in sig[hcd], root' = root,
           pc'[app] = pc[app], arg'[app] = arg[app], result'[app] = result[app],
           Over(hub) /\ ~ InUse(hub) => Over(hub)' /\ ~ InUse(hub)'
    PROVE  HCDPlace'
BY DEF HCDPlace

LEMMA AppKeeps ==
    ASSUME AppPlace, pc'[app] = pc[app], arg'[app] = arg[app], result[app] => result'[app],
           pc'[hcd] = pc[hcd], tn[hcd] = NoNode => tn'[hcd] = NoNode,
           Over(hcd) => Over(hcd)', dn[hub].st = "none" => dn'[hub].st = "none"
    PROVE  AppPlace'
BY DEF AppPlace

LEMMA MasterKeeps ==
    ASSUME MasterPlace, stopping' = stopping,
           "C" \in sig'[master] \cup mask' => "C" \in sig[master] \cup mask,
           pc[app] \in {"waitMaster", "gone"} => pc'[app] \in {"waitMaster", "gone"},
           pc'[master] = "dead" => pc[master] = "dead" /\ kept' = kept
    PROVE  MasterPlace'
BY DEF MasterPlace

\* The invariant after a step that concerns the tasks T and the callers P.
LEMMA Whole ==
    ASSUME TaskInvariant, TypeOK', NEW T \in SUBSET Task, NEW P \in SUBSET Caller,
           \A t \in Task \ T : Apart(t), \A t \in T : Place(t)',
           \A p \in Caller \ P : SameWith(p), \A p \in P : StartPlace(p)' /\ StopPlace(p)',
           QueuePlace', CounterExact', HUBPlace', HCDPlace', AppPlace', MasterPlace'
    PROVE  TaskInvariant'
<1>1. ASSUME NEW t \in Task PROVE Place(t)'
  <2>1. Place(t)
    BY DEF TaskInvariant, Place
  <2> QED BY <2>1, ApartKeeps
<1>2. ASSUME NEW p \in Caller PROVE StartPlace(p)' /\ StopPlace(p)'
  <2>1. StartPlace(p) /\ StopPlace(p)
    BY DEF TaskInvariant, Caller
  <2> QED BY <2>1, CallerKeeps
<1> QED BY <1>1, <1>2, Names DEF TaskInvariant, Place, Caller

-----------------------------------------------------------------------------
(* Types and counters *)

LEMMA LabelsAre ==
    /\ AppLabels \subseteq Labels /\ {"wait", "handle", "dead"} \subseteq Labels
    /\ \A t : LabelsOf(t) \subseteq Labels
<1>1. \A t : Locking(t) \subseteq Labels
  BY DEF Labels, Locking, HUBMain
<1>2. AppLabels \subseteq Labels /\ {"wait", "handle", "dead"} \subseteq Labels
  BY DEF Labels
<1>3. {"none", "entry", "dead", "forget", "main", "awaitStop", "stopping", "end", "announce",
       "finish"} \subseteq Labels
  BY DEF Labels, HUBMain, Starts, Early, Ends
<1>4. Starts \subseteq Labels /\ Early \subseteq Labels /\ Ends \subseteq Labels
  BY DEF Labels
<1>5. ASSUME NEW t PROVE LabelsOf(t) \subseteq Labels
  BY <1>1, <1>3, <1>4 DEF LabelsOf
<1> QED BY <1>2, <1>5

LEMMA GoToIs ==
    ASSUME TypeOK, NEW p \in Proc, NEW label \in Labels, GoTo(p, label)
    PROVE  /\ pc' \in [Proc -> Labels] /\ pc'[p] = label
           /\ \A q \in Proc \ {p} : pc'[q] = pc[q]
BY DEF TypeOK, GoTo

LEMMA PcTyped ==
    ASSUME TypeOK, NEW p \in Proc, NEW label, GoTo(p, label),
           p = app => label \in AppLabels, p = master => label \in {"wait", "handle", "dead"},
           p \in Task => label \in LabelsOf(p)
    PROVE  /\ pc' \in [Proc -> Labels] /\ pc'[app] \in AppLabels
           /\ pc'[master] \in {"wait", "handle", "dead"} /\ \A t \in Task : pc'[t] \in LabelsOf(t)
           /\ pc'[p] = label /\ \A q \in Proc : q # p => pc'[q] = pc[q]
<1>1. label \in Labels
  BY LabelsAre DEF Proc
<1>2. pc' \in [Proc -> Labels] /\ pc'[p] = label /\ \A q \in Proc : q # p => pc'[q] = pc[q]
  BY <1>1, GoToIs
<1>3. app \in Proc /\ master \in Proc /\ Task \subseteq Proc
  BY Names DEF Proc
<1> QED BY <1>2, <1>3 DEF TypeOK

LEMMA MasterPc ==
    ASSUME TypeOK, NEW label \in {"wait", "handle", "dead"}, GoTo(master, label)
    PROVE  /\ pc' \in [Proc -> Labels] /\ pc'[app] \in AppLabels
           /\ pc'[master] = label /\ \A t \in Task : pc'[t] \in LabelsOf(t)
           /\ \A p \in Proc : p # master => pc'[p] = pc[p]
<1>1. master \in Proc /\ master # app /\ master \notin Task
  BY Names DEF Proc
<1> label \in Labels
  BY LabelsAre
<1>2. pc'[master] = label /\ \A p \in Proc : p # master => pc'[p] = pc[p]
  BY <1>1, GoToIs
<1> QED BY <1>1, <1>2, PcTyped

LEMMA WithIs ==
    ASSUME NEW s \in [Proc -> SUBSET Signals], NEW p \in Proc \cup {none}, NEW bit \in Signals
    PROVE  /\ With(s, p, bit) \in [Proc -> SUBSET Signals]
           /\ \A q \in Proc : With(s, p, bit)[q] = IF q = p THEN s[q] \cup {bit} ELSE s[q]
BY Names DEF With

LEMMA SigAdds ==
    ASSUME TypeOK, NEW p \in Proc, NEW bit \in Signals, sig' = With(sig, p, bit)
    PROVE  /\ sig' \in [Proc -> SUBSET Signals]
           /\ \A q \in Proc : sig'[q] = IF q = p THEN sig[q] \cup {bit} ELSE sig[q]
<1>1. sig \in [Proc -> SUBSET Signals]
  BY DEF TypeOK
<1> QED BY <1>1, Names DEF With

Up(t)    == pc[t] \notin {"none", "entry", "dead"}
Nodes(g) == {t \in Task : Group(t) = g /\ Alive(tn[t])}
Ups(g)   == {t \in Task : Group(t) = g /\ Up(t)}

LEMMA TaskFinite == IsFiniteSet(Task)
<1>1. IsFiniteSet(Class)
  BY TaskControlAssumption
<1>2. IsFiniteSet(Class \cup {hub})
  BY <1>1, FS_AddElement
<1>3. IsFiniteSet((Class \cup {hub}) \cup {hcd})
  BY <1>2, FS_AddElement
<1>4. Task = (Class \cup {hub}) \cup {hcd}
  BY DEF Task, Driver
<1> QED BY <1>3, <1>4

LEMMA CountIs ==
    ASSUME NEW g
    PROVE  /\ IsFiniteSet(Nodes(g)) /\ IsFiniteSet(Ups(g))
           /\ Cardinality(Nodes(g)) \in Nat /\ Cardinality(Ups(g)) \in Nat
<1>1. Nodes(g) \subseteq Task /\ Ups(g) \subseteq Task
  BY DEF Nodes, Ups
<1>2. IsFiniteSet(Nodes(g)) /\ IsFiniteSet(Ups(g))
  BY <1>1, TaskFinite, FS_Subset
<1> QED BY <1>2, FS_CardinalityType

LEMMA CounterIs ==
    CounterExact <=> \A g \in Groups : count[g] = Cardinality(Nodes(g)) + Cardinality(Ups(g))
BY DEF CounterExact, Nodes, Ups, Up

LEMMA CounterIsNext ==
    CounterExact' <=> \A g \in Groups : count'[g] = Cardinality(Nodes(g)') + Cardinality(Ups(g)')
BY DEF CounterExact, Nodes, Ups, Up

LEMMA GroupIs == \A t : Group(t) \in Groups
BY DEF Group, Groups

SameCounted(t) == (Alive(tn'[t]) <=> Alive(tn[t])) /\ (Up(t)' <=> Up(t))

LEMMA CountKeeps ==
    ASSUME CounterExact, count' = count, \A t \in Task : SameCounted(t)
    PROVE  CounterExact'
<1>1. ASSUME NEW g \in Groups PROVE Nodes(g)' = Nodes(g) /\ Ups(g)' = Ups(g)
  BY DEF Nodes, Ups, SameCounted
<1> QED BY <1>1, CounterIs, CounterIsNext

\* A node is allocated, or its task starts.
LEMMA CountAdds ==
    ASSUME TypeOK, CounterExact, NEW t \in Task, count' = [count EXCEPT ![Group(t)] = @ + 1],
           \A u \in Task \ {t} : SameCounted(u),
           \/ ~ Alive(tn[t]) /\ Alive(tn'[t]) /\ (Up(t)' <=> Up(t))
           \/ (Alive(tn'[t]) <=> Alive(tn[t])) /\ ~ Up(t) /\ Up(t)'
    PROVE  CounterExact' /\ count' \in [Groups -> Nat]
<1>1. count \in [Groups -> Nat]
  BY DEF TypeOK
<1>2. ASSUME NEW g \in Groups PROVE count'[g] = Cardinality(Nodes(g)') + Cardinality(Ups(g)')
  <2>1. count[g] = Cardinality(Nodes(g)) + Cardinality(Ups(g)) /\ count[g] \in Nat
    BY <1>1, CounterIs
  <2>2. CASE g # Group(t)
    <3>1. Nodes(g)' = Nodes(g) /\ Ups(g)' = Ups(g)
      BY <2>2 DEF Nodes, Ups, SameCounted
    <3> QED BY <1>1, <2>1, <2>2, <3>1
  <2>3. CASE g = Group(t) /\ ~ Alive(tn[t]) /\ Alive(tn'[t]) /\ (Up(t)' <=> Up(t))
    <3>1. Nodes(g)' = Nodes(g) \cup {t} /\ t \notin Nodes(g) /\ Ups(g)' = Ups(g)
      BY <2>3 DEF Nodes, Ups, SameCounted
    <3>2. Cardinality(Nodes(g)') = Cardinality(Nodes(g)) + 1
      BY <3>1, CountIs, FS_AddElement
    <3>3. count'[g] = count[g] + 1
      BY <1>1, <2>3
    <3> QED BY <2>1, <3>1, <3>2, <3>3, CountIs
  <2>4. CASE g = Group(t) /\ (Alive(tn'[t]) <=> Alive(tn[t])) /\ ~ Up(t) /\ Up(t)'
    <3>1. Ups(g)' = Ups(g) \cup {t} /\ t \notin Ups(g) /\ Nodes(g)' = Nodes(g)
      BY <2>4 DEF Nodes, Ups, SameCounted
    <3>2. Cardinality(Ups(g)') = Cardinality(Ups(g)) + 1
      BY <3>1, CountIs, FS_AddElement
    <3>3. count'[g] = count[g] + 1
      BY <1>1, <2>4
    <3> QED BY <2>1, <3>1, <3>2, <3>3, CountIs
  <2> QED BY <2>2, <2>3, <2>4
<1> QED BY <1>1, <1>2, CounterIsNext, GroupIs

\* A task ends.
LEMMA CountEnds ==
    ASSUME TypeOK, CounterExact, NEW t \in Task, count' = [count EXCEPT ![Group(t)] = @ - 1],
           \A u \in Task \ {t} : SameCounted(u),
           Alive(tn'[t]) <=> Alive(tn[t]), Up(t), ~ Up(t)'
    PROVE  CounterExact' /\ count' \in [Groups -> Nat]
<1>1. count \in [Groups -> Nat]
  BY DEF TypeOK
<1>2. ASSUME NEW g \in Groups
      PROVE  count'[g] = Cardinality(Nodes(g)') + Cardinality(Ups(g)') /\ count'[g] \in Nat
  <2>1. count[g] = Cardinality(Nodes(g)) + Cardinality(Ups(g)) /\ count[g] \in Nat
    BY <1>1, CounterIs
  <2>2. CASE g # Group(t)
    <3>1. Nodes(g)' = Nodes(g) /\ Ups(g)' = Ups(g)
      BY <2>2 DEF Nodes, Ups, SameCounted
    <3> QED BY <1>1, <2>1, <2>2, <3>1
  <2>3. CASE g = Group(t)
    <3>1. Ups(g)' = Ups(g) \ {t} /\ t \in Ups(g) /\ Nodes(g)' = Nodes(g)
      BY <2>3 DEF Nodes, Ups, SameCounted
    <3>2. Cardinality(Ups(g)') = Cardinality(Ups(g)) - 1 /\ Cardinality(Ups(g)') \in Nat
      BY <3>1, CountIs, FS_RemoveElement, FS_CardinalityType
    <3>3. count'[g] = count[g] - 1
      BY <1>1, <2>3
    <3> QED BY <2>1, <3>1, <3>2, <3>3, CountIs
  <2> QED BY <2>2, <2>3
<1> QED BY <1>1, <1>2, CounterIsNext

-----------------------------------------------------------------------------
(* Steps that leave the nodes alone *)

SignalsKept(p) == \A s \in {"C", "reply"} : s \in sig'[p] => s \in sig[p]

LEMMA StayCall ==
    ASSUME NEW p, bind' = bind, queue' = queue, callVars' = callVars, pc'[p] = pc[p], SignalsKept(p)
    PROVE  SameCall(p)
BY DEF SameCall, callVars, SignalsKept, Answered, Queued

LEMMA MoveCall ==
    ASSUME NEW p, bind' = bind, queue' = queue, pc[p] \notin Calls, pc'[p] \notin Calls
    PROVE  SameCall(p)
BY DEF SameCall, Queued

LEMMA Quiet ==
    ASSUME TaskInvariant, TypeOK', NEW T \in SUBSET Task,
           \A t \in T : Place(t)' /\ Stands(t) /\ (Up(t)' <=> Up(t)),
           tn' = tn, dn' = dn, kept' = kept, count' = count, queue' = queue,
           \A t \in Task \ T : pc'[t] = pc[t] /\ ("C" \in sig'[t] => "C" \in sig[t]),
           \A p \in Caller : SameCall(p),
           HUBPlace', HCDPlace', AppPlace', MasterPlace'
    PROVE  TaskInvariant'
<1>1. \A t \in Task : Starter(t) \in Caller /\ Stopper(t) \in Caller
  BY Names, Callers DEF Caller
<1>2. ASSUME NEW t \in Task \ T PROVE SameTask(t) /\ Apart(t)
  BY <1>1 DEF SameTask, Apart
<1>3. \A t \in Task : Stands(t)
  BY <1>2, SameStands
<1>4. \A t \in Task : SameCounted(t)
  BY DEF SameCounted, Up
<1>5. CounterExact'
  BY <1>4, CountKeeps DEF TaskInvariant
<1>6. \A p \in Caller : SameWith(p)
  BY <1>3 DEF SameWith
<1>7. QueuePlace'
  BY <1>6, QueueKeeps DEF TaskInvariant
<1>8. \A t \in Task \ T : Apart(t)
  BY <1>2
<1>9. {} \in SUBSET Caller /\ \A p \in {} : StartPlace(p)' /\ StopPlace(p)'
  OBVIOUS
<1>10. \A p \in Caller \ {} : SameWith(p)
  BY <1>6
<1> QED BY <1>5, <1>7, <1>8, <1>9, <1>10, Whole

-----------------------------------------------------------------------------
(* The Master's steps that leave the nodes alone, and the world's *)

LEMMA MasterMoves ==
    ASSUME TaskInvariant, TypeOK', UNCHANGED <<callVars, nodeVars, kept, bind, queue, root, port>>,
           \A p \in Proc : p # master => pc'[p] = pc[p] /\ SignalsKept(p),
           \A p \in Task : "C" \in sig[p] => "C" \in sig'[p],
           "E" \in sig'[app] => "E" \in sig[app], MasterPlace'
    PROVE  TaskInvariant'
<1>1. UNCHANGED <<tn, dn, count>>
  BY DEF nodeVars
<1>2. \A p \in Caller \cup Task : pc'[p] = pc[p] /\ SignalsKept(p)
  BY Names DEF Caller
<1>3. \A p \in Caller : SameCall(p)
  BY <1>2, StayCall
<1>4. hub \in Task /\ hcd \in Task /\ app \in Caller /\ Class \subseteq Task
  BY Names DEF Caller
<1>5. \A t \in Task : Over(t)' <=> Over(t)
  BY <1>1, <1>2 DEF Over, Alive
<1>6. \A d : InUse(d)' <=> InUse(d)
  BY <1>1 DEF InUse
<1>7. UNCHANGED <<arg, keep, result>>
  BY DEF callVars
<1>8. HUBPlace'
  BY <1>1, <1>2, <1>4, <1>5, <1>6, <1>7, HUBKeeps DEF TaskInvariant
<1>9. HCDPlace'
  BY <1>1, <1>2, <1>4, <1>5, <1>6, <1>7, HCDKeeps DEF TaskInvariant, SignalsKept
<1>10. AppPlace'
  BY <1>1, <1>2, <1>4, <1>5, <1>6, <1>7, AppKeeps DEF TaskInvariant
<1>11. \A t \in Task \ {} : pc'[t] = pc[t] /\ ("C" \in sig'[t] => "C" \in sig[t])
  BY <1>2 DEF SignalsKept
<1>12. \A t \in {} : Place(t)' /\ Stands(t) /\ (Up(t)' <=> Up(t))
  OBVIOUS
<1>13. {} \in SUBSET Task
  OBVIOUS
<1> QED BY <1>1, <1>3, <1>8, <1>9, <1>10, <1>11, <1>12, <1>13, Quiet

LEMMA DoneIs ==
    ASSUME TypeOK, NEW bit, Done(bit)
    PROVE  /\ mask' \subseteq mask /\ mask' \subseteq Signals
           /\ pc' \in [Proc -> Labels] /\ pc'[app] \in AppLabels
           /\ pc'[master] \in {"wait", "handle"} /\ \A t \in Task : pc'[t] \in LabelsOf(t)
           /\ \A p \in Proc : p # master => pc'[p] = pc[p]
<1>1. mask' \subseteq mask /\ mask' \subseteq Signals
  BY DEF Done, TypeOK
<1>2. PICK label \in {"wait", "handle"} : GoTo(master, label)
  BY DEF Done
<1> QED BY <1>1, <1>2, MasterPc

\* Only the Master moves, and only it is sent a signal that matters.
LEMMA MasterKeepsIt ==
    ASSUME TypeOK, MasterPlace, stopping' = stopping, kept' = kept, pc'[app] = pc[app],
           pc'[master] # "dead", sig'[master] \cup mask' \subseteq sig[master] \cup mask \cup {"tick", "E"}
    PROVE  MasterPlace'
BY DEF MasterPlace

LEMMA MasterWaitsKeeps == ASSUME TaskInvariant, MasterWaits PROVE TaskInvariant'
<1>1. TypeOK /\ app \in Proc /\ app # master /\ master \in Proc /\ Task \subseteq Proc /\ master \notin Task
  BY Names DEF TaskInvariant, Proc
<1>2. /\ sig' \in [Proc -> SUBSET Signals] /\ mask' \subseteq Signals /\ sig'[master] = {}
      /\ mask' = sig[master] /\ \A p \in Proc : p # master => sig'[p] = sig[p]
  BY <1>1 DEF MasterWaits, TypeOK
<1>3. GoTo(master, "handle")
  BY DEF MasterWaits
<1>4. /\ pc' \in [Proc -> Labels] /\ pc'[app] \in AppLabels
      /\ pc'[master] = "handle" /\ \A t \in Task : pc'[t] \in LabelsOf(t)
      /\ \A p \in Proc : p # master => pc'[p] = pc[p]
  BY <1>1, <1>3, MasterPc
<1>5. TypeOK'
  BY <1>1, <1>2, <1>4 DEF MasterWaits, TypeOK, callVars, nodeVars, lockVars
<1>6. MasterPlace'
  BY <1>1, <1>2, <1>4, MasterKeepsIt DEF TaskInvariant, MasterWaits
<1> QED BY <1>1, <1>2, <1>4, <1>5, <1>6, MasterMoves DEF MasterWaits, SignalsKept, lockVars

LEMMA MasterExitsKeeps == ASSUME TaskInvariant, MasterExits PROVE TaskInvariant'
<1>1. TypeOK /\ app \in Proc /\ app # master /\ master \in Proc /\ Task \subseteq Proc /\ app \notin Task
      /\ master \notin Task
  BY Names DEF TaskInvariant, Proc
<1>2. /\ sig' \in [Proc -> SUBSET Signals]
      /\ \A p \in Proc : sig'[p] = IF p = app THEN sig[p] \cup {"F"} ELSE sig[p]
  BY <1>1, SigAdds DEF MasterExits, Signals
<1>3. GoTo(master, "dead")
  BY DEF MasterExits
<1>4. /\ pc' \in [Proc -> Labels] /\ pc'[app] \in AppLabels
      /\ pc'[master] = "dead" /\ \A t \in Task : pc'[t] \in LabelsOf(t)
      /\ \A p \in Proc : p # master => pc'[p] = pc[p]
  BY <1>1, <1>3, MasterPc
<1>5. TypeOK'
  BY <1>1, <1>2, <1>4 DEF MasterExits, TypeOK, callVars, nodeVars, mastVars, lockVars
<1>6. MasterPlace'
  BY <1>1, <1>2, <1>4 DEF TaskInvariant, MasterPlace, MasterExits, MayExit, mastVars
<1>7. /\ \A p \in Proc : p # master => pc'[p] = pc[p] /\ SignalsKept(p)
      /\ \A p \in Task : "C" \in sig[p] => "C" \in sig'[p]
      /\ "E" \in sig'[app] => "E" \in sig[app]
  BY <1>1, <1>2, <1>4 DEF SignalsKept
<1> QED BY <1>5, <1>6, <1>7, MasterMoves DEF MasterExits, lockVars, mastVars

LEMMA HandleStopKeeps == ASSUME TaskInvariant, HandleStop PROVE TaskInvariant'
<1>1. TypeOK /\ Done("C") /\ app \in Proc /\ app # master
  BY Names DEF TaskInvariant, HandleStop
<1>2. /\ mask' \subseteq mask /\ mask' \subseteq Signals
      /\ pc' \in [Proc -> Labels] /\ pc'[app] \in AppLabels
      /\ pc'[master] \in {"wait", "handle"} /\ \A t \in Task : pc'[t] \in LabelsOf(t)
      /\ \A p \in Proc : p # master => pc'[p] = pc[p]
  BY <1>1, DoneIs
<1>3. TypeOK'
  BY <1>1, <1>2 DEF HandleStop, TypeOK, callVars, nodeVars, lockVars
<1>4. MasterPlace'
  BY <1>1, <1>2 DEF TaskInvariant, MasterPlace, HandleStop, Handles
<1> QED BY <1>2, <1>3, <1>4, MasterMoves DEF HandleStop, SignalsKept, lockVars

LEMMA NoCommandKeeps == ASSUME TaskInvariant, NoCommand PROVE TaskInvariant'
<1>1. TypeOK /\ Done("cmd") /\ app \in Proc /\ app # master
  BY Names DEF TaskInvariant, NoCommand
<1>2. /\ mask' \subseteq mask /\ mask' \subseteq Signals
      /\ pc' \in [Proc -> Labels] /\ pc'[app] \in AppLabels
      /\ pc'[master] \in {"wait", "handle"} /\ \A t \in Task : pc'[t] \in LabelsOf(t)
      /\ \A p \in Proc : p # master => pc'[p] = pc[p]
  BY <1>1, DoneIs
<1>3. TypeOK'
  BY <1>1, <1>2 DEF NoCommand, TypeOK, callVars, nodeVars, lockVars
<1>4. MasterPlace'
  BY <1>1, <1>2, MasterKeepsIt DEF TaskInvariant, NoCommand
<1> QED BY <1>2, <1>3, <1>4, MasterMoves DEF NoCommand, SignalsKept, lockVars

LEMMA TickKeeps == ASSUME TaskInvariant, Tick PROVE TaskInvariant'
<1>1. TypeOK /\ app \in Proc /\ app # master /\ master \in Proc /\ Task \subseteq Proc /\ master \notin Task
  BY Names DEF TaskInvariant, Proc
<1>2. /\ sig' \in [Proc -> SUBSET Signals]
      /\ \A p \in Proc : sig'[p] = IF p = master THEN sig[p] \cup {"tick"} ELSE sig[p]
  BY <1>1, SigAdds DEF Tick, Signals
<1>3. TypeOK'
  BY <1>1, <1>2 DEF Tick, TypeOK, callVars, nodeVars, mastVars, lockVars
<1>4. MasterPlace'
  BY <1>1, <1>2, MasterKeepsIt DEF TaskInvariant, Tick, mastVars
<1> QED BY <1>1, <1>2, <1>3, <1>4, MasterMoves DEF Tick, SignalsKept, lockVars, mastVars

LEMMA FullbootKeeps == ASSUME TaskInvariant, Fullboot PROVE TaskInvariant'
<1>1. TypeOK /\ app \in Proc /\ app # master /\ master \in Proc /\ Task \subseteq Proc /\ master \notin Task
  BY Names DEF TaskInvariant, Proc
<1>2. /\ sig' \in [Proc -> SUBSET Signals]
      /\ \A p \in Proc : sig'[p] = IF p = master THEN sig[p] \cup {"E"} ELSE sig[p]
  BY <1>1, SigAdds DEF Fullboot, Signals
<1>3. TypeOK'
  BY <1>1, <1>2 DEF Fullboot, TypeOK, callVars, nodeVars, mastVars, lockVars
<1>4. pc'[master] # "dead" \/ MasterPlace'
  BY <1>1, <1>2 DEF TaskInvariant, MasterPlace, Fullboot, mastVars
<1>5. MasterPlace'
  BY <1>1, <1>2, <1>4, MasterKeepsIt DEF TaskInvariant, Fullboot, mastVars
<1> QED BY <1>1, <1>2, <1>3, <1>5, MasterMoves DEF Fullboot, SignalsKept, lockVars, mastVars

-----------------------------------------------------------------------------
(* The application's steps that leave the nodes alone *)

LEMMA AppPc ==
    ASSUME TypeOK, NEW label \in AppLabels, GoTo(app, label)
    PROVE  /\ pc' \in [Proc -> Labels] /\ pc'[app] = label /\ pc'[app] \in AppLabels
           /\ pc'[master] \in {"wait", "handle", "dead"} /\ \A t \in Task : pc'[t] \in LabelsOf(t)
           /\ pc'[master] = pc[master] /\ \A t \in Task : pc'[t] = pc[t]
<1>1. app \in Proc /\ app # master /\ app \notin Task /\ master \in Proc /\ Task \subseteq Proc
  BY Names DEF Proc
<1> QED BY <1>1, PcTyped

LEMMA AppMoves ==
    ASSUME TaskInvariant, TypeOK', UNCHANGED <<callVars, nodeVars, kept, bind, queue, root, port>>,
           pc[app] \notin Calls, pc'[app] \notin Calls, \A t \in Task : pc'[t] = pc[t],
           \A p \in Proc : p # master => sig'[p] = sig[p],
           HCDPlace', AppPlace', MasterPlace'
    PROVE  TaskInvariant'
<1>1. UNCHANGED <<tn, dn, count>>
  BY DEF nodeVars
<1>2. hub \in Task /\ hcd \in Task /\ app \in Proc /\ app # master /\ Class \subseteq Task
      /\ \A p \in Task : p \in Proc /\ p # master
  BY Names DEF Proc
<1>3. SameCall(app)
  BY MoveCall
<1>4. SameCall(hub) /\ SameCall(hcd)
  BY <1>2, StayCall DEF SignalsKept
<1>5. \A p \in Caller : SameCall(p)
  BY <1>3, <1>4 DEF Caller
<1>6. \A t \in Task : Over(t)' <=> Over(t)
  BY <1>1 DEF Over, Alive
<1>7. \A d : InUse(d)' <=> InUse(d)
  BY <1>1 DEF InUse
<1>8. UNCHANGED <<arg, keep, result>>
  BY DEF callVars
<1>9. HUBPlace'
  BY <1>1, <1>2, <1>6, <1>7, <1>8, HUBKeeps DEF TaskInvariant
<1>10. \A t \in Task \ {} : pc'[t] = pc[t] /\ ("C" \in sig'[t] => "C" \in sig[t])
  BY <1>2
<1>11. \A t \in {} : Place(t)' /\ Stands(t) /\ (Up(t)' <=> Up(t))
  OBVIOUS
<1>12. {} \in SUBSET Task
  OBVIOUS
<1> QED BY <1>1, <1>5, <1>9, <1>10, <1>11, <1>12, Quiet

LEMMA CountZero ==
    ASSUME TypeOK, CounterExact, NEW t \in Task, count[Group(t)] = 0
    PROVE  ~ Alive(tn[t]) /\ ~ Up(t)
<1> DEFINE g == Group(t)
<1>1. Cardinality(Nodes(g)) = 0 /\ Cardinality(Ups(g)) = 0
  BY CounterIs, CountIs, GroupIs
<1>2. Nodes(g) = {} /\ Ups(g) = {}
  BY <1>1, CountIs, FS_EmptySet
<1> QED BY <1>2 DEF Nodes, Ups

LEMMA ExpungeKeeps == ASSUME TaskInvariant, Expunge PROVE TaskInvariant'
<1>1. TypeOK /\ GoTo(app, "exit") /\ pc[app] = "up" /\ "exit" \in AppLabels
  BY DEF TaskInvariant, Expunge, AppLabels
<1>2. /\ pc' \in [Proc -> Labels] /\ pc'[app] = "exit" /\ pc'[app] \in AppLabels
      /\ pc'[master] \in {"wait", "handle", "dead"} /\ \A t \in Task : pc'[t] \in LabelsOf(t)
      /\ pc'[master] = pc[master] /\ \A t \in Task : pc'[t] = pc[t]
  BY <1>1, AppPc
<1>3. UNCHANGED <<sig, tn, dn, kept, root, arg, result, mask, stopping>> /\ hcd \in Task /\ hub \in Task
  BY Names DEF Expunge, callVars, nodeVars, mastVars
<1>4. TypeOK'
  BY <1>1, <1>2 DEF Expunge, TypeOK, callVars, nodeVars, mastVars, lockVars
<1>5. HCDPlace'
  BY <1>1, <1>2, <1>3 DEF TaskInvariant, HCDPlace, AppPlace, Gave, Over, Alive, InUse
<1>6. AppPlace'
  BY <1>1, <1>2, <1>3 DEF AppPlace, Binds
<1>7. MasterPlace'
  BY <1>1, <1>2, <1>3 DEF TaskInvariant, MasterPlace
<1> QED BY <1>1, <1>2, <1>3, <1>4, <1>5, <1>6, <1>7, AppMoves
        DEF Expunge, Calls, Binds, mastVars, lockVars

LEMMA ShutdownMasterKeeps == ASSUME TaskInvariant, ShutdownMaster PROVE TaskInvariant'
<1>1. TypeOK /\ GoTo(app, "waitMaster") /\ pc[app] = "waitHCD" /\ "waitMaster" \in AppLabels
  BY DEF TaskInvariant, ShutdownMaster, AppLabels
<1>2. /\ pc' \in [Proc -> Labels] /\ pc'[app] = "waitMaster" /\ pc'[app] \in AppLabels
      /\ pc'[master] \in {"wait", "handle", "dead"} /\ \A t \in Task : pc'[t] \in LabelsOf(t)
      /\ pc'[master] = pc[master] /\ \A t \in Task : pc'[t] = pc[t]
  BY <1>1, AppPc
<1>3. UNCHANGED <<tn, dn, kept, root, arg, result, mask, stopping>> /\ hcd \in Task /\ hub \in Task
      /\ master \in Proc /\ master \notin Task /\ Task \subseteq Proc /\ app \in Proc
  BY Names DEF ShutdownMaster, callVars, nodeVars, mastVars, Proc
<1>4. /\ sig' \in [Proc -> SUBSET Signals]
      /\ \A p \in Proc : sig'[p] = IF p = master THEN sig[p] \cup {"C"} ELSE sig[p]
  BY <1>1, <1>3, SigAdds DEF ShutdownMaster, Signals
<1>5. TypeOK'
  BY <1>1, <1>2, <1>4 DEF ShutdownMaster, TypeOK, callVars, nodeVars, mastVars, lockVars
<1>6. Over(hcd)'
  <2>1. ~ Alive(tn[hcd]) /\ ~ Up(hcd)
    BY <1>1, <1>3, CountZero DEF TaskInvariant, ShutdownMaster, Group
  <2>2. pc[hcd] # "entry"
    BY <1>3, <2>1 DEF TaskInvariant, NodePlace, StatesAt, Alive
  <2> QED BY <1>2, <1>3, <2>1, <2>2 DEF Over, Up, Alive
<1>7. HCDPlace'
  BY <1>1, <1>2, <1>3, <1>4 DEF TaskInvariant, HCDPlace, Gave, Over, Alive, InUse
<1>8. AppPlace'
  BY <1>1, <1>2, <1>6 DEF AppPlace, Binds
<1>9. MasterPlace'
  BY <1>1, <1>2, <1>3 DEF TaskInvariant, MasterPlace
<1> QED BY <1>1, <1>2, <1>3, <1>4, <1>5, <1>7, <1>8, <1>9, AppMoves
        DEF ShutdownMaster, Calls, Binds, mastVars, lockVars

LEMMA MasterGoneKeeps == ASSUME TaskInvariant, MasterGone PROVE TaskInvariant'
<1>1. TypeOK /\ GoTo(app, "gone") /\ pc[app] = "waitMaster" /\ "gone" \in AppLabels
  BY DEF TaskInvariant, MasterGone, AppLabels
<1>2. /\ pc' \in [Proc -> Labels] /\ pc'[app] = "gone" /\ pc'[app] \in AppLabels
      /\ pc'[master] \in {"wait", "handle", "dead"} /\ \A t \in Task : pc'[t] \in LabelsOf(t)
      /\ pc'[master] = pc[master] /\ \A t \in Task : pc'[t] = pc[t]
  BY <1>1, AppPc
<1>3. UNCHANGED <<sig, tn, dn, kept, root, arg, result, mask, stopping>> /\ hcd \in Task /\ hub \in Task
  BY Names DEF MasterGone, callVars, nodeVars, mastVars
<1>4. TypeOK'
  BY <1>1, <1>2 DEF MasterGone, TypeOK, callVars, nodeVars, mastVars, lockVars
<1>5. HCDPlace'
  BY <1>1, <1>2, <1>3 DEF TaskInvariant, HCDPlace, Gave, Over, Alive, InUse
<1>6. AppPlace'
  BY <1>1, <1>2, <1>3 DEF TaskInvariant, AppPlace, Binds, Over, Alive
<1>7. MasterPlace'
  BY <1>1, <1>2, <1>3 DEF TaskInvariant, MasterPlace
<1> QED BY <1>1, <1>2, <1>3, <1>4, <1>5, <1>6, <1>7, AppMoves
        DEF MasterGone, Calls, Binds, mastVars, lockVars

-----------------------------------------------------------------------------
(* The HCD task's steps that leave the nodes alone *)

LEMMA TaskPc ==
    ASSUME TypeOK, NEW t \in Task, NEW label \in LabelsOf(t), GoTo(t, label)
    PROVE  /\ pc' \in [Proc -> Labels] /\ pc'[t] = label
           /\ pc'[app] \in AppLabels /\ pc'[app] = pc[app]
           /\ pc'[master] \in {"wait", "handle", "dead"} /\ pc'[master] = pc[master]
           /\ \A u \in Task : pc'[u] \in LabelsOf(u) /\ (u # t => pc'[u] = pc[u])
<1>1. t \in Proc /\ t # app /\ t # master /\ app \in Proc /\ master \in Proc /\ Task \subseteq Proc
  BY Names DEF Proc
<1> QED BY <1>1, PcTyped

LEMMA HCDMoves ==
    ASSUME TaskInvariant, TypeOK',
           UNCHANGED <<callVars, nodeVars, kept, bind, queue, sig, mask, stopping, port>>,
           NEW label \in LabelsOf(hcd), GoTo(hcd, label),
           StatesAt(label) = StatesAt(pc[hcd]), label \in Ends <=> pc[hcd] \in Ends,
           {label, pc[hcd]} \cap (Starts \cup Calls \cup {"none", "entry", "dead", "forget"}) = {},
           pc[hcd] = "main" => "C" \in sig[hcd], HCDPlace'
    PROVE  TaskInvariant'
<1>1. UNCHANGED <<tn, dn, count, arg, keep, result>>
  BY DEF nodeVars, callVars
<1>2. /\ hub \in Task /\ hcd \in Task /\ hcd # hub /\ app \in Proc /\ hcd \notin Class /\ hcd \notin Driver
      /\ Starter(hcd) = app /\ Stopper(hcd) = app /\ Class \subseteq Task /\ hub \notin Class
  BY Names, Callers
<1>3. /\ pc'[hcd] = label /\ pc'[app] = pc[app] /\ pc'[master] = pc[master]
      /\ \A u \in Task : u # hcd => pc'[u] = pc[u]
  BY <1>2, TaskPc DEF TaskInvariant
<1>4. \A p \in Caller : SameCall(p)
  <2>1. SameCall(app) /\ SameCall(hub)
    BY <1>2, <1>3, StayCall DEF SignalsKept
  <2>2. SameCall(hcd)
    BY <1>3, MoveCall
  <2> QED BY <2>1, <2>2 DEF Caller
<1>5. Starting(hcd)' = Starting(hcd) /\ Stopping(hcd)' = Stopping(hcd)
  BY <1>1, <1>2, <1>3 DEF Starting, Stopping
<1>6. NodePlace(hcd)'
  <2>1. NodePlace(hcd)
    BY <1>2 DEF TaskInvariant
  <2>2. label \notin Starts /\ label \notin {"none", "entry", "dead", "forget"}
        /\ pc[hcd] \notin Starts /\ pc[hcd] \notin {"none", "entry", "dead", "forget"}
    OBVIOUS
  <2>3. ToAnswer(hcd)' => ToAnswer(hcd)
    BY <1>1, <1>2, <1>3, <2>2 DEF ToAnswer
  <2>4. Queued(app)' = Queued(app) /\ Answered(app)' = Answered(app)
    BY DEF Queued, Answered
  <2> QED BY <1>1, <1>2, <1>3, <1>5, <2>1, <2>2, <2>3, <2>4 DEF NodePlace
<1>7. LockPlace(hcd)'
  <2>1. LockPlace(hcd)
    BY <1>2 DEF TaskInvariant
  <2>2. LockSum(hcd)' = LockSum(hcd)
    BY <1>1, <1>2, <1>3, <1>5 DEF LockSum
  <2> QED BY <1>1, <2>1, <2>2 DEF LockPlace
<1>8. \A t \in {hcd} : Place(t)' /\ Stands(t) /\ (Up(t)' <=> Up(t))
  BY <1>1, <1>2, <1>3, <1>6, <1>7 DEF Place, Stands, Up, Before
<1>9. \A t \in Task : t # hcd => (Over(t)' <=> Over(t))
  BY <1>1, <1>3 DEF Over, Alive
<1>10. \A d : InUse(d)' <=> InUse(d)
  BY <1>1 DEF InUse
<1>11. HUBPlace'
  BY <1>1, <1>2, <1>3, <1>9, <1>10, HUBKeeps DEF TaskInvariant
<1>12. AppPlace'
  <2>1. AppPlace /\ HCDPlace
    BY DEF TaskInvariant
  <2>2. ~ Over(hcd) /\ pc[hcd] # "forget"
    BY DEF Over
  <2>3. ~ (pc[app] \in {"bind", "up"} \/ (pc[app] \in Binds /\ arg[app] = hub))
    BY <1>2, <2>1, <2>2 DEF AppPlace, HCDPlace, Gave, Binds
  <2> QED BY <1>1, <1>3, <2>1, <2>2, <2>3 DEF AppPlace, Binds
<1>13. MasterPlace'
  BY <1>1, <1>3, MasterKeeps DEF TaskInvariant
<1>14. \A t \in Task \ {hcd} : pc'[t] = pc[t] /\ ("C" \in sig'[t] => "C" \in sig[t])
  BY <1>3
<1>15. {hcd} \in SUBSET Task
  BY <1>2
<1> QED BY <1>1, <1>4, <1>8, <1>11, <1>12, <1>13, <1>14, <1>15, Quiet


LEMMA HCDFacts ==
    ASSUME TaskInvariant
    PROVE  /\ TypeOK /\ hcd \in Task /\ hub \in Task /\ hub \in Driver
           /\ NodePlace(hub) /\ BinderPlace(hub) /\ DriverPlace(hub) /\ HCDPlace /\ AppPlace
           /\ root \in {"none", "used", "freed"}
BY Names DEF TaskInvariant, TypeOK

\* When no task of the root hub's driver is counted, its nodes are gone too.
LEMMA HUBIsGone ==
    ASSUME TaskInvariant, pc[hcd] = "stopping", count["HUB"] = 0
    PROVE  Over(hub) /\ ~ InUse(hub)
<1> USE HCDFacts
<1>1. ~ Alive(tn[hub]) /\ ~ Up(hub)
  BY CountZero, Names DEF TaskInvariant, Group
<1>2. pc[hub] # "entry"
  BY <1>1 DEF NodePlace, StatesAt, Alive
<1>3. Over(hub)
  BY <1>1, <1>2 DEF Over, Up
<1>4. dn[hub].st # "alloc"
  <2>1. ~ (pc[app] \in Binds /\ arg[app] = hub)
    BY Names DEF HCDPlace, Binds, Gave
  <2> QED BY <2>1, Callers DEF BinderPlace, Binding
<1>5. dn[hub].st # "listed"
  BY <1>1, <1>3 DEF DriverPlace, Alive, Over, Late, NodePlace, StatesAt, Up
<1> QED BY <1>3, <1>4, <1>5 DEF InUse

LEMMA HUBGoneKeeps == ASSUME TaskInvariant, HUBGone PROVE TaskInvariant'
<1> USE HCDFacts
<1>1. pc[hcd] = "stopping" /\ Over(hub) /\ ~ InUse(hub) /\ "end" \in LabelsOf(hcd) /\ GoTo(hcd, "end")
  BY HUBIsGone DEF HUBGone, LabelsOf
<1>2. root' \in {"none", "used", "freed"} /\ root' # "used"
  BY <1>1 DEF HUBGone, RootFreed
<1>3. pc'[hcd] = "end" /\ pc'[app] = pc[app] /\ pc'[hub] = pc[hub]
  BY <1>1, TaskPc, Names
<1>4. TypeOK'
  BY <1>1, <1>2, TaskPc DEF HUBGone, TypeOK, callVars, nodeVars, mastVars, lockVars
<1>5. HCDPlace'
  BY <1>1, <1>2, <1>3 DEF HCDPlace, HUBGone, Over, Alive, InUse, nodeVars, callVars
<1>6. /\ StatesAt("end") = StatesAt(pc[hcd]) /\ ("end" \in Ends <=> pc[hcd] \in Ends)
      /\ {"end", pc[hcd]} \cap (Starts \cup Calls \cup {"none", "entry", "dead", "forget"}) = {}
      /\ pc[hcd] = "main" => "C" \in sig[hcd]
  BY <1>1 DEF StatesAt, Ends, Starts, Calls, Binds
<1>7. UNCHANGED <<callVars, nodeVars, kept, bind, queue, sig, mask, stopping, port>>
  BY DEF HUBGone, mastVars, lockVars
<1> QED BY <1>1, <1>4, <1>5, <1>6, <1>7, HCDMoves

\* What the steps of __myFree() that change a label have in common.
LEMMA FreeMoves ==
    ASSUME TaskInvariant, NEW label \in Ends, GoTo(hcd, label), pc[hcd] \in Ends,
           UNCHANGED <<callVars, nodeVars, mastVars, lockVars, queue, sig, port, booted>>,
           root' = root \/ (root' = RootFreed /\ label = "freeMisc"),
           label \notin {"freeMisc", "finish"} \/ root' # "used"
    PROVE  TaskInvariant'
<1> USE HCDFacts
<1>1. label \in LabelsOf(hcd)
  BY DEF LabelsOf
<1>2. root' \in {"none", "used", "freed"}
  BY DEF RootFreed
<1>3. pc'[hcd] = label /\ pc'[app] = pc[app] /\ pc'[hub] = pc[hub]
  BY <1>1, TaskPc, Names
<1>4. TypeOK'
  BY <1>1, <1>2, TaskPc DEF TypeOK, callVars, nodeVars, mastVars, lockVars
<1>5. HCDPlace'
  BY <1>3 DEF HCDPlace, Over, Alive, InUse, nodeVars, callVars, Ends
<1>6. /\ StatesAt(label) = StatesAt(pc[hcd]) /\ (label \in Ends <=> pc[hcd] \in Ends)
      /\ {label, pc[hcd]} \cap (Starts \cup Calls \cup {"none", "entry", "dead", "forget"}) = {}
      /\ pc[hcd] = "main" => "C" \in sig[hcd]
  BY DEF StatesAt, Ends, Starts, Calls, Binds
<1>7. UNCHANGED <<callVars, nodeVars, kept, bind, queue, sig, mask, stopping, port>>
  BY DEF mastVars, lockVars
<1> QED BY <1>1, <1>4, <1>5, <1>6, <1>7, HCDMoves

LEMMA FreeRootKeeps == ASSUME TaskInvariant, FreeRoot PROVE TaskInvariant'
<1>1. pc[hcd] = "freeRoot" /\ "remove" \in Ends /\ pc[hcd] \in Ends
  BY DEF FreeRoot, Ends
<1>2. ~ InUse(hub)
  BY <1>1, HCDFacts DEF HCDPlace
<1>3. GoTo(hcd, "remove") /\ UNCHANGED <<callVars, nodeVars, mastVars, lockVars, queue, sig, port, root, booted>>
  BY <1>2 DEF FreeRoot, StopFunction, InUse, nodeVars, lockVars
<1> QED BY <1>1, <1>3, FreeMoves

LEMMA RemoveRootKeeps == ASSUME TaskInvariant, RemoveRoot PROVE TaskInvariant'
<1>1. pc[hcd] = "remove" /\ "freeMisc" \in Ends /\ pc[hcd] \in Ends
  BY DEF RemoveRoot, Ends
<1>2. ~ InUse(hub)
  BY <1>1, HCDFacts DEF HCDPlace
<1>3. root' = RootFreed /\ root' # "used"
  BY <1>2 DEF RemoveRoot, RootFreed
<1> QED BY <1>1, <1>3, FreeMoves DEF RemoveRoot

LEMMA FreeMiscKeeps == ASSUME TaskInvariant, FreeMisc PROVE TaskInvariant'
<1>1. pc[hcd] = "freeMisc" /\ "finish" \in Ends /\ pc[hcd] \in Ends
  BY DEF FreeMisc, Ends
<1>2. root # "used" /\ root' = root
  BY <1>1, HCDFacts DEF HCDPlace, FreeMisc
<1> QED BY <1>1, <1>2, FreeMoves DEF FreeMisc

\* __Normal() ends, and there is no hub to stop.
LEMMA NoHUBKeeps ==
    ASSUME TaskInvariant, StopHUB, ~ (dn[hub].st = "listed" /\ dn[hub].task /\ Alive(tn[hub]))
    PROVE  TaskInvariant'
<1> USE HCDFacts
<1>1. pc[hcd] = "main" /\ "C" \in sig[hcd] /\ GoTo(hcd, "stopping") /\ "stopping" \in LabelsOf(hcd)
  BY DEF StopHUB, StopFunction, LabelsOf
<1>2. UNCHANGED <<callVars, nodeVars, mastVars, lockVars, queue, sig, port, root, booted>>
  BY DEF StopHUB, StopFunction, nodeVars, lockVars
<1>3. pc'[hcd] = "stopping" /\ pc'[app] = pc[app] /\ pc'[hub] = pc[hub]
  BY <1>1, TaskPc, Names
<1>4. TypeOK'
  BY <1>1, <1>2, TaskPc DEF TypeOK, callVars, nodeVars, mastVars, lockVars
<1>5. HCDPlace'
  BY <1>1, <1>2, <1>3 DEF HCDPlace, callVars
<1>6. /\ StatesAt("stopping") = StatesAt(pc[hcd]) /\ ("stopping" \in Ends <=> pc[hcd] \in Ends)
      /\ {"stopping", pc[hcd]} \cap (Starts \cup Calls \cup {"none", "entry", "dead", "forget"}) = {}
      /\ pc[hcd] = "main" => "C" \in sig[hcd]
  BY <1>1 DEF StatesAt, Ends, Starts, Calls, Binds
<1>7. UNCHANGED <<callVars, nodeVars, kept, bind, queue, sig, mask, stopping, port>>
  BY <1>2 DEF mastVars, lockVars
<1> QED BY <1>1, <1>4, <1>5, <1>6, <1>7, HCDMoves

-----------------------------------------------------------------------------
(* The hub driver's steps that leave the nodes alone *)

LEMMA HUBMoves ==
    ASSUME TaskInvariant, TypeOK',
           UNCHANGED <<keep, result, nodeVars, kept, bind, queue, sig, mask, stopping, root>>,
           \A p \in Proc : p # hub => arg'[p] = arg[p],
           NEW label \in {"main", "bind", "stopping", "parked"}, GoTo(hub, label),
           pc[hub] \in {"main", "bind", "stopping", "parked"},
           label \in {"stopping", "parked"} => "C" \in sig[hub], HUBPlace'
    PROVE  TaskInvariant'
<1>1. UNCHANGED <<tn, dn, count, keep, result>>
  BY DEF nodeVars
<1>2. /\ hub \in Task /\ hcd \in Task /\ hcd # hub /\ app \in Proc /\ hcd \in Proc /\ app # hub /\ hub \in Driver
      /\ Starter(hub) = app /\ Stopper(hub) = hcd /\ Class \subseteq Task /\ hub \notin Class
  BY Names, Callers DEF Proc
<1>3. label \in LabelsOf(hub)
  BY <1>2 DEF LabelsOf, Locking, HUBMain
<1>4. /\ pc'[hub] = label /\ pc'[app] = pc[app] /\ pc'[master] = pc[master] /\ pc'[hcd] = pc[hcd]
      /\ \A u \in Task : u # hub => pc'[u] = pc[u]
  BY <1>2, <1>3, TaskPc DEF TaskInvariant
<1>5. \A p \in Caller : SameCall(p)
  <2>1. SameCall(hub)
    BY <1>4, MoveCall DEF Calls, Binds
  <2>2. SameCall(app) /\ SameCall(hcd)
    BY <1>1, <1>2, <1>4 DEF SameCall, Answered, Queued
  <2> QED BY <2>1, <2>2 DEF Caller
<1>6. /\ Starting(hub)' = Starting(hub) /\ Stopping(hub)' = Stopping(hub) /\ Binding(hub)' = Binding(hub)
      /\ Queued(app)' = Queued(app) /\ Answered(app)' = Answered(app)
  BY <1>1, <1>2, <1>4 DEF Starting, Stopping, Binding, Queued, Answered
<1>7. NodePlace(hub) /\ LockPlace(hub) /\ BinderPlace(hub) /\ DriverPlace(hub)
  BY <1>2 DEF TaskInvariant
<1>8. NodePlace(hub)'
  BY <1>1, <1>2, <1>4, <1>6, <1>7 DEF NodePlace, ToAnswer, StatesAt, Starts, Ends
<1>9. LockPlace(hub)'
  <2>1. LockSum(hub)' = LockSum(hub)
    BY <1>1, <1>2, <1>4, <1>6 DEF LockSum, InUse
  <2> QED BY <1>1, <1>7, <2>1 DEF LockPlace
<1>10. BinderPlace(hub)'
  <2>1. label \in {"stopping", "parked"} => ~ Binding(hub)
    BY <1>2, <1>7 DEF BinderPlace, DriverPlace
  <2>2. label \in HUBMain /\ (label \notin {"stopping", "parked"} => label \in HUBMain \ {"stopping", "parked"})
        /\ pc[hub] \notin Late /\ pc[hub] # "none"
    BY DEF HUBMain, Late
  <2> QED BY <1>1, <1>2, <1>4, <1>6, <1>7, <2>1, <2>2 DEF BinderPlace
<1>11. DriverPlace(hub)'
  <2>1. /\ label \in Locking(hub) /\ pc[hub] \in Locking(hub)
        /\ label \notin Late /\ pc[hub] \notin Late /\ pc[hub] # "none" /\ label # "none"
    BY DEF Locking, HUBMain, Late
  <2> QED BY <1>1, <1>2, <1>4, <1>6, <1>7, <2>1 DEF DriverPlace, InUse
<1>12. \A t \in {hub} : Place(t)' /\ Stands(t) /\ (Up(t)' <=> Up(t))
  BY <1>1, <1>2, <1>4, <1>8, <1>9, <1>10, <1>11 DEF Place, Stands, Up, Before, Starts
<1>13. \A t \in Task : Over(t)' <=> Over(t)
  BY <1>1, <1>4 DEF Over, Alive
<1>14. HCDPlace' /\ AppPlace'
  <2>1. arg'[app] = arg[app] /\ root' = root /\ (InUse(hub)' <=> InUse(hub))
    BY <1>1, <1>2 DEF InUse
  <2>2. HCDPlace'
    BY <1>1, <1>2, <1>4, <1>13, <2>1, HCDKeeps DEF TaskInvariant
  <2> QED BY <1>1, <1>2, <1>4, <1>13, <2>1, <2>2, AppKeeps DEF TaskInvariant
<1>15. MasterPlace'
  BY <1>1, <1>4, MasterKeeps DEF TaskInvariant
<1>16. \A t \in Task \ {hub} : pc'[t] = pc[t] /\ ("C" \in sig'[t] => "C" \in sig[t])
  BY <1>4
<1>17. {hub} \in SUBSET Task
  BY <1>2
<1> QED BY <1>1, <1>5, <1>12, <1>14, <1>15, <1>16, <1>17, Quiet

\* What a change of the hub driver's label does to the types.
LEMMA HUBPc ==
    ASSUME TypeOK, NEW label \in {"main", "bind", "stopping", "parked"}, GoTo(hub, label)
    PROVE  /\ pc' \in [Proc -> Labels] /\ pc'[hub] = label /\ pc'[app] \in AppLabels
           /\ pc'[master] \in {"wait", "handle", "dead"}
           /\ \A u \in Task : pc'[u] \in LabelsOf(u) /\ (u # hub => pc'[u] = pc[u])
<1>1. hub \in Task /\ label \in LabelsOf(hub)
  BY Names DEF LabelsOf, Locking, HUBMain
<1> QED BY <1>1, TaskPc

LEMMA PlugKeeps == ASSUME TaskInvariant, NEW d \in Class, Plug(d) PROVE TaskInvariant'
<1>1. TypeOK /\ d \in Task /\ hub \in Proc /\ hub \in Task /\ Class \subseteq Task /\ hub \notin Class
  BY Names DEF TaskInvariant, Proc
<1>2. pc[hub] = "main" /\ GoTo(hub, "bind") /\ port' = d /\ dn[d].st = "none"
  BY DEF Plug, HubRuns
<1>3. /\ pc' \in [Proc -> Labels] /\ pc'[hub] = "bind" /\ pc'[app] \in AppLabels
      /\ pc'[master] \in {"wait", "handle", "dead"}
      /\ \A u \in Task : pc'[u] \in LabelsOf(u) /\ (u # hub => pc'[u] = pc[u])
  BY <1>1, <1>2, HUBPc
<1>4. arg' \in [Proc -> Task \cup {none}] /\ arg'[hub] = d /\ \A p \in Proc : p # hub => arg'[p] = arg[p]
  BY <1>1 DEF Plug, TypeOK
<1>5. UNCHANGED <<keep, result, tn, dn, count, kept, mask, mode, stopping, bind, fdriver, queue, sig, root, booted>>
  BY DEF Plug, nodeVars, mastVars, lockVars
<1>6. TypeOK'
  BY <1>1, <1>2, <1>3, <1>4, <1>5 DEF TypeOK
<1>7. HUBPlace'
  BY <1>1, <1>2, <1>3, <1>4, <1>5 DEF TaskInvariant, HUBPlace, HUBMain, Binds
<1> QED BY <1>2, <1>4, <1>5, <1>6, <1>7, HUBMoves DEF nodeVars

LEMMA StopDevicesKeeps == ASSUME TaskInvariant, StopDevices PROVE TaskInvariant'
<1>1. TypeOK
  BY DEF TaskInvariant
<1>2. pc[hub] = "main" /\ GoTo(hub, "stopping") /\ "C" \in sig[hub]
  BY DEF StopDevices
<1>3. /\ pc' \in [Proc -> Labels] /\ pc'[hub] = "stopping" /\ pc'[app] \in AppLabels
      /\ pc'[master] \in {"wait", "handle", "dead"}
      /\ \A u \in Task : pc'[u] \in LabelsOf(u) /\ (u # hub => pc'[u] = pc[u])
  BY <1>1, <1>2, HUBPc
<1>4. UNCHANGED <<arg, keep, result, tn, dn, count, kept, mask, mode, stopping, bind, fdriver, queue, sig, port, root, booted>>
  BY DEF StopDevices, nodeVars, mastVars, lockVars, callVars
<1>5. TypeOK'
  BY <1>1, <1>2, <1>3, <1>4 DEF TypeOK
<1>6. HUBPlace'
  BY <1>1, <1>2, <1>3, <1>4 DEF TaskInvariant, HUBPlace, HUBMain, Binds
<1> QED BY <1>2, <1>4, <1>5, <1>6, HUBMoves DEF nodeVars

\* When no class driver is counted, their nodes are gone too.
LEMMA ClassesAreGone ==
    ASSUME TaskInvariant, NEW d \in Class, pc[hub] = "stopping", count["Drivers"] = 0
    PROVE  Over(d) /\ ~ InUse(d)
<1>1. d \in Task /\ d \in Driver /\ d # hub /\ Starter(d) = hub
  BY Names, Callers
<1>2. NodePlace(d) /\ BinderPlace(d) /\ DriverPlace(d)
  BY <1>1 DEF TaskInvariant
<1>3. ~ Alive(tn[d]) /\ ~ Up(d)
  BY <1>1, Names, CountZero DEF TaskInvariant, Group
<1>4. pc[d] # "entry"
  BY <1>2, <1>3 DEF NodePlace, StatesAt, Alive
<1>5. Over(d)
  BY <1>3, <1>4 DEF Over, Up
<1>6. dn[d].st # "alloc"
  BY <1>1, <1>2 DEF BinderPlace, Binding, Binds
<1>7. dn[d].st # "listed"
  BY <1>1, <1>2, <1>3 DEF DriverPlace, Alive
<1> QED BY <1>5, <1>6, <1>7 DEF InUse

\* The root hub's driver waits for its interrupt request.
LEMMA ParksKeeps == ASSUME TaskInvariant, DevicesGone, GoTo(hub, "parked"), UNCHANGED dn PROVE TaskInvariant'
<1>1. TypeOK /\ Class \subseteq Task /\ hub \notin Class
  BY Names DEF TaskInvariant
<1>2. pc[hub] = "stopping" /\ GoTo(hub, "parked") /\ "C" \in sig[hub]
  BY DEF DevicesGone, TaskInvariant, HUBPlace
<1>3. /\ pc' \in [Proc -> Labels] /\ pc'[hub] = "parked" /\ pc'[app] \in AppLabels
      /\ pc'[master] \in {"wait", "handle", "dead"}
      /\ \A u \in Task : pc'[u] \in LabelsOf(u) /\ (u # hub => pc'[u] = pc[u])
  BY <1>1, <1>2, HUBPc
<1>4. UNCHANGED <<arg, keep, result, tn, dn, count, kept, mask, mode, stopping, bind, fdriver, queue, sig, port, root, booted>>
  BY DEF DevicesGone, DriverEnds, nodeVars, mastVars, lockVars, callVars
<1>5. TypeOK'
  BY <1>1, <1>2, <1>3, <1>4 DEF TypeOK
<1>6. \A d \in Class : (Over(d) /\ ~ InUse(d))'
  <2>1. \A d \in Class : Over(d) /\ ~ InUse(d)
    BY <1>2, ClassesAreGone DEF DevicesGone, NobodyCounted
  <2> QED BY <1>1, <1>3, <1>4, <2>1 DEF Over, InUse, Alive
<1>7. HUBPlace'
  BY <1>1, <1>2, <1>3, <1>4, <1>6 DEF TaskInvariant, HUBPlace, HUBMain, Binds
<1> QED BY <1>2, <1>4, <1>5, <1>7, HUBMoves DEF nodeVars

\* The device is removed, and there is no driver to stop.
LEMMA NoDriverKeeps ==
    ASSUME TaskInvariant, NEW d \in Class, Unplug(d),
           ~ (dn[d].st = "listed" /\ dn[d].task /\ Alive(tn[d]))
    PROVE  TaskInvariant'
<1>1. TypeOK /\ Class \subseteq Task /\ hub \notin Class
  BY Names DEF TaskInvariant
<1>2. pc[hub] = "main" /\ GoTo(hub, "main") /\ port' = none
  BY DEF Unplug, StopFunction, HubRuns
<1>3. /\ pc' \in [Proc -> Labels] /\ pc'[hub] = "main" /\ pc'[app] \in AppLabels
      /\ pc'[master] \in {"wait", "handle", "dead"}
      /\ \A u \in Task : pc'[u] \in LabelsOf(u) /\ (u # hub => pc'[u] = pc[u])
  BY <1>1, <1>2, HUBPc
<1>4. UNCHANGED <<arg, keep, result, tn, dn, count, kept, mask, mode, stopping, bind, fdriver, queue, sig, root, booted>>
  BY DEF Unplug, StopFunction, mastVars, callVars
<1>5. TypeOK'
  BY <1>1, <1>2, <1>3, <1>4 DEF TypeOK
<1>6. HUBPlace'
  BY <1>1, <1>2, <1>3, <1>4 DEF TaskInvariant, HUBPlace, HUBMain, Binds
<1> QED BY <1>2, <1>4, <1>5, <1>6, HUBMoves DEF nodeVars

-----------------------------------------------------------------------------
(* The steps of one task *)

LEMMA TaskFacts ==
    ASSUME TaskInvariant, NEW t \in Task
    PROVE  /\ TypeOK /\ NodePlace(t) /\ LockPlace(t) /\ Starter(t) \in Caller /\ Stopper(t) \in Caller
           /\ t \in Driver => BinderPlace(t) /\ DriverPlace(t)
           /\ tn[t] \in TaskNode /\ kept[t] \in Nat /\ (t \in Driver => dn[t] \in DriverNode)
           /\ t \in Proc /\ t # app /\ t # master
BY Names, Callers DEF TaskInvariant, TypeOK, Caller, Proc

\* The step of a task t that is not in a call; it may answer its starter.
LEMMA OneTask ==
    ASSUME TaskInvariant, TypeOK', NEW t \in Task, NEW label \in LabelsOf(t), GoTo(t, label),
           {label, pc[t]} \cap Calls = {}, UNCHANGED <<arg, keep, queue, bind, kept>>,
           \A u \in Task : u # t => tn'[u] = tn[u] /\ (u \in Driver => dn'[u] = dn[u]),
           \A u \in Task : u # t /\ "C" \in sig'[u] => "C" \in sig[u],
           NEW P \in SUBSET Caller,
           \A p \in P : /\ p = Starter(t) /\ Starting(t) /\ ~ Queued(p)
                        /\ StartPlace(p)' /\ StopPlace(p)',
           \A p \in Caller \ P :
               result'[p] = result[p] /\ ("reply" \in sig'[p] => "reply" \in sig[p]),
           Place(t)', Stands(t), CounterExact', HUBPlace', HCDPlace', AppPlace', MasterPlace'
    PROVE  TaskInvariant'
<1>1. \A p \in Proc : p # t => pc'[p] = pc[p]
  BY PcTyped, TaskFacts, Names
<1>2. pc'[t] = label /\ pc[t] \notin Calls /\ label \notin Calls
  BY TaskPc, TaskFacts
<1>3. Caller \subseteq Proc /\ Task \subseteq Proc
  BY Names DEF Caller, Proc
<1>4. ASSUME NEW p \in Caller, p \notin P PROVE SameCall(p)
  <2>1. CASE p = t
    BY <1>2, <2>1, MoveCall
  <2>2. CASE p # t
    BY <1>1, <1>3, <1>4, <2>2 DEF SameCall, Answered, Queued
  <2> QED BY <2>1, <2>2
<1>5. ASSUME NEW p \in P PROVE pc[p] = "awaitStart" /\ arg[p] = t /\ pc'[p] = "awaitStart" /\ arg'[p] = t
  <2>1. pc[p] = "awaitStart" /\ arg[p] = t
    BY DEF Starting
  <2>2. p # t
    BY <1>2, <2>1 DEF Calls, Binds
  <2> QED BY <1>1, <1>3, <2>1, <2>2
<1>6. ASSUME NEW u \in Task, u # t PROVE SameTask(u)
  BY <1>1, <1>3, <1>6 DEF SameTask
<1>7. ASSUME NEW u \in Task \ {t} PROVE Apart(u)
  <2>1. SameTask(u) /\ u # t
    BY <1>6
  <2>2. Starter(u) \in Caller /\ Stopper(u) \in Caller
    BY TaskFacts
  <2>3. SameCall(Starter(u)) \/ ~ (Starting(u) \/ Binding(u) \/ Starting(u)' \/ Binding(u)')
    BY <1>4, <1>5, <2>1, <2>2 DEF Starting, Binding
  <2>4. SameCall(Stopper(u)) \/ ~ (Stopping(u) \/ Stopping(u)')
    BY <1>4, <1>5, <2>1, <2>2 DEF Stopping
  <2> QED BY <2>1, <2>3, <2>4 DEF Apart
<1>8. \A u \in Task : Stands(u)
  BY <1>6, SameStands
<1>9. \A p \in Caller \ P : SameWith(p)
  BY <1>4, <1>8 DEF SameWith
<1>10. QueuePlace'
  BY <1>9, QueueKeeps DEF TaskInvariant
<1>11. \A u \in {t} : Place(u)'
  OBVIOUS
<1>12. {t} \in SUBSET Task /\ \A p \in P : StartPlace(p)' /\ StopPlace(p)'
  OBVIOUS
<1> QED BY <1>7, <1>9, <1>10, <1>11, <1>12, Whole


\* What the driver's steps that change its DriverNode have in common.
LEMMA OneDriver ==
    ASSUME TaskInvariant, NEW d \in Driver, NEW label \in LabelsOf(d), GoTo(d, label),
           {label, pc[d]} \cap (Calls \cup Starts \cup Ends \cup {"none", "entry", "dead", "forget"}) = {},
           UNCHANGED <<callVars, tn, count, mastVars, lockVars, queue, port, root, booted>>,
           NEW node \in DriverNode, dn' = [dn EXCEPT ![d] = node], node.st = dn[d].st, node.task = dn[d].task,
           sig' = sig \/ (d = hub /\ sig' = With(sig, app, "E")),
           BinderPlace(d)', DriverPlace(d)', HUBPlace'
    PROVE  TaskInvariant'
<1>1. /\ d \in Task /\ d # hcd /\ d \in Proc /\ d # app /\ d # master /\ app \in Proc /\ hcd \in Task
      /\ hub \in Task /\ app \notin Task /\ Task \subseteq Proc /\ hub \in Driver /\ master \in Proc /\ app # master
  BY Names DEF Proc
<1>2. /\ TypeOK /\ NodePlace(d) /\ LockPlace(d) /\ Starter(d) \in Caller /\ Stopper(d) \in Caller
  BY <1>1, TaskFacts
<1>3. /\ pc' \in [Proc -> Labels] /\ pc'[d] = label /\ pc'[app] \in AppLabels /\ pc'[app] = pc[app]
      /\ pc'[master] \in {"wait", "handle", "dead"} /\ pc'[master] = pc[master]
      /\ \A u \in Task : pc'[u] \in LabelsOf(u) /\ (u # d => pc'[u] = pc[u])
  BY <1>1, <1>2, TaskPc
<1>4. /\ sig' \in [Proc -> SUBSET Signals]
      /\ \A p \in Proc : sig'[p] = sig[p] \/ (p = app /\ sig'[p] = sig[p] \cup {"E"})
  <2>1. CASE sig' = sig
    BY <1>2, <2>1 DEF TypeOK
  <2>2. CASE sig' = With(sig, app, "E")
    <3>1. "E" \in Signals
      BY DEF Signals
    <3>2. /\ sig' \in [Proc -> SUBSET Signals]
          /\ \A p \in Proc : sig'[p] = IF p = app THEN sig[p] \cup {"E"} ELSE sig[p]
      BY <1>1, <1>2, <2>2, <3>1, SigAdds
    <3> QED BY <3>2
  <2> QED BY <2>1, <2>2
<1>5. dn' \in [Driver -> DriverNode] /\ dn'[d] = node /\ \A e \in Driver : e # d => dn'[e] = dn[e]
  BY <1>2 DEF TypeOK
<1>6. UNCHANGED <<arg, keep, result, kept, bind, fdriver, mask, mode, stopping>>
  BY DEF callVars, mastVars, lockVars
<1>7. TypeOK'
  BY <1>2, <1>3, <1>4, <1>5, <1>6 DEF TypeOK
<1>8. \A e \in Driver : dn'[e].st = dn[e].st /\ dn'[e].task = dn[e].task
  BY <1>5
<1>9. \A e \in Driver : InUse(e)' <=> InUse(e)
  BY <1>8 DEF InUse
<1>10. \A u \in Task : (Over(u)' <=> Over(u)) /\ SameCounted(u)
  BY <1>3 DEF Over, Up, Alive, SameCounted
<1>11. Starter(d) # d /\ Stopper(d) # d /\ Starter(d) \in {app, hub} /\ Stopper(d) \in {hcd, hub} /\ hub # hcd
  BY Names, Callers
<1>12. Starting(d)' = Starting(d) /\ Stopping(d)' = Stopping(d)
  BY <1>1, <1>3, <1>6, <1>11 DEF Starting, Stopping
<1>13. NodePlace(d)'
  <2>1. /\ StatesAt(label) = StatesAt(pc[d])
        /\ label \notin Starts \cup Ends \cup {"none", "entry", "dead", "forget"}
        /\ pc[d] \notin Starts \cup Ends \cup {"none", "entry", "dead", "forget"}
    BY DEF StatesAt
  <2>2. ~ ToAnswer(d)'
    BY <1>3, <2>1 DEF ToAnswer
  <2>3. tn[d].parent # <<Starter(d), "reply">>
    BY <1>1, <1>2, <2>1 DEF NodePlace
  <2> QED BY <1>1, <1>2, <1>3, <1>6, <2>1, <2>2, <2>3 DEF NodePlace
<1>14. LockPlace(d)'
  <2>1. LockSum(d)' = LockSum(d)
    BY <1>1, <1>3, <1>6, <1>8, <1>9, <1>12 DEF LockSum
  <2> QED BY <1>2, <2>1 DEF LockPlace
<1>15. Place(d)'
  BY <1>13, <1>14 DEF Place
<1>16. Stands(d)
  BY <1>3, <1>8 DEF Stands, Before
<1>17. CounterExact'
  BY <1>10, CountKeeps DEF TaskInvariant
<1>18. HCDPlace'
  BY <1>1, <1>3, <1>4, <1>6, <1>9, <1>10, HCDKeeps DEF TaskInvariant
<1>19. AppPlace'
  BY <1>1, <1>3, <1>6, <1>8, <1>10, AppKeeps DEF TaskInvariant
<1>20. MasterPlace'
  BY <1>1, <1>3, <1>4, <1>6, MasterKeeps DEF TaskInvariant
<1>21. /\ \A u \in Task : u # d => tn'[u] = tn[u] /\ (u \in Driver => dn'[u] = dn[u])
       /\ \A u \in Task : u # d /\ "C" \in sig'[u] => "C" \in sig[u]
  BY <1>1, <1>4, <1>5
<1>22. \A p \in Caller \ {} : result'[p] = result[p] /\ ("reply" \in sig'[p] => "reply" \in sig[p])
  <2>1. Caller \subseteq Proc
    BY <1>1 DEF Caller
  <2> QED BY <1>4, <1>6, <2>1
<1>23. /\ {} \in SUBSET Caller
       /\ \A p \in {} : /\ p = Starter(d) /\ Starting(d) /\ ~ Queued(p)
                        /\ StartPlace(p)' /\ StopPlace(p)'
  OBVIOUS
<1>24. {label, pc[d]} \cap Calls = {}
  OBVIOUS
<1> QED BY <1>1, <1>6, <1>7, <1>15, <1>16, <1>17, <1>18, <1>19, <1>20, <1>21, <1>22, <1>23, <1>24, OneTask


LEMMA DriverNodes ==
    ASSUME NEW n \in DriverNode
    PROVE  /\ n.st \in {"none", "alloc", "listed", "freed"} /\ n.locks \in 0 .. 2
           /\ n.freeMe \in BOOLEAN /\ n.task \in BOOLEAN /\ n.ok \in BOOLEAN
           /\ [n EXCEPT !.freeMe = TRUE] \in DriverNode /\ [n EXCEPT !.ok = TRUE] \in DriverNode
           /\ \A k \in 0 .. 2 : [n EXCEPT !.locks = k] \in DriverNode
BY DEF DriverNode

LEMMA OneIs == One(TRUE) = 1 /\ One(FALSE) = 0 /\ \A b : One(b) \in {0, 1}
BY DEF One

LEMMA DriverPc ==
    ASSUME TaskInvariant, NEW d \in Driver, NEW label \in LabelsOf(d), GoTo(d, label),
           label \notin {"awaitStop"} \cup Binds, pc[d] \notin {"awaitStop"} \cup Binds,
           callVars' = callVars, bind' = bind, tn' = tn,
           \A e \in Driver : dn'[e].st = dn[e].st
    PROVE  /\ pc'[d] = label /\ pc'[app] = pc[app] /\ pc'[hcd] = pc[hcd] /\ (d # hub => pc'[hub] = pc[hub])
           /\ Starting(d)' = Starting(d) /\ Stopping(d)' = Stopping(d) /\ Binding(d)' = Binding(d)
           /\ pc'[Starter(d)] = pc[Starter(d)] /\ pc'[Stopper(d)] = pc[Stopper(d)]
           /\ \A e \in Driver : InUse(e)' <=> InUse(e)
           /\ \A e \in Driver : e # d => (Over(e)' <=> Over(e))
           /\ pc[d] \notin {"none", "dead"} /\ label \notin {"none", "dead"} => ~ Over(d) /\ ~ Over(d)'
<1>1. d \in Task /\ d \in Driver /\ hcd \in Task /\ hub \in Task /\ d # hcd /\ Driver \subseteq Task
  BY Names
<1>2. pc'[d] = label /\ pc'[app] = pc[app] /\ \A u \in Task : u # d => pc'[u] = pc[u]
  BY <1>1, TaskPc DEF TaskInvariant
<1>3. Starter(d) # d /\ Stopper(d) # d /\ Starter(d) \in {app, hub} /\ Stopper(d) \in {hcd, hub}
  BY Names, Callers
<1>4. pc'[Starter(d)] = pc[Starter(d)] /\ pc'[Stopper(d)] = pc[Stopper(d)]
  BY <1>1, <1>2, <1>3
<1>5. Starting(d)' = Starting(d) /\ Stopping(d)' = Stopping(d) /\ Binding(d)' = Binding(d)
  BY <1>4 DEF Starting, Stopping, Binding, callVars
<1> QED BY <1>1, <1>2, <1>4, <1>5 DEF InUse, Over

LEMMA LockDriverKeeps == ASSUME TaskInvariant, NEW d \in Driver, LockDriver(d) PROVE TaskInvariant'
<1> DEFINE label == IF d = hub THEN "setup" ELSE "main"
           node  == [dn[d] EXCEPT !.locks = @ + 1]
<1>1. d \in Task /\ hub \in Driver /\ hub \in Task /\ hub \notin Class /\ (d # hub => d \in Class) /\ d # hcd
  BY Names
<1>2. TypeOK /\ NodePlace(d) /\ BinderPlace(d) /\ DriverPlace(d) /\ dn[d] \in DriverNode /\ HUBPlace
  BY <1>1, TaskFacts DEF TaskInvariant
<1>3. /\ pc[d] = "lock" /\ dn' = [dn EXCEPT ![d] = node] /\ GoTo(d, label)
      /\ UNCHANGED <<callVars, tn, count, mastVars, lockVars, sig, queue, port, root, booted>>
  BY DEF LockDriver
<1>4. dn[d].locks = One(Stopping(d) /\ bind = Stopper(d)) /\ dn[d].locks \in 0 .. 1
  <2>1. pc[d] \notin Locking(d)
    BY <1>3 DEF Locking, HUBMain, Binds
  <2>2. dn[d].locks = One(pc[d] \in Locking(d)) + One(Stopping(d) /\ bind = Stopper(d))
    BY <1>2 DEF DriverPlace
  <2> QED BY <2>1, <2>2 DEF One
<1>5. /\ node \in DriverNode /\ node.st = dn[d].st /\ node.task = dn[d].task /\ node.ok = dn[d].ok
      /\ node.freeMe = dn[d].freeMe /\ node.locks = dn[d].locks + 1
  BY <1>2, <1>4, DriverNodes DEF DriverNode
<1>6. dn'[d] = node /\ \A e \in Driver : e # d => dn'[e] = dn[e]
  BY <1>2, <1>3 DEF TypeOK
<1>7. label \in LabelsOf(d) /\ {label, pc[d]} \cap (Calls \cup Starts \cup Ends \cup {"none", "entry", "dead", "forget"}) = {}
  BY <1>1, <1>3 DEF LabelsOf, Locking, HUBMain, Calls, Binds, Starts, Ends
<1>8. /\ pc'[d] = label /\ (d # hub => pc'[hub] = pc[hub])
      /\ Starting(d)' = Starting(d) /\ Stopping(d)' = Stopping(d) /\ Binding(d)' = Binding(d)
      /\ pc'[Starter(d)] = pc[Starter(d)] /\ pc'[Stopper(d)] = pc[Stopper(d)]
      /\ \A e \in Driver : InUse(e)' <=> InUse(e)
      /\ \A e \in Driver : Over(e)' <=> Over(e)
  BY <1>3, <1>5, <1>6, <1>7, DriverPc DEF lockVars, Calls
<1>9. BinderPlace(d)'
  BY <1>2, <1>3, <1>5, <1>6, <1>8 DEF BinderPlace, Early, HUBMain, Binds, Late, callVars
<1>10. DriverPlace(d)'
  <2>1. label \in Locking(d) /\ label \notin Late /\ label # "none" /\ pc[d] \notin Late
        /\ pc[d] \notin {"none"} /\ pc[d] \in Early
    BY <1>1, <1>3 DEF Locking, Late, HUBMain, Early
  <2>2. dn'[d].locks = One(pc'[d] \in Locking(d)) + One(Stopping(d) /\ bind = Stopper(d))
    BY <1>4, <1>5, <1>6, <1>8, <2>1 DEF One
  <2> QED BY <1>1, <1>2, <1>3, <1>5, <1>6, <1>8, <2>1, <2>2 DEF DriverPlace, lockVars
<1>11. HUBPlace'
  <2>1. CASE d # hub
    BY <1>1, <1>2, <1>3, <1>5, <1>6, <1>8, <2>1, Names, HUBKeeps DEF callVars
  <2>2. CASE d = hub
    <3>1. pc[hub] = "lock" /\ pc'[hub] = "setup"
      BY <1>3, <1>8, <2>2
    <3>2. {"lock", "setup"} \cap (HUBMain \cup Late \cup {"bind", "stopping", "parked"} \cup Binds) = {}
      BY DEF HUBMain, Late, Binds
    <3> QED BY <1>1, <1>2, <1>3, <1>5, <1>6, <1>8, <2>2, <3>1, <3>2, Names DEF HUBPlace
  <2> QED BY <2>1, <2>2
<1> HIDE DEF label, node
<1> QED BY <1>3, <1>5, <1>7, <1>9, <1>10, <1>11, OneDriver

LEMMA UnlockDriverKeeps == ASSUME TaskInvariant, NEW d \in Driver, UnlockDriver(d) PROVE TaskInvariant'
<1> DEFINE node == [dn[d] EXCEPT !.locks = @ - 1]
<1>1. d \in Task /\ hub \in Driver /\ hub \in Task /\ hub \notin Class /\ (d # hub => d \in Class) /\ d # hcd
  BY Names
<1>2. TypeOK /\ NodePlace(d) /\ BinderPlace(d) /\ DriverPlace(d) /\ dn[d] \in DriverNode /\ HUBPlace
  BY <1>1, TaskFacts DEF TaskInvariant
<1>3. /\ pc[d] = "unlock" /\ dn' = [dn EXCEPT ![d] = node] /\ GoTo(d, "end")
      /\ UNCHANGED <<callVars, tn, count, mastVars, lockVars, sig, queue, port, root, booted>>
  BY DEF UnlockDriver
<1>4. dn[d].locks = 1 + One(Stopping(d) /\ bind = Stopper(d)) /\ dn[d].locks \in 1 .. 2
  <2>1. pc[d] \in Locking(d)
    BY <1>3 DEF Locking
  <2>2. dn[d].locks = One(pc[d] \in Locking(d)) + One(Stopping(d) /\ bind = Stopper(d))
    BY <1>2 DEF DriverPlace
  <2> QED BY <2>1, <2>2 DEF One
<1>5. /\ node \in DriverNode /\ node.st = dn[d].st /\ node.task = dn[d].task /\ node.ok = dn[d].ok
      /\ node.freeMe = dn[d].freeMe /\ node.locks = dn[d].locks - 1
  BY <1>2, <1>4, DriverNodes DEF DriverNode
<1>6. dn'[d] = node /\ \A e \in Driver : e # d => dn'[e] = dn[e]
  BY <1>2, <1>3 DEF TypeOK
<1>7. "end" \in LabelsOf(d) /\ {"end", pc[d]} \cap (Calls \cup Starts \cup Ends \cup {"none", "entry", "dead", "forget"}) = {}
  BY <1>1, <1>3 DEF LabelsOf, Calls, Binds, Starts, Ends
<1>8. /\ pc'[d] = "end" /\ (d # hub => pc'[hub] = pc[hub])
      /\ Starting(d)' = Starting(d) /\ Stopping(d)' = Stopping(d) /\ Binding(d)' = Binding(d)
      /\ pc'[Starter(d)] = pc[Starter(d)] /\ pc'[Stopper(d)] = pc[Stopper(d)]
      /\ \A e \in Driver : InUse(e)' <=> InUse(e)
      /\ \A e \in Driver : Over(e)' <=> Over(e)
  BY <1>3, <1>5, <1>6, <1>7, DriverPc DEF lockVars, Calls
<1>9. BinderPlace(d)'
  BY <1>2, <1>3, <1>5, <1>6, <1>8 DEF BinderPlace, Early, HUBMain, Binds, Late, callVars
<1>10. DriverPlace(d)'
  <2>1. "end" \notin Locking(d) /\ "end" \in Late /\ pc[d] \in Late /\ "end" \notin Early
    BY <1>1, <1>3 DEF Locking, Late, HUBMain, Binds, Early
  <2>2. dn'[d].locks = One(pc'[d] \in Locking(d)) + One(Stopping(d) /\ bind = Stopper(d))
    BY <1>4, <1>5, <1>6, <1>8, <2>1 DEF One
  <2> QED BY <1>1, <1>2, <1>3, <1>5, <1>6, <1>8, <2>1, <2>2 DEF DriverPlace, lockVars
<1>11. HUBPlace'
  <2>1. CASE d # hub
    BY <1>1, <1>2, <1>3, <1>5, <1>6, <1>8, <2>1, Names, HUBKeeps DEF callVars
  <2>2. CASE d = hub
    <3>1. pc[hub] = "unlock" /\ pc'[hub] = "end"
      BY <1>3, <1>8, <2>2
    <3>2. {"unlock", "end"} \cap (HUBMain \cup {"bind", "stopping", "parked"} \cup Binds) = {}
          /\ "end" \in Late
      BY DEF HUBMain, Late, Binds
    <3> QED BY <1>1, <1>2, <1>3, <1>5, <1>6, <1>8, <2>2, <3>1, <3>2, Names DEF HUBPlace
  <2> QED BY <2>1, <2>2
<1> HIDE DEF node
<1> QED BY <1>3, <1>5, <1>7, <1>9, <1>10, <1>11, OneDriver


\* The driver marks its DriverNode: its main loop is over, or it could not set up.
LEMMA Marks ==
    ASSUME TaskInvariant, NEW d \in Driver, pc[d] \in {"setup", "main", "stopping", "parked"},
           pc[d] \in {"setup", "stopping", "parked"} <=> d = hub,
           pc[d] = "stopping" => \A e \in Class : Over(e) /\ ~ InUse(e), dn[d].st = "alloc" => d = hub /\ ~ dn[d].ok,
           dn' = [dn EXCEPT ![d].freeMe = TRUE], GoTo(d, "unlock"),
           UNCHANGED <<callVars, tn, count, mastVars, lockVars, queue, port, root, booted>>,
           sig' = sig \/ (d = hub /\ sig' = With(sig, app, "E"))
    PROVE  TaskInvariant'
<1> DEFINE node == [dn[d] EXCEPT !.freeMe = TRUE]
<1>1. d \in Task /\ hub \in Driver /\ hub \in Task /\ hub \notin Class /\ (d # hub => d \in Class) /\ d # hcd
      /\ app \in Proc /\ app # hub /\ Class \subseteq Driver
  BY Names
<1>2. TypeOK /\ NodePlace(d) /\ BinderPlace(d) /\ DriverPlace(d) /\ dn[d] \in DriverNode /\ HUBPlace
  BY <1>1, TaskFacts DEF TaskInvariant
<1>3. dn' = [dn EXCEPT ![d] = node]
  OBVIOUS
<1>4. /\ node \in DriverNode /\ node.st = dn[d].st /\ node.task = dn[d].task /\ node.ok = dn[d].ok
      /\ node.freeMe = TRUE /\ node.locks = dn[d].locks
  BY <1>2, DriverNodes DEF DriverNode
<1>5. dn'[d] = node /\ \A e \in Driver : e # d => dn'[e] = dn[e]
  BY <1>2, <1>3 DEF TypeOK
<1>6. "unlock" \in LabelsOf(d) /\ {"unlock", pc[d]} \cap (Calls \cup Starts \cup Ends \cup {"none", "entry", "dead", "forget"}) = {}
  BY <1>1 DEF LabelsOf, Locking, Calls, Binds, Starts, Ends
<1>7. /\ pc'[d] = "unlock" /\ (d # hub => pc'[hub] = pc[hub])
      /\ Starting(d)' = Starting(d) /\ Stopping(d)' = Stopping(d) /\ Binding(d)' = Binding(d)
      /\ pc'[Starter(d)] = pc[Starter(d)] /\ pc'[Stopper(d)] = pc[Stopper(d)]
      /\ \A e \in Driver : InUse(e)' <=> InUse(e)
      /\ \A e \in Driver : Over(e)' <=> Over(e)
  BY <1>4, <1>5, <1>6, DriverPc DEF lockVars, Calls
<1>8. BinderPlace(d)'
  BY <1>2, <1>4, <1>5, <1>7 DEF BinderPlace, Early, HUBMain, Binds, Late, callVars
<1>9. DriverPlace(d)'
  <2>1. "unlock" \in Locking(d) /\ "unlock" \in Late /\ pc[d] \in Locking(d)
    BY <1>1 DEF Locking, Late, HUBMain
  <2>2. dn'[d].locks = One(pc'[d] \in Locking(d)) + One(Stopping(d) /\ bind = Stopper(d))
    BY <1>2, <1>4, <1>5, <1>7, <2>1 DEF DriverPlace, One
  <2>3. ("C" \in sig'[d] => "C" \in sig[d]) /\ tn'[d] = tn[d]
    <3>1. CASE sig' = sig
      BY <3>1
    <3>2. CASE sig' = With(sig, app, "E")
      <4>1. "E" \in Signals /\ d \in Proc /\ d # app
        BY <1>1, Names DEF Signals
      <4> QED BY <1>1, <1>2, <3>2, <4>1, SigAdds
    <3> QED BY <3>1, <3>2
  <2> QED BY <1>1, <1>2, <1>4, <1>5, <1>7, <2>1, <2>2, <2>3 DEF DriverPlace, lockVars
<1>10. HUBPlace'
  <2>1. CASE d # hub
    BY <1>1, <1>2, <1>4, <1>5, <1>7, <2>1, Names, HUBKeeps DEF callVars
  <2>2. CASE d = hub
    <3>1. pc[hub] \in {"setup", "stopping", "parked"} /\ pc'[hub] = "unlock"
      BY <1>7, <2>2
    <3>2. "unlock" \notin HUBMain \cup {"bind", "stopping", "parked"} \cup Binds
          /\ "unlock" \in Late /\ "setup" \notin HUBMain
      BY DEF HUBMain, Late, Binds
    <3>3. \A e \in Class : Over(e) /\ ~ InUse(e)
      BY <1>2, <2>2, <3>1, <3>2 DEF HUBPlace
    <3> QED BY <1>1, <1>7, <3>1, <3>2, <3>3 DEF HUBPlace
  <2> QED BY <2>1, <2>2
<1> HIDE DEF node
<1> QED BY <1>3, <1>4, <1>6, <1>8, <1>9, <1>10, OneDriver

LEMMA SetupHUBKeeps == ASSUME TaskInvariant, SetupHUB PROVE TaskInvariant'
<1>1. hub \in Driver /\ hub \in Task /\ hub \notin Class /\ hub # hcd /\ Class \subseteq Driver /\ app \in Proc /\ hub \in Proc /\ app # hub
  BY Names
<1>2. TypeOK /\ NodePlace(hub) /\ BinderPlace(hub) /\ DriverPlace(hub) /\ dn[hub] \in DriverNode /\ HUBPlace
  BY <1>1, TaskFacts DEF TaskInvariant
<1>3. /\ pc[hub] = "setup" /\ sig' = With(sig, app, "E")
      /\ UNCHANGED <<callVars, tn, count, mastVars, lockVars, queue, port, root, booted>>
  BY DEF SetupHUB
<1>4. CASE dn' = [dn EXCEPT ![hub].freeMe = TRUE] /\ GoTo(hub, "unlock")
  <2>1. ~ dn[hub].ok
    BY <1>2, <1>3 DEF HUBPlace, HUBMain, Binds, Late
  <2> QED BY <1>1, <1>3, <1>4, <2>1, Marks
<1>5. CASE dn' = [dn EXCEPT ![hub].ok = TRUE] /\ GoTo(hub, "main")
  <2> DEFINE node == [dn[hub] EXCEPT !.ok = TRUE]
  <2>1. dn' = [dn EXCEPT ![hub] = node]
    BY <1>5
  <2>2. /\ node \in DriverNode /\ node.st = dn[hub].st /\ node.task = dn[hub].task /\ node.ok = TRUE
        /\ node.freeMe = dn[hub].freeMe /\ node.locks = dn[hub].locks
    BY <1>2, DriverNodes DEF DriverNode
  <2>3. dn'[hub] = node /\ \A e \in Driver : e # hub => dn'[e] = dn[e]
    BY <1>1, <1>2, <2>1 DEF TypeOK
  <2>4. "main" \in LabelsOf(hub) /\ {"main", pc[hub]} \cap (Calls \cup Starts \cup Ends \cup {"none", "entry", "dead", "forget"}) = {}
    BY <1>1, <1>3 DEF LabelsOf, Locking, HUBMain, Calls, Binds, Starts, Ends
  <2>5. /\ pc'[hub] = "main"
        /\ Starting(hub)' = Starting(hub) /\ Stopping(hub)' = Stopping(hub) /\ Binding(hub)' = Binding(hub)
        /\ pc'[Starter(hub)] = pc[Starter(hub)] /\ pc'[Stopper(hub)] = pc[Stopper(hub)]
        /\ \A e \in Driver : InUse(e)' <=> InUse(e)
        /\ \A e \in Driver : Over(e)' <=> Over(e)
    BY <1>1, <1>3, <1>5, <2>2, <2>3, <2>4, DriverPc DEF lockVars, Calls
  <2>6. BinderPlace(hub)'
    BY <1>2, <1>3, <2>2, <2>3, <2>5 DEF BinderPlace, Early, HUBMain, Binds, Late, callVars
  <2>7. DriverPlace(hub)'
    <3>1. "main" \in Locking(hub) /\ "main" \notin Late /\ pc[hub] \in Locking(hub) /\ pc[hub] \notin Late
      BY <1>3 DEF Locking, Late, HUBMain
    <3>2. dn'[hub].locks = One(pc'[hub] \in Locking(hub)) + One(Stopping(hub) /\ bind = Stopper(hub))
      BY <1>2, <2>2, <2>3, <2>5, <3>1 DEF DriverPlace, One
    <3>3. ("C" \in sig'[hub] => "C" \in sig[hub]) /\ tn'[hub] = tn[hub]
      <4>1. "E" \in Signals
        BY DEF Signals
      <4> QED BY <1>1, <1>2, <1>3, <4>1, SigAdds
    <3> QED BY <1>1, <1>2, <1>3, <2>2, <2>3, <2>5, <3>1, <3>2, <3>3 DEF DriverPlace, lockVars
  <2>8. HUBPlace'
    <3>1. "main" \in HUBMain \ {"parked"} /\ "main" \notin {"bind", "stopping", "parked"} \cup Binds
      BY DEF HUBMain, Binds
    <3> QED BY <1>1, <2>2, <2>3, <2>5, <3>1 DEF HUBPlace
  <2> HIDE DEF node
  <2> QED BY <1>1, <1>3, <1>5, <2>1, <2>2, <2>4, <2>6, <2>7, <2>8, OneDriver
<1> QED BY <1>4, <1>5 DEF SetupHUB

LEMMA PortChangeKeeps == ASSUME TaskInvariant, PortChange PROVE TaskInvariant'
<1>1. hub \in Driver
  BY Names
<1>2. dn[hub].st # "alloc"
  BY <1>1, TaskFacts DEF PortChange, TaskInvariant, HUBPlace, DriverPlace
<1> QED BY <1>1, <1>2, Marks DEF PortChange, DriverEnds

LEMMA DevicesGoneKeeps == ASSUME TaskInvariant, DevicesGone PROVE TaskInvariant'
<1>1. hub \in Driver
  BY Names
<1>2. pc[hub] = "stopping" /\ dn[hub].st # "alloc" /\ \A e \in Class : Over(e) /\ ~ InUse(e)
  BY <1>1, ClassesAreGone, TaskFacts DEF DevicesGone, NobodyCounted, TaskInvariant, HUBPlace, DriverPlace
<1>3. CASE GoTo(hub, "parked") /\ UNCHANGED dn
  BY <1>3, ParksKeeps
<1>4. CASE DriverEnds(hub)
  BY <1>1, <1>2, <1>4, Marks DEF DriverEnds
<1> QED BY <1>3, <1>4 DEF DevicesGone, nodeVars

\* A class driver ends only when its node is listed: what is bound is in the port, and has no signal.
LEMMA ClassEndsKeeps ==
    ASSUME TaskInvariant, ~ DriversEndEarly, NEW d \in Class, ClassEnds(d) PROVE TaskInvariant'
<1>1. d \in Driver /\ d # hub /\ d \in Task /\ Starter(d) = hub
  BY Names, Callers
<1>2. BinderPlace(d) /\ DriverPlace(d) /\ HUBPlace
  BY <1>1, TaskFacts DEF TaskInvariant
<1>3. dn[d].st # "alloc"
  BY <1>1, <1>2 DEF BinderPlace, DriverPlace, Binding, HUBPlace, ClassEnds, Gone
<1> QED BY <1>1, <1>3, Marks DEF ClassEnds, DriverEnds


-----------------------------------------------------------------------------
(* The steps of a task that change its TaskNode *)

LEMMA TaskNodes ==
    ASSUME NEW n \in TaskNode
    PROVE  /\ n.st \in {"none", "unset", "starting", "running", "stopping", "stopped", "freed"}
           /\ n.adr \in BOOLEAN /\ n.listed \in BOOLEAN /\ n.locks \in Nat
           /\ n.parent \in ({none} \cup Proc) \X {"none", "reply", "ended", "lost"}
BY DEF TaskNode

ParentNames == ({none} \cup Proc) \X {"none", "reply", "ended", "lost"}
States == {"none", "unset", "starting", "running", "stopping", "stopped", "freed"}
LEMMA NodeUpdates ==
    ASSUME NEW n \in TaskNode
    PROVE  /\ \A st \in States, parent \in ParentNames, locks \in Nat :
                  [n EXCEPT !.st = st, !.parent = parent, !.locks = locks] \in TaskNode
           /\ \A st \in States, adr \in BOOLEAN, parent \in ParentNames :
                  [n EXCEPT !.st = st, !.adr = adr, !.parent = parent] \in TaskNode
           /\ \A st \in States, adr \in BOOLEAN :
                  /\ [n EXCEPT !.adr = adr, !.st = st] \in TaskNode
                  /\ [n EXCEPT !.st = st, !.adr = adr] \in TaskNode
           /\ \A st \in States, locks \in Nat : [n EXCEPT !.st = st, !.locks = locks] \in TaskNode
           /\ \A adr \in BOOLEAN : [n EXCEPT !.adr = adr] \in TaskNode
           /\ \A parent \in ParentNames : [n EXCEPT !.parent = parent] \in TaskNode
           /\ \A locks \in Nat : [n EXCEPT !.locks = locks] \in TaskNode
           /\ \A st \in States : [n EXCEPT !.st = st] \in TaskNode
BY DEF TaskNode, ParentNames, States

NodeAt(t, node, label) ==
    /\ node.st \in StatesAt(label) /\ node.listed = tn[t].listed
    /\ node.adr => label \notin {"none", "entry", "dead"} \cup Ends
    /\ node.parent \in {NoParent, Lost, Awaited, <<Starter(t), "reply">>}
    /\ label \in Starts => node.parent = <<Starter(t), "reply">>
    /\ node.parent = <<Starter(t), "reply">> =>
           label \in Starts \cup {"forget"} \/ (t = hcd /\ label \in Ends \cup {"dead"})
    /\ node.locks - tn[t].locks =
           One(t = hcd /\ label \notin {"none", "entry", "dead"})
           - One(t = hcd /\ pc[t] \notin {"none", "entry", "dead"})

\* A driver's labels before and after such a step.
DriverAt(t, label) ==
    /\ pc[t] \in Late <=> label \in Late
    /\ pc[t] \in Early => label \in Early
    /\ label \in Early => InUse(t)
    /\ {pc[t], label} \cap (HUBMain \cup Locking(t)) = {}

LEMMA OneNodePlace ==
    ASSUME TaskInvariant, NEW t \in Task, NEW label \in LabelsOf(t), GoTo(t, label),
           NEW node \in TaskNode, tn' = [tn EXCEPT ![t] = node], NodeAt(t, node, label),
           Alive(tn[t]), Alive(node), "none" \notin {label, pc[t]}, {label, pc[t]} \cap Calls = {},
           UNCHANGED <<arg, keep, queue, bind, kept, dn>>,
           t \in Driver => DriverAt(t, label) /\ ("C" \in sig'[t] => "C" \in sig[t]),
           ToAnswer(t)' => /\ ToAnswer(t) /\ result'[Starter(t)] = result[Starter(t)]
                           /\ ("reply" \in sig'[Starter(t)] => "reply" \in sig[Starter(t)]),
           result'[Starter(t)] = result[Starter(t)] \/ Starting(t)
    PROVE  Place(t)'
<1>1. /\ TypeOK /\ NodePlace(t) /\ LockPlace(t) /\ tn[t] \in TaskNode
      /\ t \in Driver => BinderPlace(t) /\ DriverPlace(t)
  BY TaskFacts
<1>2. tn'[t] = node /\ pc'[t] = label /\ \A p \in Proc : p # t => pc'[p] = pc[p]
  <2>1. t \in Proc
    BY TaskFacts
  <2> QED BY <1>1, <2>1, PcTyped, TaskFacts, Names DEF TypeOK
<1>3. /\ Starter(t) # t /\ Stopper(t) # t /\ Starter(t) \in Proc /\ Stopper(t) \in Proc
      /\ t = hcd \/ t \in Driver
  BY Names, Callers DEF Proc
<1>4. /\ pc'[Starter(t)] = pc[Starter(t)] /\ pc'[Stopper(t)] = pc[Stopper(t)]
      /\ Starting(t)' = Starting(t) /\ Stopping(t)' = Stopping(t) /\ Binding(t)' = Binding(t)
  BY <1>2, <1>3 DEF Starting, Stopping, Binding
<1>5. NodePlace(t)'
  <2>1. node.st # "none" /\ pc[t] # "none" /\ tn[t].listed
    BY <1>1 DEF Alive, NodePlace, StatesAt
  <2>2. ToAnswer(t)' => Starting(t)' /\ ~ Queued(Starter(t))' /\ ~ Answered(Starter(t))' /\ ~ result'[Starter(t)]
    BY <1>1, <1>4 DEF NodePlace, Queued, Answered
  <2> QED BY <1>2, <2>1, <2>2, TaskNodes DEF NodePlace, NodeAt
<1>6. LockPlace(t)'
  <2> DEFINE rest == One(Starting(t)) + One(Stopping(t) /\ ~ keep[Stopper(t)]) + kept[t]
                     + One(Stopping(t) /\ bind = Stopper(t)) + One(t # hcd /\ dn[t].task /\ InUse(t))
  <2>1. rest \in Nat
    <3>1. kept[t] \in Nat
      BY TaskFacts
    <3> QED BY <3>1 DEF One
  <2>2. rest' = rest
    BY <1>4 DEF InUse
  <2>3. LockSum(t) = rest + One(t = hcd /\ pc[t] \notin {"none", "entry", "dead"})
    BY <2>1 DEF LockSum
  <2>4. LockSum(t)' = rest + One(t = hcd /\ label \notin {"none", "entry", "dead"})
    BY <1>2, <2>1, <2>2 DEF LockSum
  <2>5. tn[t].locks = LockSum(t) /\ tn[t].locks \in Nat /\ node.locks \in Nat
    BY <1>1, TaskNodes DEF LockPlace
  <2> HIDE DEF rest
  <2>6. node.locks = LockSum(t)'
    BY <2>1, <2>3, <2>4, <2>5 DEF NodeAt, One
  <2> QED BY <1>2, <2>6 DEF LockPlace, Alive
<1>7. ASSUME t \in Driver PROVE BinderPlace(t)' /\ DriverPlace(t)'
  <2>1. DriverAt(t, label) /\ BinderPlace(t) /\ DriverPlace(t) /\ pc[t] # "none" /\ node.st \notin {"none", "freed"}
    BY <1>1, <1>7 DEF Alive, NodePlace, StatesAt
  <2>2. BinderPlace(t)'
    <3>1. Binding(t) /\ pc[Starter(t)] \in {"link", "list"} => t # hub /\ label \in Early \cup {"main"}
      BY <2>1, <1>4 DEF BinderPlace, DriverAt, HUBMain, Locking
    <3>2. Binding(t) /\ pc[Starter(t)] = "drop" => t = hub /\ label \in Late /\ ~ dn[t].ok
      BY <2>1, <1>4 DEF BinderPlace, DriverAt
    <3>3. dn[t].st = "alloc" <=> Binding(t)
      BY <2>1 DEF BinderPlace
    <3> QED BY <1>2, <1>4, <2>1, <3>1, <3>2, <3>3 DEF BinderPlace
  <2>3. DriverPlace(t)'
    <3>1. pc[t] \notin Locking(t) /\ label \notin Locking(t)
      BY <2>1 DEF DriverAt
    <3>2. dn'[t].locks = One(pc'[t] \in Locking(t)) + One(Stopping(t) /\ bind = Stopper(t))
      BY <1>2, <1>4, <2>1, <3>1 DEF DriverPlace, One
    <3>3. dn[t].st # "none"
      BY <2>1 DEF DriverPlace
    <3>4. pc'[t] \in Locking(t) \cup Early => InUse(t)'
      BY <1>2, <2>1, <3>1 DEF DriverAt, InUse
    <3> QED BY <1>2, <1>4, <1>7, <2>1, <3>2, <3>3, <3>4 DEF DriverPlace, DriverAt
  <2> QED BY <2>2, <2>3
<1> QED BY <1>5, <1>6, <1>7 DEF Place


LEMMA OneNode ==
    ASSUME TaskInvariant, NEW t \in Task, NEW label \in LabelsOf(t), GoTo(t, label),
           NEW node \in TaskNode, tn' = [tn EXCEPT ![t] = node], NodeAt(t, node, label),
           Alive(tn[t]), Alive(node), "none" \notin {label, pc[t]}, {label, pc[t]} \cap Calls = {},
           pc[t] # "dead", pc[t] \notin Before => label \notin Before,
           t \in Driver => DriverAt(t, label),
           UNCHANGED <<arg, keep, dn, mastVars, lockVars, queue, port, booted>>,
           result' \in [Proc -> BOOLEAN], root' \in {"none", "used", "freed"},
           sig' \in [Proc -> SUBSET Signals],
           \A p \in Proc : \A x \in {"C", "E"} : x \in sig'[p] <=> x \in sig[p],
           count' \in [Groups -> Nat], CounterExact',
           NEW P \in SUBSET Caller,
           \A p \in P : /\ p = Starter(t) /\ Starting(t) /\ ~ Queued(p)
                        /\ StartPlace(p)' /\ StopPlace(p)',
           \A p \in Caller \ P :
               result'[p] = result[p] /\ ("reply" \in sig'[p] => "reply" \in sig[p]),
           ToAnswer(t)' => ToAnswer(t) /\ P = {},
           t = hcd \/ result' # result => HCDPlace' /\ AppPlace', t # hcd => root' = root
    PROVE  TaskInvariant'
<1>1. /\ hcd \in Task /\ hub \in Task /\ app \in Proc /\ master \in Proc /\ Task \subseteq Proc /\ Caller \subseteq Proc
      /\ hub \in Driver /\ hub # hcd /\ hub \notin Class /\ Class \subseteq Task /\ Driver \subseteq Task /\ hcd \notin Driver
      /\ (t = hcd \/ t \in Driver) /\ Class \subseteq Driver
  BY Names DEF Caller, Proc
<1>2. /\ TypeOK /\ Starter(t) \in Caller /\ t \in Proc
  BY TaskFacts
<1>3. /\ pc' \in [Proc -> Labels] /\ pc'[t] = label /\ pc'[app] \in AppLabels /\ pc'[app] = pc[app]
      /\ pc'[master] \in {"wait", "handle", "dead"} /\ pc'[master] = pc[master]
      /\ \A u \in Task : pc'[u] \in LabelsOf(u) /\ (u # t => pc'[u] = pc[u])
  BY <1>2, TaskPc
<1>4. UNCHANGED <<kept, mask, mode, stopping, bind, fdriver>>
  BY DEF mastVars, lockVars
<1>5. tn' \in [Task -> TaskNode] /\ tn'[t] = node /\ \A u \in Task : u # t => tn'[u] = tn[u]
  BY <1>2 DEF TypeOK
<1>6. TypeOK'
  BY <1>2, <1>3, <1>4, <1>5 DEF TypeOK
<1>7. Place(t)'
  <2>1. result'[Starter(t)] = result[Starter(t)] \/ Starting(t)
    BY <1>2
  <2>2. ToAnswer(t)' => /\ ToAnswer(t) /\ result'[Starter(t)] = result[Starter(t)]
                        /\ ("reply" \in sig'[Starter(t)] => "reply" \in sig[Starter(t)])
    BY <1>2
  <2>3. t \in Driver => DriverAt(t, label) /\ ("C" \in sig'[t] => "C" \in sig[t])
    BY <1>2
  <2> QED BY <1>4, <2>1, <2>2, <2>3, OneNodePlace
<1>8. Stands(t)
  BY <1>3, <1>5 DEF Stands, Alive, NoNode
<1>9. /\ \A u \in Task : Over(u)' <=> Over(u)
      /\ \A d \in Driver : InUse(d)' <=> InUse(d)
  BY <1>3, <1>5 DEF Over, InUse, Alive
<1>10. HUBPlace'
  <2>1. HUBPlace /\ "E" \in Signals
    BY DEF TaskInvariant, Signals
  <2>2. CASE t # hub
    BY <1>1, <1>3, <1>9, <2>1, <2>2, HUBKeeps
  <2>3. CASE t = hub
    <3>1. /\ pc[hub] \notin HUBMain /\ label \notin HUBMain
          /\ pc[hub] \in Late => label \in Late
      BY <1>1, <2>3 DEF DriverAt
    <3>2. {"bind", "stopping", "parked"} \cup Binds \subseteq HUBMain
      BY DEF HUBMain
    <3>3. \A d \in Class : Over(d)' /\ ~ InUse(d)'
      BY <1>1, <1>9, <2>1, <3>1 DEF HUBPlace
    <3>4. dn'[hub].ok \/ "E" \in sig'[app] => label \in Late
      BY <1>1, <2>1, <3>1 DEF HUBPlace
    <3> QED BY <1>3, <2>3, <3>1, <3>2, <3>3, <3>4 DEF HUBPlace
  <2> QED BY <2>2, <2>3
<1>11. HCDPlace' /\ AppPlace'
  <2>1. CASE t = hcd \/ result' # result
    BY <2>1
  <2>2. CASE t # hcd /\ result' = result
    <3>1. HCDPlace'
      BY <1>1, <1>3, <1>9, <2>2, HCDKeeps DEF TaskInvariant
    <3>2. AppPlace'
      BY <1>1, <1>3, <1>5, <1>9, <2>2, AppKeeps DEF TaskInvariant
    <3> QED BY <3>1, <3>2
  <2> QED BY <2>1, <2>2
<1>12. MasterPlace'
  BY <1>1, <1>3, <1>4, MasterKeeps DEF TaskInvariant
<1>13. /\ \A u \in Task : u # t => tn'[u] = tn[u] /\ (u \in Driver => dn'[u] = dn[u])
       /\ \A u \in Task : u # t /\ "C" \in sig'[u] => "C" \in sig[u]
  BY <1>1, <1>5
<1> QED BY <1>4, <1>6, <1>7, <1>8, <1>10, <1>11, <1>12, <1>13, OneTask


LEMMA Parents ==
    ASSUME NEW t \in Task
    PROVE  /\ {NoParent, Lost, Awaited, <<Starter(t), "reply">>} \subseteq ParentNames
           /\ <<Starter(t), "reply">> \notin {NoParent, Lost, Awaited}
           /\ NoParent # Lost /\ NoParent # Awaited /\ Lost # Awaited
<1>1. Starter(t) \in Proc /\ master \in Proc
  BY Names, Callers DEF Proc
<1> QED BY <1>1 DEF NoParent, Lost, Awaited, ParentNames

LEMMA AppOfHCD ==
    ASSUME AppPlace, pc'[app] = pc[app], arg'[app] = arg[app], result[app] => result'[app],
           ~ Over(hcd), pc[hcd] # "none", pc[hcd] \in {"forget", "main"} => pc'[hcd] \in {"forget", "main"},
           dn'[hub].st = dn[hub].st
    PROVE  AppPlace'
BY DEF AppPlace

LEMMA SamePlaces ==
    ASSUME TypeOK, NEW t \in Task, NEW label \in LabelsOf(t), GoTo(t, label),
           NEW node, tn' = [tn EXCEPT ![t] = node]
    PROVE  /\ pc'[t] = label /\ tn'[t] = node /\ pc'[app] = pc[app]
           /\ \A u \in Task : u # t => /\ pc'[u] = pc[u] /\ tn'[u] = tn[u]
                                       /\ (Over(u)' <=> Over(u)) /\ SameCounted(u)
<1>1. tn \in [Task -> TaskNode]
  BY DEF TypeOK
<1>2. tn'[t] = node /\ \A u \in Task : u # t => tn'[u] = tn[u]
  BY <1>1
<1>3. pc'[t] = label /\ pc'[app] = pc[app] /\ \A u \in Task : u # t => pc'[u] = pc[u]
  BY TaskPc
<1> QED BY <1>2, <1>3 DEF Over, SameCounted, Up, Alive

LEMMA EntryKeeps == ASSUME TaskInvariant, NEW t \in Task, Entry(t) PROVE TaskInvariant'
<1> DEFINE label == IF t = hcd THEN "init" ELSE "announce"
           node == [tn[t] EXCEPT !.st = "starting", !.parent = <<Starter(t), "reply">>,
                                 !.locks = IF t = hcd THEN @ + 1 ELSE @]
<1>1. /\ TypeOK /\ NodePlace(t) /\ LockPlace(t) /\ tn[t] \in TaskNode /\ Starter(t) \in Caller
      /\ HCDPlace /\ AppPlace
  BY TaskFacts DEF TaskInvariant
<1>2. /\ pc[t] = "entry" /\ GoTo(t, label) /\ tn' = [tn EXCEPT ![t] = node] /\ count' = EntryCounted(t)
      /\ UNCHANGED <<callVars, dn, mastVars, lockVars, queue, sig, port, root, booted>>
  BY DEF Entry
<1>3. /\ node.st = "starting" /\ node.parent = <<Starter(t), "reply">> /\ node.listed = tn[t].listed
      /\ node.adr = tn[t].adr /\ node.locks = IF t = hcd THEN tn[t].locks + 1 ELSE tn[t].locks
  BY <1>1 DEF TaskNode
<1>4. node \in TaskNode
  <2>1. <<Starter(t), "reply">> \in ParentNames
    BY Parents
  <2>2. PICK locks \in Nat : locks = IF t = hcd THEN tn[t].locks + 1 ELSE tn[t].locks
    BY <1>1, TaskNodes
  <2>3. node = [tn[t] EXCEPT !.st = "starting", !.parent = <<Starter(t), "reply">>, !.locks = locks]
    BY <2>2
  <2> QED BY <1>1, <2>1, <2>3, NodeUpdates DEF States
<1> HIDE DEF node
<1>5. label \in LabelsOf(t) /\ "none" \notin {label, pc[t]} /\ {label, pc[t]} \cap Calls = {}
      /\ pc[t] \in Before /\ label \in Starts /\ label \notin {"none", "entry", "dead"} \cup Ends
  BY <1>2 DEF LabelsOf, Starts, Calls, Binds, Before, Ends
<1>6. tn[t].st = "unset" /\ Alive(tn[t]) /\ Alive(node)
  BY <1>1, <1>2, <1>3 DEF NodePlace, StatesAt, Alive, Starts, Ends
<1>7. NodeAt(t, node, label)
  <2>1. ~ tn[t].adr
    BY <1>1, <1>2, TaskNodes DEF NodePlace
  <2>2. node.locks - tn[t].locks = One(t = hcd)
    BY <1>1, <1>3, <1>4, TaskNodes DEF One
  <2> QED BY <1>2, <1>3, <1>5, <2>1, <2>2 DEF NodeAt, StatesAt, One
<1>8. t \in Driver => DriverAt(t, label)
  BY <1>2, Names DEF DriverAt, Late, Early, HUBMain, Binds, Locking
<1>9. /\ pc'[t] = label /\ tn'[t] = node /\ pc'[app] = pc[app]
      /\ \A u \in Task : u # t => /\ pc'[u] = pc[u] /\ tn'[u] = tn[u]
                                  /\ (Over(u)' <=> Over(u)) /\ SameCounted(u)
  BY <1>1, <1>2, <1>5, SamePlaces
<1>10. CounterExact' /\ count' \in [Groups -> Nat]
  <2>1. Alive(tn'[t]) <=> Alive(tn[t])
    BY <1>6, <1>9
  <2>2. ~ Up(t) /\ Up(t)'
    BY <1>2, <1>5, <1>9 DEF Up
  <2> QED BY <1>1, <1>2, <1>9, <2>1, <2>2, CountAdds DEF EntryCounted, TaskInvariant
<1>11. ToAnswer(t)
  BY <1>2 DEF ToAnswer
<1>12. t = hcd => HCDPlace' /\ AppPlace'
  <2> SUFFICES ASSUME t = hcd PROVE HCDPlace' /\ AppPlace'
    OBVIOUS
  <2>1. hub \in Task /\ hub # hcd
    BY Names
  <2>2. (InUse(hub)' <=> InUse(hub)) /\ arg' = arg /\ result' = result
    BY <1>2 DEF InUse, callVars
  <2>3. HCDPlace'
    BY <1>1, <1>2, <1>9, <2>1, <2>2 DEF HCDPlace
  <2>4. ~ Over(hcd)
    BY <1>2 DEF Over
  <2>5. AppPlace'
    BY <1>1, <1>2, <1>9, <2>2, <2>4, AppOfHCD
  <2> QED BY <2>3, <2>5
<1>13. /\ result' = result /\ result' \in [Proc -> BOOLEAN] /\ root' \in {"none", "used", "freed"} /\ root' = root
       /\ sig' \in [Proc -> SUBSET Signals] /\ sig' = sig
       /\ UNCHANGED <<arg, keep, dn, mastVars, lockVars, queue, port, booted>>
  BY <1>1, <1>2 DEF TypeOK, callVars
<1>14. {} \in SUBSET Caller
  OBVIOUS
<1> HIDE DEF label
<1> QED BY <1>2, <1>4, <1>5, <1>6, <1>7, <1>8, <1>10, <1>11, <1>12, <1>13, <1>14, OneNode


LEMMA InitHCDKeeps == ASSUME TaskInvariant, InitHCD PROVE TaskInvariant'
<1> DEFINE node == [tn[hcd] EXCEPT !.adr = TRUE]
<1>1. /\ hcd \in Task /\ hub \in Task /\ hub # hcd /\ hcd \notin Driver /\ Starter(hcd) = app
  BY Names, Callers
<1>2. /\ TypeOK /\ NodePlace(hcd) /\ tn[hcd] \in TaskNode /\ HCDPlace /\ AppPlace
  BY <1>1, TaskFacts DEF TaskInvariant
<1>3. /\ pc[hcd] = "init" /\ tn' = [tn EXCEPT ![hcd] = node]
      /\ UNCHANGED <<callVars, dn, count, mastVars, lockVars, queue, sig, port, booted>>
  BY DEF InitHCD
<1>4. PICK label \in {"announce", "initFailed"} : GoTo(hcd, label) /\ root' \in {"none", "used"}
  BY DEF InitHCD
<1>5. /\ node.st = tn[hcd].st /\ node.parent = tn[hcd].parent /\ node.listed = tn[hcd].listed
      /\ node.adr = TRUE /\ node.locks = tn[hcd].locks /\ node \in TaskNode
  <2>1. node \in TaskNode
    BY <1>2, NodeUpdates
  <2> QED BY <1>2, <2>1 DEF TaskNode
<1> HIDE DEF node
<1>6. /\ label \in LabelsOf(hcd) /\ "none" \notin {label, pc[hcd]} /\ {label, pc[hcd]} \cap Calls = {}
      /\ pc[hcd] \in Starts /\ label \in Starts /\ label \notin {"none", "entry", "dead"} \cup Ends
      /\ StatesAt(label) = {"starting"} /\ StatesAt(pc[hcd]) = {"starting"} /\ pc[hcd] \in Before
  BY <1>3 DEF LabelsOf, Starts, Calls, Binds, Before, Ends, StatesAt
<1>7. tn[hcd].st = "starting" /\ Alive(tn[hcd]) /\ Alive(node) /\ tn[hcd].parent = <<app, "reply">>
  BY <1>1, <1>2, <1>5, <1>6 DEF NodePlace, Alive
<1>8. NodeAt(hcd, node, label)
  <2>1. node.locks - tn[hcd].locks = 0
    BY <1>2, <1>5, TaskNodes
  <2> QED BY <1>1, <1>3, <1>5, <1>6, <1>7, <2>1 DEF NodeAt, One
<1>9. /\ pc'[hcd] = label /\ tn'[hcd] = node /\ pc'[app] = pc[app]
      /\ \A u \in Task : u # hcd => /\ pc'[u] = pc[u] /\ tn'[u] = tn[u]
                                    /\ (Over(u)' <=> Over(u)) /\ SameCounted(u)
  BY <1>1, <1>2, <1>3, <1>4, <1>6, SamePlaces
<1>10. CounterExact'
  <2>1. SameCounted(hcd)
    BY <1>3, <1>6, <1>7, <1>9 DEF SameCounted, Up
  <2> QED BY <1>3, <1>9, <2>1, CountKeeps DEF TaskInvariant
<1>11. ToAnswer(hcd) /\ Starting(hcd) /\ ~ result[app]
  BY <1>1, <1>2, <1>6 DEF ToAnswer, NodePlace
<1>12. HCDPlace' /\ AppPlace'
  <2>1. (InUse(hub)' <=> InUse(hub)) /\ arg' = arg /\ result' = result
    BY <1>3 DEF InUse, callVars
  <2>2. HCDPlace'
    BY <1>1, <1>2, <1>3, <1>4, <1>9, <1>11, <2>1 DEF HCDPlace, Starting
  <2>3. ~ Over(hcd)
    BY <1>3 DEF Over
  <2>4. AppPlace'
    BY <1>2, <1>3, <1>9, <2>1, <2>3, AppOfHCD
  <2> QED BY <2>2, <2>4
<1>13. /\ result' = result /\ result' \in [Proc -> BOOLEAN] /\ root' \in {"none", "used", "freed"}
       /\ sig' \in [Proc -> SUBSET Signals] /\ sig' = sig /\ count' \in [Groups -> Nat]
       /\ UNCHANGED <<arg, keep, dn, mastVars, lockVars, queue, port, booted>>
  BY <1>2, <1>3, <1>4 DEF TypeOK, callVars
<1>14. {} \in SUBSET Caller
  OBVIOUS
<1> QED BY <1>1, <1>3, <1>4, <1>5, <1>6, <1>7, <1>8, <1>10, <1>11, <1>12, <1>13, <1>14, OneNode

LEMMA InitFailedKeeps == ASSUME TaskInvariant, InitFailed PROVE TaskInvariant'
<1> DEFINE node == [tn[hcd] EXCEPT !.adr = FALSE, !.st = "stopping"]
<1>1. /\ hcd \in Task /\ hub \in Task /\ hub # hcd /\ hcd \notin Driver /\ Starter(hcd) = app
  BY Names, Callers
<1>2. /\ TypeOK /\ NodePlace(hcd) /\ tn[hcd] \in TaskNode /\ HCDPlace /\ AppPlace
  BY <1>1, TaskFacts DEF TaskInvariant
<1>3. /\ pc[hcd] = "initFailed" /\ tn' = [tn EXCEPT ![hcd] = node] /\ GoTo(hcd, "freeRoot")
      /\ UNCHANGED <<callVars, dn, count, mastVars, lockVars, queue, sig, port, root, booted>>
  BY DEF InitFailed
<1>4. /\ node.st = "stopping" /\ node.parent = tn[hcd].parent /\ node.listed = tn[hcd].listed
      /\ node.adr = FALSE /\ node.locks = tn[hcd].locks /\ node \in TaskNode
  <2>1. node \in TaskNode
    BY <1>2, NodeUpdates DEF States
  <2> QED BY <1>2, <2>1 DEF TaskNode
<1> HIDE DEF node
<1>5. /\ "freeRoot" \in LabelsOf(hcd) /\ "none" \notin {"freeRoot", pc[hcd]} /\ {"freeRoot", pc[hcd]} \cap Calls = {}
      /\ pc[hcd] \in Starts /\ "freeRoot" \in Ends /\ "freeRoot" \notin Starts
      /\ StatesAt("freeRoot") = {"stopping"} /\ StatesAt(pc[hcd]) = {"starting"} /\ pc[hcd] \in Before
  BY <1>3 DEF LabelsOf, Starts, Calls, Binds, Before, Ends, StatesAt
<1>6. tn[hcd].st = "starting" /\ Alive(tn[hcd]) /\ Alive(node) /\ tn[hcd].parent = <<app, "reply">>
  BY <1>1, <1>2, <1>4, <1>5 DEF NodePlace, Alive
<1>7. NodeAt(hcd, node, "freeRoot")
  <2>1. node.locks - tn[hcd].locks = 0
    BY <1>2, <1>4, TaskNodes
  <2> QED BY <1>1, <1>3, <1>4, <1>5, <1>6, <2>1 DEF NodeAt, One
<1>8. /\ pc'[hcd] = "freeRoot" /\ tn'[hcd] = node /\ pc'[app] = pc[app]
      /\ \A u \in Task : u # hcd => /\ pc'[u] = pc[u] /\ tn'[u] = tn[u]
                                    /\ (Over(u)' <=> Over(u)) /\ SameCounted(u)
  BY <1>1, <1>2, <1>3, <1>5, SamePlaces
<1>9. CounterExact'
  <2>1. SameCounted(hcd)
    BY <1>3, <1>6, <1>8 DEF SameCounted, Up
  <2> QED BY <1>3, <1>8, <2>1, CountKeeps DEF TaskInvariant
<1>10. ToAnswer(hcd)
  BY <1>5 DEF ToAnswer
<1>11. HCDPlace' /\ AppPlace'
  <2>1. (InUse(hub)' <=> InUse(hub)) /\ arg' = arg /\ result' = result
    BY <1>3 DEF InUse, callVars
  <2>2. HCDPlace'
    BY <1>1, <1>2, <1>3, <1>8, <2>1 DEF HCDPlace
  <2>3. ~ Over(hcd)
    BY <1>3 DEF Over
  <2>4. AppPlace'
    BY <1>2, <1>3, <1>8, <2>1, <2>3, AppOfHCD
  <2> QED BY <2>2, <2>4
<1>12. /\ result' = result /\ result' \in [Proc -> BOOLEAN] /\ root' \in {"none", "used", "freed"}
       /\ sig' \in [Proc -> SUBSET Signals] /\ sig' = sig /\ count' \in [Groups -> Nat]
       /\ UNCHANGED <<arg, keep, dn, mastVars, lockVars, queue, port, booted>>
  BY <1>2, <1>3 DEF TypeOK, callVars
<1>13. {} \in SUBSET Caller
  OBVIOUS
<1> QED BY <1>1, <1>3, <1>4, <1>5, <1>6, <1>7, <1>9, <1>10, <1>11, <1>12, <1>13, OneNode

LEMMA ForgetKeeps == ASSUME TaskInvariant, NEW t \in Task, Forget(t) PROVE TaskInvariant'
<1> DEFINE label == IF t = hcd THEN "main" ELSE "lock"
           to    == IF tn[t].parent = Awaited THEN Lost ELSE NoParent
           node  == [tn[t] EXCEPT !.parent = to]
<1>1. /\ hcd \in Task /\ hub \in Task /\ hub # hcd /\ hcd \notin Driver
      /\ (t = hcd \/ t \in Driver)
  BY Names
<1>2. /\ TypeOK /\ NodePlace(t) /\ tn[t] \in TaskNode /\ HCDPlace /\ AppPlace
      /\ t \in Driver => DriverPlace(t)
  BY <1>1, TaskFacts DEF TaskInvariant
<1>3. /\ pc[t] = "forget" /\ tn' = [tn EXCEPT ![t] = node] /\ GoTo(t, label)
      /\ UNCHANGED <<callVars, dn, count, mastVars, lockVars, queue, sig, port, root, booted>>
  BY DEF Forget
<1>4. /\ node.st = tn[t].st /\ node.parent = to /\ node.listed = tn[t].listed
      /\ node.adr = tn[t].adr /\ node.locks = tn[t].locks /\ node \in TaskNode /\ to \in {Lost, NoParent}
  <2>1. to \in {Lost, NoParent} /\ to \in ParentNames
    BY Parents
  <2> HIDE DEF to
  <2>2. node \in TaskNode
    BY <1>2, <2>1, NodeUpdates
  <2> QED BY <1>2, <2>1, <2>2 DEF TaskNode
<1> HIDE DEF node, to
<1>5. /\ label \in LabelsOf(t) /\ "none" \notin {label, pc[t]} /\ {label, pc[t]} \cap Calls = {}
      /\ label \notin Starts \cup Ends \cup {"none", "entry", "dead"}
      /\ StatesAt(label) = {"running"} /\ StatesAt(pc[t]) = {"running"} /\ label \notin Before
  BY <1>3 DEF LabelsOf, Starts, Calls, Binds, Before, Ends, StatesAt, Early
<1>6. tn[t].st = "running" /\ Alive(tn[t]) /\ Alive(node)
  BY <1>2, <1>4, <1>5 DEF NodePlace, Alive
<1>7. NodeAt(t, node, label)
  <2>1. node.locks - tn[t].locks = 0
    BY <1>2, <1>4, TaskNodes
  <2> QED BY <1>3, <1>4, <1>5, <1>6, <2>1, Parents DEF NodeAt, One
<1>8. t \in Driver => DriverAt(t, label)
  BY <1>1, <1>2, <1>3 DEF DriverAt, DriverPlace, Late, Early, HUBMain, Binds, Locking
<1>9. /\ pc'[t] = label /\ tn'[t] = node /\ pc'[app] = pc[app]
      /\ \A u \in Task : u # t => /\ pc'[u] = pc[u] /\ tn'[u] = tn[u]
                                  /\ (Over(u)' <=> Over(u)) /\ SameCounted(u)
  BY <1>1, <1>2, <1>3, <1>5, SamePlaces
<1>10. CounterExact'
  <2>1. SameCounted(t)
    BY <1>3, <1>5, <1>6, <1>9 DEF SameCounted, Up
  <2> QED BY <1>3, <1>9, <2>1, CountKeeps DEF TaskInvariant
<1>11. ~ ToAnswer(t)'
  BY <1>5, <1>9 DEF ToAnswer
<1>12. t = hcd => HCDPlace' /\ AppPlace'
  <2> SUFFICES ASSUME t = hcd PROVE HCDPlace' /\ AppPlace'
    OBVIOUS
  <2>1. (InUse(hub)' <=> InUse(hub)) /\ arg' = arg /\ result' = result
    BY <1>3 DEF InUse, callVars
  <2>2. HCDPlace'
    BY <1>1, <1>2, <1>3, <1>9, <2>1 DEF HCDPlace
  <2>3. ~ Over(hcd)
    BY <1>3 DEF Over
  <2>4. AppPlace'
    BY <1>2, <1>3, <1>9, <2>1, <2>3, AppOfHCD
  <2> QED BY <2>2, <2>4
<1>13. /\ result' = result /\ result' \in [Proc -> BOOLEAN] /\ root' \in {"none", "used", "freed"} /\ root' = root
       /\ sig' \in [Proc -> SUBSET Signals] /\ sig' = sig /\ count' \in [Groups -> Nat]
       /\ UNCHANGED <<arg, keep, dn, mastVars, lockVars, queue, port, booted>>
  BY <1>2, <1>3 DEF TypeOK, callVars
<1>14. {} \in SUBSET Caller /\ pc[t] # "dead"
  BY <1>3
<1> HIDE DEF label
<1> QED BY <1>1, <1>3, <1>4, <1>5, <1>6, <1>7, <1>8, <1>10, <1>11, <1>12, <1>13, <1>14, OneNode


LEMMA EndKeeps == ASSUME TaskInvariant, NEW t \in Task, End(t) PROVE TaskInvariant'
<1> DEFINE label == IF t = hcd THEN "freeRoot" ELSE "finish"
           node  == [tn[t] EXCEPT !.st = "stopping", !.adr = FALSE]
<1>1. /\ hcd \in Task /\ hub \in Task /\ hub # hcd /\ hcd \notin Driver
      /\ (t = hcd \/ t \in Driver)
  BY Names
<1>2. /\ TypeOK /\ NodePlace(t) /\ tn[t] \in TaskNode /\ HCDPlace /\ AppPlace
  BY <1>1, TaskFacts DEF TaskInvariant
<1>3. /\ pc[t] = "end" /\ tn' = [tn EXCEPT ![t] = node] /\ GoTo(t, label)
      /\ UNCHANGED <<callVars, dn, count, mastVars, lockVars, queue, sig, port, root, booted>>
  BY DEF End
<1>4. /\ node.st = "stopping" /\ node.parent = tn[t].parent /\ node.listed = tn[t].listed
      /\ node.adr = FALSE /\ node.locks = tn[t].locks /\ node \in TaskNode
  <2>1. node \in TaskNode
    BY <1>2, NodeUpdates DEF States
  <2> QED BY <1>2, <2>1 DEF TaskNode
<1> HIDE DEF node
<1>5. /\ label \in LabelsOf(t) /\ "none" \notin {label, pc[t]} /\ {label, pc[t]} \cap Calls = {}
      /\ label \notin Starts \cup {"none", "entry", "dead", "forget"} /\ label \in Ends
      /\ pc[t] \notin Starts \cup Ends \cup {"forget", "dead"}
      /\ StatesAt(label) = {"stopping"} /\ StatesAt(pc[t]) = {"running"} /\ label \notin Before
  BY <1>3 DEF LabelsOf, Starts, Calls, Binds, Before, Ends, StatesAt
<1>6. /\ tn[t].st = "running" /\ Alive(tn[t]) /\ Alive(node)
      /\ tn[t].parent \in {NoParent, Lost, Awaited} /\ tn[t].parent # <<Starter(t), "reply">>
  BY <1>2, <1>4, <1>5 DEF NodePlace, Alive
<1>7. NodeAt(t, node, label)
  <2>1. node.locks - tn[t].locks = 0
    BY <1>2, <1>4, TaskNodes
  <2> QED BY <1>3, <1>4, <1>5, <1>6, <2>1 DEF NodeAt, One
<1>8. t \in Driver => DriverAt(t, label)
  BY <1>1, <1>3 DEF DriverAt, Late, Early, HUBMain, Binds, Locking
<1>9. /\ pc'[t] = label /\ tn'[t] = node /\ pc'[app] = pc[app]
      /\ \A u \in Task : u # t => /\ pc'[u] = pc[u] /\ tn'[u] = tn[u]
                                  /\ (Over(u)' <=> Over(u)) /\ SameCounted(u)
  BY <1>1, <1>2, <1>3, <1>5, SamePlaces
<1>10. CounterExact'
  <2>1. SameCounted(t)
    BY <1>3, <1>5, <1>6, <1>9 DEF SameCounted, Up
  <2> QED BY <1>3, <1>9, <2>1, CountKeeps DEF TaskInvariant
<1>11. ~ ToAnswer(t)'
  BY <1>4, <1>5, <1>6, <1>9 DEF ToAnswer
<1>12. t = hcd => HCDPlace' /\ AppPlace'
  <2> SUFFICES ASSUME t = hcd PROVE HCDPlace' /\ AppPlace'
    OBVIOUS
  <2>1. (InUse(hub)' <=> InUse(hub)) /\ arg' = arg /\ result' = result
    BY <1>3 DEF InUse, callVars
  <2>2. HCDPlace'
    BY <1>1, <1>2, <1>3, <1>9, <2>1 DEF HCDPlace
  <2>3. ~ Over(hcd)
    BY <1>3 DEF Over
  <2>4. AppPlace'
    BY <1>2, <1>3, <1>9, <2>1, <2>3, AppOfHCD
  <2> QED BY <2>2, <2>4
<1>13. /\ result' = result /\ result' \in [Proc -> BOOLEAN] /\ root' \in {"none", "used", "freed"} /\ root' = root
       /\ sig' \in [Proc -> SUBSET Signals] /\ sig' = sig /\ count' \in [Groups -> Nat]
       /\ UNCHANGED <<arg, keep, dn, mastVars, lockVars, queue, port, booted>>
  BY <1>2, <1>3 DEF TypeOK, callVars
<1>14. {} \in SUBSET Caller /\ pc[t] # "dead"
  BY <1>3
<1> HIDE DEF label
<1> QED BY <1>1, <1>3, <1>4, <1>5, <1>6, <1>7, <1>8, <1>10, <1>11, <1>12, <1>13, <1>14, OneNode

LEMMA AnnounceKeeps == ASSUME TaskInvariant, NEW t \in Task, Announce(t) PROVE TaskInvariant'
<1> DEFINE label == IF StopsOvertake THEN "forget" ELSE IF t = hcd THEN "main" ELSE "lock"
           to    == IF StopsOvertake THEN tn[t].parent ELSE NoParent
           node  == [tn[t] EXCEPT !.st = "running", !.adr = TRUE, !.parent = to]
           p     == Starter(t)
<1>1. /\ hcd \in Task /\ hub \in Task /\ hub # hcd /\ hcd \notin Driver /\ p \in Caller
      /\ (t = hcd \/ t \in Driver) /\ p \in Proc /\ (t # hcd => p = app \/ p = hub) /\ app # hub
      /\ (p = app => t = hcd \/ t = hub) /\ (p # app => t \in Class) /\ hcd \notin Class /\ app \in Proc
      /\ Starter(hcd) = app
  BY Names, Callers DEF Caller
<1>2. /\ TypeOK /\ NodePlace(t) /\ tn[t] \in TaskNode /\ HCDPlace /\ AppPlace
      /\ t \in Driver => DriverPlace(t) /\ BinderPlace(t)
      /\ StopPlace(p)
  BY <1>1, TaskFacts DEF TaskInvariant, Caller
<1>3. /\ pc[t] = "announce" /\ tn' = [tn EXCEPT ![t] = node] /\ GoTo(t, label)
      /\ sig' = With(sig, tn[t].parent[1], "reply") /\ result' = [result EXCEPT ![p] = TRUE]
      /\ UNCHANGED <<arg, keep, dn, count, mastVars, lockVars, queue, port, root, booted>>
  BY DEF Announce
<1>4. /\ tn[t].st = "starting" /\ tn[t].parent = <<p, "reply">> /\ tn[t].parent[1] = p
      /\ Starting(t) /\ ~ Queued(p) /\ pc[p] = "awaitStart" /\ arg[p] = t
  <2>1. "announce" \in Starts /\ ToAnswer(t) /\ StatesAt("announce") = {"starting"}
    BY <1>3 DEF Starts, ToAnswer, StatesAt
  <2> QED BY <1>2, <1>3, <2>1 DEF NodePlace, Starting
<1> HIDE DEF p
<1>5. /\ node.st = "running" /\ node.parent = to /\ node.listed = tn[t].listed
      /\ node.adr = TRUE /\ node.locks = tn[t].locks /\ node \in TaskNode
      /\ to = NoParent \/ (to = <<p, "reply">> /\ label = "forget")
  <2>1. to \in ParentNames /\ (to = NoParent \/ (to = <<p, "reply">> /\ label = "forget"))
    BY <1>4, Parents DEF p
  <2> HIDE DEF to
  <2>2. node \in TaskNode
    BY <1>2, <2>1, NodeUpdates DEF States
  <2> QED BY <1>2, <2>1, <2>2 DEF TaskNode
<1> HIDE DEF node, to
<1>6. /\ label \in LabelsOf(t) /\ "none" \notin {label, pc[t]} /\ {label, pc[t]} \cap Calls = {}
      /\ label \notin Starts \cup Ends \cup {"none", "entry", "dead"}
      /\ StatesAt(label) = {"running"} /\ label \notin Before
  BY <1>3 DEF LabelsOf, Starts, Calls, Binds, Before, Ends, StatesAt, Early
<1>7. Alive(tn[t]) /\ Alive(node)
  BY <1>4, <1>5 DEF Alive
<1>8. NodeAt(t, node, label)
  <2>1. node.locks - tn[t].locks = 0
    BY <1>2, <1>5, TaskNodes
  <2>2. NoParent # <<p, "reply">>
    BY Parents DEF p
  <2> QED BY <1>3, <1>5, <1>6, <2>1, <2>2 DEF NodeAt, One, p
<1>9. t \in Driver => DriverAt(t, label)
  <2> SUFFICES ASSUME t \in Driver PROVE DriverAt(t, label)
    OBVIOUS
  <2>1. InUse(t)
    BY <1>2, <1>4 DEF BinderPlace, Binding, Binds, InUse, p
  <2> QED BY <1>1, <1>3, <2>1 DEF DriverAt, Late, Early, HUBMain, Binds, Locking
<1>10. /\ pc'[t] = label /\ tn'[t] = node /\ pc'[app] = pc[app]
       /\ \A u \in Task : u # t => /\ pc'[u] = pc[u] /\ tn'[u] = tn[u]
                                   /\ (Over(u)' <=> Over(u)) /\ SameCounted(u)
  BY <1>1, <1>2, <1>3, <1>6, SamePlaces
<1>11. SameCounted(t) /\ CounterExact'
  <2>1. SameCounted(t)
    BY <1>3, <1>6, <1>7, <1>10 DEF SameCounted, Up
  <2> QED BY <1>3, <1>10, <2>1, CountKeeps DEF TaskInvariant
<1>12. ~ ToAnswer(t)'
  BY <1>6, <1>10 DEF ToAnswer
<1>13. /\ result' \in [Proc -> BOOLEAN] /\ result'[p] = TRUE /\ \A q \in Proc : q # p => result'[q] = result[q]
       /\ result[app] => result'[app]
  BY <1>1, <1>2, <1>3 DEF TypeOK
<1>14. /\ sig' \in [Proc -> SUBSET Signals]
       /\ \A q \in Proc : sig'[q] = IF q = p THEN sig[q] \cup {"reply"} ELSE sig[q]
  <2>1. "reply" \in Signals
    BY DEF Signals
  <2> QED BY <1>1, <1>2, <1>3, <1>4, <2>1, SigAdds
<1>15. pc'[p] = "awaitStart"
  <2>1. p # t
    BY <1>3, <1>4
  <2> QED BY <1>1, <1>4, <1>10, <2>1 DEF Caller
<1>16. StartPlace(p)' /\ StopPlace(p)'
  <2>1. bind' # p /\ arg'[p] = t /\ ~ Queued(p)'
    BY <1>2, <1>3, <1>4 DEF StopPlace, lockVars, Queued
  <2>2. pc'[t] \notin {"none", "entry"} \cup Starts
    BY <1>6, <1>10
  <2> QED BY <1>13, <1>15, <2>1, <2>2 DEF StartPlace, StopPlace, p
<1>17. \A q \in {p} : q = Starter(t) /\ Starting(t) /\ ~ Queued(q) /\ StartPlace(q)' /\ StopPlace(q)'
  BY <1>4, <1>16 DEF p
<1>18. /\ {p} \in SUBSET Caller
       /\ \A q \in Caller \ {p} : result'[q] = result[q] /\ ("reply" \in sig'[q] => "reply" \in sig[q])
       /\ \A q \in Proc : \A x \in {"C", "E"} : x \in sig'[q] <=> x \in sig[q]
  <2>1. Caller \subseteq Proc
    BY Names DEF Caller
  <2> QED BY <1>1, <1>13, <1>14, <2>1
<1>19. HCDPlace' /\ AppPlace'
  <2>1. (InUse(hub)' <=> InUse(hub)) /\ arg' = arg
    BY <1>3 DEF InUse
  <2>2. hcd \in Proc /\ ("C" \in sig'[hcd] => "C" \in sig[hcd])
    BY <1>18, Names
  <2>3. CASE t = hcd
    <3>1. pc'[hcd] \in {"forget", "main"}
      BY <1>10, <2>3
    <3>2. HCDPlace'
      BY <1>2, <1>10, <2>2, <3>1 DEF HCDPlace
    <3>3. ~ Over(hcd)
      BY <1>3, <2>3 DEF Over
    <3> QED BY <1>2, <1>3, <1>10, <1>13, <2>1, <2>3, <3>1, <3>2, <3>3, AppOfHCD
  <2>4. CASE t # hcd
    <3>1. pc'[hcd] = pc[hcd] /\ tn'[hcd] = tn[hcd] /\ (Over(hcd)' <=> Over(hcd))
      BY <1>1, <1>10, <2>4
    <3>2. AppPlace'
      BY <1>2, <1>3, <1>10, <1>13, <2>1, <3>1, AppKeeps
    <3>3. Over(hub)' <=> Over(hub)
      <4>1. CASE t # hub
        BY <1>1, <1>10, <4>1
      <4>2. CASE t = hub
        BY <1>3, <1>6, <1>10, <4>2 DEF Over
      <4> QED BY <4>1, <4>2
    <3>4. result'[app] = result[app] \/ (pc[app] = "awaitStart" /\ arg[app] = hub)
      BY <1>1, <1>4, <1>13, <2>4
    <3>5. "awaitStart" \notin Gave
      BY DEF Gave
    <3>6. HCDPlace'
      BY <1>1, <1>2, <1>3, <1>10, <2>1, <2>2, <3>1, <3>3, <3>4, <3>5 DEF HCDPlace
    <3> QED BY <3>2, <3>6
  <2> QED BY <2>3, <2>4
<1>20. root' \in {"none", "used", "freed"} /\ root' = root /\ count' \in [Groups -> Nat] /\ pc[t] # "dead"
  BY <1>2, <1>3 DEF TypeOK
<1> HIDE DEF label
<1>21. PICK P \in SUBSET Caller : P = {p}
  BY <1>18
<1>22. /\ \A q \in P : q = Starter(t) /\ Starting(t) /\ ~ Queued(q) /\ StartPlace(q)' /\ StopPlace(q)'
       /\ \A q \in Caller \ P : result'[q] = result[q] /\ ("reply" \in sig'[q] => "reply" \in sig[q])
  BY <1>17, <1>18, <1>21
<1>23. /\ ToAnswer(t)' => ToAnswer(t) /\ P = {}
       /\ pc[t] \notin Before => label \notin Before
       /\ t = hcd \/ result' # result => HCDPlace' /\ AppPlace'
       /\ t # hcd => root' = root
  BY <1>6, <1>12, <1>19, <1>20
<1>24. UNCHANGED <<arg, keep, dn, mastVars, lockVars, queue, port, booted>>
  BY <1>3
<1>25. GoTo(t, label) /\ tn' = [tn EXCEPT ![t] = node]
  BY <1>3
<1>26. result' \in [Proc -> BOOLEAN] /\ sig' \in [Proc -> SUBSET Signals]
  BY <1>13, <1>14
<1>27. \A q \in Proc : \A x \in {"C", "E"} : x \in sig'[q] <=> x \in sig[q]
  BY <1>18
<1> QED BY <1>5, <1>6, <1>7, <1>8, <1>9, <1>11, <1>20, <1>22, <1>23, <1>24, <1>25, <1>26, <1>27, OneNode


LEMMA FinishSignals ==
    ASSUME TaskInvariant, NEW t \in Task, Finish(t)
    PROVE  /\ sig' \in [Proc -> SUBSET Signals]
           /\ \A q \in Proc : \A x \in {"C", "E"} : x \in sig'[q] <=> x \in sig[q]
           /\ \A q \in Proc : "reply" \in sig'[q] =>
                  "reply" \in sig[q] \/ (q = app /\ t = hcd /\ tn[t].parent = <<app, "reply">>)
<1> DEFINE to == tn[t].parent
           s  == IF to \in {NoParent, Lost} THEN sig ELSE With(sig, to[1], to[2])
<1>1. /\ TypeOK /\ NodePlace(t) /\ pc[t] = "finish" /\ sig' = With(s, master, "D")
      /\ sig \in [Proc -> SUBSET Signals] /\ master \in Proc /\ app \in Proc
  BY TaskFacts, Names DEF Finish, TypeOK
<1>2. {"D", "reply", "ended"} \subseteq Signals /\ "finish" \notin Starts \cup {"forget"}
  BY DEF Signals, Starts
<1>3. to \in {NoParent, Lost, Awaited, <<Starter(t), "reply">>}
      /\ (to = <<Starter(t), "reply">> => t = hcd /\ Starter(t) = app)
  BY <1>1, <1>2, Callers DEF NodePlace
<1> HIDE DEF to, s
<1>4. /\ s \in [Proc -> SUBSET Signals]
      /\ \A q \in Proc : \A x \in {"C", "E"} : x \in s[q] <=> x \in sig[q]
      /\ \A q \in Proc : "reply" \in s[q] =>
             "reply" \in sig[q] \/ (q = app /\ t = hcd /\ to = <<app, "reply">>)
  <2>1. CASE to \in {NoParent, Lost}
    BY <1>1, <2>1 DEF s
  <2>2. CASE to = Awaited /\ to \notin {NoParent, Lost}
    <3>1. s = With(sig, master, "ended")
      BY <2>2 DEF Awaited, s
    <3>2. /\ s \in [Proc -> SUBSET Signals]
          /\ \A q \in Proc : s[q] = IF q = master THEN sig[q] \cup {"ended"} ELSE sig[q]
      BY <1>1, <1>2, <3>1, Names DEF With
    <3> QED BY <3>2
  <2>3. CASE to = <<app, "reply">> /\ t = hcd /\ to \notin {NoParent, Lost}
    <3>1. s = With(sig, app, "reply")
      BY <2>3 DEF s
    <3>2. /\ s \in [Proc -> SUBSET Signals]
          /\ \A q \in Proc : s[q] = IF q = app THEN sig[q] \cup {"reply"} ELSE sig[q]
      BY <1>1, <1>2, <3>1, Names DEF With
    <3> QED BY <2>3, <3>2
  <2> QED BY <1>3, <2>1, <2>2, <2>3
<1>5. /\ sig' \in [Proc -> SUBSET Signals]
      /\ \A q \in Proc : sig'[q] = IF q = master THEN s[q] \cup {"D"} ELSE s[q]
  BY <1>1, <1>2, <1>4, Names DEF With
<1> QED BY <1>4, <1>5 DEF to

LEMMA FinishKeeps == ASSUME TaskInvariant, NEW t \in Task, Finish(t) PROVE TaskInvariant'
<1> DEFINE node == [tn[t] EXCEPT !.st = "stopped", !.locks = IF t = hcd THEN @ - 1 ELSE @]
           answers == t = hcd /\ tn[t].parent = <<app, "reply">>
<1>1. /\ hcd \in Task /\ hub \in Task /\ hub # hcd /\ hcd \notin Driver /\ Starter(hcd) = app
      /\ (t = hcd \/ t \in Driver) /\ hcd \in Proc /\ app \in Caller /\ Caller \subseteq Proc
  BY Names, Callers DEF Caller
<1>2. /\ TypeOK /\ NodePlace(t) /\ LockPlace(t) /\ tn[t] \in TaskNode /\ HCDPlace /\ AppPlace /\ StopPlace(app)
      /\ kept[t] \in Nat
  BY <1>1, TaskFacts DEF TaskInvariant
<1>3. /\ pc[t] = "finish" /\ tn' = [tn EXCEPT ![t] = node] /\ GoTo(t, "dead")
      /\ count' = [count EXCEPT ![Group(t)] = @ - 1]
      /\ UNCHANGED <<callVars, dn, mastVars, lockVars, queue, port, root, booted>>
  BY DEF Finish
<1>4. /\ "dead" \in LabelsOf(t) /\ "none" \notin {"dead", pc[t]} /\ {"dead", pc[t]} \cap Calls = {}
      /\ "dead" \notin Starts \cup Ends /\ pc[t] \in Ends /\ pc[t] \notin Starts \cup {"forget"}
      /\ StatesAt("dead") = {"stopped", "freed"} /\ StatesAt(pc[t]) = {"stopping"} /\ "dead" \notin Before
  BY <1>3 DEF LabelsOf, Starts, Calls, Binds, Before, Ends, StatesAt
<1>5. tn[t].st = "stopping" /\ Alive(tn[t]) /\ ~ tn[t].adr
  BY <1>2, <1>4 DEF NodePlace, Alive
<1>6. t = hcd => tn[t].locks > 0
  <2> SUFFICES ASSUME t = hcd PROVE tn[t].locks > 0
    OBVIOUS
  <2>1. tn[t].locks = LockSum(t)
    BY <1>2, <1>5 DEF LockPlace
  <2> QED BY <1>2, <1>3, <2>1 DEF LockSum, One
<1>7. /\ node.st = "stopped" /\ node.parent = tn[t].parent /\ node.listed = tn[t].listed
      /\ node.adr = tn[t].adr /\ node.locks = IF t = hcd THEN tn[t].locks - 1 ELSE tn[t].locks
      /\ node \in TaskNode
  <2>1. PICK locks \in Nat : locks = IF t = hcd THEN tn[t].locks - 1 ELSE tn[t].locks
    BY <1>2, <1>6, TaskNodes
  <2>2. node = [tn[t] EXCEPT !.st = "stopped", !.locks = locks]
    BY <2>1
  <2>3. node \in TaskNode
    BY <1>2, <2>2, NodeUpdates DEF States
  <2> QED BY <1>2, <2>1, <2>2, <2>3 DEF TaskNode
<1> HIDE DEF node
<1>8. Alive(node)
  BY <1>7 DEF Alive
<1>9. NodeAt(t, node, "dead")
  <2>1. node.locks - tn[t].locks = 0 - One(t = hcd)
    BY <1>2, <1>6, <1>7, TaskNodes DEF One
  <2> QED BY <1>2, <1>3, <1>4, <1>5, <1>7, <2>1 DEF NodeAt, NodePlace, One
<1>10. t \in Driver => DriverAt(t, "dead")
  BY <1>1, <1>3 DEF DriverAt, Late, Early, HUBMain, Binds, Locking
<1>11. /\ pc'[t] = "dead" /\ tn'[t] = node /\ pc'[app] = pc[app]
       /\ \A u \in Task : u # t => /\ pc'[u] = pc[u] /\ tn'[u] = tn[u]
                                   /\ (Over(u)' <=> Over(u)) /\ SameCounted(u)
  BY <1>1, <1>2, <1>3, <1>4, SamePlaces
<1>12. CounterExact' /\ count' \in [Groups -> Nat]
  <2>1. Alive(tn'[t]) <=> Alive(tn[t])
    BY <1>5, <1>8, <1>11
  <2>2. Up(t) /\ ~ Up(t)'
    BY <1>3, <1>11 DEF Up
  <2> QED BY <1>2, <1>3, <1>11, <2>1, <2>2, CountEnds DEF TaskInvariant
<1>13. ~ ToAnswer(t)'
  BY <1>4, <1>11 DEF ToAnswer
<1>14. /\ sig' \in [Proc -> SUBSET Signals]
       /\ \A q \in Proc : \A x \in {"C", "E"} : x \in sig'[q] <=> x \in sig[q]
       /\ \A q \in Proc : "reply" \in sig'[q] => "reply" \in sig[q] \/ (q = app /\ answers)
  BY FinishSignals
<1>15. t = hcd => HCDPlace' /\ AppPlace'
  <2> SUFFICES ASSUME t = hcd PROVE HCDPlace' /\ AppPlace'
    OBVIOUS
  <2>1. (InUse(hub)' <=> InUse(hub)) /\ arg' = arg /\ result' = result
    BY <1>3 DEF InUse, callVars
  <2>2. HCDPlace'
    BY <1>1, <1>2, <1>3, <1>11, <1>14, <2>1 DEF HCDPlace
  <2>3. ~ Over(hcd)
    BY <1>3 DEF Over
  <2>4. AppPlace'
    BY <1>2, <1>3, <1>11, <2>1, <2>3, AppOfHCD
  <2> QED BY <2>2, <2>4
<1>16. /\ result' = result /\ result' \in [Proc -> BOOLEAN] /\ root' \in {"none", "used", "freed"} /\ root' = root
       /\ UNCHANGED <<arg, keep, dn, mastVars, lockVars, queue, port, booted>> /\ pc[t] # "dead"
  BY <1>2, <1>3 DEF TypeOK, callVars
<1>17. answers => /\ Starting(hcd) /\ ~ Queued(app) /\ ~ result[app]
                  /\ StartPlace(app)' /\ StopPlace(app)'
  <2> SUFFICES ASSUME answers
      PROVE Starting(hcd) /\ ~ Queued(app) /\ ~ result[app] /\ StartPlace(app)' /\ StopPlace(app)'
    OBVIOUS
  <2>1. ToAnswer(hcd)
    BY <1>1, <1>4 DEF ToAnswer
  <2>2. Starting(hcd) /\ ~ Queued(app) /\ ~ result[app]
    BY <1>1, <1>2, <2>1 DEF NodePlace
  <2>3. pc[app] = "awaitStart" /\ arg[app] = hcd /\ bind' = bind /\ ~ Queued(app)'
    BY <1>1, <1>3, <2>2 DEF Starting, Queued, lockVars
  <2>4. StartPlace(app)' /\ StopPlace(app)'
    BY <1>1, <1>2, <1>11, <1>16, <2>2, <2>3 DEF StartPlace, StopPlace
  <2> QED BY <2>2, <2>4
<1>18. PICK P \in SUBSET Caller : P = IF answers THEN {app} ELSE {}
  BY <1>1
<1>19. /\ \A q \in P : q = Starter(t) /\ Starting(t) /\ ~ Queued(q) /\ StartPlace(q)' /\ StopPlace(q)'
       /\ \A q \in Caller \ P : result'[q] = result[q] /\ ("reply" \in sig'[q] => "reply" \in sig[q])
  BY <1>1, <1>14, <1>16, <1>17, <1>18
<1>20. /\ ToAnswer(t)' => ToAnswer(t) /\ P = {}
       /\ pc[t] \notin Before => "dead" \notin Before
       /\ t = hcd \/ result' # result => HCDPlace' /\ AppPlace'
  BY <1>4, <1>13, <1>15, <1>16
<1>21. GoTo(t, "dead") /\ tn' = [tn EXCEPT ![t] = node]
  BY <1>3
<1> QED BY <1>4, <1>5, <1>7, <1>8, <1>9, <1>10, <1>12, <1>14, <1>16, <1>19, <1>20, <1>21, OneNode


-----------------------------------------------------------------------------
(* The steps of a caller *)

\* A task that calls the Master is in its main loop, and goes on with it.
Busy(p) == IF p = hub THEN HUBMain \ {"stopping", "parked"} ELSE {"main", "awaitStop", "stopping"}

\* Caller p goes on in a call about t, or begins or ends one.
CallOf(p, t) ==
    /\ kept' = kept /\ count' = count
    /\ \A q \in Proc : q # p => pc'[q] = pc[q]
    /\ \A q \in Caller : q # p => SameCall(q)
    /\ \A u \in Task : u # t => tn'[u] = tn[u] /\ (u \in Driver => dn'[u] = dn[u])
    /\ \A u \in Task : "C" \in sig'[u] => "C" \in sig[u]
    /\ (pc[p] \in Calls => arg[p] = t) /\ (pc'[p] \in Calls => arg'[p] = t)
    /\ p \in Task => pc[p] \in Busy(p) /\ pc'[p] \in Busy(p)

LEMMA CallerIs ==
    ASSUME NEW p \in Caller
    PROVE  /\ p \in Proc /\ (p = app \/ p = hub \/ p = hcd) /\ (p \in Task <=> p # app)
           /\ p \in Task => /\ Starter(p) \in Caller /\ Starter(p) # p
                            /\ Stopper(p) \in Caller /\ Stopper(p) # p
BY Names, Callers DEF Caller

LEMMA SelfPlace ==
    ASSUME TaskInvariant, NEW p \in Caller, p \in Task, SameCall(Starter(p)), SameCall(Stopper(p)),
           pc[p] \in Busy(p), pc'[p] \in Busy(p), tn'[p] = tn[p], p \in Driver => dn'[p] = dn[p],
           kept' = kept, "C" \in sig'[p] => "C" \in sig[p]
    PROVE  Place(p)' /\ Stands(p) /\ (Up(p)' <=> Up(p))
<1>1. /\ NodePlace(p) /\ LockPlace(p) /\ (p \in Driver => BinderPlace(p) /\ DriverPlace(p))
      /\ (p = hub \/ p = hcd) /\ (p \in Driver <=> p = hub)
  BY TaskFacts, CallerIs, Names
<1>2. /\ Starting(p)' = Starting(p) /\ Stopping(p)' = Stopping(p) /\ Binding(p)' = Binding(p)
      /\ Binding(p) => /\ pc'[Starter(p)] = pc[Starter(p)] /\ result'[Starter(p)] = result[Starter(p)]
      /\ Stopping(p) => /\ keep'[Stopper(p)] = keep[Stopper(p)]
      /\ bind' = Stopper(p) <=> bind = Stopper(p)
  BY DEF SameCall, Starting, Stopping, Binding, Binds, Calls
<1>3. /\ {pc[p], pc'[p]} \cap (Starts \cup Ends \cup {"none", "entry", "dead", "forget"} \cup Late) = {}
      /\ StatesAt(pc[p]) = {"running"} /\ StatesAt(pc'[p]) = {"running"}
  BY DEF Busy, HUBMain, Binds, Starts, Ends, Late, StatesAt
<1>4. NodePlace(p)'
  <2>1. ~ ToAnswer(p)'
    BY <1>3 DEF ToAnswer
  <2> QED BY <1>1, <1>3, <2>1 DEF NodePlace
<1>5. LockPlace(p)'
  <2>1. LockSum(p)' = LockSum(p)
    <3>1. /\ (p # hcd /\ dn'[p].task /\ InUse(p)') <=> (p # hcd /\ dn[p].task /\ InUse(p))
          /\ (p = hcd /\ pc'[p] \notin {"none", "entry", "dead"})
                <=> (p = hcd /\ pc[p] \notin {"none", "entry", "dead"})
      BY <1>1, <1>3 DEF InUse
    <3>2. /\ Starting(p)' <=> Starting(p)
          /\ (Stopping(p)' /\ ~ keep'[Stopper(p)]) <=> (Stopping(p) /\ ~ keep[Stopper(p)])
          /\ (Stopping(p)' /\ bind' = Stopper(p)) <=> (Stopping(p) /\ bind = Stopper(p))
      BY <1>2
    <3> QED BY <3>1, <3>2 DEF LockSum, One
  <2> QED BY <1>1, <2>1 DEF LockPlace
<1>6. ASSUME p \in Driver PROVE BinderPlace(p)' /\ DriverPlace(p)'
  <2>1. p = hub /\ pc[p] \in HUBMain \ {"stopping", "parked"} /\ pc'[p] \in HUBMain \ {"stopping", "parked"}
    BY <1>1, <1>6, Names DEF Busy
  <2>2. BinderPlace(p)'
    BY <1>1, <1>2, <1>3, <1>6, <2>1 DEF BinderPlace
  <2>3. pc[p] \in Locking(p) /\ pc'[p] \in Locking(p)
    BY <2>1 DEF Locking
  <2>4. DriverPlace(p)'
    BY <1>1, <1>2, <1>3, <1>6, <2>3 DEF DriverPlace, InUse
  <2> QED BY <2>2, <2>4
<1> QED BY <1>3, <1>4, <1>5, <1>6 DEF Place, Stands, Up, Before

LEMMA OthersStand ==
    ASSUME TaskInvariant, NEW p \in Caller, NEW t \in Task, CallOf(p, t), t # p, Stands(t)
    PROVE  /\ \A u \in Task : Stands(u)
           /\ \A q \in Caller : q # p => SameWith(q)
           /\ p \in Task => Place(p)' /\ (Up(p)' <=> Up(p))
<1>1. p \in Task => Place(p)' /\ Stands(p) /\ (Up(p)' <=> Up(p))
  BY CallerIs, SelfPlace DEF CallOf
<1>2. ASSUME NEW u \in Task, u # t, u # p PROVE Stands(u)
  <2>1. SameTask(u)
    BY <1>2, TaskFacts DEF CallOf, SameTask
  <2> QED BY <2>1, SameStands
<1> QED BY <1>1, <1>2 DEF CallOf, SameWith

LEMMA OneCall ==
    ASSUME TaskInvariant, TypeOK', NEW p \in Caller, NEW t \in Task, CallOf(p, t), t # p,
           Place(t)', Stands(t), Alive(tn'[t]) <=> Alive(tn[t]),
           StartPlace(p)', StopPlace(p)', QueuePlace', HUBPlace', HCDPlace', AppPlace', MasterPlace'
    PROVE  TaskInvariant'
<1>1. /\ \A u \in Task : Stands(u)
      /\ \A q \in Caller : q # p => SameWith(q)
      /\ p \in Task => Place(p)' /\ (Up(p)' <=> Up(p))
  BY OthersStand
<1>2. PICK T \in SUBSET Task : T = {t} \cup ({p} \cap Task)
  OBVIOUS
<1>3. \A u \in T : Place(u)'
  BY <1>1, <1>2
<1>4. ASSUME NEW u \in Task \ T PROVE Apart(u)
  <2>1. u # t /\ u # p /\ Starter(u) \in Caller /\ Stopper(u) \in Caller /\ u \in Proc
    BY <1>2, TaskFacts
  <2>2. SameTask(u)
    BY <2>1 DEF CallOf, SameTask
  <2>3. SameCall(Starter(u)) \/ ~ (Starting(u) \/ Binding(u) \/ Starting(u)' \/ Binding(u)')
    BY <2>1 DEF CallOf, Starting, Binding, Calls, Binds
  <2>4. SameCall(Stopper(u)) \/ ~ (Stopping(u) \/ Stopping(u)')
    BY <2>1 DEF CallOf, Stopping, Calls
  <2> QED BY <2>2, <2>3, <2>4 DEF Apart
<1>5. CounterExact'
  <2>1. \A u \in Task : SameCounted(u)
    BY <1>1, TaskFacts DEF CallOf, SameCounted, Up
  <2> QED BY <2>1, CountKeeps DEF CallOf, TaskInvariant
<1>6. {p} \in SUBSET Caller /\ (\A q \in {p} : StartPlace(q)' /\ StopPlace(q)')
      /\ \A q \in Caller \ {p} : SameWith(q)
  BY <1>1
<1> QED BY <1>3, <1>4, <1>5, <1>6, Whole

\* Nobody has a command in the port who does not wait for its answer.
LEMMA QueuedAwaits ==
    ASSUME TaskInvariant, NEW p, Queued(p)
    PROVE  pc[p] \in {"awaitStart", "awaitStop"} /\ ~ Answered(p)
BY DEF TaskInvariant, QueuePlace, Queued, Message

LEMMA SameQueue ==
    ASSUME TaskInvariant, NEW p \in Caller, NEW t \in Task, CallOf(p, t), t # p, Stands(t),
           queue' = queue, ~ Queued(p)
    PROVE  QueuePlace'
<1>1. \A q \in Caller : Queued(q) => SameWith(q)
  BY OthersStand
<1> QED BY <1>1, QueueKeeps DEF TaskInvariant

LEMMA SentQueue ==
    ASSUME TaskInvariant, NEW p \in Caller, NEW t \in Task, CallOf(p, t), t # p, Stands(t),
           NEW m \in Commands, queue' = Append(queue, m), m.by = p, Message(m)', ~ Queued(p)
    PROVE  QueuePlace'
<1>1. queue \in Seq(Commands) /\ QueuePlace
  BY DEF TaskInvariant, TypeOK
<1>2. /\ DOMAIN queue = 1 .. Len(queue) /\ DOMAIN queue' = 1 .. Len(queue) + 1 /\ Len(queue) \in Nat
      /\ queue'[Len(queue) + 1] = m /\ \A i \in 1 .. Len(queue) : queue'[i] = queue[i]
  BY <1>1
<1>3. ASSUME NEW i \in 1 .. Len(queue) PROVE Message(queue[i])'
  <2>1. PICK c \in Commands : queue[i] = c
    BY <1>1
  <2>2. Message(c) /\ c.by \in Caller /\ c.by # p
    BY <1>1, <1>2, <2>1 DEF QueuePlace, Commands, Caller, Queued
  <2>3. SameWith(c.by)
    BY <2>2, OthersStand
  <2>4. Message(c)'
    BY <2>2, <2>3, MessageKeeps
  <2> QED BY <2>1, <2>4
<1>4. ASSUME NEW i \in DOMAIN queue' PROVE Message(queue[i])'
  <2>1. CASE i = Len(queue) + 1
    <3>1. queue'[i] = m
      BY <1>2, <2>1
    <3> QED BY <3>1
  <2>2. CASE i # Len(queue) + 1
    BY <1>2, <1>3, <2>2
  <2> QED BY <2>1, <2>2
<1>5. \A i, j \in DOMAIN queue' : queue'[i].by = queue'[j].by => i = j
  BY <1>1, <1>2 DEF QueuePlace, Queued
<1> QED BY <1>4, <1>5 DEF QueuePlace


\* What a command does to the caller p and to nobody else.
Sent(p, t, label) ==
    /\ queue' \in Seq(Commands) /\ pc' \in [Proc -> Labels]
    /\ pc'[app] \in AppLabels /\ pc'[master] \in {"wait", "handle", "dead"} /\ pc'[master] = pc[master]
    /\ \A u \in Task : pc'[u] \in LabelsOf(u)
    /\ sig' \in [Proc -> SUBSET Signals] /\ arg' \in [Proc -> Task \cup {none}]
    /\ keep' \in [Proc -> BOOLEAN] /\ result' \in [Proc -> BOOLEAN]
    /\ pc'[p] = label /\ arg'[p] = t /\ keep'[p] = FALSE /\ result'[p] = FALSE /\ ~ Answered(p)'
    /\ \A q \in Proc : q # p => /\ pc'[q] = pc[q] /\ arg'[q] = arg[q] /\ keep'[q] = keep[q]
                                /\ result'[q] = result[q]
    /\ \A q \in Proc : \A x \in {"C", "E", "reply"} : x \in sig'[q] => x \in sig[q]
    /\ \A q \in Proc : \A x \in {"C", "E"} : x \in sig'[q] <=> x \in sig[q]
    /\ \A q \in Caller : q # p => (Queued(q)' => Queued(q))

LEMMA Sends ==
    ASSUME TaskInvariant, NEW p \in Caller, NEW op \in {"start", "stop"}, NEW t \in Task,
           NEW label \in {"awaitStart", "awaitStop"}, p = hcd => label = "awaitStop",
           SendCommand(p, op, t, label)
    PROVE  Sent(p, t, label)
<1>1. /\ TypeOK /\ p \in Proc /\ master \in Proc /\ p # master /\ none \notin Proc /\ app \in Proc
      /\ p = app \/ p = hub \/ p = hcd
  BY CallerIs, Names DEF TaskInvariant
<1>2. /\ queue' = Append(queue, [op |-> op, by |-> p, of |-> t])
      /\ sig' = With([sig EXCEPT ![p] = @ \ {"reply"}], master, "cmd")
      /\ arg' = [arg EXCEPT ![p] = t]
      /\ keep' = [keep EXCEPT ![p] = FALSE] /\ result' = [result EXCEPT ![p] = FALSE]
      /\ GoTo(p, label)
  BY DEF SendCommand
<1>3. PICK m \in Commands : m.by = p /\ queue' = Append(queue, m)
  BY <1>1, <1>2 DEF Commands
<1>4. queue \in Seq(Commands) /\ queue' \in Seq(Commands)
  BY <1>1, <1>3 DEF TypeOK
<1>5. /\ sig' \in [Proc -> SUBSET Signals]
      /\ \A q \in Proc : sig'[q] = IF q = master THEN sig[q] \cup {"cmd"}
                                   ELSE IF q = p THEN sig[q] \ {"reply"} ELSE sig[q]
  <2>1. "cmd" \in Signals
    BY DEF Signals
  <2> QED BY <1>1, <1>2, <2>1 DEF TypeOK, With
<1>6. /\ arg' \in [Proc -> Task \cup {none}] /\ arg'[p] = t
      /\ keep' \in [Proc -> BOOLEAN] /\ result' \in [Proc -> BOOLEAN]
      /\ keep'[p] = FALSE /\ result'[p] = FALSE
      /\ \A q \in Proc : q # p => arg'[q] = arg[q] /\ keep'[q] = keep[q] /\ result'[q] = result[q]
  BY <1>1, <1>2 DEF TypeOK
<1>7. /\ pc' \in [Proc -> Labels] /\ pc'[app] \in AppLabels /\ pc'[p] = label
      /\ pc'[master] \in {"wait", "handle", "dead"} /\ \A u \in Task : pc'[u] \in LabelsOf(u)
      /\ \A q \in Proc : q # p => pc'[q] = pc[q]
  <2>1. label \in AppLabels /\ label \in LabelsOf(hub) /\ "awaitStop" \in LabelsOf(hcd)
    BY Names DEF AppLabels, LabelsOf, Locking, HUBMain, Binds
  <2>2. (p = app => label \in AppLabels) /\ (p \in Task => label \in LabelsOf(p))
    BY <1>1, <2>1, CallerIs
  <2> QED BY <1>1, <1>2, <2>2, PcTyped
<1>8. ASSUME NEW q \in Caller, q # p, Queued(q)' PROVE Queued(q)
  <2>1. PICK i \in DOMAIN queue' : queue'[i].by = q
    BY <1>8 DEF Queued
  <2>2. i \in DOMAIN queue /\ queue'[i] = queue[i]
    BY <1>3, <1>4, <1>8, <2>1
  <2> QED BY <2>1, <2>2 DEF Queued
<1>9. ~ Answered(p)'
  BY <1>1, <1>5 DEF Answered
<1> QED BY <1>1, <1>4, <1>5, <1>6, <1>7, <1>8, <1>9 DEF Sent

\* The command itself is a message as it should be.
LEMMA SentMessage ==
    ASSUME TaskInvariant, NEW p \in Caller, NEW op \in {"start", "stop"}, NEW t \in Task, t # p,
           NEW label \in {"awaitStart", "awaitStop"}, Sent(p, t, label),
           SendCommand(p, op, t, label), CallOf(p, t), Stands(t), ~ Queued(p),
           \/ op = "start" /\ label = "awaitStart" /\ p = Starter(t) /\ tn'[t] = NoNode /\ pc'[t] = "none"
           \/ op = "stop" /\ label = "awaitStop" /\ p = Stopper(t)
    PROVE  QueuePlace'
<1>1. PICK m \in Commands : m = [op |-> op, by |-> p, of |-> t]
  BY CallerIs, Names DEF Commands, Caller
<1>2. m.by = p /\ m.op = op /\ m.of = t
  BY <1>1
<1>3. Message(m)'
  BY <1>2 DEF Sent, Message
<1>4. queue' = Append(queue, m)
  BY <1>1 DEF SendCommand
<1> QED BY <1>2, <1>3, <1>4, SentQueue

\* A caller that calls about t, binds it or stops it: the others go on as they were.
LEMMA SentCall ==
    ASSUME TaskInvariant, NEW p \in Caller, NEW t \in Task,
           NEW label \in {"awaitStart", "awaitStop"}, Sent(p, t, label),
           kept' = kept, count' = count, \A q \in Caller : q # p => (bind' = q <=> bind = q),
           \A u \in Task : u # t => tn'[u] = tn[u] /\ (u \in Driver => dn'[u] = dn[u]),
           pc[p] \notin Calls, p = hcd => label = "awaitStop", p \in Task => pc[p] \in Busy(p)
    PROVE  CallOf(p, t)
<1>1. \A q \in Caller : q \in Proc
  BY CallerIs
<1>2. ASSUME NEW q \in Caller, q # p PROVE SameCall(q)
  BY <1>1, <1>2 DEF Sent, SameCall, Answered
<1>3. \A u \in Task : "C" \in sig'[u] => "C" \in sig[u]
  BY TaskFacts DEF Sent
<1>4. p \in Task => label \in Busy(p)
  BY CallerIs DEF Busy, HUBMain, Binds
<1> QED BY <1>2, <1>3, <1>4 DEF CallOf, Sent


LEMMA SentMaster ==
    ASSUME TaskInvariant, NEW p \in Caller, NEW t, NEW label, Sent(p, t, label), UNCHANGED mastVars,
           pc[p] \notin {"waitMaster", "gone"}
    PROVE  MasterPlace'
<1>1. app \in Proc /\ master \in Proc
  BY Names
<1> QED BY <1>1, MasterKeeps DEF TaskInvariant, Sent, mastVars

LEMMA SentTypes ==
    ASSUME TaskInvariant, NEW p, NEW t, NEW label, Sent(p, t, label),
           tn' \in [Task -> TaskNode], dn' \in [Driver -> DriverNode], UNCHANGED mastVars,
           count' = count, bind' \in Proc \cup {none}, fdriver' \in Proc \cup {none},
           port' \in Class \cup {none}, root' = root, booted' = booted
    PROVE  TypeOK'
<1>1. TypeOK
  BY DEF TaskInvariant
<1> QED BY <1>1 DEF TypeOK, Sent, mastVars

LEMMA StartHCDKeeps == ASSUME TaskInvariant, StartHCD PROVE TaskInvariant'
<1>1. /\ app \in Caller /\ app \notin Task /\ hcd \in Task /\ hcd # app /\ Starter(hcd) = app /\ hub \in Task
      /\ hcd \notin Driver /\ app \in Proc /\ hub \in Proc /\ hcd \in Proc /\ hub # hcd /\ hub # app
  BY Names, Callers DEF Caller
<1>2. TypeOK /\ NodePlace(hcd) /\ AppPlace /\ HCDPlace /\ HUBPlace /\ StopPlace(app)
  BY <1>1 DEF TaskInvariant
<1>3. /\ pc[app] = "startHCD" /\ SendCommand(app, "start", hcd, "awaitStart")
      /\ UNCHANGED <<nodeVars, mastVars, lockVars, port, root, booted>>
  BY DEF StartHCD
<1>4. UNCHANGED <<tn, dn, count, kept, bind, fdriver>>
  BY <1>3 DEF nodeVars, mastVars, lockVars
<1>5. Sent(app, hcd, "awaitStart")
  BY <1>1, <1>3, Sends
<1>6. tn[hcd] = NoNode /\ pc[hcd] = "none" /\ dn[hub].st = "none"
  BY <1>2, <1>3 DEF AppPlace
<1>7. CallOf(app, hcd)
  BY <1>1, <1>3, <1>4, <1>5, SentCall DEF Calls, Binds
<1>8. TypeOK'
  BY <1>2, <1>3, <1>4, <1>5, SentTypes DEF TypeOK
<1>9. pc'[hcd] = "none" /\ pc'[app] = "awaitStart" /\ arg'[app] = hcd /\ pc'[hub] = pc[hub]
      /\ arg'[hub] = arg[hub]
  BY <1>1, <1>5, <1>6 DEF Sent
<1>10. Stands(hcd)
  BY <1>1, <1>4, <1>6, <1>9 DEF Stands, Before
<1>11. ~ Queued(app)
  BY <1>3, QueuedAwaits
<1>12. QueuePlace'
  BY <1>1, <1>3, <1>4, <1>5, <1>6, <1>7, <1>9, <1>10, <1>11, SentMessage
<1>13. Place(hcd)'
  <2>1. NodePlace(hcd)'
    BY <1>2, <1>4, <1>6, <1>9, NoNodeIs DEF NodePlace, ToAnswer, Starts, Ends
  <2>2. LockPlace(hcd)'
    BY <1>4, <1>6, NoNodeIs DEF LockPlace, Alive
  <2> QED BY <1>1, <2>1, <2>2 DEF Place
<1>14. StartPlace(app)' /\ StopPlace(app)'
  BY <1>1, <1>2, <1>3, <1>4, <1>5, <1>9 DEF StartPlace, StopPlace, Sent
<1>15. HUBPlace'
  <2>1. \A d \in Class : (Over(d)' <=> Over(d)) /\ (InUse(d)' <=> InUse(d))
    BY <1>1, <1>4, <1>5, Names DEF Over, InUse, Sent
  <2> QED BY <1>1, <1>2, <1>3, <1>4, <1>5, <1>9, <2>1, HUBKeeps DEF Sent
<1>16. HCDPlace'
  <2>1. Over(hub)' /\ ~ InUse(hub)'
    BY <1>2, <1>4, <1>6, <1>9 DEF HCDPlace, Over, InUse
  <2> QED BY <1>1, <1>2, <1>3, <1>5, <1>6, <1>9, <2>1 DEF HCDPlace, Sent, Gave
<1>17. AppPlace'
  BY <1>1, <1>4, <1>6, <1>9 DEF AppPlace, Binds
<1>18. MasterPlace'
  BY <1>1, <1>3, <1>5, SentMaster
<1>19. Alive(tn'[hcd]) <=> Alive(tn[hcd])
  BY <1>4
<1> QED BY <1>1, <1>7, <1>8, <1>10, <1>12, <1>13, <1>14, <1>15, <1>16, <1>17, <1>18, <1>19, OneCall

LEMMA ExitKeeps == ASSUME TaskInvariant, Exit PROVE TaskInvariant'
<1>1. /\ app \in Caller /\ app \notin Task /\ hcd \in Task /\ hcd # app /\ Stopper(hcd) = app /\ hub \in Task
      /\ hcd \notin Driver /\ app \in Proc /\ hub \in Proc /\ hcd \in Proc /\ hub # hcd /\ hub # app
      /\ Starter(hcd) = app
  BY Names, Callers DEF Caller
<1>2. /\ TypeOK /\ NodePlace(hcd) /\ LockPlace(hcd) /\ AppPlace /\ HCDPlace /\ HUBPlace /\ StopPlace(app)
      /\ tn[hcd] \in TaskNode /\ kept[hcd] \in Nat /\ MasterPlace
  BY <1>1, TaskFacts DEF TaskInvariant
<1>3. /\ pc[app] = "exit" /\ UNCHANGED <<dn, count, mastVars, lockVars, port, root, booted>>
  BY DEF Exit
<1>4. UNCHANGED <<kept, bind, fdriver>>
  BY <1>3 DEF mastVars, lockVars
<1>5. CASE GoTo(app, "waitHCD") /\ UNCHANGED <<callVars, tn, queue, sig>>
  <2>1. /\ pc' \in [Proc -> Labels] /\ pc'[app] = "waitHCD" /\ pc'[app] \in AppLabels
        /\ pc'[master] \in {"wait", "handle", "dead"} /\ \A t \in Task : pc'[t] \in LabelsOf(t)
        /\ pc'[master] = pc[master] /\ \A t \in Task : pc'[t] = pc[t]
    BY <1>2, <1>5, AppPc DEF AppLabels
  <2>2. TypeOK'
    BY <1>2, <1>3, <1>5, <2>1 DEF TypeOK, callVars, mastVars, lockVars
  <2>3. HCDPlace' /\ AppPlace' /\ MasterPlace'
    BY <1>1, <1>2, <1>3, <1>5, <2>1 DEF HCDPlace, AppPlace, MasterPlace, Gave, Over, InUse, Binds, callVars, mastVars
  <2> QED BY <1>1, <1>3, <1>4, <1>5, <2>1, <2>2, <2>3, AppMoves DEF Calls, Binds, nodeVars
<1>6. CASE /\ Alive(tn[hcd]) /\ pc[hcd] \notin {"none", "entry", "dead"}
           /\ tn' = [tn EXCEPT ![hcd].locks = @ + 1] /\ SendCommand(app, "stop", hcd, "awaitStop")
  <2> DEFINE node == [tn[hcd] EXCEPT !.locks = @ + 1]
  <2>1. /\ node \in TaskNode /\ node.st = tn[hcd].st /\ node.adr = tn[hcd].adr /\ node.listed = tn[hcd].listed
        /\ node.parent = tn[hcd].parent /\ node.locks = tn[hcd].locks + 1
    <3>1. tn[hcd].locks + 1 \in Nat
      BY <1>2, TaskNodes
    <3>2. node \in TaskNode
      BY <1>2, <3>1, NodeUpdates
    <3> QED BY <1>2, <3>2 DEF TaskNode
  <2>2. /\ tn' \in [Task -> TaskNode] /\ tn'[hcd] = node /\ \A u \in Task : u # hcd => tn'[u] = tn[u]
    BY <1>1, <1>2, <1>6, <2>1 DEF TypeOK
  <2> HIDE DEF node
  <2>3. Sent(app, hcd, "awaitStop")
    BY <1>1, <1>6, Sends
  <2>4. CallOf(app, hcd)
    BY <1>1, <1>3, <1>4, <2>2, <2>3, SentCall DEF Calls, Binds
  <2>5. TypeOK'
    BY <1>2, <1>3, <1>4, <2>2, <2>3, SentTypes DEF TypeOK
  <2>6. pc'[hcd] = pc[hcd] /\ pc'[app] = "awaitStop" /\ arg'[app] = hcd /\ pc'[hub] = pc[hub]
        /\ arg'[hub] = arg[hub] /\ ~ keep'[app] /\ ~ Answered(app)'
    BY <1>1, <2>3 DEF Sent
  <2>7. Stands(hcd) /\ Alive(node)
    BY <1>1, <1>6, <2>1, <2>2, <2>6, NoNodeIs DEF Stands, Before, Alive
  <2>8. ~ Queued(app)
    BY <1>3, QueuedAwaits
  <2>9. QueuePlace'
    BY <1>1, <1>6, <2>3, <2>4, <2>7, <2>8, SentMessage
  <2>10. ~ Starting(hcd) /\ ~ Starting(hcd)' /\ ~ Stopping(hcd) /\ Stopping(hcd)' /\ bind' # app
    BY <1>1, <1>2, <1>3, <1>4, <2>6 DEF Starting, Stopping, StopPlace
  <2>11. Place(hcd)'
    <3>1. NodePlace(hcd)'
      BY <1>2, <1>4, <1>6, <2>1, <2>2, <2>6, <2>10 DEF NodePlace, ToAnswer, Alive
    <3>2. LockPlace(hcd)'
      <4>1. LockSum(hcd) = kept[hcd] + 1
        BY <1>1, <1>2, <1>6, <2>10 DEF LockSum, One
      <4>2. LockSum(hcd)' = kept[hcd] + 2
        BY <1>1, <1>2, <1>4, <1>6, <2>6, <2>10 DEF LockSum, One
      <4> QED BY <1>2, <1>6, <2>1, <2>2, <2>7, <4>1, <4>2 DEF LockPlace, Alive
    <3> QED BY <1>1, <3>1, <3>2 DEF Place
  <2>12. StartPlace(app)' /\ StopPlace(app)'
    BY <1>1, <2>2, <2>6, <2>7, <2>10 DEF StartPlace, StopPlace, Alive
  <2>13. HUBPlace'
    <3>1. \A d \in Class : (Over(d)' <=> Over(d)) /\ (InUse(d)' <=> InUse(d))
      BY <1>1, <1>3, <2>2, <2>3, Names DEF Over, InUse, Sent
    <3> QED BY <1>1, <1>2, <1>3, <2>3, <2>6, <3>1, HUBKeeps DEF Sent
  <2>14. HCDPlace' /\ AppPlace'
    BY <1>1, <1>2, <1>3, <2>2, <2>6 DEF HCDPlace, AppPlace, Over, InUse, Gave, Binds
  <2>15. MasterPlace'
    BY <1>1, <1>3, <2>3, SentMaster
  <2>16. Alive(tn'[hcd]) <=> Alive(tn[hcd])
    BY <2>1, <2>2 DEF Alive
  <2> QED BY <1>1, <2>4, <2>5, <2>7, <2>9, <2>11, <2>12, <2>13, <2>14, <2>15, <2>16, OneCall
<1> QED BY <1>5, <1>6 DEF Exit


LEMMA BindKeeps == ASSUME TaskInvariant, NEW p \in {app, hub}, Bind(p) PROVE TaskInvariant'
<1> DEFINE node == [NoDriver EXCEPT !.st = "alloc"]
<1>1. /\ p \in Caller /\ p \in Proc /\ p # hcd /\ hub \in Driver /\ hub # app /\ hub \in Task /\ hcd \in Task
      /\ app \in Proc /\ hub \in Proc /\ hcd \in Proc /\ hcd # hub /\ hcd # app /\ hub \notin Class /\ app \notin Task
      /\ Class \subseteq Driver /\ Class \subseteq Task /\ hcd \notin Driver
  BY Names DEF Caller
<1>2. TypeOK /\ AppPlace /\ HCDPlace /\ HUBPlace /\ StopPlace(p)
  BY <1>1 DEF TaskInvariant
<1>0. pc[p] = "bind" /\ arg[p] \in Driver
  BY <1>1, <1>2 DEF Bind, AppPlace, HUBPlace
<1>d. PICK d \in Driver : d = arg[p]
  BY <1>0
<1>3. /\ pc[p] = "bind" /\ fdriver' = p /\ dn' = [dn EXCEPT ![d] = node]
      /\ SendCommand(p, "start", d, "awaitStart")
      /\ UNCHANGED <<tn, count, mastVars, bind, port, root, booted>>
  BY <1>d DEF Bind
<1>4. /\ dn[d].st = "none" /\ d \in Driver /\ d \in Task /\ d # p /\ d # hcd /\ Starter(d) = p
      /\ (p = app => d = hub) /\ (p = hub => d \in Class /\ port = d)
  BY <1>1, <1>2, <1>3, <1>d, Callers DEF AppPlace, HUBPlace
<1>5. dn[d] = NoDriver /\ tn[d] = NoNode /\ pc[d] = "none" /\ "C" \notin sig[d] /\ kept[d] = 0
  <2>1. DriverPlace(d) /\ NodePlace(d)
    BY <1>4, TaskFacts
  <2> QED BY <1>4, <2>1, NoNodeIs DEF DriverPlace, NodePlace
<1>6. /\ node \in DriverNode /\ node.st = "alloc" /\ node.locks = 0 /\ node.freeMe = FALSE
      /\ node.task = FALSE /\ node.ok = FALSE
  BY NoDriverIs DEF NoDriver, DriverNode
<1> HIDE DEF node
<1>7. dn' \in [Driver -> DriverNode] /\ dn'[d] = node /\ \A e \in Driver : e # d => dn'[e] = dn[e]
  BY <1>2, <1>3, <1>4, <1>6 DEF TypeOK
<1>8. Sent(p, d, "awaitStart")
  BY <1>1, <1>3, <1>4, Sends
<1>9. pc[p] \notin Calls /\ (p \in Task => pc[p] \in Busy(p)) /\ kept' = kept
  BY <1>1, <1>3 DEF Calls, Binds, Busy, HUBMain, mastVars
<1>10. CallOf(p, d)
  BY <1>1, <1>3, <1>4, <1>7, <1>8, <1>9, SentCall
<1>11. TypeOK'
  BY <1>1, <1>2, <1>3, <1>7, <1>8, SentTypes DEF TypeOK
<1>12. /\ pc'[d] = "none" /\ pc'[p] = "awaitStart" /\ arg'[p] = d /\ tn'[d] = NoNode /\ kept'[d] = 0
       /\ pc'[hcd] = pc[hcd] /\ "C" \notin sig'[d]
  BY <1>1, <1>3, <1>4, <1>5, <1>8, <1>9, Names DEF Sent
<1>13. Stands(d)
  BY <1>3, <1>4, <1>5, <1>12, NoDriverIs DEF Stands, Before
<1>14. QueuePlace'
  <2>1. ~ Queued(p)
    BY <1>3, QueuedAwaits
  <2> QED BY <1>1, <1>3, <1>4, <1>8, <1>10, <1>12, <1>13, <2>1, SentMessage
<1>15. Starting(d)' /\ Binding(d)' /\ ~ Stopping(d)'
  <2>1. d = hub => pc[hcd] \in {"forget", "main"}
    BY <1>1, <1>2, <1>3, <1>4 DEF AppPlace
  <2> QED BY <1>1, <1>4, <1>12, <2>1, Callers DEF Starting, Binding, Stopping, Binds
<1>16. Place(d)'
  <2>1. NodePlace(d)'
    <3>1. tn'[d].parent # <<Starter(d), "reply">> /\ tn'[d].adr = FALSE /\ tn'[d].listed = FALSE
      BY <1>4, <1>12, Parents DEF NoNode
    <3> QED BY <1>12, <3>1, NoNodeIs DEF NodePlace, ToAnswer, StatesAt, Starts, Ends
  <2>2. LockPlace(d)'
    BY <1>12, NoNodeIs DEF LockPlace, Alive
  <2>3. BinderPlace(d)'
    BY <1>4, <1>6, <1>7, <1>12, <1>15 DEF BinderPlace
  <2>4. DriverPlace(d)'
    <3>1. "none" \notin Locking(d) \cup Early \cup Late
      BY DEF Locking, HUBMain, Binds, Early, Late
    <3> QED BY <1>4, <1>6, <1>7, <1>12, <1>15, <3>1, NoNodeIs DEF DriverPlace, One
  <2> QED BY <2>1, <2>2, <2>3, <2>4 DEF Place
<1>17. StartPlace(p)' /\ StopPlace(p)'
  BY <1>2, <1>3, <1>4, <1>8, <1>12 DEF StartPlace, StopPlace, Sent
<1>18. HUBPlace'
  <2>1. CASE p = app
    <3>1. d = hub /\ dn'[hub].ok = dn[hub].ok /\ pc'[hub] = pc[hub] /\ arg'[hub] = arg[hub]
      <4>1. d = hub /\ dn[hub].ok = FALSE
        BY <1>4, <1>5, <2>1 DEF NoDriver
      <4> QED BY <1>1, <1>6, <1>7, <1>8, <2>1, <4>1 DEF Sent
    <3>2. \A e \in Class : (Over(e)' <=> Over(e)) /\ (InUse(e)' <=> InUse(e)) /\ dn'[e] = dn[e]
      BY <1>1, <1>3, <1>7, <1>8, <2>1, <3>1, Names DEF Over, InUse, Sent
    <3> QED BY <1>1, <1>2, <1>3, <1>8, <3>1, <3>2, HUBKeeps DEF Sent
  <2>2. CASE p = hub
    <3>1. pc'[hub] = "awaitStart" /\ arg'[hub] = d /\ d \in Class /\ port' = d /\ dn'[hub] = dn[hub] /\ d # hub
      BY <1>1, <1>3, <1>4, <1>7, <1>12, <2>2
    <3>2. dn[hub].ok /\ "awaitStart" \in HUBMain \ {"parked"} /\ "awaitStart" \notin {"bind", "stopping", "parked"}
      BY <1>2, <1>3, <2>2 DEF HUBPlace, HUBMain, Binds
    <3> QED BY <3>1, <3>2 DEF HUBPlace
  <2> QED BY <2>1, <2>2
<1>19. HCDPlace' /\ AppPlace'
  <2>1. CASE p = app
    <3>1. pc[hcd] \in {"forget", "main"} /\ pc'[app] = "awaitStart" /\ arg'[app] = hub
      BY <1>2, <1>3, <1>4, <1>12, <2>1 DEF AppPlace
    <3>2. "C" \notin sig'[hcd]
      BY <1>1, <1>2, <1>3, <1>8, <2>1 DEF HCDPlace, Gave, Sent
    <3> QED BY <1>1, <1>12, <3>1, <3>2 DEF HCDPlace, AppPlace, Binds
  <2>2. CASE p = hub
    <3>1. /\ pc'[app] = pc[app] /\ arg'[app] = arg[app] /\ result'[app] = result[app]
          /\ "C" \in sig'[hcd] => "C" \in sig[hcd]
      BY <1>1, <1>8, <2>2 DEF Sent
    <3>2. dn'[hub] = dn[hub] /\ ~ Over(hub) /\ (Over(hcd)' <=> Over(hcd))
      BY <1>1, <1>3, <1>4, <1>7, <1>12, <2>2 DEF Over
    <3> QED BY <1>2, <1>3, <1>12, <3>1, <3>2, HCDKeeps, AppKeeps
  <2> QED BY <2>1, <2>2
<1>20. MasterPlace'
  BY <1>1, <1>3, <1>8, SentMaster
<1>21. Alive(tn'[d]) <=> Alive(tn[d])
  BY <1>3
<1> QED BY <1>1, <1>4, <1>10, <1>11, <1>13, <1>14, <1>16, <1>17, <1>18, <1>19, <1>20, <1>21, OneCall

\* TASK_STOP_FN() for a driver that there is.
LEMMA StopKeeps ==
    ASSUME TaskInvariant, NEW d \in Driver, NEW p, p = Stopper(d), pc[p] = "main", bind = none,
           dn[d].st = "listed", dn[d].task, Alive(tn[d]), bind' = p,
           dn' = [dn EXCEPT ![d].locks = @ + 1], tn' = [tn EXCEPT ![d].locks = @ + 2],
           SendCommand(p, "stop", d, "awaitStop"), p = hcd => "C" \in sig[hcd] /\ port' = port,
           port' \in {port, none}, UNCHANGED <<count, mastVars, fdriver, root, booted>>
    PROVE  TaskInvariant'
<1> DEFINE node == [tn[d] EXCEPT !.locks = @ + 2]
           dnode == [dn[d] EXCEPT !.locks = @ + 1]
<1>1. /\ p \in {hub, hcd} /\ p \in Caller /\ p \in Proc /\ p # d /\ p # app /\ p # master /\ p # none /\ d \in Task /\ d # hcd
      /\ hub # hcd /\ hub \in Task /\ hcd \in Task /\ app \in Proc /\ hub \in Proc /\ hcd \in Proc /\ hub \notin Class
      /\ Class \subseteq Task /\ hub \in Driver /\ Class \subseteq Driver /\ Starter(d) \in {app, hub}
      /\ (p = hub <=> d \in Class) /\ (p = hcd <=> d = hub) /\ (p = hub => Starter(d) = hub)
  BY Names, Callers DEF Caller
<1>2. /\ TypeOK /\ NodePlace(d) /\ LockPlace(d) /\ BinderPlace(d) /\ DriverPlace(d) /\ tn[d] \in TaskNode
      /\ dn[d] \in DriverNode /\ kept[d] \in Nat /\ AppPlace /\ HCDPlace /\ HUBPlace
  BY <1>1, TaskFacts DEF TaskInvariant
<1>3. kept' = kept
  BY DEF mastVars
<1>4. /\ node \in TaskNode /\ node.st = tn[d].st /\ node.adr = tn[d].adr /\ node.listed = tn[d].listed
      /\ node.parent = tn[d].parent /\ node.locks = tn[d].locks + 2
  <2>1. tn[d].locks + 2 \in Nat
    BY <1>2, TaskNodes
  <2>2. node \in TaskNode
    BY <1>2, <2>1, NodeUpdates
  <2> QED BY <1>2, <2>2 DEF TaskNode
<1>5. ~ Stopping(d)
  BY <1>1 DEF Stopping
<1>6. dn[d].locks \in 0 .. 1 /\ dn[d].locks = One(pc[d] \in Locking(d))
  <2>1. dn[d].locks = One(pc[d] \in Locking(d)) + One(Stopping(d) /\ bind = Stopper(d))
    BY <1>2 DEF DriverPlace
  <2> QED BY <1>5, <2>1 DEF One
<1>7. /\ dnode \in DriverNode /\ dnode.st = "listed" /\ dnode.task /\ dnode.freeMe = dn[d].freeMe
      /\ dnode.ok = dn[d].ok /\ dnode.locks = dn[d].locks + 1
  <2>1. PICK k \in 0 .. 2 : k = dn[d].locks + 1
    BY <1>6
  <2>2. dnode = [dn[d] EXCEPT !.locks = k]
    BY <2>1
  <2>3. dnode \in DriverNode
    BY <1>2, <2>2, DriverNodes
  <2> QED BY <1>2, <2>1, <2>2, <2>3 DEF DriverNode
<1>8. /\ tn' \in [Task -> TaskNode] /\ tn'[d] = node /\ \A u \in Task : u # d => tn'[u] = tn[u]
      /\ dn' \in [Driver -> DriverNode] /\ dn'[d] = dnode /\ \A e \in Driver : e # d => dn'[e] = dn[e]
  BY <1>1, <1>2, <1>4, <1>7 DEF TypeOK
<1> HIDE DEF node, dnode
<1>9. Sent(p, d, "awaitStop")
  BY <1>1, Sends
<1>10. CallOf(p, d)
  <2>1. \A q \in Caller : q # p => (bind' = q <=> bind = q)
    BY Names DEF Caller
  <2>2. pc[p] \notin Calls /\ pc[p] \in Busy(p)
    BY <1>1 DEF Calls, Binds, Busy, HUBMain
  <2> QED BY <1>1, <1>3, <1>8, <1>9, <2>1, <2>2, SentCall
<1>11. TypeOK'
  <2>1. port' \in Class \cup {none} /\ fdriver' \in Proc \cup {none}
    BY <1>2 DEF TypeOK
  <2> QED BY <1>1, <1>8, <1>9, <2>1, SentTypes
<1>12. /\ pc'[d] = pc[d] /\ pc'[p] = "awaitStop" /\ arg'[p] = d /\ ~ keep'[p] /\ ~ Answered(p)' /\ d \in Proc
       /\ \A q \in Proc : q # p => pc'[q] = pc[q] /\ arg'[q] = arg[q] /\ result'[q] = result[q]
  BY <1>1, <1>9, Names DEF Sent
<1>13. Stands(d) /\ Alive(node)
  BY <1>4, <1>7, <1>8, <1>12, NoNodeIs DEF Stands, Before, Alive
<1>14. QueuePlace'
  <2>1. ~ Queued(p)
    BY QueuedAwaits
  <2> QED BY <1>1, <1>9, <1>10, <1>13, <2>1, SentMessage
<1>15. Stopping(d)' /\ bind' = Stopper(d) /\ bind # Stopper(d)
  BY <1>1, <1>12 DEF Stopping
<1>16. /\ Starting(d)' <=> Starting(d)
       /\ Binding(d)' <=> Binding(d)
       /\ Binding(d) => pc'[Starter(d)] = pc[Starter(d)] /\ result'[Starter(d)] = result[Starter(d)]
  <2>1. CASE p = hub
    BY <1>1, <1>12, <2>1 DEF Starting, Binding, Binds
  <2>2. CASE p = hcd
    BY <1>1, <1>12, <2>2, Callers DEF Starting, Binding
  <2> QED BY <1>1, <2>1, <2>2
<1>17. Place(d)'
  <2>1. NodePlace(d)'
    <3>1. ToAnswer(d)' => /\ ToAnswer(d) /\ Starter(d) \in Caller /\ Starter(d) # p
      BY <1>1, <1>2, <1>4, <1>8, <1>12, TaskFacts DEF ToAnswer, NodePlace, Starting
    <3>2. ToAnswer(d)' => Starting(d)' /\ ~ Queued(Starter(d))' /\ ~ Answered(Starter(d))' /\ ~ result'[Starter(d)]
      <4> SUFFICES ASSUME ToAnswer(d)'
          PROVE Starting(d)' /\ ~ Queued(Starter(d))' /\ ~ Answered(Starter(d))' /\ ~ result'[Starter(d)]
        OBVIOUS
      <4>1. Starting(d) /\ ~ Queued(Starter(d)) /\ ~ Answered(Starter(d)) /\ ~ result[Starter(d)]
        BY <1>2, <3>1 DEF NodePlace
      <4>2. Starter(d) \in Proc
        BY <1>1
      <4> QED BY <1>9, <1>12, <1>16, <3>1, <4>1, <4>2 DEF Sent, Answered
    <3> QED BY <1>2, <1>3, <1>4, <1>8, <1>12, <1>13, <3>2 DEF NodePlace, Alive
  <2>2. LockPlace(d)'
    <3> DEFINE rest == One(Starting(d)) + kept[d] + One(dn[d].task /\ InUse(d))
    <3>1. rest \in Nat /\ rest' = rest
      BY <1>2, <1>3, <1>7, <1>8, <1>16 DEF One, InUse
    <3>2. LockSum(d) = rest
      BY <1>1, <1>2, <1>5 DEF LockSum, One
    <3>3. LockSum(d)' = rest' + 2
      BY <1>1, <1>2, <1>3, <1>12, <1>15 DEF LockSum, One
    <3> HIDE DEF rest
    <3> QED BY <1>2, <1>4, <1>8, <1>13, <3>1, <3>2, <3>3 DEF LockPlace, Alive
  <2>3. BinderPlace(d)'
    BY <1>2, <1>7, <1>8, <1>12, <1>16 DEF BinderPlace
  <2>4. DriverPlace(d)'
    <3>1. dn'[d].locks = One(pc'[d] \in Locking(d)) + One(Stopping(d)' /\ bind' = Stopper(d))
      BY <1>6, <1>7, <1>8, <1>12, <1>15 DEF One
    <3> QED BY <1>2, <1>4, <1>7, <1>8, <1>12, <1>13, <3>1 DEF DriverPlace, Alive, InUse
  <2> QED BY <2>1, <2>2, <2>3, <2>4 DEF Place
<1>18. StartPlace(p)' /\ StopPlace(p)'
  BY <1>1, <1>4, <1>7, <1>8, <1>12, <1>13 DEF StartPlace, StopPlace, Alive
<1>19. \A e \in Driver : InUse(e)' <=> InUse(e)
  BY <1>7, <1>8 DEF InUse
<1>20. HUBPlace'
  <2>1. CASE p = hcd
    <3>1. pc'[hub] = pc[hub] /\ arg'[hub] = arg[hub] /\ dn'[hub].ok = dn[hub].ok
      BY <1>1, <1>7, <1>8, <1>12, <2>1
    <3>2. \A e \in Class : (Over(e)' <=> Over(e)) /\ (InUse(e)' <=> InUse(e)) /\ dn'[e] = dn[e]
      BY <1>1, <1>8, <1>12, <1>19, <2>1, Names DEF Over
    <3> QED BY <1>1, <1>2, <1>9, <2>1, <3>1, <3>2, HUBKeeps DEF Sent
  <2>2. CASE p = hub
    <3>1. pc'[hub] = "awaitStop" /\ dn'[hub] = dn[hub]
      BY <1>1, <1>8, <1>12, <2>2
    <3>2. dn[hub].ok /\ "awaitStop" \in HUBMain \ {"parked"} /\ "awaitStop" \notin {"bind", "stopping", "parked"} \cup Binds
      BY <1>2, <2>2 DEF HUBPlace, HUBMain, Binds
    <3> QED BY <3>1, <3>2 DEF HUBPlace
  <2> QED BY <1>1, <2>1, <2>2
<1>21. HCDPlace' /\ AppPlace'
  <2>1. /\ pc'[app] = pc[app] /\ arg'[app] = arg[app] /\ result'[app] = result[app] /\ dn'[hub].st = dn[hub].st
        /\ "C" \in sig'[hcd] => "C" \in sig[hcd]
    BY <1>1, <1>7, <1>8, <1>9, <1>12 DEF Sent
  <2>2. CASE p = hcd
    <3>1. pc[app] \in Gave /\ pc'[hcd] = "awaitStop"
      BY <1>2, <1>12, <2>2 DEF HCDPlace
    <3>2. HCDPlace'
      BY <2>1, <3>1 DEF HCDPlace
    <3>3. ~ Over(hcd)
      BY <2>2 DEF Over
    <3>4. AppPlace'
      BY <1>2, <2>1, <3>1, <3>3 DEF AppPlace, Gave, Binds
    <3> QED BY <3>2, <3>4
  <2>3. CASE p = hub
    <3>1. ~ Over(hub) /\ (Over(hcd)' <=> Over(hcd)) /\ pc'[hcd] = pc[hcd] /\ tn'[hcd] = tn[hcd]
      BY <1>1, <1>8, <1>12, <2>3 DEF Over
    <3> QED BY <1>2, <2>1, <3>1, HCDKeeps, AppKeeps
  <2> QED BY <1>1, <2>2, <2>3
<1>22. MasterPlace'
  BY <1>1, <1>9, SentMaster
<1>23. Alive(tn'[d]) <=> Alive(tn[d])
  BY <1>8, <1>13
<1> QED BY <1>1, <1>10, <1>11, <1>13, <1>14, <1>17, <1>18, <1>20, <1>21, <1>22, <1>23, OneCall

LEMMA StopHUBKeeps == ASSUME TaskInvariant, StopHUB PROVE TaskInvariant'
<1>1. hub \in Driver /\ Stopper(hub) = hcd
  BY Names, Callers
<1> QED BY <1>1, NoHUBKeeps, StopKeeps DEF StopHUB, StopFunction

LEMMA UnplugKeeps == ASSUME TaskInvariant, NEW d \in Class, Unplug(d) PROVE TaskInvariant'
<1>1. d \in Driver /\ Stopper(d) = hub /\ hub # hcd
  BY Names, Callers
<1> QED BY <1>1, NoDriverKeeps, StopKeeps DEF Unplug, StopFunction, HubRuns


-----------------------------------------------------------------------------
(* The steps of a caller that send no command *)

Goes(p, label) ==
    /\ pc' \in [Proc -> Labels] /\ pc'[p] = label
    /\ pc'[app] \in AppLabels /\ pc'[master] \in {"wait", "handle", "dead"}
    /\ \A u \in Task : pc'[u] \in LabelsOf(u)
    /\ \A q \in Proc : q # p => pc'[q] = pc[q]

LEMMA GoesOn ==
    ASSUME TaskInvariant, NEW p \in Caller, NEW t \in Task, NEW label, GoTo(p, label),
           p = app => label \in AppLabels, p \in Task => pc[p] \in Busy(p) /\ label \in Busy(p),
           pc[p] \in Calls, arg[p] = t, label \in Calls => arg'[p] = t,
           queue' = queue, count' = count, keep' = keep, result' = result, UNCHANGED mastVars,
           \A q \in Proc : sig'[q] \subseteq sig[q], \A q \in Proc : q # p => arg'[q] = arg[q],
           \A q \in Caller : q # p => (bind' = q <=> bind = q),
           \A u \in Task : u # t => tn'[u] = tn[u] /\ (u \in Driver => dn'[u] = dn[u])
    PROVE  Goes(p, label) /\ CallOf(p, t) /\ MasterPlace'
<1>1. /\ TypeOK /\ p \in Proc /\ p # master /\ (p = app \/ p = hub \/ p = hcd) /\ (p = app <=> p \notin Task)
      /\ app \in Proc /\ master \in Proc /\ Caller \subseteq Proc /\ Task \subseteq Proc
  BY Names, CallerIs DEF TaskInvariant
<1>2. p \in Task => label \in LabelsOf(p)
  BY <1>1, Names DEF Busy, LabelsOf, Locking
<1>3. Goes(p, label)
  BY <1>1, <1>2, PcTyped DEF Goes
<1>4. ASSUME NEW q \in Caller, q # p PROVE SameCall(q)
  BY <1>1, <1>3, <1>4 DEF Goes, SameCall, Answered, Queued
<1>5. CallOf(p, t)
  BY <1>1, <1>3, <1>4 DEF CallOf, Goes, mastVars
<1>6. MasterPlace'
  <2>1. pc[app] \in {"waitMaster", "gone"} => pc'[app] \in {"waitMaster", "gone"}
    BY <1>1, <1>3 DEF Goes, Calls, Binds
  <2> QED BY <1>1, <1>3, <2>1, MasterKeeps DEF TaskInvariant, Goes, mastVars
<1> QED BY <1>3, <1>5, <1>6

\* What the others need of a step of the hub's driver that deals with one of its devices' drivers.
LEMMA HUBCallRest ==
    ASSUME TaskInvariant, NEW t \in Class, CallOf(hub, t), pc'[hub] # "bind",
           pc'[hub] \in Binds => pc[hub] \in Binds /\ arg'[hub] = arg[hub] /\ port' = port,
           arg'[app] = arg[app], result' = result, root' = root,
           \A q \in Proc : sig'[q] \subseteq sig[q]
    PROVE  HUBPlace' /\ HCDPlace' /\ AppPlace'
<1>1. /\ hub \in Task /\ hcd \in Task /\ hub \in Driver /\ hub # hcd /\ app \in Proc /\ hcd \in Proc /\ hub \notin Class
      /\ app # hub /\ hcd \notin Class /\ TypeOK /\ HUBPlace /\ HCDPlace /\ AppPlace
  BY Names DEF TaskInvariant
<1>2. /\ pc[hub] \in HUBMain \ {"stopping", "parked"} /\ pc'[hub] \in HUBMain \ {"stopping", "parked"}
      /\ tn'[hub] = tn[hub] /\ dn'[hub] = dn[hub] /\ tn'[hcd] = tn[hcd]
      /\ pc'[app] = pc[app] /\ pc'[hcd] = pc[hcd]
  BY <1>1 DEF CallOf, Busy
<1>3. HUBPlace'
  BY <1>1, <1>2 DEF HUBPlace
<1>4. ~ Over(hub) /\ (Over(hcd)' <=> Over(hcd))
  BY <1>2 DEF Over, HUBMain, Binds
<1>5. HCDPlace'
  BY <1>1, <1>2, <1>4, HCDKeeps
<1>6. AppPlace'
  BY <1>1, <1>2, <1>4, AppKeeps
<1> QED BY <1>3, <1>5, <1>6

\* And what the hub's driver needs of a step of the application, or of the HCD task.
LEMMA HUBSees ==
    ASSUME TaskInvariant, NEW p \in {app, hcd}, NEW t \in {hub, hcd}, CallOf(p, t), arg'[hub] = arg[hub],
           port' = port, dn'[hub].ok = dn[hub].ok, "C" \in sig[hub] => "C" \in sig'[hub],
           "E" \in sig'[app] => "E" \in sig[app]
    PROVE  HUBPlace'
<1>1. /\ hub \in Proc /\ p # hub /\ t \notin Class /\ Class \subseteq Task /\ Class \subseteq Driver /\ Class \subseteq Proc
      /\ p \notin Class
  BY Names
<1>2. \A d \in Class : pc'[d] = pc[d] /\ tn'[d] = tn[d] /\ dn'[d] = dn[d]
  BY <1>1 DEF CallOf
<1>3. \A d \in Class : (Over(d)' <=> Over(d)) /\ (InUse(d)' <=> InUse(d))
  BY <1>2 DEF Over, InUse
<1>4. pc'[hub] = pc[hub]
  BY <1>1 DEF CallOf
<1> QED BY <1>2, <1>3, <1>4, HUBKeeps DEF TaskInvariant

LEMMA DriverReadyKeeps == ASSUME TaskInvariant, DriverReady PROVE TaskInvariant'
<1> DEFINE label == IF dn[hub].ok THEN "link" ELSE "drop"
<1>1. /\ app \in Caller /\ app \notin Task /\ hub \in Task /\ hub \in Driver /\ hub # app /\ app \in Proc /\ hub \in Proc
      /\ hcd \in Proc /\ hcd # app /\ hcd # hub /\ Starter(hub) = app /\ Stopper(hub) = hcd /\ hcd \in Task /\ hcd # none
  BY Names, Callers DEF Caller
<1>2. /\ TypeOK /\ NodePlace(hub) /\ LockPlace(hub) /\ BinderPlace(hub) /\ DriverPlace(hub) /\ AppPlace /\ HCDPlace
      /\ HUBPlace /\ StopPlace(app)
  BY <1>1, TaskFacts DEF TaskInvariant
<1>3. /\ pc[app] = "awaitDriver" /\ "E" \in sig[app] /\ sig' = [sig EXCEPT ![app] = @ \ {"E"}]
      /\ GoTo(app, label)
      /\ UNCHANGED <<callVars, nodeVars, mastVars, lockVars, queue, port, root, booted>>
  BY DEF DriverReady
<1>4. UNCHANGED <<arg, keep, result, tn, dn, count, kept, bind, fdriver>>
  BY <1>3 DEF callVars, nodeVars, mastVars, lockVars
<1>5. arg[app] = hub /\ result[app] /\ pc[hcd] \in {"forget", "main"}
  BY <1>2, <1>3 DEF AppPlace, Binds
<1>6. /\ sig' \in [Proc -> SUBSET Signals] /\ sig'[app] = sig[app] \ {"E"}
      /\ \A q \in Proc : q # app => sig'[q] = sig[q]
  BY <1>1, <1>2, <1>3 DEF TypeOK
<1>7. Goes(app, label) /\ CallOf(app, hub) /\ MasterPlace'
  <2>1. label \in AppLabels /\ label \in Calls /\ pc[app] \in Calls
    BY <1>3 DEF AppLabels, Calls, Binds
  <2>2. \A q \in Proc : sig'[q] \subseteq sig[q]
    BY <1>6
  <2> HIDE DEF label
  <2> QED BY <1>1, <1>3, <1>4, <1>5, <2>1, <2>2, GoesOn
<1>8. TypeOK'
  BY <1>2, <1>3, <1>4, <1>6, <1>7 DEF TypeOK, Goes, mastVars
<1>9. pc'[app] = label /\ pc'[hub] = pc[hub] /\ pc'[hcd] = pc[hcd]
  BY <1>1, <1>7 DEF Goes
<1>10. Stands(hub)
  BY <1>4, <1>9 DEF Stands
<1>11. QueuePlace'
  <2>1. ~ Queued(app)
    BY <1>3, QueuedAwaits
  <2> QED BY <1>1, <1>3, <1>7, <1>10, <2>1, SameQueue
<1>12. /\ ~ Starting(hub) /\ ~ Starting(hub)' /\ Binding(hub) /\ Binding(hub)'
       /\ Stopping(hub)' = Stopping(hub)
  BY <1>1, <1>3, <1>4, <1>5, <1>9 DEF Starting, Binding, Stopping, Binds
<1>13. Place(hub)'
  <2>1. ~ ToAnswer(hub)'
    BY <1>2, <1>4, <1>9, <1>12 DEF NodePlace, ToAnswer
  <2>2. NodePlace(hub)'
    BY <1>2, <1>4, <1>9, <2>1 DEF NodePlace
  <2>3. LockSum(hub)' = LockSum(hub)
    <3>1. (Stopping(hub)' <=> Stopping(hub)) /\ (InUse(hub)' <=> InUse(hub))
      BY <1>4, <1>12 DEF InUse
    <3> QED BY <1>1, <1>4, <1>9, <1>12, <3>1 DEF LockSum, One
  <2>4. LockPlace(hub)'
    BY <1>2, <1>4, <2>3 DEF LockPlace
  <2>5. BinderPlace(hub)'
    <3>1. dn[hub].st = "alloc" /\ ~ dn[hub].task /\ pc[hub] \in HUBMain \cup Late
      BY <1>1, <1>2, <1>3, <1>12 DEF BinderPlace, HUBPlace
    <3>2. dn[hub].ok => pc[hub] \in HUBMain \ {"stopping", "parked"}
      BY <1>2, <3>1 DEF DriverPlace, HUBPlace
    <3>3. ~ dn[hub].ok => pc[hub] \in Late
      BY <1>2, <3>1 DEF HUBPlace
    <3> QED BY <1>1, <1>4, <1>9, <1>12, <3>1, <3>2, <3>3 DEF BinderPlace
  <2>6. DriverPlace(hub)'
    BY <1>1, <1>2, <1>4, <1>6, <1>9, <1>12 DEF DriverPlace, InUse
  <2> QED BY <2>2, <2>4, <2>5, <2>6 DEF Place
<1>14. StartPlace(app)' /\ StopPlace(app)'
  BY <1>2, <1>3, <1>4, <1>9 DEF StartPlace, StopPlace
<1>15. HUBPlace'
  BY <1>1, <1>3, <1>4, <1>6, <1>7, HUBSees
<1>16. HCDPlace' /\ AppPlace'
  <2>1. "C" \notin sig'[hcd]
    BY <1>1, <1>2, <1>3, <1>6 DEF HCDPlace, Gave
  <2> QED BY <1>1, <1>4, <1>5, <1>9, <2>1 DEF HCDPlace, AppPlace, Binds
<1>17. Alive(tn'[hub]) <=> Alive(tn[hub])
  BY <1>4
<1> QED BY <1>1, <1>7, <1>8, <1>10, <1>11, <1>13, <1>14, <1>15, <1>16, <1>17, OneCall


\* The application or the hub's driver, in a call that starts t, or with the driver t in its hand.
LEMMA BinderFacts ==
    ASSUME TaskInvariant, NEW p \in {app, hub}, pc[p] \in Binds
    PROVE  /\ p \in Caller /\ p \in Proc /\ TypeOK /\ arg[p] \in Task /\ Starter(arg[p]) = p /\ arg[p] # p
           /\ p = hub => arg[p] \in Class /\ port = arg[p]
           /\ p = app => arg[p] = hub \/ (arg[p] = hcd /\ pc[p] = "awaitStart" /\ dn[hub].st = "none")
           /\ p = app /\ arg[p] = hub => pc[hcd] \in {"forget", "main"}
           /\ p = app /\ arg[p] # hcd => "C" \notin sig[hcd]
           /\ p \in Task => pc[p] \in Busy(p)
           /\ bind # p
           /\ pc[p] \in Calls
<1>1. /\ HUBPlace /\ AppPlace /\ HCDPlace /\ StopPlace(app) /\ StopPlace(hub) /\ TypeOK
  BY DEF TaskInvariant
<1>2. p = hub => arg[p] \in Class /\ port = arg[p]
  BY <1>1 DEF HUBPlace
<1>3. p = app => arg[p] = hub \/ (arg[p] = hcd /\ pc[p] = "awaitStart" /\ dn[hub].st = "none")
  BY <1>1 DEF AppPlace
<1>4. p = app /\ arg[p] = hub => pc[hcd] \in {"forget", "main"}
  BY <1>1 DEF AppPlace
<1>5. p = app => pc[app] \notin Gave
  BY DEF Gave, Binds
<1>6. p = app => "C" \notin sig[hcd]
  BY <1>1, <1>5 DEF HCDPlace
<1>7. bind # p
  BY <1>1 DEF StopPlace, Binds
<1>8. p \in Task => pc[p] \in Busy(p)
  BY Names DEF Busy, HUBMain, Binds
<1>9. pc[p] \in Calls
  BY DEF Calls
<1> QED BY <1>1, <1>2, <1>3, <1>4, <1>6, <1>7, <1>8, <1>9, Names, Callers DEF Caller

\* Who has a driver in its hand stops nobody.
LEMMA BinderStops ==
    ASSUME TaskInvariant, NEW d \in Driver, Binding(d)
    PROVE  ~ Stopping(d)
<1>1. d = hub => pc[hcd] \in {"forget", "main"}
  BY Names, Callers, BinderFacts DEF Binding
<1>2. d # hub => Stopper(d) = Starter(d)
  BY Names, Callers
<1> QED BY <1>1, <1>2, Callers DEF Binding, Stopping, Binds

LEMMA StartedKeeps == ASSUME TaskInvariant, NEW p \in {app, hub}, Started(p) PROVE TaskInvariant'
<1>1. pc[p] = "awaitStart" /\ pc[p] \in Binds /\ Answered(p)
  BY DEF Started, Binds
<1>2. PICK t \in Task : t = arg[p]
  BY <1>1, BinderFacts
<1>3. /\ p \in Caller /\ p \in Proc /\ TypeOK /\ Starter(t) = p /\ t # p
      /\ p = hub => t \in Class /\ port = t
      /\ p = app => t = hub \/ (t = hcd /\ dn[hub].st = "none")
      /\ p = app /\ t = hub => pc[hcd] \in {"forget", "main"}
      /\ p = app /\ t # hcd => "C" \notin sig[hcd]
      /\ p \in Task => pc[p] \in Busy(p)
      /\ bind # p /\ pc[p] \in Calls
  BY <1>1, <1>2, BinderFacts
<1>4. /\ hub \in Task /\ hcd \in Task /\ app \in Proc /\ hub \in Proc /\ hcd \in Proc /\ hub # hcd /\ hub # app /\ hcd # app
      /\ hub \in Driver /\ hcd \notin Driver /\ hcd \notin Class /\ hub \notin Class /\ t \in Proc
      /\ (t = hcd \/ t \in Driver) /\ Stopper(hcd) = app /\ app \notin Task
  BY Names, Callers
<1>5. /\ NodePlace(t) /\ LockPlace(t) /\ (t \in Driver => BinderPlace(t) /\ DriverPlace(t)) /\ tn[t] \in TaskNode
      /\ kept[t] \in Nat /\ HCDPlace /\ AppPlace /\ HUBPlace /\ StartPlace(p) /\ StopPlace(p)
      /\ pc[t] \in LabelsOf(t)
  BY <1>3, <1>4, TaskFacts DEF TaskInvariant, Caller, TypeOK
<1> DEFINE node == IF Alive(tn[t]) THEN [tn[t] EXCEPT !.locks = @ - 1] ELSE tn[t]
           next == IF t = hcd THEN IF result[p] THEN "bind" ELSE "exit"
                   ELSE IF ~ result[p] THEN "drop"
                   ELSE IF t = hub THEN "awaitDriver" ELSE "link"
<1>6. /\ sig' = [sig EXCEPT ![p] = @ \ {"reply"}]
      /\ tn' = IF Alive(tn[t]) THEN Unlocked(tn, t, 1) ELSE tn
      /\ arg' = IF next = "bind" THEN [arg EXCEPT ![p] = hub] ELSE arg
      /\ GoTo(p, next)
      /\ UNCHANGED <<dn, count, keep, result, mastVars, lockVars, queue, port, root, booted>>
  BY <1>2 DEF Started, TakeAnswer
<1>7. ~ Queued(p) /\ (result[p] => pc[t] \notin {"none", "entry"} \cup Starts)
      /\ (~ result[p] => pc[t] = "none" \/ (t = hcd /\ pc[hcd] = "dead"))
  BY <1>1, <1>2, <1>5 DEF StartPlace
<1>8. Starting(t) /\ (t \in Driver => Binding(t)) /\ ~ ToAnswer(t) /\ ~ Stopping(t) /\ bind' = bind /\ kept' = kept
  <2>1. Starting(t) /\ (t \in Driver => Binding(t)) /\ ~ ToAnswer(t)
    BY <1>1, <1>2, <1>3, <1>5 DEF Starting, Binding, Binds, NodePlace
  <2>2. ~ Stopping(t)
    BY <1>1, <1>3, <1>4, <2>1, BinderStops DEF Stopping
  <2> QED BY <1>6, <2>1, <2>2 DEF lockVars, mastVars
<1>9. Alive(tn[t]) => tn[t].locks = LockSum(t)
  BY <1>5 DEF LockPlace
<1>10. LockSum(t) \in Nat /\ LockSum(t) > 0
  BY <1>5, <1>8 DEF LockSum, One
<1>11. tn[t].st # "freed"
  BY <1>5, <1>10 DEF LockPlace
<1>12. /\ node \in TaskNode /\ node.st = tn[t].st /\ node.adr = tn[t].adr /\ node.listed = tn[t].listed
       /\ node.parent = tn[t].parent /\ (Alive(tn[t]) => node.locks = LockSum(t) - 1)
       /\ (~ Alive(tn[t]) => node = tn[t])
  <2>1. CASE Alive(tn[t])
    <3>1. PICK k \in Nat : k = LockSum(t) - 1
      BY <1>10
    <3>2. node = [tn[t] EXCEPT !.locks = k]
      BY <1>9, <2>1, <3>1
    <3>3. node \in TaskNode
      BY <1>5, <3>2, NodeUpdates
    <3> QED BY <1>5, <2>1, <3>1, <3>2, <3>3 DEF TaskNode
  <2>2. CASE ~ Alive(tn[t])
    BY <1>5, <2>2
  <2> QED BY <2>1, <2>2
<1>13. tn' \in [Task -> TaskNode] /\ tn'[t] = node /\ \A u \in Task : u # t => tn'[u] = tn[u]
  BY <1>3, <1>5, <1>6, <1>12 DEF TypeOK, Unlocked
<1> HIDE DEF node
<1>14. /\ sig' \in [Proc -> SUBSET Signals] /\ \A q \in Proc : sig'[q] \subseteq sig[q]
       /\ \A q \in Proc : "C" \in sig[q] => "C" \in sig'[q]
  BY <1>3, <1>6 DEF TypeOK
<1>15. /\ arg' \in [Proc -> Task \cup {none}] /\ (next # "bind" => arg'[p] = t) /\ (next = "bind" => arg'[p] = hub)
       /\ \A q \in Proc : q # p => arg'[q] = arg[q]
  BY <1>2, <1>3, <1>4, <1>6 DEF TypeOK
<1>16. /\ next \in {"bind", "exit", "drop", "awaitDriver", "link"} /\ (p = hub => next \in {"drop", "link"})
       /\ (next \in Calls => t # hcd) /\ (t = hcd => next \in {"bind", "exit"}) /\ (t # hcd => next \in Binds)
  BY <1>3, <1>4 DEF Calls, Binds
<1>17. Goes(p, next) /\ CallOf(p, t) /\ MasterPlace'
  <2>1. next \in AppLabels /\ (p \in Task => next \in Busy(p))
    BY <1>3, <1>4, <1>16 DEF AppLabels, Binds, Busy, HUBMain
  <2> HIDE DEF next
  <2>2. GoTo(p, next) /\ (next \in Calls => arg'[p] = t)
    BY <1>6, <1>15, <1>16 DEF Calls, Binds
  <2> QED BY <1>2, <1>3, <1>6, <1>8, <1>13, <1>14, <1>15, <2>1, <2>2, GoesOn
<1>18. TypeOK'
  BY <1>3, <1>6, <1>13, <1>14, <1>15, <1>17 DEF TypeOK, Goes, mastVars, lockVars
<1>19. pc'[p] = next /\ pc'[t] = pc[t] /\ (p # hcd /\ pc'[hcd] = pc[hcd])
  BY <1>3, <1>4, <1>17 DEF Goes
<1>20. Stands(t) /\ (Alive(tn'[t]) <=> Alive(tn[t]))
  <2>1. tn[t] = NoNode => tn'[t] = NoNode
    BY <1>12, <1>13, NoNodeIs DEF Alive
  <2> QED BY <1>6, <1>12, <1>13, <1>19, <2>1 DEF Stands, Alive
<1>21. QueuePlace'
  BY <1>3, <1>6, <1>7, <1>17, <1>20, SameQueue
<1>22. ~ Starting(t)' /\ (t \in Driver => Binding(t)') /\ ~ Stopping(t)'
  <2>1. ~ Starting(t)' /\ (t \in Driver => Binding(t)')
    BY <1>3, <1>4, <1>15, <1>16, <1>19 DEF Starting, Binding, Binds
  <2>2. Stopper(t) = p => ~ Stopping(t)'
    BY <1>16, <1>19, Names DEF Stopping, Binds
  <2>3. Stopper(t) # p => SameCall(Stopper(t))
    BY <1>17, TaskFacts DEF CallOf
  <2>4. Stopper(t) # p => (Stopping(t)' => Stopping(t))
    BY <2>3 DEF SameCall, Stopping, Calls
  <2> QED BY <1>8, <2>1, <2>2, <2>4
<1>23. Place(t)'
  <2>1. NodePlace(t)'
    <3>1. ~ ToAnswer(t)'
      BY <1>8, <1>12, <1>13, <1>19 DEF ToAnswer
    <3>2. tn[t].st = "none" => tn'[t] = tn[t]
      BY <1>12, <1>13 DEF Alive
    <3> QED BY <1>5, <1>8, <1>12, <1>13, <1>19, <3>1, <3>2 DEF NodePlace
  <2>2. LockPlace(t)'
    <3>1. LockSum(t)' = LockSum(t) - 1
      BY <1>5, <1>6, <1>8, <1>19, <1>22 DEF LockSum, One, InUse
    <3> QED BY <1>11, <1>12, <1>13, <3>1 DEF LockPlace, Alive
  <2>3. ASSUME t \in Driver PROVE BinderPlace(t)' /\ DriverPlace(t)'
    <3>1. dn[t].st = "alloc" /\ ~ dn[t].task /\ dn'[t] = dn[t] /\ result' = result
      BY <1>1, <1>3, <1>5, <1>6, <1>8, <2>3 DEF BinderPlace
    <3>2. next = "link" => pc[t] \in Early \cup {"main"} /\ t # hub
      <4> SUFFICES ASSUME next = "link" PROVE pc[t] \in Early \cup {"main"} /\ t # hub
        OBVIOUS
      <4>1. result[p] /\ t # hub /\ t # hcd
        OBVIOUS
      <4>2. pc[t] \notin Late
        BY <1>5, <2>3, <3>1, <4>1 DEF DriverPlace
      <4> QED BY <1>5, <1>7, <4>1, <4>2 DEF LabelsOf, Late, Early, Locking, Starts
    <3>3. next = "drop" => ~ result[p] /\ pc[t] = "none"
      BY <1>4, <1>7, <2>3
    <3>4. BinderPlace(t)'
      BY <1>3, <1>16, <1>19, <1>22, <2>3, <3>1, <3>2, <3>3, Names DEF BinderPlace
    <3>5. DriverPlace(t)'
      BY <1>4, <1>5, <1>8, <1>12, <1>13, <1>14, <1>19, <1>20, <1>22, <2>3, <3>1, NoNodeIs
         DEF DriverPlace, InUse, Stands
    <3> QED BY <3>4, <3>5
  <2> QED BY <2>1, <2>2, <2>3 DEF Place
<1>24. StartPlace(p)' /\ StopPlace(p)'
  BY <1>3, <1>8, <1>16, <1>19 DEF StartPlace, StopPlace, Binds
<1>25. HUBPlace' /\ HCDPlace' /\ AppPlace'
  <2>1. CASE p = hub
    <3>1. pc'[hub] # "bind" /\ arg'[hub] = arg[hub] /\ arg'[app] = arg[app] /\ t \in Class /\ pc[hub] \in Binds
      BY <1>1, <1>2, <1>3, <1>4, <1>15, <1>16, <1>19, <2>1
    <3> QED BY <1>6, <1>14, <1>17, <2>1, <3>1, HUBCallRest
  <2>2. CASE p = app
    <3>1. HUBPlace'
      BY <1>3, <1>4, <1>6, <1>14, <1>15, <1>17, <2>2, HUBSees
    <3>2. CASE t = hcd
      <4>1. "C" \notin sig'[hcd]
        BY <1>1, <1>4, <1>5, <1>14, <2>2 DEF HCDPlace, Gave
      <4>2. result[app] => pc[hcd] \in {"forget", "main"}
        BY <1>1, <1>2, <1>5, <1>7, <2>2, <3>2 DEF HCDPlace, Gave, Starts
      <4>3. Over(hub)' <=> Over(hub)
        BY <1>4, <1>13, <1>17, <2>2, <3>2 DEF Over, Goes
      <4>4. result[app] => next = "bind" /\ arg'[app] = hub
        BY <1>15, <2>2, <3>2
      <4>5. ~ result[app] => next = "exit" /\ arg'[app] = hcd
        BY <1>15, <2>2, <3>2
      <4>6. HCDPlace'
        BY <1>5, <1>6, <1>7, <1>19, <2>2, <3>2, <4>1, <4>2, <4>3, <4>5 DEF HCDPlace, InUse
      <4>7. AppPlace'
        <5>1. dn' = dn /\ dn[hub].st = "none" /\ pc'[hcd] = pc[hcd] /\ pc'[app] = next
          BY <1>3, <1>4, <1>6, <1>19, <2>2, <3>2
        <5>2. CASE result[app]
          <6>1. pc'[app] = "bind" /\ arg'[app] = hub /\ pc'[hcd] \in {"forget", "main"} /\ "bind" \notin Binds
            BY <4>2, <4>4, <5>1, <5>2 DEF Binds
          <6> QED BY <5>1, <6>1 DEF AppPlace
        <5>3. CASE ~ result[app]
          <6>1. pc'[app] = "exit" /\ "exit" \notin Binds
            BY <4>5, <5>1, <5>3 DEF Binds
          <6> QED BY <6>1 DEF AppPlace
        <5> QED BY <5>2, <5>3
      <4> QED BY <3>1, <4>6, <4>7
    <3>3. CASE t = hub
      <4>1. "C" \notin sig'[hcd] /\ arg'[app] = hub /\ pc'[hcd] \in {"forget", "main"}
        BY <1>3, <1>4, <1>14, <1>15, <1>19, <2>2, <3>3
      <4>2. next = "drop" \/ (next = "awaitDriver" /\ result'[app])
        BY <1>4, <1>6, <2>2, <3>3
      <4>3. HCDPlace'
        BY <4>1 DEF HCDPlace
      <4>4. pc'[app] \in {"drop", "awaitDriver"} /\ (pc'[app] = "awaitDriver" => result'[app])
        BY <1>19, <2>2, <4>2
      <4>5. AppPlace'
        BY <4>1, <4>4 DEF AppPlace, Binds
      <4> QED BY <3>1, <4>3, <4>5
    <3> QED BY <1>3, <2>2, <3>1, <3>2, <3>3
  <2> QED BY <2>1, <2>2
<1> HIDE DEF next
<1> QED BY <1>3, <1>17, <1>18, <1>20, <1>21, <1>23, <1>24, <1>25, OneCall


\* The application or the hub's driver goes on with the driver d in its hand.
LEMMA HandFacts ==
    ASSUME TaskInvariant, NEW p \in {app, hub}, NEW d, d = arg[p], pc[p] \in {"link", "list", "drop"}
    PROVE  /\ p \in Caller /\ p \in Proc /\ d \in Driver /\ d \in Task /\ d # hcd /\ d # p /\ Starter(d) = p
           /\ p \in Task => p = hub /\ pc[p] \in Busy(p)
           /\ p = hub => d \in Class
           /\ p = app => d = hub /\ pc[hcd] \in {"forget", "main"} /\ "C" \notin sig[hcd]
           /\ bind # p /\ pc[p] \in Calls /\ ~ Queued(p)
           /\ Binding(d) /\ dn[d].st = "alloc" /\ ~ Starting(d) /\ ~ Stopping(d)
           /\ dn[d].task => pc[p] = "list"
           /\ TypeOK /\ NodePlace(d) /\ LockPlace(d) /\ BinderPlace(d) /\ DriverPlace(d)
           /\ tn[d] \in TaskNode /\ dn[d] \in DriverNode /\ kept[d] \in Nat
<1>1. pc[p] \in Binds /\ pc[p] # "awaitStart"
  BY DEF Binds
<1>2. /\ p \in Caller /\ p \in Proc /\ TypeOK /\ d \in Task /\ Starter(d) = p /\ d # p
      /\ p = hub => d \in Class
      /\ p = app => d = hub /\ pc[hcd] \in {"forget", "main"}
      /\ p = app /\ d # hcd => "C" \notin sig[hcd]
      /\ p \in Task => pc[p] \in Busy(p)
      /\ bind # p /\ pc[p] \in Calls
  BY <1>1, BinderFacts
<1>3. d \in Driver /\ d # hcd /\ (p \in Task => p = hub)
  BY <1>2, Names
<1>4. Binding(d) /\ ~ Starting(d)
  BY <1>1, <1>2 DEF Binding, Starting
<1>5. ~ Stopping(d)
  BY <1>3, <1>4, BinderStops
<1>6. ~ Queued(p)
  BY QueuedAwaits
<1>7. NodePlace(d) /\ LockPlace(d) /\ BinderPlace(d) /\ DriverPlace(d)
  BY <1>2, <1>3, TaskFacts
<1>8. dn[d].st = "alloc" /\ (dn[d].task => pc[p] = "list")
  BY <1>2, <1>4, <1>7 DEF BinderPlace
<1>9. tn[d] \in TaskNode /\ dn[d] \in DriverNode /\ kept[d] \in Nat
  BY <1>2, <1>3 DEF TypeOK
<1> QED BY <1>2, <1>3, <1>4, <1>5, <1>6, <1>7, <1>8, <1>9

LEMMA HandKeeps ==
    ASSUME TaskInvariant, NEW p \in {app, hub}, NEW d, d = arg[p], pc[p] \in {"link", "list", "drop"},
           NEW label \in {"list", "up", "exit", "main"}, GoTo(p, label),
           p = app => label \in {"list", "up", "exit"} /\ (label = "list" => pc[p] = "link"),
           p = hub => label \in {"list", "main"},
           UNCHANGED <<callVars, count, mastVars, bind, queue, sig, port, root, booted>>,
           fdriver' \in Proc \cup {none},
           tn' \in [Task -> TaskNode], dn' \in [Driver -> DriverNode],
           \A u \in Task : u # d => tn'[u] = tn[u] /\ (u \in Driver => dn'[u] = dn[u]),
           Alive(tn'[d]) <=> Alive(tn[d]), dn'[d].ok = dn[d].ok, Stands(d), Place(d)'
    PROVE  TaskInvariant'
<1>1. /\ p \in Caller /\ p \in Proc /\ d \in Driver /\ d \in Task /\ d # hcd /\ d # p
      /\ p \in Task => p = hub /\ pc[p] \in Busy(p)
      /\ p = hub => d \in Class
      /\ p = app => d = hub /\ pc[hcd] \in {"forget", "main"} /\ "C" \notin sig[hcd]
      /\ bind # p /\ pc[p] \in Calls /\ ~ Queued(p) /\ TypeOK
  BY HandFacts
<1>2. UNCHANGED <<arg, keep, result, count, kept, mask, mode, stopping, bind, queue, sig, port, root, booted>>
  BY DEF callVars, mastVars
<1>3. /\ app \in Proc /\ hub \in Proc /\ hcd \in Proc /\ hub # hcd /\ hub # app /\ hcd # app /\ hcd \in Task
      /\ hub \in Task /\ hub \in Driver /\ app \notin Task
  BY Names
<1>4. Goes(p, label) /\ CallOf(p, d) /\ MasterPlace'
  <2>1. (p = app => label \in AppLabels) /\ (p \in Task => pc[p] \in Busy(p) /\ label \in Busy(p))
    BY <1>1 DEF AppLabels, Binds, Busy, HUBMain
  <2>2. /\ \A q \in Proc : sig'[q] \subseteq sig[q]
        /\ \A q \in Proc : q # p => arg'[q] = arg[q]
        /\ \A q \in Caller : q # p => (bind' = q <=> bind = q)
        /\ label \in Calls => arg'[p] = d
    BY <1>2
  <2> QED BY <1>1, <1>2, <2>1, <2>2, GoesOn
<1>5. TypeOK'
  BY <1>1, <1>2, <1>4 DEF TypeOK, Goes
<1>6. QueuePlace'
  BY <1>1, <1>2, <1>4, SameQueue
<1>7. pc'[p] = label /\ (p = app => pc'[hcd] = pc[hcd])
  BY <1>3, <1>4 DEF Goes
<1>8. StartPlace(p)' /\ StopPlace(p)'
  BY <1>1, <1>2, <1>7 DEF StartPlace, StopPlace
<1>9. HUBPlace' /\ HCDPlace' /\ AppPlace'
  <2>1. CASE p = hub
    <3>1. d \in Class /\ CallOf(hub, d)
      BY <1>1, <1>4, <2>1
    <3>2. pc'[hub] # "bind" /\ pc[hub] \in Binds
      BY <1>7, <2>1 DEF Binds
    <3> QED BY <1>2, <3>1, <3>2, HUBCallRest
  <2>2. CASE p = app
    <3>1. d = hub /\ CallOf(app, hub)
      BY <1>1, <1>4, <2>2
    <3>2. HUBPlace'
      BY <1>2, <2>2, <3>1, HUBSees
    <3>3. HCDPlace'
      BY <1>1, <1>2, <1>7, <2>2 DEF HCDPlace
    <3>4. label = "list" => result[app]
      BY <2>2 DEF TaskInvariant, AppPlace
    <3>5. AppPlace'
      BY <1>1, <1>2, <1>7, <2>2, <3>1, <3>4 DEF AppPlace, Binds
    <3> QED BY <3>2, <3>3, <3>5
  <2> QED BY <2>1, <2>2
<1> QED BY <1>1, <1>4, <1>5, <1>6, <1>8, <1>9, OneCall


LEMMA LinkKeeps == ASSUME TaskInvariant, NEW p \in {app, hub}, Link(p) PROVE TaskInvariant'
<1>1. pc[p] = "link"
  BY DEF Link
<1>2. PICK d : d = arg[p]
  OBVIOUS
<1>3. /\ p \in Caller /\ p \in Proc /\ d \in Driver /\ d \in Task /\ d # hcd /\ d # p /\ Starter(d) = p
      /\ p = app => pc[hcd] \in {"forget", "main"}
      /\ Binding(d) /\ dn[d].st = "alloc" /\ ~ Starting(d) /\ ~ Stopping(d)
      /\ ~ dn[d].task /\ bind # p
      /\ TypeOK /\ NodePlace(d) /\ LockPlace(d) /\ BinderPlace(d) /\ DriverPlace(d)
      /\ tn[d] \in TaskNode /\ dn[d] \in DriverNode /\ kept[d] \in Nat
  BY <1>1, <1>2, HandFacts
<1>4. /\ tn' = IF Alive(tn[d]) THEN [tn EXCEPT ![d].locks = @ + 1] ELSE tn
      /\ dn' = [dn EXCEPT ![d].task = TRUE] /\ GoTo(p, "list") /\ fdriver' = fdriver
      /\ UNCHANGED <<callVars, count, mastVars, bind, queue, sig, port, root, booted>>
      /\ UNCHANGED <<arg, result, keep, kept>>
  BY <1>2 DEF Link, lockVars, callVars, mastVars
<1>5. pc[d] \in IF d = hub THEN HUBMain \ {"stopping", "parked"} ELSE Early \cup {"main"}
  BY <1>1, <1>3 DEF BinderPlace
<1>6. /\ pc[d] \notin {"none", "entry", "dead"} \cup Starts \cup Ends \cup Late /\ StatesAt(pc[d]) = {"running"}
  BY <1>5 DEF HUBMain, Binds, Early, Starts, Ends, Late, StatesAt
<1>7. tn[d].st = "running" /\ Alive(tn[d])
  BY <1>3, <1>6 DEF NodePlace, Alive
<1>8. PICK k \in Nat : k = tn[d].locks + 1
  BY <1>3 DEF TaskNode
<1>9. PICK node : node = [tn[d] EXCEPT !.locks = k]
  OBVIOUS
<1>10. /\ node \in TaskNode /\ node.st = "running" /\ node.adr = tn[d].adr /\ node.listed = tn[d].listed
       /\ node.parent = tn[d].parent /\ node.locks = k
  <2>1. node \in TaskNode
    BY <1>3, <1>8, <1>9, NodeUpdates
  <2> QED BY <1>3, <1>7, <1>9, <2>1 DEF TaskNode
<1>11. tn' \in [Task -> TaskNode] /\ tn'[d] = node /\ \A u \in Task : u # d => tn'[u] = tn[u]
  BY <1>3, <1>4, <1>7, <1>8, <1>9, <1>10 DEF TypeOK
<1>12. PICK drv : drv = [dn[d] EXCEPT !.task = TRUE]
  OBVIOUS
<1>13. /\ drv \in DriverNode /\ drv.st = "alloc" /\ drv.locks = dn[d].locks /\ drv.freeMe = dn[d].freeMe
       /\ drv.task /\ drv.ok = dn[d].ok
  BY <1>3, <1>12 DEF DriverNode
<1>14. dn' \in [Driver -> DriverNode] /\ dn'[d] = drv /\ \A u \in Driver : u # d => dn'[u] = dn[u]
  BY <1>3, <1>4, <1>12, <1>13 DEF TypeOK
<1>15. pc'[p] = "list" /\ pc'[d] = pc[d] /\ (p = app => pc'[hcd] = pc[hcd])
  <2>1. p \notin {master, hcd} /\ d \in Proc /\ hcd \in Proc
    BY <1>3, Names
  <2>2. "list" \in Labels
    BY DEF Labels, AppLabels, Binds
  <2> QED BY <1>3, <1>4, <2>1, <2>2, GoToIs
<1>16. Binding(d)' /\ ~ Starting(d)' /\ ~ Stopping(d)'
  <2>1. Binding(d)' /\ ~ Starting(d)'
    BY <1>2, <1>3, <1>4, <1>15 DEF Binding, Binds, Starting
  <2>2. Stopper(d) = p \/ (p = app /\ Stopper(d) = hcd)
    BY <1>3, Names, Callers
  <2> QED BY <1>15, <1>3, <2>1, <2>2 DEF Stopping
<1>17. Stands(d) /\ (Alive(tn'[d]) <=> Alive(tn[d])) /\ dn'[d].ok = dn[d].ok
  <2>1. tn[d] # NoNode /\ Alive(tn'[d])
    BY <1>7, <1>10, <1>11, NoNodeIs DEF Alive
  <2> QED BY <1>3, <1>7, <1>10, <1>11, <1>13, <1>14, <1>15, <2>1 DEF Stands
<1>18. Place(d)'
  <2>1. NodePlace(d)'
    <3>1. ~ ToAnswer(d)'
      BY <1>6, <1>15 DEF ToAnswer
    <3> QED BY <1>3, <1>4, <1>6, <1>10, <1>11, <1>15, <3>1 DEF NodePlace
  <2>2. LockPlace(d)'
    <3>1. InUse(d) /\ InUse(d)'
      BY <1>3, <1>13, <1>14 DEF InUse
    <3>2. LockSum(d)' = LockSum(d) + 1
      BY <1>3, <1>4, <1>13, <1>14, <1>16, <3>1 DEF LockSum, One
    <3>3. tn[d].locks = LockSum(d)
      BY <1>3, <1>7 DEF LockPlace
    <3> QED BY <1>8, <1>10, <1>11, <3>2, <3>3 DEF LockPlace
  <2>3. BinderPlace(d)'
    BY <1>3, <1>5, <1>13, <1>14, <1>15, <1>16 DEF BinderPlace
  <2>4. DriverPlace(d)'
    BY <1>3, <1>4, <1>6, <1>7, <1>10, <1>11, <1>13, <1>14, <1>15, <1>16 DEF DriverPlace, InUse
  <2> QED BY <2>1, <2>2, <2>3, <2>4 DEF Place
<1>19. fdriver' \in Proc \cup {none}
  BY <1>3, <1>4 DEF TypeOK
<1>20. \A u \in Task : u # d => tn'[u] = tn[u] /\ (u \in Driver => dn'[u] = dn[u])
  BY <1>11, <1>14
<1> QED BY <1>1, <1>2, <1>4, <1>11, <1>14, <1>17, <1>18, <1>19, <1>20, HandKeeps

LEMMA ListKeeps == ASSUME TaskInvariant, NEW p \in {app, hub}, List(p) PROVE TaskInvariant'
<1>1. pc[p] = "list"
  BY DEF List
<1>2. PICK d : d = arg[p]
  OBVIOUS
<1>3. /\ p \in Caller /\ p \in Proc /\ d \in Driver /\ d \in Task /\ d # hcd /\ d # p /\ Starter(d) = p
      /\ p = app => pc[hcd] \in {"forget", "main"}
      /\ Binding(d) /\ dn[d].st = "alloc" /\ ~ Starting(d) /\ ~ Stopping(d) /\ bind # p
      /\ TypeOK /\ NodePlace(d) /\ LockPlace(d) /\ BinderPlace(d) /\ DriverPlace(d)
      /\ tn[d] \in TaskNode /\ dn[d] \in DriverNode /\ kept[d] \in Nat
  BY <1>1, <1>2, HandFacts
<1>4. PICK label \in {"up", "main"} : label = IF p = app THEN "up" ELSE "main"
  OBVIOUS
<1>5. /\ dn' = [dn EXCEPT ![d].st = "listed"] /\ fdriver' = none /\ GoTo(p, label) /\ tn' = tn
      /\ UNCHANGED <<callVars, count, mastVars, bind, queue, sig, port, root, booted>>
      /\ UNCHANGED <<arg, result, keep, kept>>
  BY <1>2, <1>4 DEF List, callVars, mastVars
<1>6. pc[d] \in (IF d = hub THEN HUBMain \ {"stopping", "parked"} ELSE Early \cup {"main"}) /\ dn[d].task
  BY <1>1, <1>3 DEF BinderPlace
<1>7. /\ pc[d] \notin {"none", "entry", "dead"} \cup Starts \cup Ends \cup Late /\ StatesAt(pc[d]) = {"running"}
  BY <1>6 DEF HUBMain, Binds, Early, Starts, Ends, Late, StatesAt
<1>8. tn[d].st = "running" /\ Alive(tn[d])
  BY <1>3, <1>7 DEF NodePlace, Alive
<1>9. PICK drv : drv = [dn[d] EXCEPT !.st = "listed"]
  OBVIOUS
<1>10. /\ drv \in DriverNode /\ drv.st = "listed" /\ drv.locks = dn[d].locks /\ drv.freeMe = dn[d].freeMe
       /\ drv.task /\ drv.ok = dn[d].ok
  BY <1>3, <1>6, <1>9 DEF DriverNode
<1>11. dn' \in [Driver -> DriverNode] /\ dn'[d] = drv /\ \A u \in Driver : u # d => dn'[u] = dn[u]
  BY <1>3, <1>5, <1>9, <1>10 DEF TypeOK
<1>12. p \notin {master, hcd} /\ d \in Proc /\ hcd \in Proc /\ hcd # app /\ hub # app /\ app \notin Task
  BY <1>3, Names
<1>13. pc'[p] = label /\ pc'[d] = pc[d] /\ (p = app => pc'[hcd] = pc[hcd])
  <2>1. label \in Labels
    BY <1>4 DEF Labels, AppLabels, HUBMain
  <2> QED BY <1>3, <1>5, <1>12, <2>1, GoToIs
<1>14. ~ Binding(d)' /\ ~ Starting(d)' /\ ~ Stopping(d)'
  <2>1. label \notin Binds /\ label # "awaitStart" /\ label # "awaitStop"
    BY <1>4 DEF Binds
  <2>2. ~ Binding(d)' /\ ~ Starting(d)'
    BY <1>3, <1>13, <2>1 DEF Binding, Starting
  <2>3. Stopper(d) = p \/ (p = app /\ Stopper(d) = hcd)
    BY <1>3, Names, Callers
  <2> QED BY <1>3, <1>13, <2>1, <2>2, <2>3 DEF Stopping
<1>15. Stands(d) /\ (Alive(tn'[d]) <=> Alive(tn[d])) /\ dn'[d].ok = dn[d].ok
  BY <1>3, <1>5, <1>10, <1>11, <1>13 DEF Stands
<1>16. Place(d)'
  <2>1. NodePlace(d)'
    <3>1. ~ ToAnswer(d)'
      BY <1>7, <1>13 DEF ToAnswer
    <3> QED BY <1>3, <1>5, <1>7, <1>13, <3>1 DEF NodePlace
  <2>2. LockPlace(d)'
    <3>1. InUse(d) /\ InUse(d)' /\ dn[d].task /\ dn'[d].task
      BY <1>3, <1>6, <1>10, <1>11 DEF InUse
    <3>2. LockSum(d)' = LockSum(d)
      BY <1>3, <1>5, <1>14, <3>1 DEF LockSum, One
    <3> QED BY <1>3, <1>5, <3>2 DEF LockPlace
  <2>3. BinderPlace(d)'
    BY <1>10, <1>11, <1>14 DEF BinderPlace
  <2>4. DriverPlace(d)'
    BY <1>3, <1>5, <1>7, <1>8, <1>10, <1>11, <1>13, <1>14 DEF DriverPlace, InUse
  <2> QED BY <2>1, <2>2, <2>3, <2>4 DEF Place
<1>17. fdriver' \in Proc \cup {none} /\ tn' \in [Task -> TaskNode]
  BY <1>3, <1>5 DEF TypeOK
<1>18. \A u \in Task : u # d => tn'[u] = tn[u] /\ (u \in Driver => dn'[u] = dn[u])
  BY <1>5, <1>11
<1>19. /\ label \in {"list", "up", "exit", "main"}
       /\ p = app => label \in {"list", "up", "exit"} /\ (label = "list" => pc[p] = "link")
       /\ p = hub => label \in {"list", "main"}
  BY <1>4, <1>12
<1> QED BY <1>1, <1>2, <1>5, <1>11, <1>15, <1>16, <1>17, <1>18, <1>19, HandKeeps


LEMMA DroppedKeeps == ASSUME TaskInvariant, NEW p \in {app, hub}, Dropped(p) PROVE TaskInvariant'
<1>1. pc[p] = "drop"
  BY DEF Dropped
<1>2. PICK d : d = arg[p]
  OBVIOUS
<1>3. /\ p \in Caller /\ p \in Proc /\ d \in Driver /\ d \in Task /\ d # hcd /\ d # p /\ Starter(d) = p
      /\ p = app => pc[hcd] \in {"forget", "main"}
      /\ Binding(d) /\ dn[d].st = "alloc" /\ ~ Starting(d) /\ ~ Stopping(d) /\ ~ dn[d].task /\ bind # p
      /\ TypeOK /\ NodePlace(d) /\ LockPlace(d) /\ BinderPlace(d) /\ DriverPlace(d)
      /\ tn[d] \in TaskNode /\ dn[d] \in DriverNode /\ kept[d] \in Nat
  BY <1>1, <1>2, HandFacts
<1>4. PICK label \in {"exit", "main"} : label = IF p = app THEN "exit" ELSE "main"
  OBVIOUS
<1>5. PICK st \in {"listed", "freed"} : st = IF dn[d].locks > 0 THEN "listed" ELSE "freed"
  OBVIOUS
<1>6. /\ dn' = [dn EXCEPT ![d].freeMe = TRUE, ![d].st = st] /\ fdriver' = none /\ GoTo(p, label) /\ tn' = tn
      /\ UNCHANGED <<callVars, count, mastVars, bind, queue, sig, port, root, booted>>
      /\ UNCHANGED <<arg, result, keep, kept>>
  BY <1>2, <1>4, <1>5 DEF Dropped, callVars, mastVars
<1>7. pc[d] = "none" \/ (d = hub /\ pc[d] \in Late /\ ~ dn[d].ok)
  BY <1>1, <1>3 DEF BinderPlace
<1>8. dn[d].locks = One(pc[d] = "unlock")
  <2>1. pc[d] \in Locking(d) <=> pc[d] = "unlock"
    BY <1>7 DEF Locking, Late, HUBMain, Binds
  <2> QED BY <1>3, <2>1 DEF DriverPlace, One
<1>9. (pc[d] = "unlock" <=> st = "listed") /\ (pc[d] # "unlock" => st = "freed")
  BY <1>5, <1>8, OneIs DEF One
<1>10. PICK drv : drv = [dn[d] EXCEPT !.freeMe = TRUE, !.st = st]
  OBVIOUS
<1>11. /\ drv \in DriverNode /\ drv.st = st /\ drv.locks = dn[d].locks /\ drv.freeMe
       /\ ~ drv.task /\ drv.ok = dn[d].ok
  BY <1>3, <1>10 DEF DriverNode
<1>12. dn' \in [Driver -> DriverNode] /\ dn'[d] = drv /\ \A u \in Driver : u # d => dn'[u] = dn[u]
  BY <1>3, <1>6, <1>10, <1>11 DEF TypeOK
<1>13. p \notin {master, hcd} /\ d \in Proc /\ hcd \in Proc /\ hcd # app /\ hub # app /\ app \notin Task
  BY <1>3, Names
<1>14. pc'[p] = label /\ pc'[d] = pc[d]
  <2>1. label \in Labels
    BY <1>4 DEF Labels, AppLabels, HUBMain
  <2> QED BY <1>3, <1>6, <1>13, <2>1, GoToIs
<1>15. ~ Binding(d)' /\ ~ Starting(d)' /\ ~ Stopping(d)'
  <2>1. label \notin Binds /\ label # "awaitStart" /\ label # "awaitStop"
    BY <1>4 DEF Binds
  <2>2. ~ Binding(d)' /\ ~ Starting(d)'
    BY <1>3, <1>14, <2>1 DEF Binding, Starting
  <2>3. pc'[Stopper(d)] = label \/ pc'[Stopper(d)] = pc[Stopper(d)]
    <3>1. Stopper(d) = p \/ (p = app /\ Stopper(d) = hcd)
      BY <1>3, Names, Callers
    <3>2. label \in Labels
      BY <1>4 DEF Labels, AppLabels, HUBMain
    <3> QED BY <1>3, <1>6, <1>13, <3>1, <3>2, GoToIs
  <2>4. ~ Stopping(d)'
    BY <1>3, <1>6, <2>1, <2>3 DEF Stopping
  <2> QED BY <2>2, <2>4
<1>16. Stands(d) /\ (Alive(tn'[d]) <=> Alive(tn[d])) /\ dn'[d].ok = dn[d].ok
  BY <1>3, <1>6, <1>11, <1>12, <1>14 DEF Stands
<1>17. Place(d)'
  <2>1. NodePlace(d)'
    <3>1. ~ ToAnswer(d)'
      <4>1. ~ ToAnswer(d)
        BY <1>3 DEF NodePlace
      <4> QED BY <1>6, <1>14, <4>1 DEF ToAnswer
    <3> QED BY <1>3, <1>6, <1>14, <3>1 DEF NodePlace
  <2>2. LockPlace(d)'
    <3>1. LockSum(d)' = LockSum(d)
      BY <1>3, <1>6, <1>11, <1>12, <1>15 DEF LockSum, One
    <3> QED BY <1>3, <1>6, <3>1 DEF LockPlace
  <2>3. BinderPlace(d)'
    BY <1>5, <1>11, <1>12, <1>15 DEF BinderPlace
  <2>4. DriverPlace(d)'
    <3>1. st = "listed" => tn[d].st = "running"
      BY <1>3, <1>9 DEF NodePlace, StatesAt, Starts, Ends
    <3>2. pc[d] \in Locking(d) \cup Early => st = "listed"
      BY <1>7, <1>9 DEF Locking, Late, HUBMain, Binds, Early
    <3>3. pc[d] \in Late \/ (pc[d] = "none" /\ st = "freed")
      BY <1>7, <1>9
    <3>4. st = "listed" => d = hub /\ pc[d] \in Late /\ ~ dn[d].ok
      BY <1>7, <1>9
    <3> QED BY <1>3, <1>5, <1>6, <1>11, <1>12, <1>14, <1>15, <3>1, <3>2, <3>3, <3>4 DEF DriverPlace, InUse
  <2> QED BY <2>1, <2>2, <2>3, <2>4 DEF Place
<1>18. fdriver' \in Proc \cup {none} /\ tn' \in [Task -> TaskNode]
  BY <1>3, <1>6 DEF TypeOK
<1>19. \A u \in Task : u # d => tn'[u] = tn[u] /\ (u \in Driver => dn'[u] = dn[u])
  BY <1>6, <1>12
<1>20. /\ label \in {"list", "up", "exit", "main"}
       /\ p = app => label \in {"list", "up", "exit"} /\ (label = "list" => pc[p] = "link")
       /\ p = hub => label \in {"list", "main"}
  BY <1>4, <1>13
<1> QED BY <1>1, <1>2, <1>6, <1>12, <1>16, <1>17, <1>18, <1>19, <1>20, HandKeeps


\* The Master has answered a stop: the call's locks are given up.
LEMMA StoppedSum ==
    ASSUME TaskInvariant, NEW p \in Caller, pc[p] = "awaitStop", NEW t, t = arg[p]
    PROVE  /\ t \in Task /\ Stopper(t) = p /\ Stopping(t) /\ t # p
           /\ \E rest \in Nat :
                  /\ rest = One(Starting(t)) + kept[t] + One(t # hcd /\ dn[t].task /\ InUse(t))
                            + One(t = hcd /\ pc[t] \notin {"none", "entry", "dead"})
                  /\ LockSum(t) = rest + Own(p) + One(bind = p)
                  /\ tn[t].locks = LockSum(t)
           /\ Own(p) \in {0, 1} /\ TypeOK
<1>1. StopPlace(p) /\ TypeOK
  BY DEF TaskInvariant, Caller
<1>2. t \in Task /\ Stopper(t) = p /\ Stopping(t) /\ tn[t].st # "none"
  BY <1>1 DEF StopPlace, Stopping
<1>3. t # p
  BY <1>2, Names, Callers
<1>4. kept[t] \in Nat /\ LockPlace(t)
  BY <1>2, TaskFacts
<1>5. One(Stopping(t) /\ ~ keep[Stopper(t)]) = Own(p) /\ One(Stopping(t) /\ bind = Stopper(t)) = One(bind = p)
  BY <1>2 DEF One, Own
<1>6. PICK rest \in Nat : rest = One(Starting(t)) + kept[t] + One(t # hcd /\ dn[t].task /\ InUse(t))
                                 + One(t = hcd /\ pc[t] \notin {"none", "entry", "dead"})
  BY <1>4 DEF One
<1>7. One(Starting(t)) \in Nat /\ One(t # hcd /\ dn[t].task /\ InUse(t)) \in Nat
      /\ One(t = hcd /\ pc[t] \notin {"none", "entry", "dead"}) \in Nat /\ Own(p) \in {0, 1} /\ One(bind = p) \in Nat
  BY DEF One, Own
<1>8. LockSum(t) = rest + Own(p) + One(bind = p)
  BY <1>4, <1>5, <1>6, <1>7 DEF LockSum
<1>9. tn[t].locks = LockSum(t)
  BY <1>2, <1>4 DEF LockPlace, Alive
<1> QED BY <1>1, <1>2, <1>3, <1>6, <1>7, <1>8, <1>9

LEMMA StoppedHCDKeeps == ASSUME TaskInvariant, Stopped(app) PROVE TaskInvariant'
<1>1. /\ app \in Caller /\ app \in Proc /\ app \notin Task /\ hcd \in Task /\ hcd \in Proc /\ hub \in Task /\ hub \in Proc
      /\ hub # hcd /\ hub # app /\ hcd # app /\ hcd \notin Driver /\ hub \in Driver /\ Starter(hcd) = app /\ Stopper(hcd) = app
  BY Names, Callers DEF Caller
<1>2. pc[app] = "awaitStop" /\ Answered(app)
  BY DEF Stopped
<1>3. /\ TypeOK /\ NodePlace(hcd) /\ LockPlace(hcd) /\ tn[hcd] \in TaskNode /\ StopPlace(app) /\ HCDPlace /\ AppPlace
      /\ kept[hcd] \in Nat
  BY <1>1, TaskFacts DEF TaskInvariant
<1>4. arg[app] = hcd /\ bind # app
  BY <1>2, <1>3, Names, Callers DEF StopPlace
<1>5. PICK rest \in Nat :
          /\ rest = One(Starting(hcd)) + kept[hcd] + One(hcd # hcd /\ dn[hcd].task /\ InUse(hcd))
                    + One(hcd = hcd /\ pc[hcd] \notin {"none", "entry", "dead"})
          /\ LockSum(hcd) = rest + Own(app) + One(bind = app)
          /\ tn[hcd].locks = LockSum(hcd) /\ Own(app) \in {0, 1}
  BY <1>1, <1>2, <1>4, StoppedSum
<1>6. tn[hcd].locks - Own(app) = rest
  BY <1>4, <1>5 DEF One
<1>7. /\ sig' = [sig EXCEPT ![app] = @ \ {"reply"}] /\ tn' = [tn EXCEPT ![hcd].locks = @ - Own(app)]
      /\ dn' = dn /\ bind' = bind /\ GoTo(app, "waitHCD")
      /\ UNCHANGED <<callVars, count, mastVars, fdriver, queue, port, root, booted>>
      /\ UNCHANGED <<arg, keep, result, kept>>
  BY <1>1, <1>4 DEF Stopped, TakeAnswer, AfterStop, Unlocked, callVars, mastVars
<1>8. PICK node : node = [tn[hcd] EXCEPT !.locks = rest]
  OBVIOUS
<1>9. /\ node \in TaskNode /\ node.st = tn[hcd].st /\ node.adr = tn[hcd].adr /\ node.listed = tn[hcd].listed
      /\ node.parent = tn[hcd].parent /\ node.locks = rest
  <2>1. node \in TaskNode
    BY <1>3, <1>8, NodeUpdates
  <2> QED BY <1>3, <1>8, <2>1 DEF TaskNode
<1>10. tn' \in [Task -> TaskNode] /\ tn'[hcd] = node /\ \A u \in Task : u # hcd => tn'[u] = tn[u]
  BY <1>1, <1>3, <1>6, <1>7, <1>8, <1>9 DEF TypeOK
<1>11. /\ sig' \in [Proc -> SUBSET Signals] /\ \A q \in Proc : sig'[q] \subseteq sig[q]
       /\ \A q \in Proc : "C" \in sig[q] <=> "C" \in sig'[q]
  BY <1>1, <1>3, <1>7 DEF TypeOK
<1>12. Goes(app, "waitHCD") /\ CallOf(app, hcd) /\ MasterPlace'
  <2>1. "waitHCD" \in AppLabels /\ pc[app] \in Calls /\ "waitHCD" \notin Calls
    BY <1>2 DEF AppLabels, Calls, Binds
  <2> QED BY <1>1, <1>4, <1>7, <1>10, <1>11, <2>1, GoesOn
<1>13. TypeOK'
  BY <1>3, <1>7, <1>10, <1>11, <1>12 DEF TypeOK, Goes, callVars, mastVars
<1>14. pc'[app] = "waitHCD" /\ pc'[hcd] = pc[hcd] /\ pc'[hub] = pc[hub]
  BY <1>1, <1>12 DEF Goes
<1>15. Stands(hcd) /\ (Alive(tn'[hcd]) <=> Alive(tn[hcd]))
  <2>1. tn[hcd] # NoNode
    BY <1>2, <1>3, <1>4, NoNodeIs DEF StopPlace
  <2> QED BY <1>1, <1>9, <1>10, <1>14, <2>1 DEF Stands, Alive
<1>16. QueuePlace'
  <2>1. ~ Queued(app)
    BY <1>2, QueuedAwaits
  <2> QED BY <1>1, <1>7, <1>12, <1>15, <2>1, SameQueue
<1>17. ~ Starting(hcd) /\ ~ Starting(hcd)' /\ ~ Stopping(hcd)'
  BY <1>1, <1>2, <1>14 DEF Starting, Stopping
<1>18. Place(hcd)'
  <2>1. NodePlace(hcd)'
    <3>1. ~ ToAnswer(hcd) /\ ~ ToAnswer(hcd)'
      <4>1. ~ ToAnswer(hcd)
        BY <1>3, <1>17 DEF NodePlace
      <4> QED BY <1>9, <1>10, <1>14, <4>1 DEF ToAnswer
    <3>2. node.st # "none"
      BY <1>2, <1>3, <1>4, <1>9 DEF StopPlace
    <3> QED BY <1>3, <1>7, <1>9, <1>10, <1>14, <3>1, <3>2 DEF NodePlace
  <2>2. LockPlace(hcd)'
    <3>1. LockSum(hcd)' = rest
      <4>1. rest = kept[hcd] + One(pc[hcd] \notin {"none", "entry", "dead"})
        BY <1>3, <1>5, <1>17 DEF One
      <4>2. LockSum(hcd)' = kept[hcd] + One(pc[hcd] \notin {"none", "entry", "dead"})
        BY <1>1, <1>3, <1>7, <1>14, <1>17 DEF LockSum, One
      <4> QED BY <4>1, <4>2
    <3>2. tn[hcd].st = "freed" => rest = 0
      BY <1>3, <1>5 DEF LockPlace, One
    <3> QED BY <1>9, <1>10, <3>1, <3>2 DEF LockPlace
  <2> QED BY <1>1, <2>1, <2>2 DEF Place
<1>19. StartPlace(app)' /\ StopPlace(app)'
  BY <1>4, <1>7, <1>14 DEF StartPlace, StopPlace
<1>20. HUBPlace'
  BY <1>1, <1>7, <1>11, <1>12, HUBSees
<1>21. HCDPlace' /\ AppPlace'
  BY <1>1, <1>3, <1>7, <1>10, <1>14 DEF HCDPlace, AppPlace, Gave, Over, InUse, Binds
<1> QED BY <1>1, <1>12, <1>13, <1>15, <1>16, <1>18, <1>19, <1>20, <1>21, OneCall


LEMMA StoppedDriverKeeps == ASSUME TaskInvariant, NEW p \in {hub, hcd}, Stopped(p) PROVE TaskInvariant'
<1>1. pc[p] = "awaitStop" /\ Answered(p)
  BY DEF Stopped
<1>2. PICK t : t = arg[p]
  OBVIOUS
<1>3. /\ p \in Caller /\ p \in Proc /\ p # app /\ p # none /\ p \in Task /\ hub \in Task /\ hub \in Proc /\ hcd \in Task
      /\ hcd \in Proc /\ app \in Proc /\ hub # hcd /\ hub # app /\ hcd # app /\ hub \in Driver /\ none \notin Caller
  BY Names DEF Caller
<1>4. StopPlace(p) /\ HCDPlace /\ AppPlace /\ HUBPlace /\ NodePlace(hcd)
  BY <1>3, TaskFacts DEF TaskInvariant, Caller
<1>5. /\ bind = p /\ t \in Task /\ Stopper(t) = p /\ Alive(tn[t]) /\ dn[t].st = "listed" /\ dn[t].task
  BY <1>1, <1>2, <1>3, <1>4 DEF StopPlace
<1>6. /\ t \in Driver /\ t # hcd /\ t # p /\ t \in Proc /\ (p = hub => t \in Class /\ Starter(t) = hub)
      /\ (p = hcd => t = hub /\ Starter(t) = app)
  BY <1>3, <1>5, Names, Callers
<1>7. /\ TypeOK /\ NodePlace(t) /\ LockPlace(t) /\ BinderPlace(t) /\ DriverPlace(t) /\ tn[t] \in TaskNode
      /\ dn[t] \in DriverNode /\ kept[t] \in Nat
  BY <1>5, <1>6, TaskFacts
<1>8. PICK rest \in Nat :
          /\ rest = One(Starting(t)) + kept[t] + One(t # hcd /\ dn[t].task /\ InUse(t))
                    + One(t = hcd /\ pc[t] \notin {"none", "entry", "dead"})
          /\ LockSum(t) = rest + Own(p) + One(bind = p)
          /\ tn[t].locks = LockSum(t) /\ Own(p) \in {0, 1} /\ Stopping(t)
  BY <1>1, <1>2, <1>3, StoppedSum
<1>9. tn[t].locks - (Own(p) + 1) = rest
  BY <1>5, <1>8 DEF One
<1>10. PICK label \in {"main", "stopping"} : label = IF p = hub THEN "main" ELSE "stopping"
  OBVIOUS
<1>11. p = hcd => tn[hcd].st = "running"
  BY <1>1, <1>4 DEF NodePlace, StatesAt, Starts, Ends
<1>12. /\ sig' = [sig EXCEPT ![p] = @ \ {"reply"}] /\ tn' = [tn EXCEPT ![t].locks = @ - (Own(p) + 1)]
       /\ dn' = [dn EXCEPT ![t].locks = @ - 1] /\ bind' = none /\ GoTo(p, label)
       /\ UNCHANGED <<callVars, count, mastVars, fdriver, queue, port, root, booted>>
       /\ UNCHANGED <<arg, keep, result, kept>>
  <2>1. AfterStop(p) = label
    BY <1>3, <1>10, <1>11 DEF AfterStop
  <2> QED BY <1>2, <1>5, <2>1 DEF Stopped, TakeAnswer, Unlocked, callVars, mastVars
<1>13. PICK node : node = [tn[t] EXCEPT !.locks = rest]
  OBVIOUS
<1>14. /\ node \in TaskNode /\ node.st = tn[t].st /\ node.adr = tn[t].adr /\ node.listed = tn[t].listed
       /\ node.parent = tn[t].parent /\ node.locks = rest
  <2>1. node \in TaskNode
    BY <1>7, <1>13, NodeUpdates
  <2> QED BY <1>7, <1>13, <2>1 DEF TaskNode
<1>15. tn' \in [Task -> TaskNode] /\ tn'[t] = node /\ \A u \in Task : u # t => tn'[u] = tn[u]
  BY <1>5, <1>7, <1>9, <1>12, <1>13, <1>14 DEF TypeOK
<1>16. dn[t].locks = One(pc[t] \in Locking(t)) + 1
  BY <1>5, <1>7, <1>8 DEF DriverPlace, One
<1>17. PICK k \in 0 .. 2 : k = dn[t].locks - 1 /\ k = One(pc[t] \in Locking(t))
  BY <1>16 DEF One
<1>18. PICK drv : drv = [dn[t] EXCEPT !.locks = k]
  OBVIOUS
<1>19. /\ drv \in DriverNode /\ drv.st = "listed" /\ drv.locks = k /\ drv.freeMe = dn[t].freeMe
       /\ drv.task /\ drv.ok = dn[t].ok
  <2>1. drv \in DriverNode
    BY <1>7, <1>18, DriverNodes
  <2> QED BY <1>5, <1>7, <1>18, <2>1 DEF DriverNode
<1>20. dn' \in [Driver -> DriverNode] /\ dn'[t] = drv /\ \A u \in Driver : u # t => dn'[u] = dn[u]
  BY <1>6, <1>7, <1>12, <1>17, <1>18, <1>19 DEF TypeOK
<1>21. /\ sig' \in [Proc -> SUBSET Signals] /\ \A q \in Proc : sig'[q] \subseteq sig[q]
       /\ \A q \in Proc : ("C" \in sig[q] <=> "C" \in sig'[q]) /\ ("E" \in sig[q] <=> "E" \in sig'[q])
  BY <1>3, <1>7, <1>12 DEF TypeOK
<1>22. Goes(p, label) /\ CallOf(p, t) /\ MasterPlace'
  <2>1. pc[p] \in Calls /\ label \notin Calls
    BY <1>1, <1>10 DEF Calls, Binds
  <2>2. pc[p] \in Busy(p) /\ label \in Busy(p)
    BY <1>1, <1>3, <1>10 DEF Busy, HUBMain, Binds
  <2>3. \A q \in Caller : q # p => (bind' = q <=> bind = q)
    BY <1>3, <1>5, <1>12
  <2>4. \A u \in Task : u # t => tn'[u] = tn[u] /\ (u \in Driver => dn'[u] = dn[u])
    BY <1>15, <1>20
  <2> QED BY <1>2, <1>3, <1>5, <1>12, <1>21, <2>1, <2>2, <2>3, <2>4, GoesOn
<1>23. TypeOK'
  BY <1>7, <1>12, <1>15, <1>20, <1>21, <1>22 DEF TypeOK, Goes, callVars, mastVars
<1>24. pc'[p] = label /\ pc'[t] = pc[t] /\ \A q \in Proc : q # p => pc'[q] = pc[q]
  BY <1>6, <1>22 DEF Goes
<1>25. Stands(t) /\ (Alive(tn'[t]) <=> Alive(tn[t]))
  <2>1. tn[t] # NoNode
    BY <1>5, NoNodeIs DEF Alive
  <2> QED BY <1>5, <1>14, <1>15, <1>19, <1>20, <1>24, <2>1 DEF Stands, Alive
<1>26. QueuePlace'
  <2>1. ~ Queued(p)
    BY <1>1, QueuedAwaits
  <2> QED BY <1>3, <1>5, <1>6, <1>12, <1>22, <1>25, <2>1, SameQueue
<1>27. /\ ~ Stopping(t)' /\ (Starting(t)' <=> Starting(t)) /\ (Binding(t)' <=> Binding(t))
       /\ Starting(t) \/ Binding(t) => p = hcd
  <2>1. ~ Stopping(t)'
    BY <1>5, <1>10, <1>24 DEF Stopping
  <2>2. CASE p = hub
    BY <1>1, <1>6, <1>10, <1>24, <2>1, <2>2 DEF Starting, Binding, Binds
  <2>3. CASE p = hcd
    BY <1>3, <1>6, <1>12, <1>24, <2>1, <2>3 DEF Starting, Binding
  <2> QED BY <2>2, <2>3
<1>28. Place(t)'
  <2>1. NodePlace(t)'
    <3>1. ToAnswer(t)' => ToAnswer(t)
      BY <1>14, <1>15, <1>24 DEF ToAnswer
    <3>2. ToAnswer(t)' => Starting(t)' /\ ~ Queued(Starter(t))' /\ ~ Answered(Starter(t))' /\ ~ result'[Starter(t)]
      <4> SUFFICES ASSUME ToAnswer(t)'
          PROVE Starting(t)' /\ ~ Queued(Starter(t))' /\ ~ Answered(Starter(t))' /\ ~ result'[Starter(t)]
        OBVIOUS
      <4>1. Starting(t) /\ ~ Queued(Starter(t)) /\ ~ Answered(Starter(t)) /\ ~ result[Starter(t)]
        BY <1>7, <3>1 DEF NodePlace
      <4>2. Starter(t) = app
        BY <1>6, <1>27, <4>1
      <4> QED BY <1>3, <1>12, <1>21, <1>27, <4>1, <4>2 DEF Queued, Answered
    <3> QED BY <1>5, <1>7, <1>12, <1>14, <1>15, <1>24, <3>2 DEF NodePlace, Alive
  <2>2. LockPlace(t)'
    <3>1. One(t # hcd /\ dn'[t].task /\ InUse(t)') = One(t # hcd /\ dn[t].task /\ InUse(t))
      BY <1>5, <1>19, <1>20 DEF InUse
    <3>2. One(Starting(t)') = One(Starting(t))
      BY <1>27 DEF One
    <3>3. LockSum(t)' = One(Starting(t)) + kept[t] + One(t # hcd /\ dn[t].task /\ InUse(t))
      BY <1>6, <1>7, <1>12, <1>27, <3>1, <3>2 DEF LockSum, One
    <3>4. LockSum(t)' = rest
      BY <1>6, <1>7, <1>8, <3>3 DEF One
    <3> QED BY <1>5, <1>14, <1>15, <3>4 DEF LockPlace, Alive
  <2>3. BinderPlace(t)'
    BY <1>5, <1>7, <1>19, <1>20, <1>27 DEF BinderPlace
  <2>4. DriverPlace(t)'
    BY <1>5, <1>7, <1>14, <1>15, <1>17, <1>19, <1>20, <1>21, <1>6, <1>24, <1>27 DEF DriverPlace, Alive, InUse, One
  <2> QED BY <2>1, <2>2, <2>3, <2>4 DEF Place
<1>29. StartPlace(p)' /\ StopPlace(p)'
  BY <1>3, <1>10, <1>12, <1>24 DEF StartPlace, StopPlace
<1>30. HUBPlace' /\ HCDPlace' /\ AppPlace'
  <2>1. CASE p = hub
    <3>1. t \in Class /\ CallOf(hub, t)
      BY <1>6, <1>22, <2>1
    <3>2. pc'[hub] # "bind" /\ pc'[hub] \notin Binds
      BY <1>10, <1>24, <2>1 DEF Binds
    <3> QED BY <1>12, <1>21, <3>1, <3>2, HUBCallRest
  <2>2. CASE p = hcd
    <3>1. t = hub /\ CallOf(hcd, hub) /\ pc'[hcd] = "stopping" /\ pc'[app] = pc[app] /\ dn'[hub].ok = dn[hub].ok
          /\ dn'[hub].st = dn[hub].st
      BY <1>3, <1>5, <1>6, <1>10, <1>19, <1>20, <1>22, <1>24, <2>2
    <3>2. HUBPlace'
      BY <1>3, <1>12, <1>21, <2>2, <3>1, HUBSees
    <3>3. HCDPlace'
      BY <1>1, <1>3, <1>4, <1>12, <1>21, <2>2, <3>1 DEF HCDPlace
    <3>4. ~ Over(hcd)
      BY <1>1, <2>2 DEF Over
    <3>5. AppPlace'
      BY <1>1, <1>4, <1>12, <2>2, <3>1, <3>4, AppOfHCD
    <3> QED BY <3>2, <3>3, <3>5
  <2> QED BY <2>1, <2>2
<1> QED BY <1>3, <1>5, <1>6, <1>22, <1>23, <1>25, <1>26, <1>28, <1>29, <1>30, OneCall


-----------------------------------------------------------------------------
(* The commands *)

\* The Master takes the first message; its sender has no other.
LEMMA TailIs ==
    ASSUME TaskInvariant, queue # <<>>, NEW m, m = Head(queue), queue' = Tail(queue)
    PROVE  /\ m \in Commands /\ Message(m) /\ m.by \in Caller /\ m.of \in Task /\ queue' \in Seq(Commands)
           /\ ~ Queued(m.by)' /\ \A q : Queued(q)' => Queued(q)
           /\ \A i \in DOMAIN queue' : i + 1 \in DOMAIN queue /\ queue'[i] = queue[i + 1] /\ queue'[i].by # m.by
<1>1. queue \in Seq(Commands) /\ QueuePlace
  BY DEF TaskInvariant, TypeOK
<1>2. /\ Len(queue) \in Nat /\ Len(queue) > 0 /\ DOMAIN queue = 1 .. Len(queue) /\ m = queue[1] /\ 1 \in DOMAIN queue
      /\ queue' \in Seq(Commands) /\ DOMAIN queue' = 1 .. Len(queue) - 1
      /\ \A i \in 1 .. Len(queue) - 1 : queue'[i] = queue[i + 1]
  BY <1>1
<1>3. m \in Commands /\ Message(m)
  BY <1>1, <1>2 DEF QueuePlace
<1>4. ASSUME NEW i \in DOMAIN queue' PROVE i + 1 \in DOMAIN queue /\ queue'[i] = queue[i + 1] /\ queue'[i].by # m.by
  <2>1. i + 1 \in DOMAIN queue /\ queue'[i] = queue[i + 1] /\ i + 1 # 1
    BY <1>2
  <2>2. \A j, k \in DOMAIN queue : queue[j].by = queue[k].by => j = k
    BY <1>1 DEF QueuePlace
  <2> QED BY <1>2, <2>1, <2>2
<1>5. ~ Queued(m.by)' /\ \A q : Queued(q)' => Queued(q)
  BY <1>4 DEF Queued
<1> QED BY <1>2, <1>3, <1>4, <1>5 DEF Commands, Caller

LEMMA TailKeeps ==
    ASSUME TaskInvariant, queue # <<>>, NEW m, m = Head(queue), queue' = Tail(queue),
           \A q \in Caller : q # m.by => SameWith(q)
    PROVE  QueuePlace'
<1>1. queue \in Seq(Commands) /\ QueuePlace
  BY DEF TaskInvariant, TypeOK
<1>2. \A i \in DOMAIN queue' : i + 1 \in DOMAIN queue /\ queue'[i] = queue[i + 1] /\ queue'[i].by # m.by
  BY TailIs
<1>3. ASSUME NEW i \in DOMAIN queue' PROVE Message(queue[i])'
  <2>1. PICK c \in Commands : c = queue'[i] /\ c = queue[i + 1]
    BY <1>1, <1>2
  <2>2. Message(c) /\ c.by \in Caller /\ c.by # m.by
    BY <1>1, <1>2, <2>1 DEF QueuePlace, Commands, Caller
  <2>3. Message(c)'
    BY <2>2, MessageKeeps
  <2> QED BY <2>1, <2>3
<1>4. ASSUME NEW i \in DOMAIN queue', NEW j \in DOMAIN queue', queue'[i].by = queue'[j].by PROVE i = j
  <2>1. i + 1 = j + 1
    BY <1>1, <1>2, <1>4 DEF QueuePlace
  <2>2. i \in Int /\ j \in Int
    <3>1. queue' \in Seq(Commands)
      BY TailIs
    <3> QED BY <3>1
  <2> QED BY <2>1, <2>2
<1> QED BY <1>3, <1>4 DEF QueuePlace

\* A command about t, by p: the other tasks and callers have no part in it.
LEMMA CommandApart ==
    ASSUME TaskInvariant, queue # <<>>, NEW m, m = Head(queue), queue' = Tail(queue),
           NEW t, NEW p, t = m.of, p = m.by, bind' = bind, arg' = arg, result' = result,
           \A q \in Proc : q # t => pc'[q] = pc[q],
           pc'[t] = pc[t] \/ {pc[t], pc'[t]} \cap Calls = {},
           \A q \in Proc : q # p => keep'[q] = keep[q] /\ ("reply" \in sig'[q] => "reply" \in sig[q]),
           \A u \in Task : u # t => /\ tn'[u] = tn[u] /\ kept'[u] = kept[u] /\ (u \in Driver => dn'[u] = dn[u])
                                    /\ "C" \in sig'[u] => "C" \in sig[u],
           \A q \in Caller : q # p /\ InCall(q, t) => Stands(t)
    PROVE  /\ QueuePlace' /\ \A u \in Task \ {t} : Apart(u)
           /\ \A q \in Caller \ {p} : SameWith(q)
<1>1. /\ Message(m) /\ p \in Caller /\ t \in Task /\ arg[p] = t /\ \A q : Queued(q)' => Queued(q)
  BY TailIs DEF Message
<1>2. ASSUME NEW q \in Caller, q # p PROVE SameCall(q)
  <2>1. q \in Proc
    BY CallerIs
  <2>2. q = t \/ pc'[q] = pc[q]
    BY <2>1
  <2> QED BY <1>1, <1>2, <2>1, <2>2 DEF SameCall, Answered
<1>3. ASSUME NEW u \in Task, u # t PROVE SameTask(u)
  BY <1>3, TaskFacts DEF SameTask
<1>4. ASSUME NEW u \in Task, u # t PROVE Apart(u)
  <2>1. Starter(u) \in Caller /\ Stopper(u) \in Caller
    BY TaskFacts
  <2>2. SameCall(Starter(u)) \/ ~ (Starting(u) \/ Binding(u) \/ Starting(u)' \/ Binding(u)')
    BY <1>1, <1>2, <1>4, <2>1 DEF Starting, Binding
  <2>3. SameCall(Stopper(u)) \/ ~ (Stopping(u) \/ Stopping(u)')
    BY <1>1, <1>2, <1>4, <2>1 DEF Stopping
  <2> QED BY <1>3, <1>4, <2>2, <2>3 DEF Apart
<1>5. ASSUME NEW q \in Caller, q # p PROVE SameWith(q)
  <2>1. \A u \in Task : InCall(q, u) => Stands(u)
    BY <1>3, <1>5, SameStands
  <2> QED BY <1>2, <1>5, <2>1 DEF SameWith
<1>6. QueuePlace'
  BY <1>5, TailKeeps
<1> QED BY <1>4, <1>5, <1>6


\* A message that starts a task: its sender waits, the task is new, and the Master not stopped.
LEMMA StartFacts ==
    ASSUME TaskInvariant, NEW m \in Commands, Message(m), m.op = "start", NEW t, NEW p, t = m.of, p = m.by
    PROVE  /\ t \in Task /\ p \in {app, hub} /\ p \in Caller /\ p = Starter(t) /\ p # t /\ t \in Proc /\ p \in Proc
           /\ pc[p] = "awaitStart" /\ arg[p] = t /\ ~ result[p] /\ ~ Answered(p)
           /\ p = hub => t \in Class
           /\ p = app => t = hub \/ (t = hcd /\ dn[hub].st = "none")
           /\ p = app /\ t = hub => pc[hcd] \in {"forget", "main"}
           /\ tn[t] = NoNode /\ pc[t] = "none" /\ kept[t] = 0 /\ Starting(t) /\ ~ Stopping(t)
           /\ t \in Driver => dn[t].st = "alloc" /\ ~ dn[t].task
           /\ ~ stopping /\ bind # p
<1>1. /\ pc[p] = "awaitStart" /\ arg[p] = t /\ ~ result[p] /\ ~ Answered(p) /\ p = Starter(t) /\ tn[t] = NoNode
      /\ pc[t] = "none" /\ t \in Task /\ p \in Caller
  BY DEF Message, Commands, Caller
<1>2. p \in {app, hub} /\ pc[p] \in Binds
  BY <1>1, Names, Callers DEF Binds
<1>3. /\ p \in Proc /\ p # t /\ (p = hub => t \in Class) /\ bind # p
      /\ p = app => t = hub \/ (t = hcd /\ dn[hub].st = "none")
      /\ p = app /\ t = hub => pc[hcd] \in {"forget", "main"}
  BY <1>1, <1>2, BinderFacts
<1>4. NodePlace(t) /\ t \in Proc /\ (t \in Driver => BinderPlace(t) /\ DriverPlace(t))
  BY <1>1, TaskFacts
<1>5. kept[t] = 0 /\ Starting(t)
  BY <1>1, <1>4, NoNodeIs DEF NodePlace, Starting
<1>6. t \in Driver => dn[t].st = "alloc" /\ ~ dn[t].task
  BY <1>1, <1>4, <1>5 DEF BinderPlace, Binding, Binds
<1>7. ~ Stopping(t)
  <2>1. Stopper(t) \in Caller /\ StopPlace(Stopper(t))
    BY <1>1, TaskFacts DEF TaskInvariant, Caller
  <2> QED BY <1>1, <2>1, NoNodeIs DEF Stopping, StopPlace
<1>8. ~ stopping
  <2>1. stopping => pc[app] \in {"waitMaster", "gone"} /\ Over(hcd)
    BY DEF TaskInvariant, MasterPlace, AppPlace
  <2>2. Over(hcd) => Over(hub)
    BY DEF TaskInvariant, HCDPlace, Over
  <2>3. pc[p] # "none" /\ pc[p] # "dead" /\ pc[p] \notin {"waitMaster", "gone"}
    BY <1>1
  <2> QED BY <1>2, <2>1, <2>2, <2>3 DEF Over
<1> QED BY <1>1, <1>2, <1>3, <1>4, <1>5, <1>6, <1>7, <1>8

LEMMA StartTaskKeeps == ASSUME TaskInvariant, StartTask PROVE TaskInvariant'
<1>1. PICK m : m = Head(queue)
  OBVIOUS
<1>2. PICK t, p : t = m.of /\ p = m.by
  OBVIOUS
<1>3. /\ queue # <<>> /\ m.op = "start" /\ queue' = Tail(queue) /\ pc[master] = "handle"
      /\ UNCHANGED <<callVars, dn, lockVars, mastVars, port, root, booted>>
      /\ UNCHANGED <<arg, keep, result, kept, bind, fdriver, mask, stopping, mode>>
  BY <1>1 DEF StartTask, Handles, callVars, lockVars, mastVars
<1>4. m \in Commands /\ Message(m) /\ queue' \in Seq(Commands) /\ ~ Queued(p)'
  BY <1>1, <1>2, <1>3, TailIs
<1>5. /\ t \in Task /\ p \in {app, hub} /\ p \in Caller /\ p = Starter(t) /\ p # t /\ t \in Proc /\ p \in Proc
      /\ pc[p] = "awaitStart" /\ arg[p] = t /\ ~ result[p] /\ ~ Answered(p)
      /\ p = hub => t \in Class
      /\ p = app => t = hub \/ (t = hcd /\ dn[hub].st = "none")
      /\ p = app /\ t = hub => pc[hcd] \in {"forget", "main"}
      /\ tn[t] = NoNode /\ pc[t] = "none" /\ kept[t] = 0 /\ Starting(t) /\ ~ Stopping(t)
      /\ t \in Driver => dn[t].st = "alloc" /\ ~ dn[t].task
      /\ ~ stopping /\ bind # p
  BY <1>2, <1>3, <1>4, StartFacts
<1>6. /\ app \in Proc /\ hub \in Proc /\ hcd \in Proc /\ hub # hcd /\ hub # app /\ hcd # app /\ hub \in Driver /\ hub \in Task
      /\ hcd \in Task /\ hcd \notin Driver /\ master \notin Task /\ p # master /\ t # app /\ (t = hcd \/ t \in Driver)
      /\ Class \subseteq Task /\ hub \notin Class /\ hcd \notin Class /\ master \in Proc /\ app # master /\ Class \subseteq Driver
  BY <1>5, Names
<1>7. /\ TypeOK /\ HUBPlace /\ HCDPlace /\ AppPlace /\ MasterPlace /\ CounterExact /\ NodePlace(t) /\ LockPlace(t)
      /\ (t \in Driver => BinderPlace(t) /\ DriverPlace(t)) /\ Stopper(t) \in Caller
  BY <1>5, TaskFacts DEF TaskInvariant
<1>8. PICK listed \in BOOLEAN, label \in {"none", "entry"} :
          /\ label = "entry" <=> listed
          /\ tn' = [tn EXCEPT ![t] = IF listed
                                     THEN [[NoNode EXCEPT !.st = "unset", !.locks = 1] EXCEPT !.listed = TRUE]
                                     ELSE [NoNode EXCEPT !.st = "unset", !.locks = 1]]
          /\ count' = [count EXCEPT ![Group(t)] = @ + 1]
          /\ listed => GoTo(t, "entry") /\ sig' = sig
          /\ ~ listed => pc' = pc /\ sig' = With(sig, p, "reply")
  <2>1. CASE /\ tn' = [tn EXCEPT ![t] = [[NoNode EXCEPT !.st = "unset", !.locks = 1] EXCEPT !.listed = TRUE]]
             /\ count' = [count EXCEPT ![Group(t)] = @ + 1] /\ GoTo(t, "entry") /\ UNCHANGED sig
    BY <2>1
  <2>2. CASE /\ tn' = [tn EXCEPT ![t] = [NoNode EXCEPT !.st = "unset", !.locks = 1]]
             /\ count' = [count EXCEPT ![Group(t)] = @ + 1] /\ sig' = With(sig, p, "reply") /\ UNCHANGED pc
    BY <2>2
  <2> QED BY <1>1, <1>2, <1>5, <2>1, <2>2 DEF StartTask
<1>9. PICK node : node = IF listed THEN [[NoNode EXCEPT !.st = "unset", !.locks = 1] EXCEPT !.listed = TRUE]
                                   ELSE [NoNode EXCEPT !.st = "unset", !.locks = 1]
  OBVIOUS
<1>10. /\ node \in TaskNode /\ node.st = "unset" /\ node.locks = 1 /\ node.listed = listed /\ ~ node.adr
       /\ node.parent = NoParent
  BY <1>9 DEF NoNode, NoParent, TaskNode
<1>11. tn' \in [Task -> TaskNode] /\ tn'[t] = node /\ \A u \in Task : u # t => tn'[u] = tn[u]
  BY <1>5, <1>7, <1>8, <1>9, <1>10 DEF TypeOK
<1>12. /\ pc' \in [Proc -> Labels] /\ pc'[app] \in AppLabels /\ pc'[master] \in {"wait", "handle", "dead"}
       /\ \A u \in Task : pc'[u] \in LabelsOf(u)
       /\ pc'[t] = label /\ \A q \in Proc : q # t => pc'[q] = pc[q]
  <2>1. CASE listed
    <3>1. "entry" \in LabelsOf(t)
      BY DEF LabelsOf
    <3> QED BY <1>5, <1>6, <1>7, <1>8, <2>1, <3>1, PcTyped
  <2>2. CASE ~ listed
    BY <1>5, <1>7, <1>8, <2>2 DEF TypeOK
  <2> QED BY <2>1, <2>2
<1>13. /\ sig' \in [Proc -> SUBSET Signals]
       /\ \A q \in Proc : sig'[q] = IF q = p /\ ~ listed THEN sig[q] \cup {"reply"} ELSE sig[q]
  <2>1. CASE listed
    BY <1>7, <1>8, <2>1 DEF TypeOK
  <2>2. CASE ~ listed
    <3>1. "reply" \in Signals
      BY DEF Signals
    <3>2. TypeOK /\ sig' = With(sig, p, "reply")
      BY <1>7, <1>8, <2>2
    <3>3. /\ sig' \in [Proc -> SUBSET Signals]
          /\ \A q \in Proc : sig'[q] = IF q = p THEN sig[q] \cup {"reply"} ELSE sig[q]
      BY <1>5, <3>1, <3>2, SigAdds
    <3> QED BY <2>2, <3>3
  <2> QED BY <2>1, <2>2
<1>14. CounterExact' /\ count' \in [Groups -> Nat]
  <2>1. \A u \in Task \ {t} : SameCounted(u)
    BY <1>11, <1>12, TaskFacts DEF SameCounted, Up
  <2>2. ~ Alive(tn[t]) /\ Alive(tn'[t]) /\ (Up(t)' <=> Up(t))
    BY <1>5, <1>10, <1>11, <1>12, NoNodeIs DEF Alive, Up
  <2> QED BY <1>5, <1>7, <1>8, <2>1, <2>2, CountAdds
<1>15. TypeOK'
  BY <1>3, <1>4, <1>7, <1>11, <1>12, <1>13, <1>14 DEF TypeOK
<1>16. QueuePlace' /\ (\A u \in Task \ {t} : Apart(u)) /\ \A q \in Caller \ {p} : SameWith(q)
  <2>1. \A q \in Caller : q # p => ~ InCall(q, t)
    <3> SUFFICES ASSUME NEW q \in Caller, q # p, InCall(q, t) PROVE FALSE
      OBVIOUS
    <3>1. StartPlace(q) /\ StopPlace(q)
      BY DEF TaskInvariant, Caller
    <3> QED BY <1>5, <3>1, NoNodeIs DEF InCall, StartPlace, StopPlace
  <2>2. {pc[t], pc'[t]} \cap Calls = {}
    BY <1>5, <1>8, <1>12 DEF Calls, Binds
  <2>3. \A q \in Proc : q # p => keep'[q] = keep[q] /\ ("reply" \in sig'[q] => "reply" \in sig[q])
    BY <1>3, <1>13
  <2>4. \A u \in Task : u # t => /\ tn'[u] = tn[u] /\ kept'[u] = kept[u] /\ (u \in Driver => dn'[u] = dn[u])
                                 /\ "C" \in sig'[u] => "C" \in sig[u]
    BY <1>3, <1>11, <1>13, TaskFacts
  <2> QED BY <1>1, <1>2, <1>3, <1>12, <2>1, <2>2, <2>3, <2>4, CommandApart
<1>17. /\ Starting(t)' /\ ~ Stopping(t)' /\ (Binding(t)' <=> Binding(t)) /\ pc'[p] = "awaitStart" /\ arg'[p] = t
       /\ ~ result'[p] /\ (Answered(p)' <=> ~ listed)
  <2>1. pc'[p] = "awaitStart" /\ arg'[p] = t /\ ~ result'[p] /\ (Answered(p)' <=> ~ listed)
    BY <1>3, <1>5, <1>12, <1>13 DEF Answered
  <2>2. ~ Stopping(t)'
    <3>1. Stopper(t) \in Proc /\ Stopper(t) # t
      BY <1>5, <1>6, <1>7, CallerIs, Names, Callers
    <3> QED BY <1>3, <1>5, <1>12, <3>1 DEF Stopping
  <2> QED BY <1>5, <2>1, <2>2 DEF Starting, Binding
<1>18. Place(t)'
  <2>1. NodePlace(t)'
    <3>1. node.st \in StatesAt(label) /\ label \notin Starts \cup Ends /\ label \notin {"forget", "dead"}
      BY <1>8, <1>10 DEF StatesAt, Starts, Ends
    <3>2. ToAnswer(t)' => Starting(t)' /\ ~ Queued(Starter(t))' /\ ~ Answered(Starter(t))' /\ ~ result'[Starter(t)]
      <4>1. ToAnswer(t)' => label = "entry"
        BY <1>12, <3>1 DEF ToAnswer
      <4> QED BY <1>4, <1>5, <1>8, <1>17, <4>1
    <3>3. NoParent # <<Starter(t), "reply">>
      BY <1>5, Parents
    <3> QED BY <1>8, <1>10, <1>11, <1>12, <3>1, <3>2, <3>3 DEF NodePlace
  <2>2. LockPlace(t)'
    <3>1. LockSum(t)' = 1
      BY <1>3, <1>5, <1>6, <1>8, <1>12, <1>17 DEF LockSum, One
    <3> QED BY <1>10, <1>11, <3>1 DEF LockPlace
  <2>3. ASSUME t \in Driver PROVE BinderPlace(t)'
    BY <1>3, <1>5, <1>7, <1>17, <2>3 DEF BinderPlace
  <2>4. ASSUME t \in Driver PROVE DriverPlace(t)'
    <3>1. "none" \notin Locking(t) /\ "entry" \notin Locking(t) \cup Early \cup Late /\ "none" \notin Early \cup Late
      BY DEF Locking, HUBMain, Binds, Early, Late
    <3>2. ~ dn[t].freeMe /\ dn[t].locks = 0
      BY <1>5, <1>7, <2>4, <3>1 DEF DriverPlace, One
    <3> QED BY <1>3, <1>5, <1>7, <1>8, <1>10, <1>11, <1>12, <1>13, <1>17, <2>4, <3>1, <3>2 DEF DriverPlace, InUse, One
  <2> QED BY <2>1, <2>2, <2>3, <2>4 DEF Place
<1>19. StartPlace(p)' /\ StopPlace(p)'
  <2>1. ~ listed => pc'[t] = "none"
    BY <1>8, <1>12
  <2> QED BY <1>3, <1>4, <1>5, <1>17, <2>1 DEF StartPlace, StopPlace
<1>20. (\A d : InUse(d)' <=> InUse(d)) /\ \A u \in Task : u # t => (Over(u)' <=> Over(u))
  BY <1>3, <1>11, <1>12, TaskFacts DEF InUse, Over
<1>21. t \in Driver => InUse(t)
  BY <1>5 DEF InUse
<1>22. HUBPlace'
  <2>1. CASE t = hub
    <3>1. pc[hub] \notin HUBMain \cup Late /\ pc'[hub] \notin HUBMain \cup Late /\ pc[hub] \notin {"bind"} \cup Binds
          /\ pc'[hub] \notin {"bind", "stopping", "parked"} \cup Binds
      BY <1>5, <1>8, <1>12, <2>1 DEF HUBMain, Binds, Late
    <3>2. \A d \in Class : Over(d)' /\ ~ InUse(d)'
      BY <1>6, <1>7, <1>20, <2>1, <3>1 DEF HUBPlace
    <3>3. p = app /\ sig'[app] \subseteq sig[app] \cup {"reply"}
      BY <1>5, <1>6, <1>13, <2>1
    <3>4. ~ dn'[hub].ok /\ "E" \notin sig'[app]
      BY <1>3, <1>7, <3>1, <3>3 DEF HUBPlace
    <3> QED BY <3>1, <3>2, <3>4 DEF HUBPlace
  <2>2. CASE t # hub
    <3>1. pc'[hub] = pc[hub] /\ ("C" \in sig[hub] => "C" \in sig'[hub]) /\ ("E" \in sig'[app] => "E" \in sig[app])
      BY <1>6, <1>12, <1>13, <2>2
    <3>2. \A d \in Class : Over(d) /\ ~ InUse(d) => Over(d)' /\ ~ InUse(d)'
      BY <1>6, <1>20, <1>21
    <3> QED BY <1>3, <1>7, <3>1, <3>2, HUBKeeps
  <2> QED BY <2>1, <2>2
<1>23. HCDPlace'
  <2>1. pc'[app] = pc[app] /\ ("C" \in sig'[hcd] => "C" \in sig[hcd])
    BY <1>6, <1>12, <1>13
  <2>2. CASE t = hcd
    <3>1. pc'[hcd] \in {"none", "entry"}
      BY <1>12, <2>2
    <3>2. (Over(hub)' <=> Over(hub)) /\ (InUse(hub)' <=> InUse(hub))
      BY <1>6, <1>20, <2>2
    <3> QED BY <1>3, <1>5, <1>7, <2>1, <2>2, <3>1, <3>2 DEF HCDPlace
  <2>3. CASE t # hcd
    <3>1. pc'[hcd] = pc[hcd]
      BY <1>6, <1>12, <2>3
    <3>2. Over(hub) /\ ~ InUse(hub) => Over(hub)' /\ ~ InUse(hub)'
      BY <1>6, <1>20, <1>21
    <3> QED BY <1>3, <1>7, <2>1, <3>1, <3>2, HCDKeeps
  <2> QED BY <2>2, <2>3
<1>24. AppPlace'
  <2>1. pc'[app] = pc[app]
    BY <1>6, <1>12
  <2>2. CASE t = hcd
    <3>1. p = app
      BY <1>5, <1>6, <2>2
    <3> QED BY <1>3, <1>5, <1>7, <2>1, <2>2, <3>1 DEF AppPlace, Binds
  <2>3. CASE t # hcd
    <3>1. pc'[hcd] = pc[hcd] /\ tn'[hcd] = tn[hcd] /\ (Over(hcd)' <=> Over(hcd))
      BY <1>6, <1>11, <1>12, <1>20, <2>3
    <3> QED BY <1>3, <1>7, <2>1, <3>1, AppKeeps
  <2> QED BY <2>2, <2>3
<1>25. MasterPlace'
  <2>1. sig'[master] = sig[master] /\ pc'[master] = "handle" /\ pc'[app] = pc[app]
    BY <1>3, <1>5, <1>6, <1>12, <1>13
  <2> QED BY <1>3, <1>7, <2>1, MasterKeeps
<1>26. {t} \in SUBSET Task /\ {p} \in SUBSET Caller /\ (\A u \in {t} : Place(u)')
       /\ \A q \in {p} : StartPlace(q)' /\ StopPlace(q)'
  BY <1>5, <1>18, <1>19
<1> QED BY <1>14, <1>15, <1>16, <1>22, <1>23, <1>24, <1>25, <1>26, Whole


\* A message that stops a task: its sender waits, for a task whose node is there.
LEMMA StopFacts ==
    ASSUME TaskInvariant, NEW m \in Commands, Message(m), m.op = "stop", NEW t, NEW p, t = m.of, p = m.by
    PROVE  /\ t \in Task /\ p \in Caller /\ p = Stopper(t) /\ p # t /\ t \in Proc /\ p \in Proc
           /\ pc[p] = "awaitStop" /\ arg[p] = t /\ ~ keep[p] /\ ~ result[p] /\ ~ Answered(p)
           /\ Stopping(t) /\ Alive(tn[t]) /\ ~ ToAnswer(t) /\ pc[t] \notin Starts
           /\ t \in Driver => dn[t].st = "listed" /\ dn[t].task
           /\ t = hcd => p = app
<1>1. /\ pc[p] = "awaitStop" /\ arg[p] = t /\ ~ keep[p] /\ ~ result[p] /\ ~ Answered(p) /\ p = Stopper(t)
      /\ t \in Task /\ p \in Caller
  BY DEF Message, Commands, Caller
<1>2. t \in Proc /\ p \in Proc /\ p # t /\ (t = hcd <=> p = app) /\ (t \in Driver => p # app) /\ Starter(t) \in {app, hub}
  BY <1>1, CallerIs, Names, Callers
<1>3. StopPlace(p) /\ NodePlace(t)
  BY <1>1, TaskFacts DEF TaskInvariant, Caller
<1>4. Alive(tn[t]) /\ (t \in Driver => dn[t].st = "listed" /\ dn[t].task) /\ Stopping(t)
  BY <1>1, <1>2, <1>3 DEF StopPlace, Stopping
<1>5. ~ Starting(t)
  <2>1. CASE t = hub
    <3>1. Starting(hub) => pc[app] \in Binds /\ arg[app] = hub
      BY Callers DEF Starting, Binds
    <3>2. pc[app] \in Binds /\ arg[app] = hub => pc[hcd] \in {"forget", "main"}
      BY DEF TaskInvariant, AppPlace
    <3> QED BY <1>1, <2>1, <3>1, <3>2, Callers
  <2>2. CASE t # hub
    BY <1>1, <2>2, Names, Callers DEF Starting
  <2> QED BY <2>1, <2>2
<1>6. ~ ToAnswer(t)
  BY <1>3, <1>5 DEF NodePlace
<1> QED BY <1>1, <1>2, <1>4, <1>6 DEF ToAnswer

LEMMA StopTaskKeeps == ASSUME TaskInvariant, StopTask PROVE TaskInvariant'
<1>1. PICK m : m = Head(queue)
  OBVIOUS
<1>2. PICK t, p : t = m.of /\ p = m.by
  OBVIOUS
<1>3. /\ queue # <<>> /\ m.op = "stop" /\ queue' = Tail(queue) /\ pc[master] = "handle"
      /\ UNCHANGED <<pc, arg, result, dn, count, mask, mode, stopping, lockVars, port, root, booted>>
      /\ UNCHANGED <<bind, fdriver>>
  BY <1>1 DEF StopTask, Handles, lockVars
<1>4. m \in Commands /\ Message(m) /\ queue' \in Seq(Commands) /\ ~ Queued(p)'
  BY <1>1, <1>2, <1>3, TailIs
<1>5. /\ t \in Task /\ p \in Caller /\ p = Stopper(t) /\ p # t /\ t \in Proc /\ p \in Proc
      /\ pc[p] = "awaitStop" /\ arg[p] = t /\ ~ keep[p] /\ ~ result[p] /\ ~ Answered(p)
      /\ Stopping(t) /\ Alive(tn[t]) /\ ~ ToAnswer(t) /\ pc[t] \notin Starts
      /\ t \in Driver => dn[t].st = "listed" /\ dn[t].task
      /\ t = hcd => p = app
  BY <1>2, <1>3, <1>4, StopFacts
<1>6. /\ app \in Proc /\ hub \in Proc /\ hcd \in Proc /\ hub # hcd /\ hub \in Task /\ hcd \in Task /\ hcd \notin Driver
      /\ master \notin Task /\ p # master /\ t # app /\ t # master /\ (t = hcd \/ t \in Driver) /\ Class \subseteq Task
      /\ master \in Proc /\ app # master /\ Task \subseteq Proc
  BY <1>5, Names DEF Caller
<1>7. /\ TypeOK /\ HUBPlace /\ HCDPlace /\ AppPlace /\ MasterPlace /\ CounterExact /\ NodePlace(t) /\ LockPlace(t)
      /\ (t \in Driver => BinderPlace(t) /\ DriverPlace(t)) /\ tn[t] \in TaskNode /\ kept[t] \in Nat /\ StopPlace(p)
  BY <1>5, TaskFacts DEF TaskInvariant, Caller
<1>8. PICK kill \in BOOLEAN :
          /\ kill <=> tn[t].adr
          /\ kill => /\ tn' = [tn EXCEPT ![t].parent = Awaited]
                     /\ sig' = With(With(sig, t, "C"), p, "reply")
                     /\ kept' = [kept EXCEPT ![t] = @ + 1] /\ keep' = [keep EXCEPT ![p] = TRUE]
          /\ ~ kill => sig' = With(sig, p, "reply") /\ UNCHANGED <<tn, kept, keep>>
  <2>1. CASE tn[t].adr
    BY <1>1, <1>2, <2>1 DEF StopTask, ParentOnStop
  <2>2. CASE ~ tn[t].adr
    BY <1>1, <1>2, <2>2 DEF StopTask
  <2> QED BY <2>1, <2>2
<1>9. PICK node : node = IF kill THEN [tn[t] EXCEPT !.parent = Awaited] ELSE tn[t]
  OBVIOUS
<1>10. /\ node \in TaskNode /\ node.st = tn[t].st /\ node.adr = tn[t].adr /\ node.listed = tn[t].listed
       /\ node.locks = tn[t].locks /\ (kill => node.parent = Awaited) /\ (~ kill => node = tn[t])
  <2>1. CASE kill
    <3>1. node = [tn[t] EXCEPT !.parent = Awaited]
      BY <1>9, <2>1
    <3>2. Awaited \in ParentNames
      BY <1>5, Parents
    <3>3. node \in TaskNode
      BY <1>7, <3>1, <3>2, NodeUpdates
    <3> QED BY <1>7, <2>1, <3>1, <3>3 DEF TaskNode
  <2>2. CASE ~ kill
    BY <1>7, <1>9, <2>2
  <2> QED BY <2>1, <2>2
<1>11. tn' \in [Task -> TaskNode] /\ tn'[t] = node /\ \A u \in Task : u # t => tn'[u] = tn[u]
  <2>1. CASE kill
    <3>1. tn' = [tn EXCEPT ![t].parent = Awaited] /\ node = [tn[t] EXCEPT !.parent = Awaited]
      BY <1>8, <1>9, <2>1
    <3>2. tn \in [Task -> TaskNode]
      BY <1>7 DEF TypeOK
    <3> QED BY <1>5, <1>10, <3>1, <3>2
  <2>2. CASE ~ kill
    BY <1>5, <1>7, <1>8, <1>10, <2>2 DEF TypeOK
  <2> QED BY <2>1, <2>2
<1>12. /\ kept' \in [Task -> Nat] /\ kept'[t] = kept[t] + One(kill) /\ \A u \in Task : u # t => kept'[u] = kept[u]
       /\ keep' \in [Proc -> BOOLEAN] /\ (keep'[p] <=> kill) /\ \A q \in Proc : q # p => keep'[q] = keep[q]
  <2>1. CASE kill
    <3>1. kept' = [kept EXCEPT ![t] = @ + 1] /\ keep' = [keep EXCEPT ![p] = TRUE] /\ One(kill) = 1
      BY <1>8, <2>1 DEF One
    <3>2. kept \in [Task -> Nat] /\ keep \in [Proc -> BOOLEAN]
      BY <1>7 DEF TypeOK
    <3>3. kept' \in [Task -> Nat] /\ kept'[t] = kept[t] + 1 /\ \A u \in Task : u # t => kept'[u] = kept[u]
      BY <1>5, <3>1, <3>2
    <3>4. keep' \in [Proc -> BOOLEAN] /\ keep'[p] = TRUE /\ \A q \in Proc : q # p => keep'[q] = keep[q]
      BY <1>5, <3>1, <3>2
    <3> QED BY <2>1, <3>1, <3>3, <3>4
  <2>2. CASE ~ kill
    BY <1>5, <1>7, <1>8, <2>2 DEF TypeOK, One
  <2> QED BY <2>1, <2>2
<1>13. /\ sig' \in [Proc -> SUBSET Signals] /\ Answered(p)'
       /\ \A q \in Proc : sig[q] \subseteq sig'[q]
       /\ \A q \in Proc : q # p => ("reply" \in sig'[q] => "reply" \in sig[q])
       /\ \A q \in Proc : q # t => ("C" \in sig'[q] => "C" \in sig[q])
       /\ "E" \in sig'[app] => "E" \in sig[app]
  <2>1. "C" \in Signals /\ "reply" \in Signals /\ sig \in [Proc -> SUBSET Signals] /\ none \notin Proc
    BY <1>7, Names DEF Signals, TypeOK
  <2>2. CASE kill
    <3>1. PICK s : s = With(sig, t, "C")
      OBVIOUS
    <3>2. s \in [Proc -> SUBSET Signals] /\ \A q \in Proc : s[q] = IF q = t THEN sig[q] \cup {"C"} ELSE sig[q]
      BY <1>5, <2>1, <3>1 DEF With
    <3>3. /\ sig' \in [Proc -> SUBSET Signals]
          /\ \A q \in Proc : sig'[q] = IF q = p THEN s[q] \cup {"reply"} ELSE s[q]
      <4>1. sig' = With(s, p, "reply")
        BY <1>8, <2>2, <3>1
      <4> QED BY <1>5, <2>1, <3>2, <4>1 DEF With
    <3> QED BY <1>5, <1>6, <3>2, <3>3 DEF Answered
  <2>3. CASE ~ kill
    <3>1. /\ sig' \in [Proc -> SUBSET Signals]
          /\ \A q \in Proc : sig'[q] = IF q = p THEN sig[q] \cup {"reply"} ELSE sig[q]
      <4>1. sig' = With(sig, p, "reply")
        BY <1>8, <2>3
      <4> QED BY <1>5, <2>1, <4>1 DEF With
    <3> QED BY <1>5, <1>6, <3>1 DEF Answered
  <2> QED BY <2>2, <2>3
<1>14. CounterExact'
  <2>1. \A u \in Task : SameCounted(u)
    BY <1>3, <1>10, <1>11 DEF SameCounted, Up, Alive
  <2> QED BY <1>3, <1>7, <2>1, CountKeeps
<1>15. TypeOK'
  BY <1>3, <1>4, <1>7, <1>11, <1>12, <1>13 DEF TypeOK
<1>16. Stands(t) /\ (Alive(tn'[t]) <=> Alive(tn[t])) /\ tn[t] # NoNode
  BY <1>3, <1>5, <1>10, <1>11, NoNodeIs DEF Stands, Alive
<1>17. QueuePlace' /\ (\A u \in Task \ {t} : Apart(u)) /\ \A q \in Caller \ {p} : SameWith(q)
  <2>1. \A q \in Proc : q # p => keep'[q] = keep[q] /\ ("reply" \in sig'[q] => "reply" \in sig[q])
    BY <1>12, <1>13
  <2>2. \A u \in Task : u # t => /\ tn'[u] = tn[u] /\ kept'[u] = kept[u] /\ (u \in Driver => dn'[u] = dn[u])
                                 /\ "C" \in sig'[u] => "C" \in sig[u]
    BY <1>3, <1>6, <1>11, <1>12, <1>13
  <2>3. \A q \in Proc : q # t => pc'[q] = pc[q]
    BY <1>3
  <2> QED BY <1>1, <1>2, <1>3, <1>16, <2>1, <2>2, <2>3, CommandApart
<1>18. Starting(t)' = Starting(t) /\ Stopping(t)' /\ Binding(t)' = Binding(t)
  BY <1>3, <1>5 DEF Starting, Stopping, Binding
<1>19. Place(t)'
  <2>1. NodePlace(t)'
    <3>1. kill => pc[t] \notin {"none", "entry", "dead"} \cup Ends \cup Starts
      BY <1>5, <1>7, <1>8 DEF NodePlace
    <3>2. ~ ToAnswer(t)'
      BY <1>3, <1>5, <1>10, <1>11, <3>1 DEF ToAnswer
    <3>3. Awaited # <<Starter(t), "reply">>
      BY <1>5, Parents
    <3> QED BY <1>3, <1>5, <1>7, <1>10, <1>11, <3>1, <3>2, <3>3 DEF NodePlace, Alive
  <2>2. LockPlace(t)'
    <3> DEFINE rest == One(Starting(t)) + One(Stopping(t) /\ bind = Stopper(t)) + One(t # hcd /\ dn[t].task /\ InUse(t))
                       + One(t = hcd /\ pc[t] \notin {"none", "entry", "dead"})
    <3>1. rest \in Nat /\ rest' = rest
      BY <1>3, <1>5, <1>18 DEF One, InUse
    <3>2. LockSum(t) = rest + kept[t] + 1
      BY <1>5, <1>7 DEF LockSum, One
    <3>3. LockSum(t)' = rest' + kept[t] + 1
      BY <1>5, <1>7, <1>12, <1>18 DEF LockSum, One
    <3> HIDE DEF rest
    <3> QED BY <1>5, <1>7, <1>10, <1>11, <1>16, <3>1, <3>2, <3>3 DEF LockPlace, Alive
  <2>3. ASSUME t \in Driver PROVE BinderPlace(t)'
    BY <1>3, <1>7, <1>18, <2>3 DEF BinderPlace
  <2>4. ASSUME t \in Driver PROVE DriverPlace(t)'
    BY <1>3, <1>5, <1>7, <1>10, <1>11, <1>16, <1>18, <2>4 DEF DriverPlace, InUse, One
  <2> QED BY <2>1, <2>2, <2>3, <2>4 DEF Place
<1>20. StartPlace(p)' /\ StopPlace(p)'
  BY <1>3, <1>4, <1>5, <1>7, <1>10, <1>11, <1>16 DEF StartPlace, StopPlace, Alive
<1>21. (\A d : InUse(d)' <=> InUse(d)) /\ \A u \in Task : Over(u)' <=> Over(u)
  BY <1>3, <1>10, <1>11 DEF InUse, Over, Alive
<1>22. HUBPlace'
  BY <1>3, <1>6, <1>7, <1>13, <1>21, HUBKeeps
<1>23. HCDPlace'
  <2>1. "C" \in sig'[hcd] => pc[app] \in Gave
    BY <1>5, <1>6, <1>7, <1>13 DEF HCDPlace, Gave
  <2> QED BY <1>3, <1>6, <1>7, <1>21, <2>1 DEF HCDPlace
<1>24. AppPlace'
  <2>1. tn[hcd] = NoNode => tn'[hcd] = NoNode
    BY <1>6, <1>11, <1>16
  <2> QED BY <1>3, <1>6, <1>7, <1>21, <2>1, AppKeeps
<1>25. MasterPlace'
  <2>1. "C" \in sig'[master] \cup mask' => "C" \in sig[master] \cup mask
    BY <1>3, <1>6, <1>13
  <2> QED BY <1>3, <1>7, <2>1, MasterKeeps
<1>26. {t} \in SUBSET Task /\ {p} \in SUBSET Caller /\ (\A u \in {t} : Place(u)')
       /\ \A q \in {p} : StartPlace(q)' /\ StopPlace(q)'
  BY <1>5, <1>19, <1>20
<1> QED BY <1>14, <1>15, <1>17, <1>22, <1>23, <1>24, <1>25, <1>26, Whole


-----------------------------------------------------------------------------
(* The steps of the Master that change many nodes *)

\* Nodes are changed and freed, and no caller is in a call about one that is.
LEMMA ManyNodes ==
    ASSUME TaskInvariant, TypeOK', UNCHANGED <<arg, keep, result, bind, queue, root, port>>,
           \A p \in Proc : p # master => pc'[p] = pc[p],
           \A p \in Caller : "reply" \in sig'[p] => "reply" \in sig[p],
           \A t \in Task : "C" \in sig'[t] <=> "C" \in sig[t],
           "E" \in sig'[app] => "E" \in sig[app],
           \A t \in Task : /\ tn[t].st = "none" => tn'[t] = tn[t]
                           /\ tn[t].st # "none" => tn'[t].st # "none"
                           /\ Alive(tn'[t]) => Alive(tn[t])
                           /\ Stopping(t) /\ ~ keep[Stopper(t)] => Alive(tn'[t])
                           /\ Stopping(t) /\ bind = Stopper(t) => Alive(tn'[t]),
           \A d \in Driver : /\ dn[d].st = "none" => dn'[d].st = "none"
                             /\ InUse(d)' => InUse(d)
                             /\ Stopping(d) /\ bind = Stopper(d) => dn'[d].st = dn[d].st /\ dn'[d].task = dn[d].task,
           dn'[hub].ok = dn[hub].ok,
           \A t \in Task : Place(t)', CounterExact', MasterPlace'
    PROVE  TaskInvariant'
<1>1. /\ hub \in Task /\ hcd \in Task /\ app \in Proc /\ hub \in Driver /\ Class \subseteq Task /\ Class \subseteq Driver
      /\ Caller \subseteq Proc /\ master \notin Caller /\ hub \in Caller /\ hcd \in Caller /\ Task \subseteq Proc /\ master \notin Task
      /\ app \in Caller /\ app # master
  BY Names DEF Caller
<1>2. \A p \in Caller \cup Task : pc'[p] = pc[p]
  BY <1>1
<1>3. \A p : Queued(p)' <=> Queued(p)
  BY DEF Queued
<1>4. ASSUME NEW p \in Caller PROVE StartPlace(p)' /\ StopPlace(p)'
  <2>1. StartPlace(p) /\ StopPlace(p)
    BY <1>4 DEF TaskInvariant, Caller
  <2>2. pc'[p] = pc[p] /\ (Answered(p)' => Answered(p))
    BY <1>2 DEF Answered
  <2>3. StartPlace(p)'
    BY <1>2, <1>3, <2>1, <2>2 DEF StartPlace
  <2>4. StopPlace(p)'
    <3>1. CASE pc[p] = "awaitStop"
      <4>1. PICK t \in Task : t = arg[p] /\ Stopper(t) = p /\ tn[t].st # "none" /\ Stopping(t)
        BY <2>1, <3>1 DEF StopPlace, Stopping
      <4>2. p # app => t \in Driver /\ bind = p
        BY <2>1, <3>1, <4>1, Names, Callers DEF StopPlace
      <4>3. tn'[t].st # "none" /\ (~ keep[p] => Alive(tn'[t])) /\ (bind = p => Alive(tn'[t]))
        BY <4>1
      <4>4. p # app => dn'[t].st = dn[t].st /\ dn'[t].task = dn[t].task
        BY <4>1, <4>2
      <4> QED BY <1>3, <2>1, <2>2, <3>1, <4>1, <4>2, <4>3, <4>4 DEF StopPlace
    <3>2. CASE pc[p] # "awaitStop"
      BY <2>1, <2>2, <3>2 DEF StopPlace
    <3> QED BY <3>1, <3>2
  <2> QED BY <2>3, <2>4
<1>5. QueuePlace'
  <2>1. queue \in Seq(Commands) /\ QueuePlace
    BY DEF TaskInvariant, TypeOK
  <2>2. ASSUME NEW i \in DOMAIN queue PROVE Message(queue[i])'
    <3>1. PICK c \in Commands : queue[i] = c
      BY <2>1
    <3>2. Message(c) /\ c.by \in Caller /\ c.of \in Task
      BY <2>1, <3>1 DEF QueuePlace, Commands, Caller
    <3>3. Message(c)'
      BY <1>2, <3>2, NoNodeIs DEF Message, Answered
    <3> QED BY <3>1, <3>3
  <2>3. \A i, j \in DOMAIN queue' : queue'[i].by = queue'[j].by => i = j
    BY <2>1 DEF QueuePlace
  <2> QED BY <2>2, <2>3 DEF QueuePlace
<1>6. \A t \in Task : Over(t) => Over(t)'
  BY <1>2 DEF Over
<1>7. HUBPlace'
  <2>1. \A d \in Class : Over(d) /\ ~ InUse(d) => Over(d)' /\ ~ InUse(d)'
    BY <1>1, <1>6
  <2>2. /\ HUBPlace /\ pc'[hub] = pc[hub] /\ arg'[hub] = arg[hub] /\ port' = port /\ ("C" \in sig[hub] => "C" \in sig'[hub])
        /\ \A d \in Class : dn[d].st = "none" => dn'[d].st = "none"
    BY <1>1, <1>2 DEF TaskInvariant
  <2> QED BY <2>1, <2>2, HUBKeeps
<1>8. HCDPlace'
  <2>1. Over(hub) /\ ~ InUse(hub) => Over(hub)' /\ ~ InUse(hub)'
    BY <1>1, <1>6
  <2>2. /\ HCDPlace /\ pc'[hcd] = pc[hcd] /\ ("C" \in sig'[hcd] => "C" \in sig[hcd]) /\ pc'[app] = pc[app]
    BY <1>1, <1>2 DEF TaskInvariant
  <2> QED BY <2>1, <2>2, HCDKeeps
<1>9. AppPlace'
  <2>1. /\ AppPlace /\ pc'[hcd] = pc[hcd] /\ pc'[app] = pc[app] /\ (tn[hcd] = NoNode => tn'[hcd] = NoNode)
        /\ (Over(hcd) => Over(hcd)') /\ (dn[hub].st = "none" => dn'[hub].st = "none")
    BY <1>1, <1>2, <1>6, NoNodeIs DEF TaskInvariant
  <2> QED BY <2>1, AppKeeps
<1>10. /\ Task \in SUBSET Task /\ Caller \in SUBSET Caller /\ (\A t \in Task \ Task : Apart(t))
       /\ (\A p \in Caller : StartPlace(p)' /\ StopPlace(p)') /\ \A p \in Caller \ Caller : SameWith(p)
  BY <1>4
<1> QED BY <1>5, <1>7, <1>8, <1>9, <1>10, Whole


\* Where the callers stand is as it was.
LEMMA SidesSame ==
    ASSUME TaskInvariant, UNCHANGED <<arg, keep, result, bind, queue>>, NEW t \in Task,
           \A p \in Proc : p # master => pc'[p] = pc[p],
           \A p \in Caller : "reply" \in sig'[p] => "reply" \in sig[p]
    PROVE  /\ Starting(t)' <=> Starting(t)
           /\ Stopping(t)' <=> Stopping(t)
           /\ Binding(t)' <=> Binding(t)
           /\ pc'[t] = pc[t] /\ pc'[Starter(t)] = pc[Starter(t)]
           /\ Answered(Starter(t))' => Answered(Starter(t))
           /\ Queued(Starter(t))' <=> Queued(Starter(t))
<1>1. Starter(t) \in Caller /\ Stopper(t) \in Caller /\ t \in Proc /\ t # master
  BY TaskFacts
<1>2. Starter(t) \in Proc \ {master} /\ Stopper(t) \in Proc \ {master}
  BY <1>1, Names DEF Caller
<1> QED BY <1>1, <1>2 DEF Starting, Stopping, Binding, Answered, Queued

LEMMA SameSidesNode ==
    ASSUME TaskInvariant, UNCHANGED <<arg, keep, result, bind, queue>>, NEW t \in Task,
           \A p \in Proc : p # master => pc'[p] = pc[p],
           \A p \in Caller : "reply" \in sig'[p] => "reply" \in sig[p],
           tn'[t].st \in StatesAt(pc[t]), tn'[t].st = "none" => tn'[t] = NoNode /\ kept'[t] = 0,
           tn'[t].listed = tn[t].listed, tn'[t].adr = tn[t].adr,
           \/ tn'[t].parent = tn[t].parent
           \/ tn[t].parent = Awaited /\ tn'[t].parent = Lost
    PROVE  NodePlace(t)'
<1>1. NodePlace(t)
  BY TaskFacts
<1>2. /\ Starting(t)' <=> Starting(t)
      /\ pc'[t] = pc[t]
      /\ Answered(Starter(t))' => Answered(Starter(t))
      /\ Queued(Starter(t))' <=> Queued(Starter(t))
  BY SidesSame
<1>3. <<Starter(t), "reply">> \notin {NoParent, Lost, Awaited}
  BY Parents
<1>4. tn'[t].parent = <<Starter(t), "reply">> <=> tn[t].parent = <<Starter(t), "reply">>
  BY <1>3
<1>5. ToAnswer(t)' <=> ToAnswer(t)
  BY <1>2, <1>4 DEF ToAnswer
<1>6. tn'[t].parent \in {NoParent, Lost, Awaited, <<Starter(t), "reply">>}
  BY <1>1 DEF NodePlace
<1> QED BY <1>1, <1>2, <1>4, <1>5, <1>6 DEF NodePlace

LEMMA SameNode ==
    ASSUME NEW n \in TaskNode, NEW k \in TaskNode, n.st = k.st, n.adr = k.adr, n.locks = k.locks,
           n.listed = k.listed, n.parent = k.parent
    PROVE  n = k
BY DEF TaskNode

LEMMA HandleEndedKeeps == ASSUME TaskInvariant, HandleEnded PROVE TaskInvariant'
<1>1. /\ Done("ended") /\ kept' = [t \in Task |-> kept[t] - EndedMsgs[t]]
      /\ tn' = [t \in Task |-> [tn[t] EXCEPT !.locks = @ - EndedMsgs[t]]]
      /\ sig' = IF \E t \in Task : EndedMsgs[t] > 0 THEN With(sig, master, "D") ELSE sig
      /\ UNCHANGED <<callVars, dn, count, lockVars, mode, stopping, queue, port, root, booted>>
      /\ UNCHANGED <<arg, keep, result, bind, fdriver>>
  BY DEF HandleEnded, callVars, lockVars
<1>2. /\ TypeOK /\ CounterExact /\ MasterPlace /\ hub \in Driver /\ master \in Proc /\ app # master /\ master # none
      /\ Driver \subseteq Task /\ Task \subseteq Proc /\ master \notin Task /\ master \notin Caller /\ Caller \subseteq Proc
      /\ app \in Proc /\ app \in Caller
  BY Names DEF TaskInvariant, Caller
<1>3. /\ mask' \subseteq mask /\ mask' \subseteq Signals
      /\ pc' \in [Proc -> Labels] /\ pc'[app] \in AppLabels
      /\ pc'[master] \in {"wait", "handle"} /\ \A t \in Task : pc'[t] \in LabelsOf(t)
      /\ \A p \in Proc : p # master => pc'[p] = pc[p]
  BY <1>1, <1>2, DoneIs
<1>4. /\ sig' \in [Proc -> SUBSET Signals] /\ \A p \in Proc : p # master => sig'[p] = sig[p]
      /\ sig'[master] \subseteq sig[master] \cup {"D"}
  <2>1. CASE sig' = sig
    BY <1>2, <2>1 DEF TypeOK
  <2>2. CASE sig' = With(sig, master, "D")
    <3>1. "D" \in Signals
      BY DEF Signals
    <3> QED BY <1>2, <2>2, <3>1, SigAdds
  <2> QED BY <1>1, <2>1, <2>2
<1>5. ASSUME NEW t \in Task
      PROVE  /\ EndedMsgs[t] \in {0, kept[t]} /\ kept'[t] = kept[t] - EndedMsgs[t] /\ kept'[t] \in Nat
             /\ tn'[t] \in TaskNode /\ tn'[t].st = tn[t].st /\ tn'[t].adr = tn[t].adr
             /\ tn'[t].listed = tn[t].listed /\ tn'[t].parent = tn[t].parent
             /\ tn[t].st = "none" => tn'[t] = NoNode /\ kept'[t] = 0
             /\ LockPlace(t)'
  <2>1. /\ EndedMsgs[t] = IF tn[t].adr THEN 0 ELSE kept[t]
        /\ kept[t] \in Nat /\ tn[t] \in TaskNode /\ NodePlace(t) /\ LockPlace(t)
    BY <1>5, TaskFacts DEF EndedMsgs
  <2>2. EndedMsgs[t] \in {0, kept[t]}
    BY <2>1
  <2>3. PICK e \in Nat : e = EndedMsgs[t] /\ e <= kept[t]
    BY <2>1
  <2>4. kept'[t] = kept[t] - e /\ kept'[t] \in Nat /\ tn'[t] = [tn[t] EXCEPT !.locks = @ - e]
    BY <1>1, <2>1, <2>3
  <2>5. PICK rest \in Nat :
            rest = One(Starting(t)) + One(Stopping(t) /\ ~ keep[Stopper(t)]) + One(Stopping(t) /\ bind = Stopper(t))
                   + One(t # hcd /\ dn[t].task /\ InUse(t)) + One(t = hcd /\ pc[t] \notin {"none", "entry", "dead"})
    BY DEF One
  <2>6. LockSum(t) = rest + kept[t]
    <3>1. /\ One(Starting(t)) \in Nat /\ One(Stopping(t) /\ ~ keep[Stopper(t)]) \in Nat
          /\ One(Stopping(t) /\ bind = Stopper(t)) \in Nat /\ One(t # hcd /\ dn[t].task /\ InUse(t)) \in Nat
          /\ One(t = hcd /\ pc[t] \notin {"none", "entry", "dead"}) \in Nat
      BY DEF One
    <3> QED BY <2>1, <2>5, <3>1 DEF LockSum
  <2>7. LockSum(t)' = rest + kept'[t]
    <3>1. /\ Starting(t)' <=> Starting(t)
          /\ Stopping(t)' <=> Stopping(t)
          /\ pc'[t] = pc[t] /\ (InUse(t)' <=> InUse(t))
      BY <1>1, <1>2, <1>3, <1>4, <1>5, SidesSame DEF InUse
    <3>2. /\ One(Starting(t))' = One(Starting(t))
          /\ One(Stopping(t) /\ ~ keep[Stopper(t)])' = One(Stopping(t) /\ ~ keep[Stopper(t)])
          /\ One(Stopping(t) /\ bind = Stopper(t))' = One(Stopping(t) /\ bind = Stopper(t))
          /\ One(t # hcd /\ dn[t].task /\ InUse(t))' = One(t # hcd /\ dn[t].task /\ InUse(t))
          /\ One(t = hcd /\ pc[t] \notin {"none", "entry", "dead"})' = One(t = hcd /\ pc[t] \notin {"none", "entry", "dead"})
      BY <1>1, <3>1 DEF One
    <3>3. /\ One(Starting(t)) \in Nat /\ One(Stopping(t) /\ ~ keep[Stopper(t)]) \in Nat
          /\ One(Stopping(t) /\ bind = Stopper(t)) \in Nat /\ One(t # hcd /\ dn[t].task /\ InUse(t)) \in Nat
          /\ One(t = hcd /\ pc[t] \notin {"none", "entry", "dead"}) \in Nat
      BY DEF One
    <3>4. LockSum(t)' = One(Starting(t))' + One(Stopping(t) /\ ~ keep[Stopper(t)])' + kept'[t]
                        + One(Stopping(t) /\ bind = Stopper(t))' + One(t # hcd /\ dn[t].task /\ InUse(t))'
                        + One(t = hcd /\ pc[t] \notin {"none", "entry", "dead"})'
      BY DEF LockSum
    <3> QED BY <2>4, <2>5, <3>2, <3>3, <3>4
  <2>8. tn[t].st = "none" => tn[t] = NoNode /\ kept[t] = 0 /\ e = 0
    BY <2>1, <2>3 DEF NodePlace
  <2>9. tn[t].locks >= e /\ tn[t].locks \in Nat
    <3>1. tn[t].locks = LockSum(t) \/ tn[t].st = "none"
      BY <2>1 DEF LockPlace, Alive
    <3> QED BY <2>1, <2>3, <2>6, <2>8, <3>1 DEF TaskNode
  <2>10. PICK k \in Nat : k = tn[t].locks - e
    BY <2>9
  <2>11. tn'[t] = [tn[t] EXCEPT !.locks = k]
    BY <2>4, <2>10
  <2>12. tn'[t] \in TaskNode
    BY <2>1, <2>11, NodeUpdates
  <2>13. /\ tn'[t].st = tn[t].st /\ tn'[t].adr = tn[t].adr /\ tn'[t].locks = k
         /\ tn'[t].listed = tn[t].listed /\ tn'[t].parent = tn[t].parent
    BY <2>1, <2>11 DEF TaskNode
  <2>14. tn[t].st = "none" => tn'[t] = NoNode /\ kept'[t] = 0
    <3> SUFFICES ASSUME tn[t].st = "none" PROVE tn'[t] = NoNode /\ kept'[t] = 0
      OBVIOUS
    <3>1. k = 0 /\ tn[t] = NoNode /\ kept[t] = 0 /\ e = 0
      BY <2>8, <2>10, NoNodeIs
    <3>2. tn'[t] = NoNode
      BY <2>12, <2>13, <3>1, NoNodeIs, SameNode
    <3> QED BY <2>4, <3>1, <3>2
  <2>15. LockPlace(t)'
    <3>1. kept[t] \in Nat /\ e \in Nat /\ e <= kept[t] /\ rest \in Nat /\ kept'[t] = kept[t] - e
      BY <2>1, <2>3, <2>4
    <3>2. Alive(tn'[t]) <=> Alive(tn[t])
      BY <2>13 DEF Alive
    <3>3. CASE Alive(tn[t])
      <4>1. tn[t].locks = rest + kept[t]
        BY <2>1, <2>6, <3>3 DEF LockPlace
      <4>2. k = rest + kept'[t]
        BY <2>10, <3>1, <4>1
      <4>3. tn'[t].st # "freed"
        BY <3>2, <3>3 DEF Alive
      <4> QED BY <2>7, <2>13, <4>2, <4>3 DEF LockPlace
    <3>4. CASE tn[t].st = "freed"
      <4>1. rest + kept[t] = 0 /\ tn[t].locks = 0
        BY <2>1, <2>6, <3>4 DEF LockPlace
      <4>2. rest = 0 /\ kept'[t] = 0 /\ k = 0
        BY <2>10, <3>1, <4>1
      <4>3. LockSum(t)' = 0
        BY <2>7, <4>2
      <4> QED BY <2>13, <3>2, <3>4, <4>2, <4>3 DEF LockPlace, Alive
    <3>5. CASE tn[t].st = "none"
      BY <2>13, <3>5 DEF LockPlace, Alive
    <3> QED BY <3>3, <3>4, <3>5 DEF Alive
  <2> QED BY <2>2, <2>3, <2>4, <2>12, <2>13, <2>14, <2>15
<1>6. tn' \in [Task -> TaskNode] /\ kept' \in [Task -> Nat]
  BY <1>1, <1>5
<1>7. TypeOK'
  BY <1>1, <1>2, <1>3, <1>4, <1>6 DEF TypeOK
<1>8. CounterExact'
  <2>1. \A t \in Task : SameCounted(t)
    BY <1>2, <1>3, <1>5 DEF SameCounted, Alive, Up
  <2> QED BY <1>1, <1>2, <2>1, CountKeeps
<1>9. MasterPlace'
  BY <1>1, <1>2, <1>3, <1>4 DEF MasterPlace
<1>10. ASSUME NEW t \in Task PROVE Place(t)'
  <2>1. NodePlace(t) /\ (t \in Driver => BinderPlace(t) /\ DriverPlace(t))
    BY <1>10, TaskFacts
  <2>2. NodePlace(t)'
    <3>1. tn'[t].st \in StatesAt(pc[t])
      BY <1>5, <1>10, <2>1 DEF NodePlace
    <3>2. UNCHANGED <<arg, keep, result, bind, queue>> /\ \A p \in Caller : "reply" \in sig'[p] => "reply" \in sig[p]
      BY <1>1, <1>2, <1>4
    <3>3. /\ tn'[t].st = "none" => tn'[t] = NoNode /\ kept'[t] = 0
          /\ tn'[t].listed = tn[t].listed /\ tn'[t].adr = tn[t].adr /\ tn'[t].parent = tn[t].parent
      BY <1>5, <1>10
    <3> QED BY <1>3, <1>10, <3>1, <3>2, <3>3, SameSidesNode
  <2>3. /\ Starting(t)' <=> Starting(t)
        /\ Stopping(t)' <=> Stopping(t)
        /\ Binding(t)' <=> Binding(t)
        /\ pc'[t] = pc[t] /\ pc'[Starter(t)] = pc[Starter(t)] /\ sig'[t] = sig[t]
    BY <1>1, <1>2, <1>3, <1>4, <1>10, SidesSame
  <2>4. ASSUME t \in Driver PROVE BinderPlace(t)' /\ DriverPlace(t)'
    <3>1. BinderPlace(t)'
      BY <1>1, <2>1, <2>3, <2>4 DEF BinderPlace
    <3>2. tn[t] = NoNode => tn'[t] = NoNode
      BY <1>5, NoNodeIs
    <3>3. One(Stopping(t) /\ bind = Stopper(t))' = One(Stopping(t) /\ bind = Stopper(t))
      BY <1>1, <2>3 DEF One
    <3>4. DriverPlace(t)'
      BY <1>1, <1>5, <2>1, <2>3, <2>4, <3>2, <3>3 DEF DriverPlace, InUse
    <3> QED BY <3>1, <3>4
  <2> QED BY <1>5, <1>10, <2>2, <2>4 DEF Place
<1>11. \A t \in Task : /\ tn[t].st = "none" => tn'[t] = tn[t]
                       /\ tn[t].st # "none" => tn'[t].st # "none"
                       /\ Alive(tn'[t]) => Alive(tn[t])
                       /\ Stopping(t) /\ ~ keep[Stopper(t)] => Alive(tn'[t])
                       /\ Stopping(t) /\ bind = Stopper(t) => Alive(tn'[t])
  <2> SUFFICES ASSUME NEW t \in Task
      PROVE /\ tn[t].st = "none" => tn'[t] = tn[t]
            /\ tn[t].st # "none" => tn'[t].st # "none"
            /\ Alive(tn'[t]) => Alive(tn[t])
            /\ Stopping(t) /\ ~ keep[Stopper(t)] => Alive(tn'[t])
            /\ Stopping(t) /\ bind = Stopper(t) => Alive(tn'[t])
    OBVIOUS
  <2>1. NodePlace(t) /\ Stopper(t) \in Caller
    BY TaskFacts
  <2>2. StopPlace(Stopper(t))
    BY <2>1 DEF TaskInvariant, Caller
  <2>3. Stopping(t) => (~ keep[Stopper(t)] => Alive(tn[t])) /\ (bind = Stopper(t) => Alive(tn[t]))
    BY <2>1, <2>2, Names DEF Stopping, StopPlace
  <2> QED BY <1>5, <2>1, <2>3 DEF NodePlace, Alive
<1>12. \A d \in Driver : dn'[d] = dn[d] /\ (InUse(d)' => InUse(d))
  BY <1>1 DEF InUse
<1>13. /\ \A p \in Caller : "reply" \in sig'[p] => "reply" \in sig[p]
       /\ \A t \in Task : "C" \in sig'[t] <=> "C" \in sig[t]
       /\ "E" \in sig'[app] => "E" \in sig[app]
  BY <1>2, <1>4
<1> QED BY <1>1, <1>2, <1>3, <1>7, <1>8, <1>9, <1>10, <1>11, <1>12, <1>13, ManyNodes


LEMMA PromoteKeeps == ASSUME TaskInvariant, Promote PROVE TaskInvariant'
<1>1. /\ TypeOK /\ CounterExact /\ MasterPlace /\ hub \in Driver /\ master \in Proc /\ app # master
      /\ Driver \subseteq Task /\ Task \subseteq Proc /\ master \notin Task /\ master \notin Caller /\ Caller \subseteq Proc
      /\ app \in Proc /\ app \in Caller /\ master # none
  BY Names DEF TaskInvariant, Caller
<1>2. /\ UNCHANGED <<arg, keep, result, dn, count, bind, fdriver, kept, stopping, queue, port, root, booted>>
      /\ UNCHANGED <<callVars, lockVars>>
  BY DEF Promote, callVars, lockVars
<1>3. CASE mode' = "process" /\ mask' = {} /\ sig' = [sig EXCEPT ![master] = {}] /\ GoTo(master, "wait")
           /\ tn' = [t \in Task |-> IF tn[t].parent[1] = master THEN [tn[t] EXCEPT !.parent = Lost] ELSE tn[t]]
  <2>1. /\ pc' \in [Proc -> Labels] /\ pc'[app] \in AppLabels
        /\ pc'[master] = "wait" /\ \A t \in Task : pc'[t] \in LabelsOf(t)
        /\ \A p \in Proc : p # master => pc'[p] = pc[p]
    BY <1>1, <1>3, MasterPc
  <2>2. sig' \in [Proc -> SUBSET Signals] /\ sig'[master] = {} /\ \A p \in Proc : p # master => sig'[p] = sig[p]
    BY <1>1, <1>3 DEF TypeOK
  <2>3. ASSUME NEW t \in Task
        PROVE  /\ tn'[t] \in TaskNode /\ tn'[t].st = tn[t].st /\ tn'[t].adr = tn[t].adr
               /\ tn'[t].listed = tn[t].listed /\ tn'[t].locks = tn[t].locks
               /\ tn'[t] = tn[t] \/ (tn[t].parent = Awaited /\ tn'[t].parent = Lost)
               /\ tn[t].st = "none" => tn'[t] = NoNode /\ tn[t] = NoNode /\ kept'[t] = 0
    <3>1. NodePlace(t) /\ tn[t] \in TaskNode /\ Starter(t) \in Caller
      BY <2>3, TaskFacts
    <3>2. tn[t].parent[1] = master => tn[t].parent = Awaited
      BY <1>1, <3>1 DEF NodePlace, NoParent, Lost, Awaited
    <3>3. CASE tn[t].parent[1] = master
      <4>1. tn'[t] = [tn[t] EXCEPT !.parent = Lost] /\ Lost \in ParentNames
        BY <1>3, <2>3, <3>3, Parents
      <4>2. tn'[t] \in TaskNode
        BY <3>1, <4>1, NodeUpdates
      <4>3. tn'[t].st = tn[t].st /\ tn'[t].adr = tn[t].adr
            /\ tn'[t].listed = tn[t].listed /\ tn'[t].locks = tn[t].locks /\ tn'[t].parent = Lost
        BY <3>1, <4>1 DEF TaskNode
      <4>4. tn[t].st # "none"
        BY <3>1, <3>2, <3>3, NoNodeIs, Parents DEF NodePlace
      <4> QED BY <3>2, <3>3, <4>2, <4>3, <4>4
    <3>4. CASE tn[t].parent[1] # master
      BY <1>2, <1>3, <2>3, <3>1, <3>4 DEF NodePlace
    <3> QED BY <3>3, <3>4
  <2>4. tn' \in [Task -> TaskNode]
    BY <1>3, <2>3
  <2>5. TypeOK'
    BY <1>1, <1>2, <1>3, <2>1, <2>2, <2>4 DEF TypeOK
  <2>6. CounterExact'
    <3>1. \A t \in Task : SameCounted(t)
      BY <1>1, <2>1, <2>3 DEF SameCounted, Alive, Up
    <3> QED BY <1>1, <1>2, <3>1, CountKeeps
  <2>7. MasterPlace'
    BY <1>1, <1>2, <1>3, <2>1, <2>2 DEF MasterPlace
  <2>8. \A p \in Caller : "reply" \in sig'[p] => "reply" \in sig[p]
    BY <1>1, <2>2
  <2>9. UNCHANGED <<arg, keep, result, bind, queue>>
    BY <1>2
  <2>10. ASSUME NEW t \in Task PROVE Place(t)'
    <3>1. NodePlace(t) /\ LockPlace(t) /\ (t \in Driver => BinderPlace(t) /\ DriverPlace(t)) /\ t \in Proc /\ t # master
      BY <2>10, TaskFacts
    <3>2. NodePlace(t)'
      <4>1. tn'[t].st \in StatesAt(pc[t])
        BY <2>3, <2>10, <3>1 DEF NodePlace
      <4>2. /\ tn'[t].st = "none" => tn'[t] = NoNode /\ kept'[t] = 0
            /\ tn'[t].listed = tn[t].listed /\ tn'[t].adr = tn[t].adr
            /\ tn'[t].parent = tn[t].parent \/ (tn[t].parent = Awaited /\ tn'[t].parent = Lost)
        BY <2>3, <2>10
      <4> QED BY <2>1, <2>8, <2>9, <2>10, <4>1, <4>2, SameSidesNode
    <3>3. /\ Starting(t)' <=> Starting(t)
          /\ Stopping(t)' <=> Stopping(t)
          /\ Binding(t)' <=> Binding(t)
          /\ pc'[t] = pc[t] /\ pc'[Starter(t)] = pc[Starter(t)] /\ sig'[t] = sig[t]
      BY <2>1, <2>2, <2>8, <2>9, <2>10, <3>1, SidesSame
    <3>4. LockSum(t)' = LockSum(t)
      BY <1>2, <3>3 DEF LockSum, One, InUse
    <3>5. LockPlace(t)'
      BY <2>3, <2>10, <3>1, <3>4 DEF LockPlace, Alive
    <3>6. ASSUME t \in Driver PROVE BinderPlace(t)' /\ DriverPlace(t)'
      <4>1. BinderPlace(t)'
        BY <1>2, <3>1, <3>3, <3>6 DEF BinderPlace
      <4>2. tn[t] = NoNode => tn'[t] = NoNode
        BY <2>3, <2>10, NoNodeIs
      <4>3. One(Stopping(t) /\ bind = Stopper(t))' = One(Stopping(t) /\ bind = Stopper(t))
        BY <1>2, <3>3 DEF One
      <4>4. tn'[t].st = tn[t].st
        BY <2>3, <2>10
      <4>5. DriverPlace(t)'
        BY <1>2, <3>1, <3>3, <3>6, <4>2, <4>3, <4>4 DEF DriverPlace, InUse
      <4> QED BY <4>1, <4>5
    <3> QED BY <3>2, <3>5, <3>6 DEF Place
  <2>11. ASSUME NEW t \in Task
         PROVE /\ tn[t].st = "none" => tn'[t] = tn[t]
               /\ tn[t].st # "none" => tn'[t].st # "none"
               /\ Alive(tn'[t]) => Alive(tn[t])
               /\ Stopping(t) /\ ~ keep[Stopper(t)] => Alive(tn'[t])
               /\ Stopping(t) /\ bind = Stopper(t) => Alive(tn'[t])
    <3>1. Stopper(t) \in Caller
      BY <2>11, TaskFacts
    <3>2. StopPlace(Stopper(t))
      BY <3>1 DEF TaskInvariant, Caller
    <3>3. Stopping(t) => (~ keep[Stopper(t)] => Alive(tn[t])) /\ (bind = Stopper(t) => Alive(tn[t]))
      BY <3>1, <3>2, Names DEF Stopping, StopPlace
    <3> QED BY <2>3, <2>11, <3>3 DEF Alive
  <2>12. \A d \in Driver : dn'[d] = dn[d] /\ (InUse(d)' => InUse(d))
    BY <1>2 DEF InUse
  <2>13. /\ \A t \in Task : "C" \in sig'[t] <=> "C" \in sig[t]
         /\ "E" \in sig'[app] => "E" \in sig[app]
    BY <1>1, <2>2
  <2>14. UNCHANGED <<arg, keep, result, bind, queue, root, port>>
    BY <1>2
  <2> QED BY <1>1, <2>1, <2>5, <2>6, <2>7, <2>8, <2>10, <2>11, <2>12, <2>13, <2>14, ManyNodes
<1>4. CASE Done("E") /\ UNCHANGED <<mode, sig, tn>>
  <2>1. /\ mask' \subseteq mask /\ mask' \subseteq Signals
        /\ pc' \in [Proc -> Labels] /\ pc'[app] \in AppLabels
        /\ pc'[master] \in {"wait", "handle"} /\ \A t \in Task : pc'[t] \in LabelsOf(t)
        /\ \A p \in Proc : p # master => pc'[p] = pc[p]
    BY <1>1, <1>4, DoneIs
  <2>2. TypeOK'
    BY <1>1, <1>2, <1>4, <2>1 DEF TypeOK
  <2>3. MasterPlace'
    BY <1>1, <1>2, <1>4, <2>1, MasterKeepsIt
  <2>4. UNCHANGED <<callVars, nodeVars, kept, bind, queue, root, port>>
    BY <1>2, <1>4 DEF nodeVars
  <2> QED BY <1>1, <1>4, <2>1, <2>2, <2>3, <2>4, MasterMoves DEF SignalsKept
<1> QED BY <1>3, <1>4 DEF Promote


\* What the sweep makes of a TaskNode before it looks whether that can be freed.
SweptNode(t) ==
    IF t \in Driver /\ FreeableDriver(t) /\ dn[t].task THEN [tn[t] EXCEPT !.locks = @ - 1] ELSE tn[t]
SweptDriver(d) == IF FreeableDriver(d) THEN [dn[d] EXCEPT !.st = "freed"] ELSE dn[d]
SweptTasks     == {t \in Task : FreeableTask(SweptNode(t))}

LEMMA SweepIs ==
    ASSUME NEW bit, Sweep(bit)
    PROVE  /\ Handles(bit) /\ bind = none /\ Done(bit)
           /\ dn' = [d \in Driver |-> SweptDriver(d)]
           /\ tn' = [t \in Task |-> IF t \in SweptTasks THEN [SweptNode(t) EXCEPT !.st = "freed"] ELSE SweptNode(t)]
           /\ count' = [g \in Groups |-> count[g] - Cardinality({t \in SweptTasks : Group(t) = g})]
           /\ UNCHANGED <<callVars, lockVars, kept, mode, stopping, queue, sig, port, root, booted>>
<1> DEFINE drivers == {d \in Driver : FreeableDriver(d)}
           nodes == [t \in Task |-> IF t \in drivers /\ dn[t].task THEN [tn[t] EXCEPT !.locks = @ - 1] ELSE tn[t]]
           tasks == {t \in Task : FreeableTask(nodes[t])}
<1>1. \A t \in Task : nodes[t] = SweptNode(t)
  BY DEF SweptNode
<1>2. tasks = SweptTasks
  BY <1>1 DEF SweptTasks
<1>3. /\ Handles(bit) /\ bind = none /\ Done(bit)
      /\ dn' = [d \in Driver |-> IF d \in drivers THEN [dn[d] EXCEPT !.st = "freed"] ELSE dn[d]]
      /\ tn' = [t \in Task |-> IF t \in tasks THEN [nodes[t] EXCEPT !.st = "freed"] ELSE nodes[t]]
      /\ count' = [g \in Groups |-> count[g] - Cardinality({t \in tasks : Group(t) = g})]
      /\ UNCHANGED <<callVars, lockVars, kept, mode, stopping, queue, sig, port, root, booted>>
  BY DEF Sweep
<1>4. dn' = [d \in Driver |-> SweptDriver(d)]
  BY <1>3 DEF SweptDriver
<1> HIDE DEF nodes, tasks, drivers
<1>5. tn' = [t \in Task |-> IF t \in SweptTasks THEN [SweptNode(t) EXCEPT !.st = "freed"] ELSE SweptNode(t)]
  BY <1>1, <1>2, <1>3
<1> QED BY <1>2, <1>3, <1>4, <1>5

\* The DriverNode that is freed was in use and lets go of the TaskNode.
LEMMA SweptFacts ==
    ASSUME TaskInvariant, bind = none, NEW t \in Task
    PROVE  /\ SweptNode(t) \in TaskNode /\ SweptNode(t).st = tn[t].st /\ SweptNode(t).adr = tn[t].adr
           /\ SweptNode(t).listed = tn[t].listed /\ SweptNode(t).parent = tn[t].parent
           /\ tn[t].st = "none" => SweptNode(t) = tn[t]
           /\ t \in Driver => (SweptDriver(t) \in DriverNode
                               /\ SweptDriver(t).locks = dn[t].locks /\ SweptDriver(t).freeMe = dn[t].freeMe
                               /\ SweptDriver(t).task = dn[t].task /\ SweptDriver(t).ok = dn[t].ok
                               /\ SweptDriver(t).st = IF FreeableDriver(t) THEN "freed" ELSE dn[t].st)
           /\ (t \in Driver /\ FreeableDriver(t) /\ dn[t].task) =>
                  (Alive(tn[t]) /\ InUse(t) /\ tn[t].locks >= 1 /\ SweptNode(t).locks = tn[t].locks - 1)
           /\ ~ (t \in Driver /\ FreeableDriver(t) /\ dn[t].task) => SweptNode(t) = tn[t]
<1>1. /\ tn[t] \in TaskNode /\ LockPlace(t) /\ kept[t] \in Nat
      /\ t \in Driver => DriverPlace(t) /\ dn[t] \in DriverNode
  BY TaskFacts
<1>2. ASSUME t \in Driver
      PROVE  /\ SweptDriver(t) \in DriverNode
             /\ SweptDriver(t).locks = dn[t].locks /\ SweptDriver(t).freeMe = dn[t].freeMe
             /\ SweptDriver(t).task = dn[t].task /\ SweptDriver(t).ok = dn[t].ok
             /\ SweptDriver(t).st = IF FreeableDriver(t) THEN "freed" ELSE dn[t].st
  <2>1. dn[t] \in DriverNode
    BY <1>1, <1>2
  <2> QED BY <2>1 DEF SweptDriver, DriverNode
<1>3. CASE t \in Driver /\ FreeableDriver(t) /\ dn[t].task
  <2>1. dn[t].st = "listed" /\ InUse(t) /\ DriverPlace(t)
    BY <1>1, <1>3 DEF FreeableDriver, InUse
  <2>2. Alive(tn[t])
    BY <1>3, <2>1 DEF DriverPlace, Alive
  <2>3. t # hcd
    BY <1>3, Names
  <2>4. tn[t].locks = LockSum(t)
    BY <1>1, <2>2 DEF LockPlace
  <2>5. One(t # hcd /\ dn[t].task /\ InUse(t)) = 1
    BY <1>3, <2>1, <2>3 DEF One
  <2>6. /\ One(Starting(t)) \in Nat /\ One(Stopping(t) /\ ~ keep[Stopper(t)]) \in Nat
        /\ One(Stopping(t) /\ bind = Stopper(t)) \in Nat
        /\ One(t = hcd /\ pc[t] \notin {"none", "entry", "dead"}) \in Nat
    BY DEF One
  <2>7. tn[t].locks >= 1
    BY <1>1, <2>4, <2>5, <2>6 DEF LockSum
  <2>8. PICK k \in Nat : k = tn[t].locks - 1
    BY <1>1, <2>7, TaskNodes
  <2>9. SweptNode(t) = [tn[t] EXCEPT !.locks = k]
    BY <1>3, <2>8 DEF SweptNode
  <2>10. SweptNode(t) \in TaskNode
    BY <1>1, <2>9, NodeUpdates
  <2>11. /\ SweptNode(t).st = tn[t].st /\ SweptNode(t).adr = tn[t].adr /\ SweptNode(t).locks = k
         /\ SweptNode(t).listed = tn[t].listed /\ SweptNode(t).parent = tn[t].parent
    BY <1>1, <2>9 DEF TaskNode
  <2> QED BY <1>2, <1>3, <2>1, <2>2, <2>7, <2>8, <2>10, <2>11 DEF Alive
<1>4. CASE ~ (t \in Driver /\ FreeableDriver(t) /\ dn[t].task)
  <2>1. SweptNode(t) = tn[t]
    BY <1>4 DEF SweptNode
  <2> QED BY <1>1, <1>2, <1>4, <2>1
<1> QED BY <1>3, <1>4


\* A node that is freed was listed, stopped and locked by nothing.
LEMMA SweptTaskFacts ==
    ASSUME TaskInvariant, bind = none, NEW t \in Task, FreeableTask(SweptNode(t))
    PROVE  Alive(tn[t]) /\ tn[t].st = "stopped" /\ pc[t] = "dead" /\ SweptNode(t).locks = 0
<1>1. NodePlace(t) /\ SweptNode(t).st = tn[t].st
  BY TaskFacts, SweptFacts
<1>2. tn[t].st = "stopped" /\ SweptNode(t).locks = 0
  BY <1>1 DEF FreeableTask
<1>3. pc[t] = "dead"
  BY <1>1, <1>2 DEF NodePlace, StatesAt
<1> QED BY <1>2, <1>3 DEF Alive

\* The sweep counts the nodes it frees off their groups.
LEMMA SweepCounts ==
    ASSUME TypeOK, CounterExact, NEW T \in SUBSET Task, \A t \in T : Alive(tn[t]),
           count' = [g \in Groups |-> count[g] - Cardinality({t \in T : Group(t) = g})],
           \A t \in Task : /\ Up(t)' <=> Up(t)
                           /\ Alive(tn'[t]) <=> (Alive(tn[t]) /\ t \notin T)
    PROVE  CounterExact' /\ count' \in [Groups -> Nat]
<1>1. ASSUME NEW g \in Groups
      PROVE  count'[g] = Cardinality(Nodes(g)') + Cardinality(Ups(g)') /\ count'[g] \in Nat
  <2>1. PICK F : F = {t \in T : Group(t) = g}
    OBVIOUS
  <2>2. F \subseteq Nodes(g) /\ Nodes(g)' = Nodes(g) \ F /\ Ups(g)' = Ups(g)
    BY <2>1 DEF Nodes, Ups
  <2>3. IsFiniteSet(Nodes(g)) /\ Cardinality(Nodes(g)) \in Nat /\ Cardinality(Ups(g)) \in Nat
    BY CountIs
  <2>4. IsFiniteSet(F) /\ Cardinality(F) \in Nat /\ Cardinality(F) <= Cardinality(Nodes(g))
    BY <2>2, <2>3, FS_Subset, FS_CardinalityType
  <2>5. Nodes(g) \cap F = F
    BY <2>2
  <2>6. Cardinality(Nodes(g) \ F) = Cardinality(Nodes(g)) - Cardinality(Nodes(g) \cap F)
    BY <2>3, FS_Difference
  <2>7. Cardinality(Nodes(g)') = Cardinality(Nodes(g)) - Cardinality(F)
    BY <2>2, <2>5, <2>6
  <2>8. count[g] = Cardinality(Nodes(g)) + Cardinality(Ups(g))
    BY CounterIs
  <2>9. count'[g] = count[g] - Cardinality(F)
    BY <2>1
  <2>10. Cardinality(Ups(g)') = Cardinality(Ups(g))
    BY <2>2
  <2> QED BY <2>3, <2>4, <2>7, <2>8, <2>9, <2>10
<1>2. CounterExact'
  BY <1>1, CounterIsNext
<1> QED BY <1>1, <1>2

LEMMA SweptPlace ==
    ASSUME TaskInvariant, bind = none, NEW t \in Task,
           UNCHANGED <<arg, keep, result, bind, queue, kept, sig>>,
           \A p \in Proc : p # master => pc'[p] = pc[p],
           tn'[t] = IF FreeableTask(SweptNode(t)) THEN [SweptNode(t) EXCEPT !.st = "freed"] ELSE SweptNode(t),
           t \in Driver => dn'[t] = SweptDriver(t)
    PROVE  Place(t)' /\ tn'[t] \in TaskNode /\ (Alive(tn'[t]) => LockSum(t)' = tn'[t].locks)
           /\ (FreeableTask(SweptNode(t)) => tn'[t].st = "freed" /\ LockSum(t)' = 0)
           /\ (~ FreeableTask(SweptNode(t)) => tn'[t].st = tn[t].st)
<1>1. /\ TypeOK /\ NodePlace(t) /\ LockPlace(t) /\ tn[t] \in TaskNode /\ kept[t] \in Nat
      /\ t \in Driver => BinderPlace(t) /\ DriverPlace(t) /\ dn[t] \in DriverNode
      /\ t \in Proc /\ t # master
  BY TaskFacts
<1>2. /\ SweptNode(t) \in TaskNode /\ SweptNode(t).st = tn[t].st /\ SweptNode(t).adr = tn[t].adr
      /\ SweptNode(t).listed = tn[t].listed /\ SweptNode(t).parent = tn[t].parent
      /\ tn[t].st = "none" => SweptNode(t) = tn[t]
  BY SweptFacts
<1>3. /\ tn'[t] \in TaskNode /\ tn'[t].adr = tn[t].adr /\ tn'[t].locks = SweptNode(t).locks
      /\ tn'[t].listed = tn[t].listed /\ tn'[t].parent = tn[t].parent
      /\ FreeableTask(SweptNode(t)) => tn'[t].st = "freed"
      /\ ~ FreeableTask(SweptNode(t)) => tn'[t] = SweptNode(t) /\ tn'[t].st = tn[t].st
  <2>1. CASE FreeableTask(SweptNode(t))
    <3>1. tn'[t] = [SweptNode(t) EXCEPT !.st = "freed"] /\ "freed" \in States
      BY <2>1 DEF States
    <3>3. PICK n \in TaskNode : n = SweptNode(t)
      BY <1>2
    <3>5. \A st \in States : [n EXCEPT !.st = st] \in TaskNode
      BY NodeUpdates
    <3>2. tn'[t] \in TaskNode
      BY <3>1, <3>3, <3>5
    <3>4. /\ tn'[t].st = "freed" /\ tn'[t].adr = n.adr /\ tn'[t].locks = n.locks
          /\ tn'[t].listed = n.listed /\ tn'[t].parent = n.parent
      BY <3>1, <3>3 DEF TaskNode
    <3> QED BY <1>2, <2>1, <3>2, <3>3, <3>4
  <2>2. CASE ~ FreeableTask(SweptNode(t))
    BY <1>2, <2>2
  <2> QED BY <2>1, <2>2
<1>4. FreeableTask(SweptNode(t)) => Alive(tn[t]) /\ tn[t].st = "stopped" /\ pc[t] = "dead" /\ SweptNode(t).locks = 0
  BY SweptTaskFacts
<1>5. \A p \in Caller : "reply" \in sig'[p] => "reply" \in sig[p]
  OBVIOUS
<1>6. UNCHANGED <<arg, keep, result, bind, queue>>
  OBVIOUS
<1>7. /\ Starting(t)' <=> Starting(t)
      /\ Stopping(t)' <=> Stopping(t)
      /\ Binding(t)' <=> Binding(t)
      /\ pc'[t] = pc[t] /\ pc'[Starter(t)] = pc[Starter(t)]
  BY <1>5, <1>6, SidesSame
<1>8. NodePlace(t)'
  <2>1. tn'[t].st \in StatesAt(pc[t])
    BY <1>1, <1>3, <1>4 DEF NodePlace, StatesAt, Starts, Ends
  <2>2. tn'[t].st = "none" => tn'[t] = NoNode /\ kept'[t] = 0
    BY <1>1, <1>2, <1>3 DEF NodePlace
  <2> QED BY <1>3, <1>5, <1>6, <2>1, <2>2, SameSidesNode
<1>9. t \in Driver => /\ dn'[t] \in DriverNode
                      /\ dn'[t].locks = dn[t].locks /\ dn'[t].freeMe = dn[t].freeMe
                      /\ dn'[t].task = dn[t].task /\ dn'[t].ok = dn[t].ok
                      /\ dn'[t].st = IF FreeableDriver(t) THEN "freed" ELSE dn[t].st
  BY SweptFacts
<1>10. Alive(tn[t]) => LockSum(t)' = SweptNode(t).locks
  <2>1. /\ One(Starting(t))' = One(Starting(t))
        /\ One(Stopping(t) /\ ~ keep[Stopper(t)])' = One(Stopping(t) /\ ~ keep[Stopper(t)])
        /\ One(Stopping(t) /\ bind = Stopper(t))' = One(Stopping(t) /\ bind = Stopper(t))
        /\ One(t = hcd /\ pc[t] \notin {"none", "entry", "dead"})' = One(t = hcd /\ pc[t] \notin {"none", "entry", "dead"})
    BY <1>7 DEF One
  <2>2. /\ One(Starting(t)) \in Nat /\ One(Stopping(t) /\ ~ keep[Stopper(t)]) \in Nat
        /\ One(Stopping(t) /\ bind = Stopper(t)) \in Nat
        /\ One(t = hcd /\ pc[t] \notin {"none", "entry", "dead"}) \in Nat
    BY DEF One
  <2>3. LockSum(t)' = One(Starting(t)) + One(Stopping(t) /\ ~ keep[Stopper(t)]) + kept[t]
                      + One(Stopping(t) /\ bind = Stopper(t)) + One(t # hcd /\ dn[t].task /\ InUse(t))'
                      + One(t = hcd /\ pc[t] \notin {"none", "entry", "dead"})
    BY <2>1 DEF LockSum
  <2>4. CASE t \in Driver /\ FreeableDriver(t) /\ dn[t].task
    <3>1. InUse(t) /\ ~ InUse(t)' /\ t # hcd /\ Alive(tn[t]) /\ SweptNode(t).locks = tn[t].locks - 1
      BY <1>9, <2>4, SweptFacts, Names DEF InUse
    <3>2. One(t # hcd /\ dn[t].task /\ InUse(t)) = 1 /\ One(t # hcd /\ dn[t].task /\ InUse(t))' = 0
      BY <2>4, <3>1 DEF One
    <3>3. tn[t].locks = LockSum(t)
      BY <1>1, <3>1 DEF LockPlace
    <3> QED BY <1>1, <2>2, <2>3, <3>1, <3>2, <3>3 DEF LockSum
  <2>5. CASE ~ (t \in Driver /\ FreeableDriver(t) /\ dn[t].task)
    <3>1. SweptNode(t) = tn[t]
      BY <2>5, SweptFacts
    <3>2. (t # hcd /\ dn'[t].task /\ InUse(t)') <=> (t # hcd /\ dn[t].task /\ InUse(t))
      BY <1>9, <2>5, Names DEF InUse, Task
    <3>3. One(t # hcd /\ dn[t].task /\ InUse(t))' = One(t # hcd /\ dn[t].task /\ InUse(t))
      BY <3>2 DEF One
    <3>4. LockSum(t)' = LockSum(t)
      BY <2>3, <3>3 DEF LockSum
    <3> QED BY <1>1, <3>1, <3>4 DEF LockPlace
  <2> QED BY <2>4, <2>5
<1>11. tn[t].st = "freed" => LockSum(t)' = 0 /\ tn'[t].locks = 0 /\ tn'[t].st = "freed"
  <2> SUFFICES ASSUME tn[t].st = "freed" PROVE LockSum(t)' = 0 /\ tn'[t].locks = 0 /\ tn'[t].st = "freed"
    OBVIOUS
  <2>1. LockSum(t) = 0 /\ tn[t].locks = 0
    BY <1>1 DEF LockPlace
  <2>2. SweptNode(t) = tn[t] /\ tn'[t] = tn[t]
    BY <1>3, <1>4, SweptFacts DEF Alive
  <2>3. ~ (t # hcd /\ dn[t].task /\ InUse(t))
    <3>1. /\ One(Starting(t)) \in Nat /\ One(Stopping(t) /\ ~ keep[Stopper(t)]) \in Nat
          /\ One(Stopping(t) /\ bind = Stopper(t)) \in Nat
          /\ One(t = hcd /\ pc[t] \notin {"none", "entry", "dead"}) \in Nat
          /\ One(t # hcd /\ dn[t].task /\ InUse(t)) \in Nat
      BY DEF One
    <3>2. One(t # hcd /\ dn[t].task /\ InUse(t)) = 0
      BY <1>1, <2>1, <3>1 DEF LockSum
    <3> QED BY <3>2 DEF One
  <2>4. ~ (t # hcd /\ dn'[t].task /\ InUse(t)')
    BY <1>9, <2>3, Names DEF InUse, Task
  <2>5. LockSum(t)' = LockSum(t)
    BY <1>7, <2>3, <2>4 DEF LockSum, One
  <2> QED BY <2>1, <2>2, <2>5
<1>12. LockPlace(t)'
  BY <1>3, <1>4, <1>10, <1>11 DEF LockPlace, Alive
<1>13. Alive(tn'[t]) => LockSum(t)' = tn'[t].locks
  BY <1>12 DEF LockPlace
<1>14. FreeableTask(SweptNode(t)) => LockSum(t)' = 0
  BY <1>4, <1>10
<1>15. ASSUME t \in Driver PROVE BinderPlace(t)' /\ DriverPlace(t)'
  <2>1. /\ BinderPlace(t) /\ DriverPlace(t) /\ dn[t] \in DriverNode /\ t # hcd
    BY <1>1, <1>15, Names
  <2>2. BinderPlace(t)'
    BY <1>7, <1>9, <1>15, <2>1 DEF BinderPlace, FreeableDriver
  <2>3. ~ Alive(tn[t]) \/ FreeableTask(SweptNode(t)) => LockSum(t)' = 0 \/ tn[t].st = "none"
    BY <1>11, <1>14 DEF Alive
  <2>4. tn'[t].st = "freed" => dn'[t].st \in {"alloc", "freed"}
    <3>1. CASE tn[t].st = "freed"
      BY <1>9, <1>15, <2>1, <3>1 DEF DriverPlace
    <3>2. CASE FreeableTask(SweptNode(t))
      <4>1. LockSum(t)' = 0 /\ pc[t] = "dead"
        BY <1>4, <1>14, <3>2
      <4>2. ~ (dn'[t].task /\ InUse(t)')
        <5>1. PICK rest \in Nat : rest = One(Starting(t))' + One(Stopping(t) /\ ~ keep[Stopper(t)])'
                                         + One(Stopping(t) /\ bind = Stopper(t))'
                                         + One(t = hcd /\ pc[t] \notin {"none", "entry", "dead"})'
          BY DEF One
        <5>2. PICK held \in {0, 1} : held = One(t # hcd /\ dn[t].task /\ InUse(t))'
          BY DEF One
        <5>3. LockSum(t)' = rest + kept'[t] + held
          <6>1. /\ One(Starting(t))' \in Nat /\ One(Stopping(t) /\ ~ keep[Stopper(t)])' \in Nat
                /\ One(Stopping(t) /\ bind = Stopper(t))' \in Nat
                /\ One(t = hcd /\ pc[t] \notin {"none", "entry", "dead"})' \in Nat
            BY DEF One
          <6>2. kept'[t] \in Nat
            BY <1>1
          <6> QED BY <5>1, <5>2, <6>1, <6>2 DEF LockSum
        <5>4. kept'[t] \in Nat /\ LockSum(t)' = 0
          BY <1>1, <4>1
        <5>5. held = 0
          BY <5>3, <5>4
        <5> QED BY <2>1, <5>2, <5>5 DEF One
      <4>3. dn[t].st # "none"
        BY <2>1, <4>1 DEF DriverPlace
      <4>4. dn[t].st = "listed" /\ ~ dn[t].task => FreeableDriver(t)
        <5> SUFFICES ASSUME dn[t].st = "listed", ~ dn[t].task PROVE FreeableDriver(t)
          OBVIOUS
        <5>1. dn[t].freeMe
          BY <2>1, <4>1 DEF DriverPlace, Late
        <5>2. "dead" \notin Locking(t)
          BY DEF Locking, HUBMain, Binds
        <5>3. ~ (Stopping(t) /\ bind = Stopper(t))
          BY <1>15, Names, Callers, TaskFacts DEF Caller
        <5>4. dn[t].locks = 0
          BY <2>1, <4>1, <5>2, <5>3 DEF DriverPlace, One
        <5> QED BY <5>1, <5>4 DEF FreeableDriver
      <4>5. dn'[t].st # "listed"
        BY <1>9, <1>15, <4>2, <4>4 DEF InUse
      <4> QED BY <1>9, <1>15, <2>1, <4>3, <4>5, DriverNodes
    <3> QED BY <1>3, <3>1, <3>2
  <2>5. FreeableDriver(t) => dn[t].st = "listed" /\ dn[t].freeMe /\ pc[t] \in Late /\ pc[t] \notin Locking(t)
    <3> SUFFICES ASSUME FreeableDriver(t) PROVE dn[t].st = "listed" /\ dn[t].freeMe /\ pc[t] \in Late /\ pc[t] \notin Locking(t)
      OBVIOUS
    <3>1. dn[t].st = "listed" /\ dn[t].freeMe /\ dn[t].locks = 0
      BY DEF FreeableDriver
    <3>2. pc[t] \in Late
      BY <2>1, <3>1 DEF DriverPlace
    <3>3. One(pc[t] \in Locking(t)) = 0
      BY <2>1, <3>1 DEF DriverPlace, One
    <3> QED BY <3>1, <3>2, <3>3 DEF One
  <2>6. pc[t] \in Locking(t) \cup Early => InUse(t)'
    BY <1>9, <1>15, <2>1, <2>5 DEF DriverPlace, InUse, Late, Early
  <2>7. One(Stopping(t) /\ bind = Stopper(t))' = One(Stopping(t) /\ bind = Stopper(t))
    BY <1>7 DEF One
  <2>8. dn'[t].st = "none" => dn'[t] = NoDriver /\ tn'[t] = NoNode /\ pc[t] = "none"
    <3> SUFFICES ASSUME dn'[t].st = "none" PROVE dn'[t] = NoDriver /\ tn'[t] = NoNode /\ pc[t] = "none"
      OBVIOUS
    <3>1. dn[t].st = "none" /\ ~ FreeableDriver(t)
      BY <1>9, <1>15, DriverNodes
    <3>2. dn'[t] = dn[t] /\ SweptNode(t) = tn[t]
      BY <1>15, <3>1 DEF SweptDriver, SweptNode
    <3>3. tn[t] = NoNode /\ pc[t] = "none" /\ dn[t] = NoDriver
      BY <2>1, <3>1 DEF DriverPlace
    <3> QED BY <1>3, <1>4, <3>2, <3>3
  <2>9. dn'[t].task => tn'[t].st # "none"
    BY <1>3, <1>9, <1>15, <2>1 DEF DriverPlace
  <2>10. DriverPlace(t)'
    BY <1>7, <1>9, <1>15, <2>1, <2>4, <2>5, <2>6, <2>7, <2>8, <2>9 DEF DriverPlace
  <2> QED BY <2>2, <2>10
<1> QED BY <1>3, <1>8, <1>12, <1>13, <1>14, <1>15 DEF Place


LEMMA SweepKeeps == ASSUME TaskInvariant, NEW bit \in Signals, Sweep(bit) PROVE TaskInvariant'
<1>1. /\ TypeOK /\ CounterExact /\ MasterPlace /\ hub \in Driver /\ master \in Proc /\ app # master
      /\ Driver \subseteq Task /\ Task \subseteq Proc /\ master \notin Task /\ master \notin Caller /\ Caller \subseteq Proc
      /\ app \in Proc /\ app \in Caller /\ none \notin Proc
  BY Names DEF TaskInvariant, Caller
<1>2. /\ bind = none /\ Done(bit)
      /\ dn' = [d \in Driver |-> SweptDriver(d)]
      /\ tn' = [t \in Task |-> IF t \in SweptTasks THEN [SweptNode(t) EXCEPT !.st = "freed"] ELSE SweptNode(t)]
      /\ count' = [g \in Groups |-> count[g] - Cardinality({t \in SweptTasks : Group(t) = g})]
      /\ UNCHANGED <<callVars, lockVars, kept, mode, stopping, queue, sig, port, root, booted>>
  BY SweepIs
<1>3. /\ mask' \subseteq mask /\ mask' \subseteq Signals
      /\ pc' \in [Proc -> Labels] /\ pc'[app] \in AppLabels
      /\ pc'[master] \in {"wait", "handle"} /\ \A t \in Task : pc'[t] \in LabelsOf(t)
      /\ \A p \in Proc : p # master => pc'[p] = pc[p]
  BY <1>1, <1>2, DoneIs
<1>4. /\ UNCHANGED <<arg, keep, result, bind, queue, kept, sig>>
      /\ UNCHANGED <<arg, keep, result, bind, queue, root, port>>
      /\ UNCHANGED <<fdriver, mode, stopping, booted>>
  BY <1>2 DEF callVars, lockVars
<1>5. \A t \in Task : t \in SweptTasks <=> FreeableTask(SweptNode(t))
  BY DEF SweptTasks
<1>6. ASSUME NEW t \in Task
      PROVE  /\ Place(t)' /\ tn'[t] \in TaskNode
             /\ FreeableTask(SweptNode(t)) => Alive(tn[t]) /\ tn'[t].st = "freed" /\ LockSum(t)' = 0
             /\ ~ FreeableTask(SweptNode(t)) => tn'[t] = SweptNode(t) /\ tn'[t].st = tn[t].st
             /\ tn[t].st = "none" => tn'[t] = tn[t]
  <2>1. tn'[t] = IF FreeableTask(SweptNode(t)) THEN [SweptNode(t) EXCEPT !.st = "freed"] ELSE SweptNode(t)
    BY <1>2, <1>5, <1>6
  <2>2. t \in Driver => dn'[t] = SweptDriver(t)
    BY <1>2
  <2>3. /\ Place(t)' /\ tn'[t] \in TaskNode
        /\ FreeableTask(SweptNode(t)) => tn'[t].st = "freed" /\ LockSum(t)' = 0
        /\ ~ FreeableTask(SweptNode(t)) => tn'[t].st = tn[t].st
    BY <1>2, <1>3, <1>4, <1>6, <2>1, <2>2, SweptPlace
  <2>4. FreeableTask(SweptNode(t)) => Alive(tn[t])
    BY <1>2, <1>6, SweptTaskFacts
  <2>5. tn[t].st = "none" => SweptNode(t) = tn[t]
    BY <1>2, <1>6, SweptFacts
  <2> QED BY <2>1, <2>3, <2>4, <2>5 DEF Alive
<1>7. ASSUME NEW d \in Driver
      PROVE  /\ dn'[d] \in DriverNode /\ dn'[d].task = dn[d].task /\ dn'[d].ok = dn[d].ok
             /\ dn[d].st = "none" => dn'[d].st = "none"
             /\ InUse(d)' => InUse(d)
  <2>1. d \in Task /\ dn'[d] = SweptDriver(d)
    BY <1>1, <1>2, <1>7
  <2>2. /\ SweptDriver(d) \in DriverNode /\ SweptDriver(d).task = dn[d].task /\ SweptDriver(d).ok = dn[d].ok
        /\ SweptDriver(d).st = IF FreeableDriver(d) THEN "freed" ELSE dn[d].st
    BY <1>2, <1>7, <2>1, SweptFacts
  <2> QED BY <2>1, <2>2 DEF FreeableDriver, InUse
<1>8. tn' \in [Task -> TaskNode] /\ dn' \in [Driver -> DriverNode]
  BY <1>2, <1>6, <1>7
<1>9. CounterExact' /\ count' \in [Groups -> Nat]
  <2>1. SweptTasks \in SUBSET Task /\ \A t \in SweptTasks : Alive(tn[t])
    BY <1>5, <1>6 DEF SweptTasks
  <2>2. \A t \in Task : /\ Up(t)' <=> Up(t)
                        /\ Alive(tn'[t]) <=> (Alive(tn[t]) /\ t \notin SweptTasks)
    BY <1>1, <1>3, <1>5, <1>6 DEF Up, Alive
  <2> QED BY <1>1, <1>2, <2>1, <2>2, SweepCounts
<1>10. TypeOK'
  BY <1>1, <1>3, <1>4, <1>8, <1>9 DEF TypeOK
<1>11. MasterPlace'
  <2>1. kept' = kept /\ stopping' = stopping /\ pc'[app] = pc[app] /\ pc'[master] # "dead"
        /\ sig'[master] \cup mask' \subseteq sig[master] \cup mask \cup {"tick", "E"}
    BY <1>1, <1>3, <1>4
  <2> QED BY <1>1, <2>1, MasterKeepsIt
<1>12. ASSUME NEW t \in Task
       PROVE /\ tn[t].st = "none" => tn'[t] = tn[t]
             /\ tn[t].st # "none" => tn'[t].st # "none"
             /\ Alive(tn'[t]) => Alive(tn[t])
             /\ Stopping(t) /\ ~ keep[Stopper(t)] => Alive(tn'[t])
             /\ Stopping(t) /\ bind = Stopper(t) => Alive(tn'[t])
  <2>1. Stopper(t) \in Caller /\ Stopper(t) # none
    BY <1>1, <1>12, TaskFacts
  <2>2. Stopping(t) /\ ~ keep[Stopper(t)] => Alive(tn[t])
    <3>1. StopPlace(Stopper(t))
      BY <2>1 DEF TaskInvariant, Caller
    <3> QED BY <2>1, <3>1 DEF Stopping, StopPlace
  <2>3. Stopping(t) /\ ~ keep[Stopper(t)] => ~ FreeableTask(SweptNode(t))
    <3> SUFFICES ASSUME Stopping(t), ~ keep[Stopper(t)], FreeableTask(SweptNode(t)) PROVE FALSE
      OBVIOUS
    <3>1. LockSum(t)' = 0
      BY <1>6, <1>12
    <3>2. \A p \in Caller : "reply" \in sig'[p] => "reply" \in sig[p]
      BY <1>4
    <3>3. UNCHANGED <<arg, keep, result, bind, queue>>
      BY <1>4
    <3>4. Stopping(t)'
      BY <1>3, <1>12, <3>2, <3>3, SidesSame
    <3>5. ~ keep'[Stopper(t)]
      BY <1>4
    <3>6. One(Stopping(t) /\ ~ keep[Stopper(t)])' = 1
      BY <3>4, <3>5 DEF One
    <3>7. PICK rest \in Nat : rest = One(Starting(t))' + One(t # hcd /\ dn[t].task /\ InUse(t))'
                                     + One(Stopping(t) /\ bind = Stopper(t))'
                                     + One(t = hcd /\ pc[t] \notin {"none", "entry", "dead"})'
      BY DEF One
    <3>8. LockSum(t)' = rest + kept'[t] + 1
      <4>1. /\ One(Starting(t))' \in Nat /\ One(t # hcd /\ dn[t].task /\ InUse(t))' \in Nat
            /\ One(Stopping(t) /\ bind = Stopper(t))' \in Nat
            /\ One(t = hcd /\ pc[t] \notin {"none", "entry", "dead"})' \in Nat
        BY DEF One
      <4>2. kept'[t] \in Nat
        BY <1>10, <1>12 DEF TypeOK
      <4> QED BY <3>6, <3>7, <4>1, <4>2 DEF LockSum
    <3>9. kept'[t] \in Nat
      BY <1>10, <1>12 DEF TypeOK
    <3> QED BY <3>1, <3>8, <3>9
  <2> QED BY <1>2, <1>6, <1>12, <2>1, <2>2, <2>3 DEF Alive
<1>13. \A p \in Caller : "reply" \in sig'[p] => "reply" \in sig[p]
  BY <1>4
<1>14. /\ \A t \in Task : "C" \in sig'[t] <=> "C" \in sig[t]
       /\ "E" \in sig'[app] => "E" \in sig[app]
  BY <1>4
<1>15. \A d \in Driver : /\ dn[d].st = "none" => dn'[d].st = "none"
                         /\ InUse(d)' => InUse(d)
                         /\ Stopping(d) /\ bind = Stopper(d) => dn'[d].st = dn[d].st /\ dn'[d].task = dn[d].task
  BY <1>1, <1>2, <1>7, TaskFacts
<1>16. dn'[hub].ok = dn[hub].ok /\ \A t \in Task : Place(t)'
  BY <1>1, <1>6, <1>7
<1> QED BY <1>3, <1>4, <1>9, <1>10, <1>11, <1>12, <1>13, <1>14, <1>15, <1>16, ManyNodes


-----------------------------------------------------------------------------
(* The invariant holds of every behaviour *)

LEMMA InitKeeps == ASSUME Init PROVE TaskInvariant
<1>1. /\ \A p \in Proc : pc[p] = IF p = app THEN "startHCD" ELSE IF p = master THEN "wait" ELSE "none"
      /\ \A p \in Proc : arg[p] = none /\ keep[p] = FALSE /\ result[p] = FALSE /\ sig[p] = {}
      /\ \A t \in Task : tn[t] = NoNode /\ kept[t] = 0
      /\ \A d \in Driver : dn[d] = NoDriver
      /\ \A g \in Groups : count[g] = 0
      /\ queue = <<>> /\ mask = {} /\ mode \in {"task", "process"} /\ stopping = FALSE
      /\ bind = none /\ fdriver = none /\ port = none /\ root = "none" /\ booted = FALSE
  BY DEF Init
<1>2. /\ pc[app] = "startHCD" /\ pc[master] = "wait"
      /\ \A t \in Task : pc[t] = "none" /\ Starter(t) \in Caller /\ Stopper(t) \in Caller
      /\ Caller \subseteq Proc /\ none \notin Proc /\ Task \subseteq Proc /\ Driver \subseteq Task /\ none \notin Task
      /\ hub \in Driver /\ hcd \in Task /\ Class \subseteq Driver /\ app \in Proc
  BY <1>1, Names, Callers DEF Caller
<1>3. TypeOK
  <2>1. pc \in [Proc -> Labels]
    <3>1. {"startHCD", "wait", "none"} \subseteq Labels
      BY DEF Labels, AppLabels
    <3> QED BY <3>1 DEF Init
  <2>2. pc[app] \in AppLabels /\ pc[master] \in {"wait", "handle", "dead"} /\ \A t \in Task : pc[t] \in LabelsOf(t)
    BY <1>2 DEF AppLabels, LabelsOf
  <2>3. arg \in [Proc -> Task \cup {none}] /\ keep \in [Proc -> BOOLEAN] /\ result \in [Proc -> BOOLEAN]
    BY DEF Init
  <2>4. tn \in [Task -> TaskNode] /\ dn \in [Driver -> DriverNode] /\ kept \in [Task -> Nat]
    BY NoNodeIs, NoDriverIs DEF Init
  <2>5. queue \in Seq(Commands) /\ sig \in [Proc -> SUBSET Signals] /\ mask \subseteq Signals
    BY DEF Init
  <2>6. count \in [Groups -> Nat]
    BY DEF Init
  <2> QED BY <1>1, <2>1, <2>2, <2>3, <2>4, <2>5, <2>6 DEF TypeOK
<1>4. QueuePlace /\ \A p : ~ Queued(p)
  BY <1>1 DEF QueuePlace, Queued
<1>5. CounterExact
  <2>1. ASSUME NEW g \in Groups PROVE Nodes(g) = {} /\ Ups(g) = {}
    BY <1>1, <1>2, NoNodeIs DEF Nodes, Ups, Up, Alive
  <2>2. Cardinality({}) = 0
    BY FS_EmptySet
  <2>3. ASSUME NEW g \in Groups PROVE count[g] = Cardinality(Nodes(g)) + Cardinality(Ups(g))
    <3>1. Cardinality(Nodes(g)) = 0 /\ Cardinality(Ups(g)) = 0
      BY <2>1, <2>2, <2>3
    <3>2. count[g] = 0
      BY <1>1, <2>3
    <3> QED BY <3>1, <3>2
  <2> QED BY <2>3, CounterIs
<1>6. ASSUME NEW t \in Task PROVE ~ Starting(t) /\ ~ Stopping(t) /\ ~ Binding(t) /\ ~ Alive(tn[t]) /\ tn[t].st = "none"
  BY <1>1, <1>2, <1>6, NoNodeIs, Names DEF Starting, Stopping, Binding, Alive, Caller
<1>7. ASSUME NEW t \in Task PROVE NodePlace(t) /\ LockPlace(t)
  <2>1. <<Starter(t), "reply">> # NoParent
    BY <1>7, Parents
  <2>2. pc[t] = "none" /\ tn[t] = NoNode /\ tn[t].st = "none" /\ kept[t] = 0
    BY <1>1, <1>2, <1>6, <1>7
  <2>3. NodePlace(t)
    BY <2>1, <2>2, NoNodeIs DEF NodePlace, StatesAt, ToAnswer, Starts, Ends
  <2>4. LockPlace(t)
    BY <1>6, <1>7, <2>2 DEF LockPlace
  <2> QED BY <2>3, <2>4
<1>8. ASSUME NEW p \in Caller PROVE StartPlace(p) /\ StopPlace(p)
  <2>1. pc[p] \in {"startHCD", "none"} /\ bind # p
    BY <1>1, <1>2, <1>8, Names DEF Caller
  <2> QED BY <2>1 DEF StartPlace, StopPlace
<1>9. ASSUME NEW d \in Driver PROVE BinderPlace(d) /\ DriverPlace(d)
  <2>1. d \in Task /\ pc[d] = "none" /\ tn[d] = NoNode /\ tn[d].st = "none" /\ dn[d] = NoDriver /\ sig[d] = {}
    BY <1>1, <1>2, <1>6, <1>9
  <2>2. ~ Binding(d) /\ ~ Stopping(d)
    BY <1>6, <2>1
  <2>3. BinderPlace(d)
    BY <2>1, <2>2, NoDriverIs DEF BinderPlace
  <2>4. pc[d] \notin Locking(d) \cup Early \cup Late
    BY <2>1 DEF Locking, HUBMain, Binds, Early, Late
  <2>5. DriverPlace(d)
    BY <2>1, <2>2, <2>4, NoDriverIs DEF DriverPlace, One
  <2> QED BY <2>3, <2>5
<1>10. \A t \in Task : Over(t)
  BY <1>2, <1>6 DEF Over
<1>11. \A d \in Driver : ~ InUse(d) /\ dn[d].st = "none" /\ ~ dn[d].ok
  BY <1>1, NoDriverIs DEF InUse
<1>12. HUBPlace
  <2>1. pc[hub] = "none" /\ hub \in Driver /\ sig[app] = {} /\ Class \subseteq Task
    BY <1>1, <1>2
  <2> QED BY <1>2, <1>10, <1>11, <2>1 DEF HUBPlace, HUBMain, Binds
<1>13. HCDPlace
  <2>1. pc[hcd] = "none" /\ hub \in Task /\ sig[hcd] = {}
    BY <1>1, <1>2
  <2> QED BY <1>1, <1>2, <1>10, <1>11, <2>1 DEF HCDPlace
<1>14. AppPlace
  BY <1>1, <1>2, <1>11 DEF AppPlace, Binds
<1>15. MasterPlace
  <2>1. sig[master] = {}
    BY <1>1, Names
  <2> QED BY <1>1, <1>2, <2>1 DEF MasterPlace
<1> QED BY <1>3, <1>4, <1>5, <1>7, <1>8, <1>9, <1>12, <1>13, <1>14, <1>15 DEF TaskInvariant, Caller

LEMMA StutterKeeps == ASSUME TaskInvariant, UNCHANGED vars PROVE TaskInvariant'
<1>1. UNCHANGED <<pc, arg, keep, result, tn, dn, count, kept, mask, mode, stopping, bind, fdriver,
                  queue, sig, port, root, booted>>
  BY DEF vars, callVars, nodeVars, mastVars, lockVars
<1>2. UNCHANGED <<callVars, nodeVars, kept, bind, queue, root, port>>
  BY <1>1 DEF callVars, nodeVars
<1>3. TypeOK /\ MasterPlace
  BY DEF TaskInvariant
<1>4. TypeOK'
  BY <1>1, <1>3 DEF TypeOK
<1>5. MasterPlace'
  BY <1>1, <1>3 DEF MasterPlace
<1> QED BY <1>1, <1>2, <1>4, <1>5, MasterMoves DEF SignalsKept

\* One case for every action; those of a caller are the application's, the hub's or the HCD task's.
LEMMA NextKeeps == ASSUME ~ DriversEndEarly, TaskInvariant, Next PROVE TaskInvariant'
<1>1. ASSUME NEW p \in {app, hub}, CallerNext(p) PROVE TaskInvariant'
  BY <1>1, StartedKeeps, BindKeeps, LinkKeeps, ListKeeps, DroppedKeeps DEF CallerNext
<1>2. CASE AppNext
  BY <1>1, <1>2, StartHCDKeeps, DriverReadyKeeps, StoppedHCDKeeps, ExitKeeps, ShutdownMasterKeeps,
     MasterGoneKeeps DEF AppNext
<1>3. CASE MasterNext
  <2>1. "D" \in Signals /\ "tick" \in Signals
    BY DEF Signals
  <2> QED BY <1>3, <2>1, MasterWaitsKeeps, MasterExitsKeeps, HandleStopKeeps, SweepKeeps, PromoteKeeps,
             HandleEndedKeeps, NoCommandKeeps, StartTaskKeeps, StopTaskKeeps DEF MasterNext
<1>4. CASE HCDNext
  BY <1>4, Names, EntryKeeps, InitHCDKeeps, InitFailedKeeps, AnnounceKeeps, ForgetKeeps, StopHUBKeeps,
     StoppedDriverKeeps, HUBGoneKeeps, EndKeeps, FreeRootKeeps, RemoveRootKeeps, FreeMiscKeeps, FinishKeeps
     DEF HCDNext
<1>5. CASE HUBNext
  BY <1>1, <1>5, Names, EntryKeeps, AnnounceKeeps, ForgetKeeps, LockDriverKeeps, SetupHUBKeeps,
     StoppedDriverKeeps, StopDevicesKeeps, DevicesGoneKeeps, UnlockDriverKeeps,
     EndKeeps, FinishKeeps DEF HUBNext
<1>6. ASSUME NEW d \in Class, ClassNext(d) PROVE TaskInvariant'
  <2>1. d \in Task /\ d \in Driver
    BY <1>6, Names
  <2> QED BY <1>6, <2>1, EntryKeeps, AnnounceKeeps, ForgetKeeps, LockDriverKeeps, ClassEndsKeeps,
             UnlockDriverKeeps, EndKeeps, FinishKeeps DEF ClassNext
<1>7. CASE World
  BY <1>7, ExpungeKeeps, TickKeeps, FullbootKeeps, PortChangeKeeps, PlugKeeps, UnplugKeeps DEF World
<1> QED BY <1>2, <1>3, <1>4, <1>5, <1>6, <1>7 DEF Next

\* The invariant holds in every state that the stack's tasks reach, if no class driver ends before
\* its DriverNode is linked: its node would be freed with the DriverNode still to refer to it
\* (_Start_Function.c, Interface_Start.c).
THEOREM TaskInvariantAlways == ASSUME ~ DriversEndEarly PROVE Spec => []TaskInvariant
<1>1. Init => TaskInvariant
  BY InitKeeps
<1>2. TaskInvariant /\ [Next]_vars => TaskInvariant'
  BY NextKeeps, StutterKeeps
<1> QED BY <1>1, <1>2, PTL DEF Spec


-----------------------------------------------------------------------------
(* What refers to a TaskNode *)

\* Only the application, the hub's driver and the HCD task call the Master.
LEMMA CallersOnly ==
    ASSUME TaskInvariant, NEW p \in Proc, pc[p] \in {"awaitStart", "awaitStop"}
    PROVE  p \in Caller /\ StartPlace(p) /\ StopPlace(p)
<1>1. TypeOK /\ \A q \in Caller : StartPlace(q) /\ StopPlace(q)
  BY DEF TaskInvariant, Caller
<1>2. p # master
  BY <1>1 DEF TypeOK
<1>3. ASSUME NEW d \in Class PROVE p # d
  <2>1. d # hcd /\ d # hub /\ pc[d] \in LabelsOf(d)
    BY <1>1, Names DEF TypeOK
  <2>2. pc[d] \notin {"awaitStart", "awaitStop"}
    BY <2>1 DEF LabelsOf, Locking, Early
  <2> QED BY <2>2
<1>4. p \in Caller
  BY <1>2, <1>3 DEF Proc, Task, Driver, Caller
<1> QED BY <1>1, <1>4

LEMMA ReferencesAre ==
    ASSUME TaskInvariant, NEW t \in Task PROVE References(t) = LockSum(t)
<1>1. /\ TypeOK /\ Starter(t) \in Proc /\ Stopper(t) \in Proc /\ none \notin Proc /\ kept[t] \in Nat
  BY TaskFacts, Names DEF Caller
<1>2. Cardinality({p \in Proc : InCall(p, t) /\ pc[p] = "awaitStart"}) = One(Starting(t))
  <2>1. PICK S : S = {p \in Proc : InCall(p, t) /\ pc[p] = "awaitStart"}
    OBVIOUS
  <2>2. \A p \in S : p = Starter(t)
    BY <2>1, CallersOnly DEF StartPlace, InCall
  <2>3. CASE Starting(t)
    <3>1. S = {Starter(t)}
      BY <1>1, <2>1, <2>2, <2>3 DEF Starting, InCall
    <3> QED BY <2>1, <2>3, <3>1, FS_Singleton DEF One
  <2>4. CASE ~ Starting(t)
    <3>1. S = {}
      BY <2>1, <2>2, <2>4 DEF Starting, InCall
    <3> QED BY <2>1, <2>4, <3>1, FS_EmptySet DEF One
  <2> QED BY <2>3, <2>4
<1>3. Cardinality({p \in Proc : InCall(p, t) /\ pc[p] = "awaitStop" /\ ~ keep[p]})
          = One(Stopping(t) /\ ~ keep[Stopper(t)])
  <2>1. PICK S : S = {p \in Proc : InCall(p, t) /\ pc[p] = "awaitStop" /\ ~ keep[p]}
    OBVIOUS
  <2>2. \A p \in S : p = Stopper(t)
    BY <2>1, CallersOnly DEF StopPlace, InCall
  <2>3. CASE Stopping(t) /\ ~ keep[Stopper(t)]
    <3>1. S = {Stopper(t)}
      BY <1>1, <2>1, <2>2, <2>3 DEF Stopping, InCall
    <3> QED BY <2>1, <2>3, <3>1, FS_Singleton DEF One
  <2>4. CASE ~ (Stopping(t) /\ ~ keep[Stopper(t)])
    <3>1. S = {}
      BY <2>1, <2>2, <2>4 DEF Stopping, InCall
    <3> QED BY <2>1, <2>4, <3>1, FS_EmptySet DEF One
  <2> QED BY <2>3, <2>4
<1>4. (bind # none /\ InCall(bind, t) /\ pc[bind] = "awaitStop") <=> (Stopping(t) /\ bind = Stopper(t))
  <2>1. bind # none /\ InCall(bind, t) /\ pc[bind] = "awaitStop" => bind = Stopper(t)
    BY <1>1, CallersOnly DEF TypeOK, StopPlace, InCall
  <2> QED BY <1>1, <2>1 DEF Stopping, InCall
<1>5. One(bind # none /\ InCall(bind, t) /\ pc[bind] = "awaitStop") = One(Stopping(t) /\ bind = Stopper(t))
  BY <1>4 DEF One
<1> QED BY <1>2, <1>3, <1>5 DEF References, LockSum

LEMMA NodesAreKept == ASSUME TaskInvariant PROVE NodesKept
<1>1. ASSUME NEW t \in Task
      PROVE  /\ Alive(tn[t]) => tn[t].locks = References(t)
             /\ tn[t].st = "freed" => References(t) = 0
  BY <1>1, ReferencesAre, TaskFacts DEF LockPlace
<1> QED BY <1>1 DEF NodesKept, LocksExact, NodeOutlivesUse, TaskInvariant

LEMMA OwnersAreLast == ASSUME TaskInvariant PROVE OwnersLast
<1>1. TypeOK /\ QueuePlace /\ CounterExact /\ HUBPlace /\ HCDPlace /\ AppPlace /\ MasterPlace
  BY DEF TaskInvariant
<1>2. OwnerLast
  BY <1>1 DEF OwnerLast, HUBPlace, HUBMain, Binds, HCDPlace, AppPlace
<1>3. ASSUME pc[master] = "dead"
      PROVE  /\ queue = <<>> /\ \A t \in Task : Over(t) /\ kept[t] = 0
             /\ root # "used" /\ \A d \in Driver : ~ InUse(d)
  <2>1. pc[app] \in {"waitMaster", "gone"} /\ \A t \in Task : kept[t] = 0
    BY <1>1, <1>3 DEF MasterPlace
  <2>2. Over(hcd) /\ pc[hcd] \in {"none", "dead"}
    BY <1>1, <2>1 DEF AppPlace, Over
  <2>3. Over(hub) /\ ~ InUse(hub) /\ root # "used" /\ pc[hub] \in {"none", "dead"}
    BY <1>1, <2>2 DEF HCDPlace, Over
  <2>4. \A d \in Class : Over(d) /\ ~ InUse(d)
    BY <1>1, <2>3 DEF HUBPlace, HUBMain, Binds
  <2>5. queue = <<>>
    <3>1. queue \in Seq(Commands)
      BY <1>1 DEF TypeOK
    <3>2. ASSUME NEW i \in DOMAIN queue PROVE FALSE
      <4>1. PICK m \in Commands : m = queue[i]
        BY <3>1, <3>2
      <4>2. Message(m) /\ m.by \in {app, hub, hcd}
        BY <1>1, <3>2, <4>1 DEF QueuePlace, Commands
      <4>3. pc[m.by] \in {"awaitStart", "awaitStop"}
        BY <4>2 DEF Message
      <4> QED BY <2>1, <2>2, <2>3, <4>2, <4>3
    <3>3. Len(queue) \in Nat /\ DOMAIN queue = 1 .. Len(queue)
      BY <3>1
    <3>4. Len(queue) = 0
      BY <3>2, <3>3
    <3> QED BY <3>1, <3>4
  <2> QED BY <2>1, <2>2, <2>3, <2>4, <2>5, Names
<1> QED BY <1>1, <1>2, <1>3 DEF OwnersLast, MasterLast

\* A TaskNode is locked exactly as often as a message, a DriverNode or the controller refers to it,
\* and nothing refers to one that the sweep has freed (Task/Lock.c, Unlock.c, Master__Free_TNs.c).
THEOREM NodesKeptAlways == ASSUME ~ DriversEndEarly PROVE Spec => []NodesKept
BY TaskInvariantAlways, NodesAreKept, PTL

\* The counters are exact that an owner waits for, no owner ends before those it counts, and the
\* Master ends with nothing left (Misc/ASync_Sub.c, Master_Task_Main.c).
THEOREM OwnersLastAlways == ASSUME ~ DriversEndEarly PROVE Spec => []OwnersLast
BY TaskInvariantAlways, OwnersAreLast, PTL

=============================================================================
