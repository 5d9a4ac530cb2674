------------------------------ MODULE Hub_proofs ------------------------------
(***************************************************************************)
(* HubInvariant of Hub is inductive, so ChangesSeen and OneDevice hold for    *)
(* any number of hubs, ports, devices and failed requests, also while a port  *)
(* changes under the hands of the driver that handles its last change.        *)
(*                                                                         *)
(* A step of a hub's driver leaves the other drivers alone, and all ports but *)
(* the one it handles (OtherDrivers, OtherPorts): what the invariant says of  *)
(* those is carried over by the frame lemmas, and each action has to show     *)
(* only what it makes of its own driver and port.                             *)
(***************************************************************************)
EXTENDS Hub, WellFoundedInduction, TLAPS

-----------------------------------------------------------------------------
(* Operators *)

\* The least of a set of numbers is one of them.
LEMMA MinIn ==
    ASSUME NEW S, S \subseteq Nat, S # {} PROVE Min(S) \in S
<1>1. PICK x \in S : \A y \in S : <<y, x>> \notin OpToRel(<, Nat)
  BY WFMin, NatLessThanWellFounded, Zenon
<1>2. ASSUME NEW y \in S PROVE x <= y
  <2>1. x \in Nat /\ y \in Nat
    BY <1>2
  <2>2. ~ (y < x)
    <3>1. SUFFICES ASSUME y < x PROVE <<y, x>> \in OpToRel(<, Nat)
      BY <1>1, <1>2, Zenon
    <3> QED BY <2>1, <3>1, Zenon DEF OpToRel
  <2> HIDE <1>1, <1>2
  <2>3. y \in Nat /\ x \in Nat /\ ~ (y < x) => x <= y
    OBVIOUS
  <2> QED BY <2>1, <2>2, <2>3
<1>3. \E z \in S : \A y \in S : z <= y
  BY <1>2, Zenon
<1> QED BY <1>3, Zenon DEF Min

\* Functions, and the results of the interrupt request, as records.
LEMMA FnFields ==
    ASSUME NEW f \in Fn
    PROVE  f.dev \in Nat /\ f.dev \in 0 .. MaxPlugs /\ f.adr \in Int /\ f.adr \in 0 .. MaxAdr \cup {NoAdr}
BY HubAssumption DEF Fn, NoAdr

LEMMA NoFnIs == NoFn \in Fn /\ NoFn.dev = 0 /\ NoFn.adr = NoAdr
BY HubAssumption DEF Fn, NoFn, NoAdr

LEMMA FnWithAdr ==
    ASSUME NEW f \in Fn, NEW a \in 0 .. MaxAdr
    PROVE  LET g == [f EXCEPT !.adr = a] IN g \in Fn /\ g.adr = a /\ g.dev = f.dev
BY HubAssumption DEF Fn, NoAdr

LEMMA FnWithDev ==
    ASSUME NEW f \in Fn, NEW d \in 0 .. MaxPlugs
    PROVE  LET g == [f EXCEPT !.dev = d] IN g \in Fn /\ g.dev = d /\ g.adr = f.adr
BY HubAssumption DEF Fn, NoAdr

LEMMA ResultsAre ==
    /\ Nothing \in Result /\ Nothing.ports = {}
    /\ \A S \in SUBSET Port : Bits(S) \in Result /\ Bits(S).ports = S
    /\ \A e \in {"error", "detached"} : Error(e) \in Result /\ Error(e).ports = {}
    /\ \A d \in Result : d.ports \subseteq Port
BY DEF Nothing, Bits, Error, Result

LEMMA PortsAre == \A h \in Hub : Ports(h) \subseteq Port /\ \A p \in Port : p \in Ports(h) <=> HubOf[p] = h
BY DEF Ports

-----------------------------------------------------------------------------
(* What a step of one driver leaves alone *)

SameDriver(h) ==
    /\ pc'[h] = pc[h] /\ at'[h] = at[h] /\ seen'[h] = seen[h] /\ retry'[h] = retry[h]
    /\ new'[h] = new[h] /\ todo'[h] = todo[h] /\ data'[h] = data[h] /\ req'[h] = req[h]
    /\ errors'[h] = errors[h] /\ (h \in running' <=> h \in running)

SamePort(p) ==
    /\ dev'[p] = dev[p] /\ fn'[p] = fn[p] /\ chg'[p] = chg[p] /\ missed'[p] = missed[p]
    /\ (p \in enabled' <=> p \in enabled)

\* The actions of the loop, and those that handle a port.
Looping(h) ==
    \/ Start(h) \/ Interrupt(h) \/ NextPort(h) \/ PortStatus(h) \/ BusReply(h)
    \/ FreeFNs(h) \/ Free(h) \/ AbortRequest(h) \/ End(h)
Adding(h) ==
    \/ ClearConnection(h) \/ Remove(h) \/ Add(h) \/ Reset(h) \/ ClearReset(h)
    \/ Obtain(h) \/ SetAddr(h) \/ InitFunction(h) \/ Again(h)

LEMMA OtherDrivers ==
    ASSUME TypeOK, NEW h \in Hub, Looping(h) \/ Adding(h)
    PROVE  \A g \in Hub \ {h} : SameDriver(g)
<1>1. CASE Start(h)
  BY <1>1 DEF TypeOK, SameDriver, Start, Scheduled, GoTo, addVars
<1>2. CASE Interrupt(h)
  BY <1>2 DEF TypeOK, SameDriver, Interrupt, GoTo, addVars
<1>3. CASE NextPort(h)
  BY <1>3 DEF TypeOK, SameDriver, NextPort, Scheduled, GoTo
<1>4. CASE End(h)
  BY <1>4 DEF TypeOK, SameDriver, End, GoTo, addVars, reqVars, loopVars
<1>5. CASE PortStatus(h)
  BY <1>5 DEF TypeOK, SameDriver, PortStatus, GoTo, reqVars, loopVars
<1>6. CASE BusReply(h)
  BY <1>6 DEF TypeOK, SameDriver, BusReply, Reply, addVars, loopVars
<1>7. CASE FreeFNs(h)
  BY <1>7 DEF TypeOK, SameDriver, FreeFNs, addVars, reqVars, loopVars
<1>8. CASE ClearConnection(h)
  BY <1>8 DEF TypeOK, SameDriver, ClearConnection, GoTo, addVars, reqVars, loopVars
<1>9. CASE Remove(h)
  BY <1>9 DEF TypeOK, SameDriver, Remove, GoTo, addVars, reqVars, loopVars
<1>10. CASE Add(h)
  BY <1>10 DEF TypeOK, SameDriver, Add, GoTo, reqVars, loopVars
<1>11. CASE Reset(h)
  BY <1>11 DEF TypeOK, SameDriver, Reset, GoTo, addVars, loopVars
<1>12. CASE ClearReset(h)
  BY <1>12 DEF TypeOK, SameDriver, ClearReset, GoTo, addVars, reqVars, loopVars
<1>13. CASE Obtain(h)
  BY <1>13 DEF TypeOK, SameDriver, Obtain, GoTo, reqVars, loopVars
<1>14. CASE SetAddr(h)
  BY <1>14 DEF TypeOK, SameDriver, SetAddr, Drop, GoTo, reqVars, loopVars
<1>15. CASE InitFunction(h)
  BY <1>15 DEF TypeOK, SameDriver, InitFunction, Drop, Bind, GoTo, reqVars, loopVars
<1>16. CASE Again(h)
  BY <1>16 DEF TypeOK, SameDriver, Again, GoTo, reqVars, loopVars
<1>17. CASE Free(h)
  BY <1>17 DEF TypeOK, SameDriver, Free, GoTo, addVars, reqVars, loopVars
<1>18. CASE AbortRequest(h)
  BY <1>18 DEF TypeOK, SameDriver, AbortRequest, Reply, addVars, loopVars
<1> QED BY <1>1, <1>2, <1>3, <1>4, <1>5, <1>6, <1>7, <1>8, <1>9, <1>10, <1>11, <1>12,
           <1>13, <1>14, <1>15, <1>16, <1>17, <1>18 DEF Looping, Adding

LEMMA AllPorts ==
    ASSUME NEW h \in Hub, Looping(h), ~ FreeFNs(h)
    PROVE  \A p \in Port : SamePort(p)
<1>1. CASE Start(h)
  BY <1>1 DEF SamePort, Start, fnVars
<1>2. CASE Interrupt(h)
  BY <1>2 DEF SamePort, Interrupt, busVars, fnVars
<1>3. CASE NextPort(h)
  BY <1>3 DEF SamePort, NextPort, busVars, fnVars
<1>4. CASE End(h)
  BY <1>4 DEF SamePort, End, busVars, fnVars
<1>5. CASE PortStatus(h)
  BY <1>5 DEF SamePort, PortStatus, busVars, fnVars
<1>6. CASE BusReply(h)
  BY <1>6 DEF SamePort, BusReply, Reply, busVars, fnVars
<1>7. CASE Free(h)
  BY <1>7 DEF SamePort, Free, busVars, fnVars
<1>8. CASE AbortRequest(h)
  BY <1>8 DEF SamePort, AbortRequest, Reply, busVars, fnVars
<1> QED BY <1>1, <1>2, <1>3, <1>4, <1>5, <1>6, <1>7, <1>8 DEF Looping

LEMMA OtherPorts ==
    ASSUME TypeOK, NEW h \in Hub, Adding(h), at[h] \in Port
    PROVE  \A p \in Port \ {at[h]} : SamePort(p)
<1>1. CASE ClearConnection(h)
  BY <1>1 DEF TypeOK, SamePort, ClearConnection, Give, Keep, fnVars
<1>2. CASE Remove(h)
  BY <1>2 DEF TypeOK, SamePort, Remove, Removed, busVars
<1>3. CASE Add(h)
  BY <1>3 DEF TypeOK, SamePort, Add, Give, Keep, fnVars
<1>4. CASE Reset(h)
  BY <1>4 DEF TypeOK, SamePort, Reset, Raise, fnVars
<1>5. CASE ClearReset(h)
  BY <1>5 DEF TypeOK, SamePort, ClearReset, fnVars
<1>6. CASE Obtain(h)
  BY <1>6 DEF SamePort, Obtain, busVars, fnVars
<1>7. CASE SetAddr(h)
  BY <1>7 DEF SamePort, SetAddr, fnVars
<1>8. CASE InitFunction(h)
  BY <1>8 DEF TypeOK, SamePort, InitFunction, Drop, Bind, busVars
<1>9. CASE Again(h)
  BY <1>9 DEF TypeOK, SamePort, Again, Give, Keep, busVars, fnVars
<1> QED BY <1>1, <1>2, <1>3, <1>4, <1>5, <1>6, <1>7, <1>8, <1>9 DEF Adding

\* What only grows, and what only shrinks.
LEMMA HubKeeps ==
    ASSUME TypeOK, NEW h \in Hub, Looping(h) \/ Adding(h)
    PROVE  /\ plugs' = plugs /\ gone' = gone /\ (mixed => mixed') /\ (sig => sig')
           /\ powered \subseteq powered' /\ powered' \subseteq powered \cup Ports(h)
           /\ running' \subseteq running /\ known' \subseteq known \cup {h}
           /\ Start(h) \/ (powered' = powered /\ known' = known)
<1>1. CASE Start(h)
  BY <1>1 DEF Start
<1>2. CASE Interrupt(h)
  BY <1>2 DEF Interrupt, busVars
<1>3. CASE NextPort(h)
  BY <1>3 DEF NextPort, busVars
<1>4. CASE End(h)
  BY <1>4 DEF End, busVars, reqVars, loopVars
<1>5. CASE PortStatus(h)
  BY <1>5 DEF PortStatus, busVars, reqVars, loopVars
<1>6. CASE BusReply(h)
  BY <1>6 DEF BusReply, Reply, busVars, loopVars
<1>7. CASE FreeFNs(h)
  BY <1>7 DEF FreeFNs, busVars, reqVars, loopVars
<1>8. CASE ClearConnection(h)
  BY <1>8 DEF ClearConnection, reqVars, loopVars
<1>9. CASE Remove(h)
  BY <1>9 DEF Remove, busVars, reqVars, loopVars
<1>10. CASE Add(h)
  BY <1>10 DEF Add, reqVars, loopVars
<1>11. CASE Reset(h)
  <2>1. sig => sig'
    BY <1>11, Zenon DEF Reset, Raise
  <2>2. UNCHANGED <<plugs, gone, mixed, powered, loopVars>>
    BY <1>11 DEF Reset
  <2> QED BY <2>1, <2>2 DEF loopVars
<1>12. CASE ClearReset(h)
  BY <1>12 DEF ClearReset, reqVars, loopVars
<1>13. CASE Obtain(h)
  BY <1>13 DEF Obtain, busVars, reqVars, loopVars
<1>14. CASE SetAddr(h)
  BY <1>14 DEF SetAddr, reqVars, loopVars
<1>15. CASE InitFunction(h)
  BY <1>15 DEF InitFunction, busVars, reqVars, loopVars
<1>16. CASE Again(h)
  BY <1>16 DEF Again, busVars, reqVars, loopVars
<1>17. CASE Free(h)
  BY <1>17 DEF Free, busVars, reqVars, loopVars
<1>18. CASE AbortRequest(h)
  BY <1>18 DEF AbortRequest, Reply, busVars, loopVars
<1> QED BY <1>1, <1>2, <1>3, <1>4, <1>5, <1>6, <1>7, <1>8, <1>9, <1>10, <1>11, <1>12,
           <1>13, <1>14, <1>15, <1>16, <1>17, <1>18 DEF Looping, Adding

-----------------------------------------------------------------------------
(* Frames *)

LEMMA DriverFrame ==
    ASSUME NEW h \in Hub, DriverPlace(h), SameDriver(h), Ports(h) \cap powered' = Ports(h) \cap powered,
           plugs \in Int, plugs' \in Int, plugs <= plugs', new[h].dev \in Int
    PROVE  DriverPlace(h)'
BY DEF DriverPlace, SameDriver

LEMMA HandledFrame ==
    ASSUME NEW h \in Hub, HandledPlace(h), SameDriver(h), pc[h] \in Handling => SamePort(at[h]),
           mixed => mixed', mixed' \/ adr'[at[h]] = adr[at[h]] \/ pc[h] \notin Handling,
           h \in gone' <=> h \in gone
    PROVE  HandledPlace(h)'
<1>1. CASE mixed'
  BY <1>1 DEF HandledPlace, SameDriver, SamePort, Missed
<1>2. CASE ~ mixed'
  BY <1>2 DEF HandledPlace, SameDriver, SamePort, Missed
<1> QED BY <1>1, <1>2

LEMMA PortFrame ==
    ASSUME NEW p \in Port, PortPlace(p), SamePort(p), powered \subseteq powered',
           plugs \in Int, plugs' \in Int, plugs <= plugs', dev[p] \in Int, fn[p].dev \in Int,
           HubOf[p] \in gone' <=> HubOf[p] \in gone
    PROVE  PortPlace(p)'
BY DEF PortPlace, SamePort

LEMMA FunctionFrame ==
    ASSUME NEW p \in Port, FunctionPlace(p), SamePort(p), mixed => mixed',
           mixed' \/ adr'[p] = adr[p], p \in Cleared => p \in Cleared', running' \subseteq running
    PROVE  FunctionPlace(p)'
<1>1. CASE mixed'
  BY <1>1 DEF FunctionPlace
<1>2. CASE ~ mixed'
  BY <1>2 DEF FunctionPlace, SamePort, Missed, Unserved
<1> QED BY <1>1, <1>2

LEMMA AgreesFrame ==
    ASSUME NEW p \in Port, PortAgrees(p), SamePort(p), mixed => mixed',
           p \in Handled => p \in Handled', Serves(HubOf[p])' => Serves(HubOf[p])
    PROVE  PortAgrees(p)'
<1>1. CASE mixed'
  BY <1>1 DEF PortAgrees
<1>2. CASE ~ mixed'
  BY <1>2 DEF PortAgrees, SamePort, Missed
<1> QED BY <1>1, <1>2

LEMMA AddressFrame ==
    ASSUME AddressPlace, UNCHANGED <<fn, old, new>> PROVE AddressPlace'
BY DEF AddressPlace

\* What a port that is handled may not lose in a step that has nothing to do with it.
Stays(p) == (p \in Handled => p \in Handled') /\ (p \in Cleared => p \in Cleared')

LEMMA HandledStays ==
    ASSUME NEW p \in Port, SameDriver(HubOf[p]) PROVE Stays(p)
BY DEF Handled, Cleared, SameDriver, Stays

\* The types that the frames ask for.
LEMMA Types ==
    ASSUME TypeOK
    PROVE  /\ plugs \in Int /\ \A h \in Hub : new[h] \in Fn /\ new[h].dev \in Int
           /\ \A p \in Port : dev[p] \in Int /\ fn[p] \in Fn /\ fn[p].dev \in Int
<1>1. /\ plugs \in 0 .. MaxPlugs /\ new \in [Hub -> Fn] /\ fn \in [Port -> Fn]
      /\ dev \in [Port -> 0 .. MaxPlugs]
  BY DEF TypeOK
<1>2. plugs \in Int /\ \A p \in Port : dev[p] \in Int
  BY <1>1
<1> QED BY <1>1, <1>2, FnFields

\* What a step of a driver has to show: the invariant of its own state, and that of the ports T,
\* which are its own, that the step does something to.
LEMMA LocalStep ==
    ASSUME HubInvariant, NEW h \in Hub, Looping(h) \/ Adding(h),
           NEW T \in SUBSET Ports(h), Start(h) => T = Ports(h),
           \A q \in Port \ T : SamePort(q) /\ (mixed' \/ adr'[q] = adr[q]),
           \A q \in Ports(h) \ T : Stays(q),
           TypeOK', AddressPlace', NoLostChange', DriverPlace(h)', HandledPlace(h)',
           \A p \in T : PortPlace(p)' /\ FunctionPlace(p)' /\ PortAgrees(p)'
    PROVE  HubInvariant'
<1>1. \A g \in Hub \ {h} : SameDriver(g)
  BY OtherDrivers DEF HubInvariant
<1>2. /\ plugs' = plugs /\ gone' = gone /\ powered \subseteq powered' /\ powered' \subseteq powered \cup Ports(h)
      /\ (mixed => mixed') /\ running' \subseteq running
      /\ known' \subseteq known \cup {h} /\ (Start(h) \/ known' = known)
  BY HubKeeps DEF HubInvariant
<1>3. ASSUME NEW g \in Hub \ {h} PROVE DriverPlace(g)' /\ HandledPlace(g)'
  <2>1. DriverPlace(g) /\ HandledPlace(g) /\ SameDriver(g) /\ plugs \in Int /\ new[g].dev \in Int
    BY <1>1, Types DEF HubInvariant
  <2>2. pc[g] \in Handling => at[g] \in Port \ T
    BY <2>1, HubAssumption DEF DriverPlace, Ports
  <2>3. DriverPlace(g)'
    <3>1. Ports(g) \cap powered' = Ports(g) \cap powered
      BY <1>2 DEF Ports
    <3> QED BY <1>2, <2>1, <3>1, DriverFrame
  <2>4. HandledPlace(g)'
    BY <1>2, <2>1, <2>2, HandledFrame
  <2> QED BY <2>3, <2>4
<1>4. ASSUME NEW q \in Port \ T PROVE PortPlace(q)' /\ FunctionPlace(q)' /\ PortAgrees(q)'
  <2>1. /\ PortPlace(q) /\ FunctionPlace(q) /\ PortAgrees(q) /\ SamePort(q)
        /\ plugs \in Int /\ dev[q] \in Int /\ fn[q].dev \in Int
    BY Types DEF HubInvariant
  <2>2. Stays(q)
    <3>1. CASE HubOf[q] = h
      BY <3>1 DEF Ports
    <3>2. CASE HubOf[q] # h
      BY <1>1, <3>2, HandledStays, HubAssumption
    <3> QED BY <3>1, <3>2
  <2>3. Serves(HubOf[q])' => Serves(HubOf[q])
    <3>1. ~ Start(h) \/ HubOf[q] # h
      BY DEF Ports
    <3> QED BY <1>2, <3>1 DEF Serves
  <2>4. PortPlace(q)'
    BY <1>2, <2>1, PortFrame
  <2>5. FunctionPlace(q)'
    BY <1>2, <2>1, <2>2, FunctionFrame DEF Stays
  <2>6. PortAgrees(q)'
    BY <1>2, <2>1, <2>2, <2>3, AgreesFrame DEF Stays
  <2> QED BY <2>4, <2>5, <2>6
<1> QED BY <1>3, <1>4 DEF HubInvariant

\* When it handles a port, ...
LEMMA AddingStep ==
    ASSUME HubInvariant, NEW h \in Hub, Adding(h), NEW p \in Port, at[h] = p, HubOf[p] = h,
           \A q \in Port \ {p} : mixed' \/ adr'[q] = adr[q],
           TypeOK', AddressPlace', NoLostChange', DriverPlace(h)', HandledPlace(h)',
           PortPlace(p)', FunctionPlace(p)', PortAgrees(p)'
    PROVE  HubInvariant'
<1>1. \A q \in Port \ {p} : SamePort(q)
  BY OtherPorts DEF HubInvariant
<1>2. ~ Start(h)
  BY DEF Start, Adding, ClearConnection, Remove, Add, Reset, ClearReset, Obtain, SetAddr, InitFunction, Again
<1>3. \A q \in Ports(h) \ {p} : Stays(q)
  BY DEF Ports, Handled, Cleared, Stays
<1>4. {p} \in SUBSET Ports(h)
  BY DEF Ports
<1> QED BY <1>1, <1>2, <1>3, <1>4, LocalStep

\* ... and when it does not.
LEMMA LoopingStep ==
    ASSUME HubInvariant, NEW h \in Hub, Looping(h), ~ Start(h), ~ FreeFNs(h), adr' = adr,
           pc[h] \notin Handling \/ UNCHANGED <<pc, at>>,
           TypeOK', AddressPlace', NoLostChange', DriverPlace(h)', HandledPlace(h)'
    PROVE  HubInvariant'
<1>1. \A q \in Port : SamePort(q)
  BY AllPorts
<1>2. \A q \in Ports(h) : Stays(q)
  BY DEF Ports, Handled, Cleared, Stays
<1> DEFINE T == {}
<1>3. /\ T \in SUBSET Ports(h) /\ \A q \in Port \ T : SamePort(q) /\ (mixed' \/ adr'[q] = adr[q])
      /\ \A q \in Ports(h) \ T : Stays(q)
      /\ \A q \in T : PortPlace(q)' /\ FunctionPlace(q)' /\ PortAgrees(q)'
  BY <1>1, <1>2
<1> HIDE DEF T
<1> QED BY <1>3, LocalStep

-----------------------------------------------------------------------------
(* The types of what the actions assign *)

LEMMA GoToType ==
    ASSUME TypeOK, NEW h \in Hub, NEW l \in Labels, GoTo(h, l)
    PROVE  pc' \in [Hub -> Labels] /\ pc'[h] = l
BY DEF TypeOK, GoTo

LEMMA LabelsAre ==
    /\ {"start", "wait", "next", "status", "free", "ended"} \subseteq Labels /\ Handling \subseteq Labels
    /\ Handling = {"clear", "remove", "add", "reset", "clearReset", "obtain", "setAddr", "init", "again"}
    /\ Trying = {"reset", "clearReset", "obtain", "setAddr", "init", "again"}
BY DEF Labels, Handling, Trying

LEMMA FaultType ==
    ASSUME TypeOK PROVE Fault \/ NoFault => faults' \in 0 .. MaxFaults
<1>1. faults \in 0 .. MaxFaults
  BY DEF TypeOK
<1>2. MaxFaults \in Nat
  BY HubAssumption
<1> QED BY <1>1, <1>2 DEF Fault, NoFault

LEMMA AnswerType ==
    ASSUME TypeOK, NEW h PROVE Answers(h) \/ Fails(h) => faults' \in 0 .. MaxFaults
BY FaultType DEF Answers, Fails

-----------------------------------------------------------------------------
(* The loop *)

LEMMA InterruptStep ==
    ASSUME HubInvariant, NEW h \in Hub, Interrupt(h) PROVE HubInvariant'
<1>1. /\ TypeOK /\ DriverPlace(h) /\ pc[h] = "wait" /\ req[h] = "replied" /\ GoTo(h, "next")
      /\ UNCHANGED <<busVars, addVars, fnVars, sig, known, faults, missed>>
  BY DEF HubInvariant, Interrupt
<1>2. pc' \in [Hub -> Labels] /\ pc'[h] = "next"
  BY <1>1, GoToType, LabelsAre
<1>3. /\ req' \in [Hub -> {"idle", "sent", "listed", "replied"}] /\ req'[h] = "idle"
      /\ \A g \in Hub \ {h} : req'[g] = req[g]
  BY <1>1 DEF TypeOK, Interrupt
<1>4. data' \in [Hub -> Result] /\ data'[h] = Nothing
  BY <1>1, ResultsAre DEF TypeOK, Interrupt
<1>5. /\ errors \in [Hub -> 0 .. MaxErrors + 1] /\ errors[h] <= MaxErrors /\ running \subseteq Hub
      /\ todo \in [Hub -> SUBSET Port] /\ data[h].ports \subseteq Port
  <2>1. /\ errors \in [Hub -> 0 .. MaxErrors + 1] /\ running \subseteq Hub
        /\ todo \in [Hub -> SUBSET Port] /\ data[h] \in Result
    BY <1>1 DEF TypeOK
  <2>2. ~ (errors[h] > MaxErrors)
    BY <1>1 DEF DriverPlace
  <2>3. errors[h] <= MaxErrors
    BY <2>1, <2>2, HubAssumption
  <2> QED BY <2>1, <2>3, ResultsAre
<1>6. /\ errors' \in [Hub -> 0 .. MaxErrors + 1] /\ running' \subseteq Hub
      /\ errors'[h] > MaxErrors => h \notin running'
  BY <1>5, HubAssumption DEF Interrupt, TooMany
<1>7. /\ todo' \in [Hub -> SUBSET Port]
      /\ todo'[h] \subseteq Ports(h) \cap powered
  BY <1>1, <1>5 DEF Interrupt, DriverPlace
<1>8. TypeOK'
  BY <1>1, <1>2, <1>3, <1>4, <1>6, <1>7 DEF TypeOK, busVars, addVars, fnVars
<1>9. NoLostChange'
  BY <1>1, <1>3, HubAssumption DEF HubInvariant, NoLostChange, Changed, busVars
<1>10. DriverPlace(h)'
  BY <1>1, <1>2, <1>3, <1>4, <1>6, <1>7, ResultsAre, LabelsAre DEF DriverPlace, busVars, addVars
<1>11. HandledPlace(h)'
  BY <1>2, LabelsAre DEF HandledPlace
<1>12. AddressPlace' /\ adr' = adr
  BY <1>1, AddressFrame DEF HubInvariant, busVars, addVars, fnVars
<1>13. pc[h] \notin Handling /\ ~ Start(h) /\ ~ FreeFNs(h) /\ Looping(h)
  BY <1>1, <1>3, LabelsAre DEF Start, FreeFNs, Looping, reqVars
<1> QED BY <1>8, <1>9, <1>10, <1>11, <1>12, <1>13, LoopingStep

LEMMA NextPortStep ==
    ASSUME HubInvariant, NEW h \in Hub, NextPort(h) PROVE HubInvariant'
<1>1. /\ TypeOK /\ DriverPlace(h) /\ pc[h] = "next"
      /\ UNCHANGED <<busVars, tries, new, fnVars, data, sig, known, running, errors, faults, missed>>
      /\ seen' = [seen EXCEPT ![h] = 0] /\ retry' = [retry EXCEPT ![h] = 0]
      /\ stage' = [stage EXCEPT ![h] = 1]
  BY DEF HubInvariant, NextPort
<1>2. /\ seen' \in [Hub -> 0 .. MaxPlugs] /\ retry' \in [Hub -> 0 .. Retries]
      /\ stage' \in [Hub -> 1 .. Len(Gets)]
  BY <1>1, HubAssumption DEF TypeOK, Gets
<1>3. /\ todo[h] # {} => Min(todo[h]) \in todo[h]
      /\ todo \in [Hub -> SUBSET Port] /\ pc \in [Hub -> Labels] /\ at \in [Hub -> Port \cup {0}]
      /\ req \in [Hub -> {"idle", "sent", "listed", "replied"}]
  BY <1>1, MinIn, HubAssumption DEF TypeOK
<1>4. AddressPlace' /\ adr' = adr
  BY <1>1, AddressFrame DEF HubInvariant, busVars, fnVars
<1>5. pc[h] \notin Handling /\ ~ Start(h) /\ ~ FreeFNs(h) /\ Looping(h)
  BY <1>1, LabelsAre DEF Start, FreeFNs, Looping
<1>6. CASE todo[h] # {}
  <2>1. /\ at' = [at EXCEPT ![h] = Min(todo[h])] /\ todo' = [todo EXCEPT ![h] = @ \ {Min(@)}]
        /\ GoTo(h, "status") /\ req' = req
    BY <1>6 DEF NextPort
  <2>2. at' \in [Hub -> Port \cup {0}] /\ todo' \in [Hub -> SUBSET Port]
    BY <1>3, <1>6, <2>1
  <2>3. pc'[h] = "status" /\ at'[h] \in todo[h] /\ todo'[h] \subseteq todo[h]
    BY <1>3, <1>6, <2>1 DEF GoTo
  <2>4. pc' \in [Hub -> Labels]
    BY <1>1, <2>1, GoToType, LabelsAre
  <2>5. TypeOK'
    BY <1>1, <1>2, <2>1, <2>2, <2>4 DEF TypeOK, busVars, fnVars
  <2>6. NoLostChange'
    BY <1>1, <2>1 DEF HubInvariant, NoLostChange, Changed, busVars
  <2>7. DriverPlace(h)'
    BY <1>1, <2>1, <2>3, LabelsAre DEF DriverPlace, busVars
  <2>8. HandledPlace(h)'
    BY <2>3, LabelsAre DEF HandledPlace
  <2> QED BY <1>4, <1>5, <2>5, <2>6, <2>7, <2>8, LoopingStep
<1>7. CASE todo[h] = {}
  <2>1. /\ at' = [at EXCEPT ![h] = 0] /\ todo' = todo /\ GoTo(h, "wait")
        /\ IF h \in running THEN Scheduled(h) ELSE req' = req
    BY <1>7 DEF NextPort
  <2>2. at' \in [Hub -> Port \cup {0}]
    BY <1>3, <2>1
  <2>3. /\ req' \in [Hub -> {"idle", "sent", "listed", "replied"}]
        /\ (req'[h] = "sent" /\ h \in running) \/ req'[h] = req[h]
        /\ \A g \in Hub \ {h} : req'[g] = req[g]
    BY <1>3, <2>1 DEF Scheduled
  <2>4. pc' \in [Hub -> Labels] /\ pc'[h] = "wait"
    BY <1>1, <2>1, GoToType, LabelsAre
  <2>5. TypeOK'
    BY <1>1, <1>2, <2>1, <2>2, <2>3, <2>4 DEF TypeOK, busVars, fnVars
  <2>6. NoLostChange'
    <3>1. req'[root] = "listed" => req[root] = "listed"
      BY <2>3, HubAssumption
    <3> QED BY <1>1, <3>1 DEF HubInvariant, NoLostChange, Changed, busVars
  <2>7. DriverPlace(h)'
    BY <1>1, <2>1, <2>3, <2>4, LabelsAre DEF DriverPlace, busVars
  <2>8. HandledPlace(h)'
    BY <2>4, LabelsAre DEF HandledPlace
  <2> QED BY <1>4, <1>5, <2>5, <2>6, <2>7, <2>8, LoopingStep
<1> QED BY <1>6, <1>7

LEMMA FreeStep ==
    ASSUME HubInvariant, NEW h \in Hub, Free(h) PROVE HubInvariant'
<1>1. /\ TypeOK /\ DriverPlace(h) /\ pc[h] = "wait" /\ GoTo(h, "free")
      /\ UNCHANGED <<busVars, addVars, fnVars, reqVars, loopVars, faults, missed>>
  BY DEF HubInvariant, Free
<1>2. pc' \in [Hub -> Labels] /\ pc'[h] = "free"
  BY <1>1, GoToType, LabelsAre
<1>3. TypeOK'
  BY <1>1, <1>2 DEF TypeOK, busVars, addVars, fnVars, reqVars, loopVars
<1>4. NoLostChange'
  BY <1>1 DEF HubInvariant, NoLostChange, Changed, busVars, reqVars
<1>5. DriverPlace(h)'
  BY <1>1, <1>2, LabelsAre DEF DriverPlace, busVars, addVars, reqVars, loopVars
<1>6. HandledPlace(h)'
  BY <1>2, LabelsAre DEF HandledPlace
<1>7. AddressPlace' /\ adr' = adr
  BY <1>1, AddressFrame DEF HubInvariant, busVars, addVars, fnVars
<1>8. pc[h] \notin Handling /\ ~ Start(h) /\ ~ FreeFNs(h) /\ Looping(h)
  BY <1>1, <1>2, LabelsAre DEF Start, FreeFNs, Looping
<1> QED BY <1>3, <1>4, <1>5, <1>6, <1>7, <1>8, LoopingStep

LEMMA AbortRequestStep ==
    ASSUME HubInvariant, NEW h \in Hub, AbortRequest(h) PROVE HubInvariant'
<1>1. /\ TypeOK /\ DriverPlace(h) /\ h # root /\ pc[h] = "free" /\ req[h] = "sent" /\ faults' = faults
      /\ req' = [req EXCEPT ![h] = "replied"] /\ data' = [data EXCEPT ![h] = Error("error")]
      /\ UNCHANGED <<busVars, addVars, fnVars, sig, loopVars, pc, missed>>
  BY DEF HubInvariant, AbortRequest, Reply, NoFault
<1>2. /\ req' \in [Hub -> {"idle", "sent", "listed", "replied"}] /\ data' \in [Hub -> Result]
      /\ data'[h].ports = {} /\ req'[h] = "replied" /\ req'[root] = req[root]
  BY <1>1, ResultsAre, HubAssumption DEF TypeOK
<1>3. TypeOK'
  BY <1>1, <1>2 DEF TypeOK, busVars, addVars, fnVars, loopVars
<1>4. NoLostChange'
  BY <1>1, <1>2 DEF HubInvariant, NoLostChange, Changed, busVars
<1>5. DriverPlace(h)'
  BY <1>1, <1>2, LabelsAre DEF DriverPlace, busVars, addVars, loopVars
<1>6. HandledPlace(h)'
  BY <1>1, LabelsAre DEF HandledPlace
<1>7. AddressPlace' /\ adr' = adr
  BY <1>1, AddressFrame DEF HubInvariant, busVars, addVars, fnVars
<1>8. pc[h] \notin Handling /\ ~ Start(h) /\ ~ FreeFNs(h) /\ Looping(h)
  BY <1>1, LabelsAre DEF Start, FreeFNs, Looping
<1> QED BY <1>3, <1>4, <1>5, <1>6, <1>7, <1>8, LoopingStep

LEMMA EndStep ==
    ASSUME HubInvariant, NEW h \in Hub, End(h) PROVE HubInvariant'
<1>1. /\ TypeOK /\ DriverPlace(h) /\ pc[h] = "free" /\ GoTo(h, "ended")
      /\ UNCHANGED <<busVars, addVars, fnVars, reqVars, loopVars, faults, missed>>
  BY DEF HubInvariant, End
<1>2. pc' \in [Hub -> Labels] /\ pc'[h] = "ended"
  BY <1>1, GoToType, LabelsAre
<1>3. TypeOK'
  BY <1>1, <1>2 DEF TypeOK, busVars, addVars, fnVars, reqVars, loopVars
<1>4. NoLostChange'
  BY <1>1 DEF HubInvariant, NoLostChange, Changed, busVars, reqVars
<1>5. DriverPlace(h)'
  BY <1>1, <1>2, LabelsAre DEF DriverPlace, busVars, addVars, reqVars, loopVars
<1>6. HandledPlace(h)'
  BY <1>2, LabelsAre DEF HandledPlace
<1>7. AddressPlace' /\ adr' = adr
  BY <1>1, AddressFrame DEF HubInvariant, busVars, addVars, fnVars
<1>8. pc[h] \notin Handling /\ ~ Start(h) /\ ~ FreeFNs(h) /\ Looping(h)
  BY <1>1, <1>2, LabelsAre DEF Start, FreeFNs, Looping
<1> QED BY <1>3, <1>4, <1>5, <1>6, <1>7, <1>8, LoopingStep

LEMMA PortStatusStep ==
    ASSUME HubInvariant, NEW h \in Hub, PortStatus(h) PROVE HubInvariant'
<1>1. /\ TypeOK /\ DriverPlace(h) /\ pc[h] = "status"
      /\ UNCHANGED <<busVars, at, retry, stage, tries, new, fnVars, reqVars, loopVars, missed>>
  BY DEF HubInvariant, PortStatus
<1>2. at[h] \in Ports(h) \cap powered /\ at[h] \in Port
  BY <1>1, PortsAre DEF DriverPlace
<1>3. \/ /\ pc'[h] = "clear" /\ "connection" \in chg[at[h]] /\ seen'[h] = dev[at[h]]
      \/ pc'[h] = "next"
  BY <1>1 DEF PortStatus, GoTo, TypeOK
<1>4. pc' \in [Hub -> Labels]
  BY <1>1, GoToType, LabelsAre DEF PortStatus
<1>5. seen' \in [Hub -> 0 .. MaxPlugs]
  BY <1>1, <1>2 DEF PortStatus, TypeOK
<1>6. faults' \in 0 .. MaxFaults
  BY <1>1, AnswerType DEF PortStatus
<1>7. TypeOK'
  BY <1>1, <1>4, <1>5, <1>6 DEF TypeOK, busVars, fnVars, reqVars, loopVars
<1>8. NoLostChange'
  BY <1>1 DEF HubInvariant, NoLostChange, Changed, busVars, reqVars
<1>9. DriverPlace(h)'
  BY <1>1, <1>2, <1>3, LabelsAre DEF DriverPlace, busVars, reqVars, loopVars
<1>10. HandledPlace(h)'
  <2>1. PortPlace(at[h])
    BY <1>2 DEF HubInvariant
  <2> QED BY <1>1, <1>3, <2>1, LabelsAre DEF HandledPlace, PortPlace, busVars
<1>11. AddressPlace' /\ adr' = adr
  BY <1>1, AddressFrame DEF HubInvariant, busVars, fnVars
<1>12. pc[h] \notin Handling /\ ~ Start(h) /\ ~ FreeFNs(h) /\ Looping(h)
  BY <1>1, <1>3, LabelsAre DEF Start, FreeFNs, Looping
<1> QED BY <1>7, <1>8, <1>9, <1>10, <1>11, <1>12, LoopingStep

LEMMA BusReplyStep ==
    ASSUME HubInvariant, NEW h \in Hub, BusReply(h) PROVE HubInvariant'
<1>1. /\ TypeOK /\ DriverPlace(h) /\ h # root /\ req[h] = "sent"
      /\ req' = [req EXCEPT ![h] = "replied"]
      /\ UNCHANGED <<busVars, addVars, fnVars, sig, loopVars, pc, missed>>
  BY DEF HubInvariant, BusReply, Reply
<1>2. PICK r \in Result :
          /\ data' = [data EXCEPT ![h] = r] /\ r.ports \subseteq Ports(h) \cap powered
          /\ Fault \/ NoFault
  <2>1. CASE Reply(h, Error("detached")) /\ NoFault
    BY <2>1, ResultsAre DEF Reply
  <2>2. CASE Reply(h, Bits(Changed(h))) /\ NoFault
    <3>1. Changed(h) \subseteq Ports(h) \cap powered /\ Changed(h) \in SUBSET Port
      BY DEF Changed, Ports
    <3> QED BY <2>2, <3>1, ResultsAre DEF Reply
  <2>3. CASE Reply(h, Error("error")) /\ Fault
    BY <2>3, ResultsAre DEF Reply
  <2> QED BY <2>1, <2>2, <2>3 DEF BusReply
<1>3. /\ req' \in [Hub -> {"idle", "sent", "listed", "replied"}] /\ data' \in [Hub -> Result]
      /\ data'[h] = r /\ req'[root] = req[root]
  BY <1>1, <1>2, HubAssumption DEF TypeOK
<1>4. faults' \in 0 .. MaxFaults
  BY <1>1, <1>2, FaultType
<1>5. TypeOK'
  BY <1>1, <1>3, <1>4 DEF TypeOK, busVars, addVars, fnVars, loopVars
<1>6. NoLostChange'
  BY <1>1, <1>3 DEF HubInvariant, NoLostChange, Changed, busVars
<1>7. DriverPlace(h)'
  BY <1>1, <1>2, <1>3 DEF DriverPlace, busVars, addVars, loopVars
<1>8. HandledPlace(h)'
  BY <1>1 DEF HubInvariant, HandledPlace, Missed, busVars, addVars, fnVars
<1>9. AddressPlace' /\ adr' = adr
  BY <1>1, AddressFrame DEF HubInvariant, busVars, addVars, fnVars
<1>10. UNCHANGED <<pc, at>> /\ ~ Start(h) /\ ~ FreeFNs(h) /\ Looping(h)
  <2>1. req' # req
    BY <1>1 DEF TypeOK
  <2> QED BY <1>1, <1>3, <2>1 DEF Start, Scheduled, FreeFNs, Looping, reqVars, addVars, GoTo, TypeOK
<1> QED BY <1>5, <1>6, <1>7, <1>8, <1>9, <1>10, LoopingStep

LEMMA StartStep ==
    ASSUME HubInvariant, NEW h \in Hub, Start(h) PROVE HubInvariant'
<1>1. /\ TypeOK /\ DriverPlace(h) /\ pc[h] = "start" /\ GoTo(h, "wait")
      /\ req' = [req EXCEPT ![h] = "sent"]
      /\ UNCHANGED <<dev, adr, enabled, chg, gone, plugs, mixed, addVars, fnVars, data, sig, running, errors, todo, missed>>
      /\ Looping(h)
  BY DEF HubInvariant, Start, Scheduled, Looping
<1>2. pc' \in [Hub -> Labels] /\ pc'[h] = "wait"
  BY <1>1, GoToType, LabelsAre
<1>3. /\ req' \in [Hub -> {"idle", "sent", "listed", "replied"}] /\ req'[h] = "sent"
      /\ \A g \in Hub \ {h} : req'[g] = req[g]
  BY <1>1 DEF TypeOK
<1>4. /\ powered \subseteq powered' /\ powered' \subseteq powered \cup Ports(h) /\ known' \subseteq known \cup {h}
  BY <1>1, HubKeeps
<1>5. faults' \in 0 .. MaxFaults
  BY <1>1, AnswerType DEF Start
<1>6. TypeOK'
  <2>1. powered' \subseteq Port /\ known' \subseteq Hub
    BY <1>1, <1>4, PortsAre DEF TypeOK
  <2> QED BY <1>1, <1>2, <1>3, <1>5, <2>1 DEF TypeOK, addVars, fnVars
<1>7. NoLostChange'
  <2>1. CASE h = root
    BY <1>3, <2>1 DEF NoLostChange
  <2>2. CASE h # root
    <3>1. Ports(root) \cap powered' = Ports(root) \cap powered
      BY <1>4, <2>2 DEF Ports
    <3> QED BY <1>1, <1>3, <2>2, <3>1, HubAssumption DEF HubInvariant, NoLostChange, Changed
  <2> QED BY <2>1, <2>2
<1>8. DriverPlace(h)'
  BY <1>1, <1>2, <1>3, <1>4, LabelsAre DEF DriverPlace, addVars
<1>9. HandledPlace(h)'
  BY <1>2, LabelsAre DEF HandledPlace
<1>10. AddressPlace'
  BY <1>1, AddressFrame DEF HubInvariant, addVars, fnVars
<1>11. ASSUME NEW p \in Ports(h) PROVE PortPlace(p)' /\ FunctionPlace(p)' /\ PortAgrees(p)'
  <2>1. p \in Port /\ HubOf[p] = h /\ p \notin powered
    BY <1>1 DEF DriverPlace, Ports
  <2>2. PortPlace(p)
    BY <2>1 DEF HubInvariant
  <2>3. dev[p] = 0 /\ fn[p] = NoFn /\ fn[p].dev = 0 /\ p \notin enabled
    BY <2>1, <2>2, NoFnIs DEF PortPlace
  <2>4. PortPlace(p)'
    BY <1>1, <2>2, <2>3 DEF PortPlace, fnVars
  <2>5. FunctionPlace(p)'
    BY <1>1, <2>3 DEF FunctionPlace, fnVars
  <2>6. PortAgrees(p)'
    BY <1>1, <2>3 DEF PortAgrees, fnVars
  <2> QED BY <2>4, <2>5, <2>6
<1>12. \A q \in Port : SamePort(q)
  BY <1>1, AllPorts DEF FreeFNs
<1> DEFINE T == Ports(h)
<1>13. /\ T \in SUBSET Ports(h) /\ T = Ports(h)
       /\ \A q \in Port \ T : SamePort(q) /\ (mixed' \/ adr'[q] = adr[q])
       /\ \A q \in Ports(h) \ T : Stays(q)
  BY <1>1, <1>12
<1> QED BY <1>1, <1>6, <1>7, <1>8, <1>9, <1>10, <1>11, <1>13, LocalStep

LEMMA FreeFNsStep ==
    ASSUME HubInvariant, NEW h \in Hub, FreeFNs(h) PROVE HubInvariant'
<1> DEFINE all == ToRemove(h)
<1>1. /\ TypeOK /\ DriverPlace(h) /\ AddressPlace /\ pc[h] = "wait" /\ Looping(h) /\ ~ Start(h)
      /\ UNCHANGED <<busVars, addVars, reqVars, loopVars, pc, faults, missed>>
      /\ fn' = [p \in Port |-> IF fn[p] \in all /\ HubOf[p] = h THEN NoFn ELSE fn[p]]
  BY DEF HubInvariant, FreeFNs, Looping, Start
<1>2. /\ \A f \in all : f # NoFn /\ h \notin running /\ \E p \in Port : HubOf[p] = h /\ f = fn[p]
      /\ \A p \in Port : HubOf[p] = h /\ fn[p] # NoFn /\ h \notin running => fn[p] \in all
  BY DEF ToRemove, Functions, Ports
<1> HIDE DEF all
<1>3. PICK S : S \subseteq old[h] \cup all /\ old' = [old EXCEPT ![h] = S]
  <2>1. PICK F \in SUBSET (old[h] \cup all) : old' = [old EXCEPT ![h] = (@ \cup all) \ F]
    BY DEF FreeFNs, all
  <2> QED BY <2>1
<1>4. fn \in [Port -> Fn] /\ old \in [Hub -> SUBSET Fn]
  BY <1>1 DEF TypeOK
<1>5. /\ fn' \in [Port -> Fn]
      /\ \A p \in Port : fn'[p] = fn[p] \/ (HubOf[p] = h /\ h \notin running /\ fn'[p] = NoFn)
      /\ \A p \in Port : fn[p] \in all /\ HubOf[p] = h => fn'[p] = NoFn
  BY <1>1, <1>2, <1>4, NoFnIs
<1>6. /\ old' \in [Hub -> SUBSET Fn] /\ old'[h] = S /\ \A g \in Hub \ {h} : old'[g] = old[g]
  <2>1. all \subseteq Fn
    BY <1>2, <1>4
  <2> QED BY <1>3, <1>4, <2>1
<1>7. TypeOK'
  BY <1>1, <1>5, <1>6 DEF TypeOK, busVars, addVars, reqVars, loopVars
<1>8. NoLostChange'
  BY <1>1 DEF HubInvariant, NoLostChange, Changed, busVars, reqVars
<1>9. DriverPlace(h)'
  BY <1>1 DEF DriverPlace, busVars, addVars, reqVars, loopVars
<1>10. HandledPlace(h)'
  BY <1>1, LabelsAre DEF HandledPlace
<1>11. \A p \in Port : fn'[p].adr # NoAdr => fn'[p] = fn[p]
  BY <1>5, NoFnIs
<1>12. AddressPlace'
  <2>1. \A p, q \in Port : fn'[p].adr # NoAdr /\ fn'[p].adr = fn'[q].adr => p = q
    BY <1>1, <1>11 DEF AddressPlace
  <2>2. /\ \A g \in Hub, p \in Port : new'[g].adr # NoAdr => new'[g].adr # fn'[p].adr
        /\ \A k, g \in Hub : new'[k].adr # NoAdr /\ new'[k].adr = new'[g].adr => k = g
    BY <1>1, <1>11 DEF AddressPlace, addVars
  <2>3. ASSUME NEW k \in Hub, NEW f \in old'[k]
        PROVE  f \in old[k] \/ (k = h /\ \E p \in Port : HubOf[p] = h /\ f = fn[p] /\ f # NoFn /\ fn'[p] = NoFn)
    BY <1>2, <1>3, <1>5, <1>6, <2>3
  <2>4. \A p \in Port : fn[p] # NoFn => fn[p].adr # NoAdr
    BY HubAssumption DEF HubInvariant, PortPlace, NoAdr
  <2>5. ASSUME NEW k \in Hub, NEW f \in old'[k] PROVE f.adr # NoAdr
    BY <1>1, <2>3, <2>4, <2>5 DEF AddressPlace
  <2>6. ASSUME NEW k \in Hub, NEW f \in old'[k], NEW p \in Port PROVE f.adr # fn'[p].adr
    <3>1. CASE f \in old[k]
      BY <1>1, <1>11, <2>5, <2>6, <3>1 DEF AddressPlace
    <3>2. CASE f \notin old[k]
      <4>1. PICK q \in Port : f = fn[q] /\ f # NoFn /\ fn'[q] = NoFn
        BY <2>3, <2>6, <3>2
      <4>2. f.adr # NoAdr
        BY <2>4, <4>1
      <4> QED BY <1>1, <1>11, <4>1, <4>2, NoFnIs DEF AddressPlace
    <3> QED BY <3>1, <3>2
  <2>7. ASSUME NEW k \in Hub, NEW f \in old'[k], NEW g \in Hub PROVE f.adr # new'[g].adr
    <3>1. CASE f \in old[k]
      BY <1>1, <2>7, <3>1 DEF AddressPlace, addVars
    <3>2. CASE f \notin old[k]
      BY <1>1, <2>3, <2>5, <2>7, <3>2 DEF AddressPlace, addVars
    <3> QED BY <3>1, <3>2
  <2>8. ASSUME NEW k \in Hub, NEW f \in old'[k], NEW g \in Hub, NEW x \in old'[g], f.adr = x.adr
        PROVE  f = x /\ k = g
    <3>1. CASE f \in old[k] /\ x \in old[g]
      BY <1>1, <2>8, <3>1 DEF AddressPlace
    <3>2. CASE f \in old[k] /\ x \notin old[g]
      BY <1>1, <2>3, <2>8, <3>2 DEF AddressPlace
    <3>3. CASE f \notin old[k] /\ x \in old[g]
      BY <1>1, <2>3, <2>8, <3>3 DEF AddressPlace
    <3>4. CASE f \notin old[k] /\ x \notin old[g]
      BY <1>1, <2>3, <2>4, <2>8, <3>4 DEF AddressPlace
    <3> QED BY <3>1, <3>2, <3>3, <3>4
  <2> QED BY <2>1, <2>2, <2>5, <2>6, <2>7, <2>8 DEF AddressPlace
<1>13. ASSUME NEW p \in Port, fn'[p] = fn[p] PROVE SamePort(p) /\ adr'[p] = adr[p]
  BY <1>1, <1>13 DEF SamePort, busVars
<1>14. CASE h \in running
  <2> DEFINE T == {}
  <2>1. /\ T \in SUBSET Ports(h) /\ \A q \in Port \ T : SamePort(q) /\ (mixed' \/ adr'[q] = adr[q])
        /\ \A q \in Ports(h) \ T : Stays(q)
        /\ \A q \in T : PortPlace(q)' /\ FunctionPlace(q)' /\ PortAgrees(q)'
    <3>1. \A q \in Port \ T : SamePort(q) /\ adr'[q] = adr[q]
      BY <1>5, <1>13, <1>14
    <3>2. \A q \in Ports(h) \ T : Stays(q)
      BY <1>1, LabelsAre DEF Handled, Cleared, Ports, Stays
    <3> QED BY <3>1, <3>2
  <2> HIDE DEF T
  <2> QED BY <1>1, <1>7, <1>8, <1>9, <1>10, <1>12, <2>1, LocalStep
<1>15. CASE h \notin running
  <2>1. ASSUME NEW p \in Ports(h) PROVE PortPlace(p)' /\ FunctionPlace(p)' /\ PortAgrees(p)'
    <3>1. p \in Port /\ HubOf[p] = h /\ PortPlace(p) /\ FunctionPlace(p) /\ dev[p] \in 0 .. MaxPlugs
      BY <1>1 DEF Ports, HubInvariant, TypeOK
    <3>2. fn'[p] = fn[p] \/ (fn'[p] = NoFn /\ fn'[p].dev = 0)
      BY <1>5, <3>1, NoFnIs
    <3>3. PortPlace(p)'
      <4>1. plugs >= 0
        BY <1>1, HubAssumption DEF TypeOK
      <4> QED BY <1>1, <3>1, <3>2, <4>1 DEF PortPlace, busVars
    <3>4. FunctionPlace(p)'
      BY <1>1, <1>15, <3>1, <3>2 DEF FunctionPlace, Unserved, Missed, busVars, loopVars
    <3>5. PortAgrees(p)'
      BY <1>1, <1>15, <3>1 DEF PortAgrees, Serves, busVars, loopVars
    <3> QED BY <3>3, <3>4, <3>5
  <2>2. \A q \in Port \ Ports(h) : SamePort(q) /\ adr'[q] = adr[q]
    BY <1>5, <1>13 DEF Ports
  <2> DEFINE T == Ports(h)
  <2>3. /\ T \in SUBSET Ports(h) /\ T = Ports(h)
        /\ \A q \in Port \ T : SamePort(q) /\ (mixed' \/ adr'[q] = adr[q])
        /\ \A q \in Ports(h) \ T : Stays(q)
    BY <2>2
  <2> HIDE DEF T
  <2> QED BY <1>1, <1>7, <1>8, <1>9, <1>10, <1>12, <2>1, <2>3, LocalStep
<1> QED BY <1>14, <1>15

-----------------------------------------------------------------------------
(* A port has changed *)

LEMMA Place ==
    ASSUME HubInvariant, NEW h \in Hub, pc[h] \in Handling
    PROVE  /\ TypeOK /\ DriverPlace(h) /\ HandledPlace(h) /\ at[h] \in Port /\ HubOf[at[h]] = h
           /\ at[h] \in powered /\ PortPlace(at[h]) /\ FunctionPlace(at[h]) /\ PortAgrees(at[h])
<1>1. TypeOK /\ DriverPlace(h) /\ HandledPlace(h)
  BY DEF HubInvariant
<1>2. at[h] \in Port /\ HubOf[at[h]] = h /\ at[h] \in powered
  BY <1>1 DEF DriverPlace, Ports
<1> QED BY <1>1, <1>2 DEF HubInvariant

LEMMA ClearConnectionStep ==
    ASSUME HubInvariant, NEW h \in Hub, ClearConnection(h) PROVE HubInvariant'
<1>1. /\ pc[h] = "clear" /\ Adding(h)
      /\ UNCHANGED <<dev, adr, enabled, powered, gone, plugs, mixed, addVars, fnVars, reqVars, loopVars>>
  BY DEF ClearConnection, Adding
<1>2. PICK p \in Port :
          /\ at[h] = p /\ HubOf[p] = h /\ p \in powered
          /\ TypeOK /\ DriverPlace(h) /\ HandledPlace(h)
          /\ PortPlace(p) /\ FunctionPlace(p) /\ PortAgrees(p)
  BY <1>1, Place, LabelsAre
<1>3. chg \in [Port -> SUBSET {"connection", "reset"}] /\ missed \in [Port -> {"no", "kept", "failed", "lost"}]
  BY <1>2 DEF TypeOK
<1>4. (h \in gone \/ "connection" \in chg[p]) /\ p \notin Cleared
  BY <1>1, <1>2, LabelsAre DEF HandledPlace, Cleared
<1>5. /\ GoTo(h, "remove") \/ GoTo(h, "next")
      /\ chg' = chg \/ chg' = [chg EXCEPT ![p] = @ \ {"connection"}]
      /\ faults' \in 0 .. MaxFaults
  BY <1>2, AnswerType DEF ClearConnection
<1>6. pc' \in [Hub -> Labels] /\ (pc'[h] = "remove" \/ pc'[h] = "next")
  BY <1>2, <1>5, GoToType, LabelsAre
<1>7. chg' \in [Port -> SUBSET {"connection", "reset"}] /\ \A q \in Port : chg'[q] \subseteq chg[q]
  BY <1>3, <1>5
<1>8. missed' \in [Port -> {"no", "kept", "failed", "lost"}]
  BY <1>2, <1>3 DEF ClearConnection, Give, Keep
<1>9. \/ pc'[h] = "remove" /\ (seen[h] = 0 /\ dev[p] # 0 => missed'[p] = "lost")
      \/ pc'[h] = "next" /\ chg' = chg /\ missed' = missed
      \/ pc'[h] = "next" /\ missed'[p] = "kept"
  <2>1. CASE GoTo(h, "remove") /\ Give(h, IF CameBetween(h) THEN "lost" ELSE "no")
    BY <1>2, <1>3, <2>1, GoToType, LabelsAre DEF Give, CameBetween
  <2>2. CASE GoTo(h, "next") /\ Give(h, "kept")
    BY <1>2, <1>3, <2>2, GoToType, LabelsAre DEF Give
  <2>3. CASE GoTo(h, "next") /\ chg' = chg /\ missed' = missed
    BY <1>2, <2>3, GoToType, LabelsAre
  <2> QED BY <1>2, <2>1, <2>2, <2>3 DEF ClearConnection, Keep
<1>10. TypeOK'
  BY <1>1, <1>2, <1>5, <1>6, <1>7, <1>8 DEF TypeOK, addVars, fnVars, reqVars, loopVars
<1>11. NoLostChange'
  BY <1>1, <1>7 DEF HubInvariant, NoLostChange, Changed, Ports, reqVars
<1>12. DriverPlace(h)'
  BY <1>1, <1>2, <1>6, LabelsAre DEF DriverPlace, addVars, reqVars, loopVars
<1>13. HandledPlace(h)'
  <2>1. p \in enabled => dev[p] # 0
    BY <1>2 DEF PortPlace
  <2> QED BY <1>1, <1>2, <1>6, <1>9, <2>1, LabelsAre DEF HandledPlace, Missed, addVars
<1>14. PortPlace(p)'
  BY <1>1, <1>2 DEF PortPlace, fnVars
<1>15. FunctionPlace(p)'
  <2>1. p \in Missed => p \in (Cleared \cup Missed)'
    BY <1>1, <1>2, <1>9, LabelsAre DEF Missed, Handled, Cleared, addVars
  <2> QED BY <1>1, <1>2, <1>4, <2>1 DEF FunctionPlace, Unserved, fnVars, loopVars
<1>16. PortAgrees(p)'
  <2>1. CASE pc'[h] = "remove"
    <3>1. p \in Handled'
      BY <1>1, <1>2, <2>1, LabelsAre DEF Handled, addVars
    <3> QED BY <3>1 DEF PortAgrees
  <2>2. CASE chg' = chg
    BY <1>1, <1>2, <1>4, <2>2 DEF PortAgrees, Serves, loopVars
  <2>3. CASE missed'[p] = "kept"
    BY <2>3 DEF PortAgrees, Missed
  <2> QED BY <1>9, <2>1, <2>2, <2>3
<1>17. AddressPlace' /\ adr' = adr
  BY <1>1, AddressFrame DEF HubInvariant, addVars, fnVars
<1> QED BY <1>1, <1>2, <1>10, <1>11, <1>12, <1>13, <1>14, <1>15, <1>16, <1>17, AddingStep

LEMMA RemoveStep ==
    ASSUME HubInvariant, NEW h \in Hub, Remove(h) PROVE HubInvariant'
<1>1. /\ pc[h] = "remove" /\ Adding(h) /\ AddressPlace
      /\ UNCHANGED <<busVars, addVars, reqVars, loopVars, faults, missed>>
  BY DEF Remove, Adding, HubInvariant
<1>2. PICK p \in Port :
          /\ at[h] = p /\ HubOf[p] = h /\ p \in powered
          /\ TypeOK /\ DriverPlace(h) /\ HandledPlace(h)
          /\ PortPlace(p) /\ FunctionPlace(p) /\ PortAgrees(p)
  BY <1>1, Place, LabelsAre
<1>3. fn \in [Port -> Fn] /\ old \in [Hub -> SUBSET Fn]
  BY <1>2 DEF TypeOK
<1>4. seen[h] = 0 => /\ dev[p] = 0 \/ "connection" \in chg[p] \/ p \in Missed
                     /\ p \in enabled => p \in Missed
  BY <1>1, <1>2, LabelsAre DEF HandledPlace
<1>5. /\ (seen[h] # 0 /\ GoTo(h, "add")) \/ (seen[h] = 0 /\ GoTo(h, "next"))
      /\ fn' = [fn EXCEPT ![p] = NoFn]
      /\ old' = IF fn[p] = NoFn THEN old ELSE [old EXCEPT ![h] = @ \cup {fn[p]}]
  <2>1. CASE seen[h] # 0
    BY <1>2, <2>1 DEF Remove, Removed
  <2>2. CASE seen[h] = 0
    BY <1>2, <2>2 DEF Remove, Removed
  <2> QED BY <2>1, <2>2
<1>6. pc' \in [Hub -> Labels] /\ ((seen[h] # 0 /\ pc'[h] = "add") \/ (seen[h] = 0 /\ pc'[h] = "next"))
  BY <1>2, <1>5, GoToType, LabelsAre
<1>7. fn' \in [Port -> Fn] /\ fn'[p] = NoFn /\ \A q \in Port : q # p => fn'[q] = fn[q]
  BY <1>3, <1>5, NoFnIs
<1>8. /\ old' \in [Hub -> SUBSET Fn]
      /\ \A k \in Hub : \A f \in old'[k] : f \in old[k] \/ (k = h /\ f = fn[p] /\ f # NoFn)
  <2>1. CASE fn[p] = NoFn
    BY <1>3, <1>5, <2>1
  <2>2. CASE fn[p] # NoFn
    <3>1. fn[p] \in Fn
      BY <1>3
    <3> QED BY <1>3, <1>5, <2>2, <3>1
  <2> QED BY <2>1, <2>2
<1>9. TypeOK'
  BY <1>1, <1>2, <1>6, <1>7, <1>8 DEF TypeOK, busVars, addVars, reqVars, loopVars
<1>10. NoLostChange'
  BY <1>1 DEF HubInvariant, NoLostChange, Changed, busVars, reqVars
<1>11. DriverPlace(h)'
  BY <1>1, <1>2, <1>6, LabelsAre DEF DriverPlace, busVars, addVars, reqVars, loopVars
<1>12. HandledPlace(h)'
  BY <1>1, <1>2, <1>4, <1>6, <1>7, LabelsAre DEF HandledPlace, busVars, addVars
<1>13. PortPlace(p)'
  <2>1. plugs >= 0
    BY <1>2, HubAssumption DEF TypeOK
  <2> QED BY <1>1, <1>2, <1>7, <2>1, NoFnIs DEF PortPlace, busVars
<1>14. FunctionPlace(p)'
  <2>1. p \in enabled => p \in (Cleared \cup Missed)'
    BY <1>1, <1>2, <1>4, <1>6, LabelsAre DEF Handled, Cleared, Missed, addVars
  <2> QED BY <1>1, <1>7, <2>1, NoFnIs DEF FunctionPlace, busVars
<1>15. PortAgrees(p)'
  <2>1. CASE pc'[h] = "add"
    <3>1. p \in Handled'
      BY <1>1, <1>2, <2>1, LabelsAre DEF Handled, addVars
    <3> QED BY <3>1 DEF PortAgrees
  <2>2. CASE pc'[h] = "next"
    BY <1>1, <1>2, <1>4, <1>6, <1>7, <2>2, NoFnIs DEF PortAgrees, Missed, busVars
  <2> QED BY <1>6, <2>1, <2>2
<1>16. AddressPlace'
  <2>1. fn[p] # NoFn => fn[p].adr # NoAdr
    BY <1>2, HubAssumption DEF PortPlace, NoAdr
  <2>2. \A q \in Port : fn'[q].adr # NoAdr => fn'[q] = fn[q] /\ q # p
    BY <1>7, NoFnIs
  <2>3. \A q, x \in Port : fn'[q].adr # NoAdr /\ fn'[q].adr = fn'[x].adr => q = x
    BY <1>1, <2>2 DEF AddressPlace
  <2>4. /\ \A g \in Hub, q \in Port : new'[g].adr # NoAdr => new'[g].adr # fn'[q].adr
        /\ \A k, g \in Hub : new'[k].adr # NoAdr /\ new'[k].adr = new'[g].adr => k = g
    BY <1>1, <2>2 DEF AddressPlace, addVars
  <2>5. ASSUME NEW k \in Hub, NEW f \in old'[k]
        PROVE  f.adr # NoAdr /\ \A q \in Port : f.adr # fn'[q].adr
    BY <1>1, <1>8, <2>1, <2>2, <2>5 DEF AddressPlace
  <2>6. ASSUME NEW k \in Hub, NEW f \in old'[k], NEW g \in Hub PROVE f.adr # new'[g].adr
    BY <1>1, <1>8, <2>1, <2>6 DEF AddressPlace, addVars
  <2>7. ASSUME NEW k \in Hub, NEW f \in old'[k], NEW g \in Hub, NEW x \in old'[g], f.adr = x.adr
        PROVE  f = x /\ k = g
    BY <1>1, <1>8, <2>7 DEF AddressPlace
  <2> QED BY <2>3, <2>4, <2>5, <2>6, <2>7 DEF AddressPlace
<1>17. adr' = adr
  BY <1>1 DEF busVars
<1> QED BY <1>1, <1>2, <1>9, <1>10, <1>11, <1>12, <1>13, <1>14, <1>15, <1>16, <1>17, AddingStep

-----------------------------------------------------------------------------
(* A device is there *)

\* A function in hand keeps its address, or is dropped.
LEMMA AddressNew ==
    ASSUME AddressPlace, UNCHANGED fnVars, \A g \in Hub : new'[g].adr \in {new[g].adr, NoAdr}
    PROVE  AddressPlace'
BY DEF AddressPlace, fnVars

LEMMA AddStep ==
    ASSUME HubInvariant, NEW h \in Hub, Add(h) PROVE HubInvariant'
<1>1. /\ pc[h] = "add" /\ Adding(h) /\ retry' = [retry EXCEPT ![h] = 0]
      /\ UNCHANGED <<dev, adr, chg, powered, gone, plugs, mixed, at, seen, stage, tries, new, fnVars, reqVars, loopVars>>
  BY DEF Add, Adding
<1>2. PICK p \in Port :
          /\ at[h] = p /\ HubOf[p] = h /\ p \in powered
          /\ TypeOK /\ DriverPlace(h) /\ HandledPlace(h)
          /\ PortPlace(p) /\ FunctionPlace(p) /\ PortAgrees(p)
  BY <1>1, Place, LabelsAre
<1>3. enabled \subseteq Port /\ missed \in [Port -> {"no", "kept", "failed", "lost"}]
  BY <1>2 DEF TypeOK
<1>4. fn[p] = NoFn
  BY <1>1, <1>2, LabelsAre DEF HandledPlace
<1>5. /\ (GoTo(h, "reset") /\ missed' = missed) \/ (GoTo(h, "next") /\ missed' = [missed EXCEPT ![p] = "kept"])
      /\ enabled' \subseteq enabled /\ faults' \in 0 .. MaxFaults
  <2>2. Answers(h) \/ Fails(h)
    BY DEF Add
  <2>3. faults' \in 0 .. MaxFaults
    BY <1>2, <2>2, AnswerType
  <2>4. enabled' \subseteq enabled
    BY <1>2 DEF Add
  <2>5. (GoTo(h, "reset") /\ missed' = missed) \/ (GoTo(h, "next") /\ missed' = [missed EXCEPT ![p] = "kept"])
    BY <1>2 DEF Add, Give, Keep
  <2> QED BY <2>3, <2>4, <2>5
<1>6. /\ pc' \in [Hub -> Labels] /\ missed' \in [Port -> {"no", "kept", "failed", "lost"}]
      /\ pc'[h] = "reset" \/ (pc'[h] = "next" /\ missed'[p] = "kept")
  <2>1. CASE GoTo(h, "reset") /\ missed' = missed
    BY <1>2, <1>3, <2>1, GoToType, LabelsAre
  <2>2. CASE GoTo(h, "next") /\ missed' = [missed EXCEPT ![p] = "kept"]
    <3>1. pc' \in [Hub -> Labels] /\ pc'[h] = "next"
      BY <1>2, <2>2, GoToType, LabelsAre
    <3> QED BY <1>3, <2>2, <3>1
  <2> QED BY <1>5, <2>1, <2>2
<1>7. retry' \in [Hub -> 0 .. Retries] /\ retry'[h] < Retries
  <2>1. retry \in [Hub -> 0 .. Retries]
    BY <1>2 DEF TypeOK
  <2> QED BY <1>1, <2>1, HubAssumption
<1>8. TypeOK'
  BY <1>1, <1>2, <1>3, <1>5, <1>6, <1>7 DEF TypeOK, fnVars, reqVars, loopVars
<1>9. NoLostChange'
  BY <1>1 DEF HubInvariant, NoLostChange, Changed, reqVars
<1>10. DriverPlace(h)'
  BY <1>1, <1>2, <1>6, <1>7, LabelsAre DEF DriverPlace, reqVars, loopVars
<1>11. HandledPlace(h)'
  BY <1>1, <1>2, <1>4, <1>6, LabelsAre DEF HandledPlace, fnVars
<1>12. PortPlace(p)'
  BY <1>1, <1>2, <1>5 DEF PortPlace, fnVars
<1>13. FunctionPlace(p)'
  <2>1. p \in (Cleared \cup Missed)'
    BY <1>1, <1>2, <1>6, LabelsAre DEF Handled, Cleared, Missed
  <2>2. fn'[p].dev = 0 /\ dev' = dev
    BY <1>1, <1>4, NoFnIs DEF fnVars
  <2> QED BY <2>1, <2>2 DEF FunctionPlace
<1>14. PortAgrees(p)'
  <2>1. CASE pc'[h] = "reset"
    <3>1. p \in Handled'
      BY <1>1, <1>2, <2>1, LabelsAre DEF Handled
    <3> QED BY <3>1 DEF PortAgrees
  <2>2. CASE missed'[p] = "kept"
    BY <2>2 DEF PortAgrees, Missed
  <2> QED BY <1>6, <2>1, <2>2
<1>15. AddressPlace' /\ adr' = adr
  BY <1>1, AddressFrame DEF HubInvariant, fnVars
<1> QED BY <1>1, <1>2, <1>8, <1>9, <1>10, <1>11, <1>12, <1>13, <1>14, <1>15, AddingStep

LEMMA ResetStep ==
    ASSUME HubInvariant, NEW h \in Hub, Reset(h) PROVE HubInvariant'
<1>1. /\ pc[h] = "reset" /\ Adding(h)
      /\ UNCHANGED <<dev, powered, gone, plugs, mixed, addVars, fnVars, req, data, loopVars, missed>>
  BY DEF Reset, Adding
<1>2. PICK p \in Port :
          /\ at[h] = p /\ HubOf[p] = h /\ p \in powered
          /\ TypeOK /\ DriverPlace(h) /\ HandledPlace(h)
          /\ PortPlace(p) /\ FunctionPlace(p) /\ PortAgrees(p)
  BY <1>1, Place, LabelsAre
<1>3. /\ enabled \subseteq Port /\ chg \in [Port -> SUBSET {"connection", "reset"}]
      /\ adr \in [Port -> 0 .. MaxAdr \cup {NoAdr}]
  BY <1>2 DEF TypeOK
<1>4. fn[p] = NoFn
  BY <1>1, <1>2, LabelsAre DEF HandledPlace
<1>5. \/ /\ dev[p] # 0 /\ adr' = [adr EXCEPT ![p] = 0] /\ enabled' = enabled \cup {p}
         /\ Raise(p, "reset") /\ GoTo(h, "clearReset")
      \/ UNCHANGED <<adr, enabled, chg, sig>> /\ (GoTo(h, "clearReset") \/ GoTo(h, "again"))
  BY <1>2 DEF Reset
<1>6. /\ pc' \in [Hub -> Labels] /\ pc'[h] \in {"clearReset", "again"}
      /\ faults' \in 0 .. MaxFaults
  <2>1. GoTo(h, "clearReset") \/ GoTo(h, "again")
    BY <1>5
  <2> QED BY <1>2, <2>1, AnswerType, GoToType, LabelsAre DEF Reset
<1>7. /\ chg' \in [Port -> SUBSET {"connection", "reset"}]
      /\ adr' \in [Port -> 0 .. MaxAdr \cup {NoAdr}] /\ \A q \in Port \ {p} : adr'[q] = adr[q]
      /\ enabled' \subseteq Port /\ (p \in enabled' => p \in enabled \/ dev[p] # 0)
  <2>1. CASE UNCHANGED <<adr, enabled, chg>>
    BY <1>3, <2>1
  <2>2. CASE dev[p] # 0 /\ adr' = [adr EXCEPT ![p] = 0] /\ enabled' = enabled \cup {p} /\ Raise(p, "reset")
    <3>1. chg' = [chg EXCEPT ![p] = @ \cup {"reset"}]
      BY <2>2 DEF Raise
    <3>2. chg' \in [Port -> SUBSET {"connection", "reset"}]
      BY <1>3, <3>1
    <3>3. 0 \in 0 .. MaxAdr \cup {NoAdr}
      BY HubAssumption
    <3> QED BY <1>3, <2>2, <3>2, <3>3
  <2> QED BY <1>5, <2>1, <2>2
<1>8. sig' \in BOOLEAN
  <2>1. CASE Raise(p, "reset")
    BY <2>1, Zenon DEF Raise
  <2>2. CASE sig' = sig
    BY <1>2, <2>2 DEF TypeOK
  <2> QED BY <1>5, <2>1, <2>2
<1>9. TypeOK'
  BY <1>1, <1>2, <1>6, <1>7, <1>8 DEF TypeOK, addVars, fnVars, loopVars
<1>10. NoLostChange'
  <2>1. CASE UNCHANGED <<chg, sig>>
    BY <1>1, <2>1 DEF HubInvariant, NoLostChange, Changed
  <2>2. CASE Raise(p, "reset") /\ h = root
    <3>1. sig'
      BY <1>2, <2>2, Zenon DEF Raise
    <3> QED BY <3>1 DEF NoLostChange
  <2>3. CASE Raise(p, "reset") /\ h # root
    <3>1. sig => sig'
      BY <2>3, Zenon DEF Raise
    <3>2. \A q \in Ports(root) : chg'[q] = chg[q]
      BY <1>2, <1>3, <2>3 DEF Raise, Ports
    <3> QED BY <1>1, <3>1, <3>2 DEF HubInvariant, NoLostChange, Changed
  <2> QED BY <1>5, <2>1, <2>2, <2>3
<1>11. DriverPlace(h)'
  BY <1>1, <1>2, <1>6, LabelsAre DEF DriverPlace, addVars, loopVars
<1>12. HandledPlace(h)'
  BY <1>1, <1>2, <1>4, <1>6, <1>7, LabelsAre DEF HandledPlace, addVars, fnVars
<1>13. PortPlace(p)'
  BY <1>1, <1>2, <1>7 DEF PortPlace, fnVars
<1>14. p \in Handled' /\ p \in Cleared'
  BY <1>1, <1>2, <1>6, LabelsAre DEF Handled, Cleared, addVars
<1>15. FunctionPlace(p)'
  BY <1>1, <1>4, <1>14, NoFnIs DEF FunctionPlace, fnVars
<1>16. PortAgrees(p)'
  BY <1>14 DEF PortAgrees
<1>17. AddressPlace'
  BY <1>1, AddressFrame DEF HubInvariant, addVars, fnVars
<1> QED BY <1>1, <1>2, <1>7, <1>9, <1>10, <1>11, <1>12, <1>13, <1>15, <1>16, <1>17, AddingStep

LEMMA ClearResetStep ==
    ASSUME HubInvariant, NEW h \in Hub, ClearReset(h) PROVE HubInvariant'
<1>1. /\ pc[h] = "clearReset" /\ Adding(h)
      /\ UNCHANGED <<dev, adr, enabled, powered, gone, plugs, mixed, addVars, fnVars, reqVars, loopVars, missed>>
  BY DEF ClearReset, Adding
<1>2. PICK p \in Port :
          /\ at[h] = p /\ HubOf[p] = h /\ p \in powered
          /\ TypeOK /\ DriverPlace(h) /\ HandledPlace(h)
          /\ PortPlace(p) /\ FunctionPlace(p) /\ PortAgrees(p)
  BY <1>1, Place, LabelsAre
<1>3. chg \in [Port -> SUBSET {"connection", "reset"}]
  BY <1>2 DEF TypeOK
<1>4. fn[p] = NoFn
  BY <1>1, <1>2, LabelsAre DEF HandledPlace
<1>5. /\ GoTo(h, "obtain") \/ GoTo(h, "again")
      /\ chg' = chg \/ chg' = [chg EXCEPT ![p] = @ \ {"reset"}]
      /\ faults' \in 0 .. MaxFaults
  BY <1>2, AnswerType DEF ClearReset
<1>6. /\ pc' \in [Hub -> Labels] /\ pc'[h] \in {"obtain", "again"}
  BY <1>2, <1>5, GoToType, LabelsAre
<1>7. chg' \in [Port -> SUBSET {"connection", "reset"}] /\ \A q \in Port : chg'[q] \subseteq chg[q]
  BY <1>3, <1>5
<1>8. TypeOK'
  BY <1>1, <1>2, <1>5, <1>6, <1>7 DEF TypeOK, addVars, fnVars, reqVars, loopVars
<1>9. NoLostChange'
  BY <1>1, <1>7 DEF HubInvariant, NoLostChange, Changed, Ports, reqVars
<1>10. DriverPlace(h)'
  BY <1>1, <1>2, <1>6, LabelsAre DEF DriverPlace, addVars, reqVars, loopVars
<1>11. HandledPlace(h)'
  BY <1>1, <1>2, <1>4, <1>6, <1>7, LabelsAre DEF HandledPlace, addVars, fnVars
<1>12. PortPlace(p)'
  BY <1>1, <1>2, <1>4, <1>7 DEF PortPlace, fnVars
<1>13. p \in Handled' /\ p \in Cleared'
  BY <1>1, <1>2, <1>6, LabelsAre DEF Handled, Cleared, addVars
<1>14. FunctionPlace(p)'
  BY <1>1, <1>4, <1>13, NoFnIs DEF FunctionPlace, fnVars
<1>15. PortAgrees(p)'
  BY <1>13 DEF PortAgrees
<1>16. AddressPlace' /\ adr' = adr
  BY <1>1, AddressFrame DEF HubInvariant, addVars, fnVars
<1> QED BY <1>1, <1>2, <1>8, <1>9, <1>10, <1>11, <1>12, <1>14, <1>15, <1>16, AddingStep

LEMMA AgainStep ==
    ASSUME HubInvariant, NEW h \in Hub, Again(h) PROVE HubInvariant'
<1>1. /\ pc[h] = "again" /\ Adding(h) /\ retry' = [retry EXCEPT ![h] = @ + 1]
      /\ UNCHANGED <<busVars, at, seen, stage, tries, new, fnVars, reqVars, loopVars, faults>>
  BY DEF Again, Adding
<1>2. PICK p \in Port :
          /\ at[h] = p /\ HubOf[p] = h /\ p \in powered
          /\ TypeOK /\ DriverPlace(h) /\ HandledPlace(h)
          /\ PortPlace(p) /\ FunctionPlace(p) /\ PortAgrees(p)
  BY <1>1, Place, LabelsAre
<1>3. missed \in [Port -> {"no", "kept", "failed", "lost"}] /\ retry \in [Hub -> 0 .. Retries] /\ retry[h] < Retries
  BY <1>1, <1>2, LabelsAre DEF TypeOK, DriverPlace
<1>4. fn[p] = NoFn
  BY <1>1, <1>2, LabelsAre DEF HandledPlace
<1>5. \/ retry[h] + 1 < Retries /\ GoTo(h, "reset") /\ missed' = missed
      \/ GoTo(h, "next") /\ missed' = [missed EXCEPT ![p] = "failed"]
  BY <1>2 DEF Again, TurnsLeft, Give, Keep
<1>6. /\ pc' \in [Hub -> Labels] /\ missed' \in [Port -> {"no", "kept", "failed", "lost"}]
      /\ (pc'[h] = "reset" /\ retry[h] + 1 < Retries) \/ (pc'[h] = "next" /\ missed'[p] = "failed")
  BY <1>2, <1>3, <1>5, GoToType, LabelsAre
<1>7. retry' \in [Hub -> 0 .. Retries] /\ retry'[h] = retry[h] + 1
  BY <1>1, <1>3, HubAssumption
<1>8. TypeOK'
  BY <1>1, <1>2, <1>6, <1>7 DEF TypeOK, busVars, fnVars, reqVars, loopVars
<1>9. NoLostChange'
  BY <1>1 DEF HubInvariant, NoLostChange, Changed, busVars, reqVars
<1>10. DriverPlace(h)'
  BY <1>1, <1>2, <1>6, <1>7, LabelsAre DEF DriverPlace, busVars, reqVars, loopVars
<1>11. HandledPlace(h)'
  BY <1>1, <1>2, <1>4, <1>6, LabelsAre DEF HandledPlace, busVars, fnVars
<1>12. PortPlace(p)'
  BY <1>1, <1>2 DEF PortPlace, busVars, fnVars
<1>13. p \in (Handled \cap Cleared)' \/ p \in Missed'
  BY <1>1, <1>2, <1>6, LabelsAre DEF Handled, Cleared, Missed
<1>14. FunctionPlace(p)'
  BY <1>1, <1>4, <1>13, NoFnIs DEF FunctionPlace, busVars, fnVars
<1>15. PortAgrees(p)'
  BY <1>13 DEF PortAgrees
<1>16. AddressPlace' /\ adr' = adr
  BY <1>1, AddressFrame DEF HubInvariant, busVars, fnVars
<1> QED BY <1>1, <1>2, <1>8, <1>9, <1>10, <1>11, <1>12, <1>14, <1>15, <1>16, AddingStep

LEMMA ObtainStep ==
    ASSUME HubInvariant, NEW h \in Hub, Obtain(h) PROVE HubInvariant'
<1>1. /\ pc[h] = "obtain" /\ Adding(h) /\ AddressPlace
      /\ UNCHANGED <<busVars, at, seen, retry, stage, tries, fnVars, reqVars, loopVars, faults, missed>>
  BY DEF Obtain, Adding, HubInvariant
<1>2. PICK p \in Port :
          /\ at[h] = p /\ HubOf[p] = h /\ p \in powered
          /\ TypeOK /\ DriverPlace(h) /\ HandledPlace(h)
          /\ PortPlace(p) /\ FunctionPlace(p) /\ PortAgrees(p)
  BY <1>1, Place, LabelsAre
<1>3. /\ new \in [Hub -> Fn] /\ new[h] = NoFn
  BY <1>1, <1>2 DEF TypeOK, DriverPlace
<1>4. fn[p] = NoFn
  BY <1>1, <1>2, LabelsAre DEF HandledPlace
<1>5. \/ GoTo(h, "again") /\ new' = new
      \/ /\ GoTo(h, "setAddr")
         /\ \E a \in 1 .. MaxAdr \ Obtained : new' = [new EXCEPT ![h].adr = a]
  <2> DEFINE free == 1 .. MaxAdr \ Obtained
  <2>1. CASE free = {}
    BY <2>1 DEF Obtain
  <2>2. CASE free # {}
    <3>1. free \subseteq Nat
      OBVIOUS
    <3> HIDE DEF free
    <3>2. Min(free) \in free
      BY <2>2, <3>1, MinIn
    <3>3. GoTo(h, "setAddr") /\ new' = [new EXCEPT ![h].adr = Min(free)]
      BY <2>2 DEF Obtain, free
    <3> USE DEF free
    <3> QED BY <3>2, <3>3
  <2> HIDE DEF free
  <2> QED BY <2>1, <2>2
<1>6. ASSUME NEW a \in 1 .. MaxAdr \ Obtained, new' = [new EXCEPT ![h].adr = a]
      PROVE  /\ new' \in [Hub -> Fn] /\ new'[h].adr = a /\ new'[h].dev = 0
             /\ \A g \in Hub \ {h} : new'[g] = new[g]
  <2>1. a \in 0 .. MaxAdr
    BY HubAssumption
  <2>2. PICK f \in Fn : f = [new[h] EXCEPT !.adr = a] /\ f.adr = a /\ f.dev = 0
    <3>1. new[h] \in Fn /\ new[h].dev = 0
      BY <1>3, NoFnIs
    <3> HIDE <1>3
    <3> QED BY <2>1, <3>1, FnWithAdr
  <2>3. new' = [new EXCEPT ![h] = f]
    BY <1>6, <2>2
  <2> QED BY <1>3, <2>2, <2>3
<1>7. /\ pc' \in [Hub -> Labels] /\ new' \in [Hub -> Fn] /\ new'[h].dev = 0
      /\ \A g \in Hub \ {h} : new'[g] = new[g]
      /\ \/ pc'[h] = "again" /\ new' = new
         \/ pc'[h] = "setAddr" /\ new'[h].adr \in 1 .. MaxAdr \ Obtained
  <2>1. CASE GoTo(h, "again") /\ new' = new
    BY <1>2, <1>3, <2>1, GoToType, LabelsAre, NoFnIs
  <2>2. CASE GoTo(h, "setAddr") /\ \E a \in 1 .. MaxAdr \ Obtained : new' = [new EXCEPT ![h].adr = a]
    <3>1. PICK a \in 1 .. MaxAdr \ Obtained : new' = [new EXCEPT ![h].adr = a]
      BY <2>2
    <3>2. pc' \in [Hub -> Labels] /\ pc'[h] = "setAddr"
      BY <1>2, <2>2, GoToType, LabelsAre
    <3> QED BY <1>6, <3>1, <3>2
  <2> QED BY <1>5, <2>1, <2>2
<1>8. TypeOK'
  BY <1>1, <1>2, <1>7 DEF TypeOK, busVars, fnVars, reqVars, loopVars
<1>9. NoLostChange'
  BY <1>1 DEF HubInvariant, NoLostChange, Changed, busVars, reqVars
<1>10. DriverPlace(h)'
  <2>1. plugs >= 0
    BY <1>2, HubAssumption DEF TypeOK
  <2> QED BY <1>1, <1>2, <1>3, <1>7, <2>1, LabelsAre DEF DriverPlace, busVars, reqVars, loopVars
<1>11. HandledPlace(h)'
  BY <1>1, <1>2, <1>4, <1>7, LabelsAre DEF HandledPlace, busVars, fnVars
<1>12. PortPlace(p)'
  BY <1>1, <1>2 DEF PortPlace, busVars, fnVars
<1>13. p \in Handled' /\ p \in Cleared'
  BY <1>1, <1>2, <1>7, LabelsAre DEF Handled, Cleared
<1>14. FunctionPlace(p)'
  BY <1>1, <1>4, <1>13, NoFnIs DEF FunctionPlace, busVars, fnVars
<1>15. PortAgrees(p)'
  BY <1>13 DEF PortAgrees
<1>16. AddressPlace'
  <2>1. CASE new' = new
    BY <1>1, <2>1, AddressFrame DEF fnVars
  <2>2. CASE new'[h].adr \notin Obtained
    <3>1. /\ \A q \in Port : new'[h].adr # fn[q].adr
          /\ \A g \in Hub : new'[h].adr # new[g].adr
          /\ \A g \in Hub : \A f \in old[g] : new'[h].adr # f.adr
      BY <2>2 DEF Obtained
    <3>2. fn' = fn /\ old' = old /\ \A g \in Hub : new'[g] = new[g] \/ g = h
      BY <1>1, <1>7 DEF fnVars
    <3>3. /\ \A q, x \in Port : fn'[q].adr # NoAdr /\ fn'[q].adr = fn'[x].adr => q = x
          /\ \A g \in Hub, q \in Port : new'[g].adr # NoAdr => new'[g].adr # fn'[q].adr
      BY <1>1, <3>1, <3>2 DEF AddressPlace
    <3>4. \A k, g \in Hub : new'[k].adr # NoAdr /\ new'[k].adr = new'[g].adr => k = g
      BY <1>1, <3>1, <3>2 DEF AddressPlace
    <3>5. \A k \in Hub : \A f \in old'[k] :
              /\ f.adr # NoAdr
              /\ \A q \in Port : f.adr # fn'[q].adr
              /\ \A g \in Hub : f.adr # new'[g].adr /\ \A x \in old'[g] : f.adr = x.adr => f = x /\ k = g
      BY <1>1, <3>1, <3>2 DEF AddressPlace
    <3> QED BY <3>3, <3>4, <3>5 DEF AddressPlace
  <2> QED BY <1>7, <2>1, <2>2
<1>17. adr' = adr
  BY <1>1 DEF busVars
<1> QED BY <1>1, <1>2, <1>8, <1>9, <1>10, <1>11, <1>12, <1>14, <1>15, <1>16, <1>17, AddingStep

LEMMA SetAddrStep ==
    ASSUME HubInvariant, NEW h \in Hub, SetAddr(h) PROVE HubInvariant'
<1>1. /\ pc[h] = "setAddr" /\ Adding(h) /\ AddressPlace /\ stage' = [stage EXCEPT ![h] = 1]
      /\ UNCHANGED <<dev, enabled, chg, powered, gone, plugs, at, seen, retry, tries, fnVars, reqVars, loopVars, missed>>
  BY DEF SetAddr, Adding, HubInvariant
<1>2. PICK p \in Port :
          /\ at[h] = p /\ HubOf[p] = h /\ p \in powered
          /\ TypeOK /\ DriverPlace(h) /\ HandledPlace(h)
          /\ PortPlace(p) /\ FunctionPlace(p) /\ PortAgrees(p)
  BY <1>1, Place, LabelsAre
<1>3. /\ new \in [Hub -> Fn] /\ new[h].adr \in 1 .. MaxAdr /\ new[h] \in Fn
      /\ adr \in [Port -> 0 .. MaxAdr \cup {NoAdr}] /\ dev \in [Port -> 0 .. MaxPlugs]
      /\ enabled \subseteq Port
  BY <1>1, <1>2 DEF TypeOK, DriverPlace
<1>4. fn[p] = NoFn
  BY <1>1, <1>2, LabelsAre DEF HandledPlace
<1>5. PICK hear : hear = Answering(0)
  OBVIOUS
<1>6. hear \subseteq Port /\ (p \in hear => p \in enabled)
  BY <1>3, <1>5 DEF Answering
<1>7. PICK set : set = [q \in Port |-> IF q \in hear THEN new[h].adr ELSE adr[q]]
  OBVIOUS
<1>8. \/ /\ hear # {} /\ NoFault /\ adr' = set /\ GoTo(h, "init")
         /\ new' = [new EXCEPT ![h].dev = IF p \in hear THEN dev[p] ELSE dev[Min(hear)]]
      \/ (Fault \/ NoFault) /\ adr' \in {adr, set} /\ Drop(h)
  BY <1>2, <1>5, <1>7 DEF SetAddr
<1>9. /\ mixed => mixed'
      /\ hear \notin {{}, {p}} => mixed'
      /\ mixed' \in BOOLEAN
  <2>1. mixed' = (mixed \/ hear \notin {{}, {p}})
    BY <1>2, <1>5 DEF SetAddr
  <2> QED BY <2>1, Zenon
<1>10. /\ adr' \in [Port -> 0 .. MaxAdr \cup {NoAdr}]
       /\ \A q \in Port \ {p} : mixed' \/ adr'[q] = adr[q]
  <2>1. CASE adr' = adr
    BY <1>3, <2>1
  <2>2. CASE adr' = set
    <3>1. set \in [Port -> 0 .. MaxAdr \cup {NoAdr}]
      BY <1>3, <1>7, HubAssumption
    <3>2. CASE mixed'
      BY <2>2, <3>1, <3>2
    <3>3. CASE hear \in {{}, {p}}
      BY <1>7, <2>2, <3>1, <3>3
    <3> QED BY <1>9, <3>2, <3>3
  <2> QED BY <1>8, <2>1, <2>2
<1>11. faults' \in 0 .. MaxFaults
  BY <1>2, <1>8, FaultType
<1>12. stage' \in [Hub -> 1 .. Len(Gets)]
  <2>1. stage \in [Hub -> 1 .. Len(Gets)]
    BY <1>2 DEF TypeOK
  <2>2. 1 \in 1 .. Len(Gets)
    BY DEF Gets
  <2> QED BY <1>1, <2>1, <2>2
<1>13. /\ pc' \in [Hub -> Labels] /\ new' \in [Hub -> Fn] /\ new'[h].dev <= plugs
       /\ \A g \in Hub : new'[g].adr \in {new[g].adr, NoAdr}
       /\ \/ /\ pc'[h] = "init" /\ new'[h].adr = new[h].adr /\ hear # {} /\ adr' = set
             /\ (p \in hear => new'[h].dev = dev[p])
          \/ pc'[h] = "again" /\ new'[h] = NoFn
  <2>1. plugs >= 0 /\ \A q \in Port : dev[q] <= plugs
    BY <1>2, HubAssumption DEF TypeOK, HubInvariant, PortPlace
  <2>2. CASE hear # {} /\ adr' = set /\ GoTo(h, "init")
             /\ new' = [new EXCEPT ![h].dev = IF p \in hear THEN dev[p] ELSE dev[Min(hear)]]
    <3>1. Min(hear) \in Port
      BY <1>6, <2>2, MinIn, HubAssumption
    <3>2. PICK d \in 0 .. MaxPlugs :
              d <= plugs /\ (p \in hear => d = dev[p]) /\ new' = [new EXCEPT ![h].dev = d]
      <4>1. PICK q \in Port : q = IF p \in hear THEN p ELSE Min(hear)
        BY <1>2, <3>1
      <4>2. new' = [new EXCEPT ![h].dev = dev[q]] /\ (p \in hear => q = p)
        BY <2>2, <4>1
      <4>3. dev[q] \in 0 .. MaxPlugs /\ dev[q] <= plugs
        BY <1>3, <2>1
      <4> QED BY <4>2, <4>3
    <3>3. PICK f \in Fn : f = [new[h] EXCEPT !.dev = d] /\ f.adr = new[h].adr /\ f.dev = d
      BY <1>3, FnWithDev
    <3>4. new' = [new EXCEPT ![h] = f]
      BY <3>2, <3>3
    <3>5. pc' \in [Hub -> Labels] /\ pc'[h] = "init"
      BY <1>2, <2>2, GoToType, LabelsAre
    <3> QED BY <1>3, <2>2, <3>2, <3>3, <3>4, <3>5
  <2>3. CASE Drop(h)
    <3>1. pc' \in [Hub -> Labels] /\ pc'[h] = "again"
      BY <1>2, <2>3, GoToType, LabelsAre DEF Drop
    <3>2. new' = [new EXCEPT ![h] = NoFn]
      BY <2>3 DEF Drop
    <3> QED BY <1>3, <2>1, <3>1, <3>2, NoFnIs
  <2> QED BY <1>8, <2>2, <2>3
<1>14. TypeOK'
  BY <1>1, <1>2, <1>9, <1>10, <1>11, <1>12, <1>13 DEF TypeOK, fnVars, reqVars, loopVars
<1>15. NoLostChange'
  BY <1>1 DEF HubInvariant, NoLostChange, Changed, reqVars
<1>16. DriverPlace(h)'
  BY <1>1, <1>2, <1>3, <1>13, LabelsAre DEF DriverPlace, reqVars, loopVars
<1>17. HandledPlace(h)'
  <2>1. pc'[h] = "init" /\ ~ mixed' => p \in enabled /\ new'[h].dev = dev[p] /\ new'[h].adr = adr'[p]
    <3>1. pc'[h] = "init" /\ ~ mixed' => p \in hear
      BY <1>9, <1>13
    <3> QED BY <1>3, <1>6, <1>7, <1>13, <3>1
  <2> QED BY <1>1, <1>2, <1>4, <1>13, <2>1, LabelsAre DEF HandledPlace, fnVars
<1>18. PortPlace(p)'
  BY <1>1, <1>2 DEF PortPlace, fnVars
<1>19. p \in Handled' /\ p \in Cleared'
  BY <1>1, <1>2, <1>13, LabelsAre DEF Handled, Cleared
<1>20. FunctionPlace(p)'
  BY <1>1, <1>4, <1>19, NoFnIs DEF FunctionPlace, fnVars
<1>21. PortAgrees(p)'
  BY <1>19 DEF PortAgrees
<1>22. AddressPlace'
  BY <1>1, <1>13, AddressNew
<1> QED BY <1>1, <1>2, <1>10, <1>14, <1>15, <1>16, <1>17, <1>18, <1>20, <1>21, <1>22, AddingStep

LEMMA InitFunctionStep ==
    ASSUME HubInvariant, NEW h \in Hub, InitFunction(h) PROVE HubInvariant'
<1>1. /\ pc[h] = "init" /\ Adding(h) /\ AddressPlace
      /\ UNCHANGED <<busVars, at, seen, retry, old, reqVars, loopVars, missed>>
  BY DEF InitFunction, Adding, HubInvariant
<1>2. PICK p \in Port :
          /\ at[h] = p /\ HubOf[p] = h /\ p \in powered
          /\ TypeOK /\ DriverPlace(h) /\ HandledPlace(h)
          /\ PortPlace(p) /\ FunctionPlace(p) /\ PortAgrees(p)
  BY <1>1, Place, LabelsAre
<1>3. /\ new \in [Hub -> Fn] /\ fn \in [Port -> Fn] /\ pc \in [Hub -> Labels]
      /\ stage \in [Hub -> 1 .. Len(Gets)] /\ tries \in [Hub -> 0 .. Tries - 1]
  BY <1>2 DEF TypeOK
<1>4. new[h].adr \in 1 .. MaxAdr /\ new[h].dev <= plugs
  BY <1>1, <1>2 DEF DriverPlace
<1>5. /\ fn[p] = NoFn
      /\ ~ mixed =>
            /\ new[h].dev = dev[p] \/ h \in gone \/ "connection" \in chg[p]
            /\ p \in enabled => new[h].dev = dev[p]
            /\ new[h].dev = dev[p] /\ dev[p] # 0 => p \in enabled /\ new[h].adr = adr[p]
  BY <1>1, <1>2, LabelsAre DEF HandledPlace
<1>6. \/ Bind(h) \/ (Drop(h) /\ fn' = fn) \/ UNCHANGED <<pc, fn, new>>
  BY DEF InitFunction
<1>7. faults' \in 0 .. MaxFaults
  <2>1. Fault \/ NoFault
    BY DEF InitFunction
  <2> QED BY <1>2, <2>1, FaultType
<1>8. stage' \in [Hub -> 1 .. Len(Gets)]
  <2>1. stage' = stage \/ (stage[h] # Len(Gets) /\ stage' = [stage EXCEPT ![h] = @ + 1])
    BY DEF InitFunction, LastStage
  <2>2. Len(Gets) = 3
    BY DEF Gets
  <2> QED BY <1>3, <2>1, <2>2
<1>9. tries' \in [Hub -> 0 .. Tries - 1]
  <2>1. \/ tries' = tries \/ tries' = [tries EXCEPT ![h] = 0]
        \/ tries[h] + 1 # Tries /\ tries' = [tries EXCEPT ![h] = @ + 1]
    BY DEF InitFunction
  <2>2. Tries \in Nat \ {0}
    BY HubAssumption
  <2> QED BY <1>3, <2>1, <2>2
<1>10. NoLostChange'
  BY <1>1 DEF HubInvariant, NoLostChange, Changed, busVars, reqVars
<1>11. plugs >= 0
  BY <1>2, HubAssumption DEF TypeOK
<1>12. adr' = adr
  BY <1>1 DEF busVars
<1>13. CASE Bind(h)
  <2>1. /\ fn' = [fn EXCEPT ![p] = new[h]] /\ new' = [new EXCEPT ![h] = NoFn]
        /\ pc' \in [Hub -> Labels] /\ pc'[h] = "next"
    BY <1>2, <1>13, GoToType, LabelsAre DEF Bind
  <2>2. /\ fn' \in [Port -> Fn] /\ fn'[p] = new[h] /\ \A q \in Port : q # p => fn'[q] = fn[q]
        /\ new' \in [Hub -> Fn] /\ new'[h] = NoFn /\ \A g \in Hub : g # h => new'[g] = new[g]
    BY <1>3, <2>1, NoFnIs
  <2>3. TypeOK'
    BY <1>1, <1>2, <1>7, <1>8, <1>9, <2>1, <2>2 DEF TypeOK, busVars, reqVars, loopVars
  <2>4. DriverPlace(h)'
    BY <1>1, <1>2, <1>11, <2>1, <2>2, LabelsAre, NoFnIs DEF DriverPlace, busVars, reqVars, loopVars
  <2>5. HandledPlace(h)'
    BY <2>1, LabelsAre DEF HandledPlace
  <2>6. PortPlace(p)'
    BY <1>1, <1>2, <1>4, <2>2 DEF PortPlace, busVars
  <2>7. FunctionPlace(p)'
    BY <1>1, <1>5, <2>2 DEF FunctionPlace, busVars
  <2>8. PortAgrees(p)'
    BY <1>1, <1>2, <1>5, <2>2 DEF PortAgrees, Serves, busVars, loopVars
  <2>9. AddressPlace'
    <3>1. fn[p].adr = NoAdr /\ new'[h].adr = NoAdr /\ new[h].adr # NoAdr /\ old' = old
      BY <1>1, <1>4, <1>5, <2>2, NoFnIs, HubAssumption DEF NoAdr
    <3>2. \A q, x \in Port : fn'[q].adr # NoAdr /\ fn'[q].adr = fn'[x].adr => q = x
      BY <1>1, <2>2, <3>1 DEF AddressPlace
    <3>3. \A g \in Hub, q \in Port : new'[g].adr # NoAdr => new'[g].adr # fn'[q].adr
      BY <1>1, <2>2, <3>1 DEF AddressPlace
    <3>4. \A k, g \in Hub : new'[k].adr # NoAdr /\ new'[k].adr = new'[g].adr => k = g
      BY <1>1, <2>2, <3>1 DEF AddressPlace
    <3>5. \A k \in Hub : \A f \in old'[k] :
              /\ f.adr # NoAdr
              /\ \A q \in Port : f.adr # fn'[q].adr
              /\ \A g \in Hub : f.adr # new'[g].adr /\ \A x \in old'[g] : f.adr = x.adr => f = x /\ k = g
      BY <1>1, <2>2, <3>1 DEF AddressPlace
    <3> QED BY <3>2, <3>3, <3>4, <3>5 DEF AddressPlace
  <2> QED BY <1>1, <1>2, <1>10, <1>12, <2>3, <2>4, <2>5, <2>6, <2>7, <2>8, <2>9, AddingStep
<1>14. CASE (Drop(h) /\ fn' = fn) \/ UNCHANGED <<pc, fn, new>>
  <2>1. /\ pc' \in [Hub -> Labels] /\ new' \in [Hub -> Fn] /\ fn' = fn /\ new'[h].dev <= plugs
        /\ \A g \in Hub : new'[g].adr \in {new[g].adr, NoAdr}
        /\ \/ pc'[h] = "again" /\ new'[h] = NoFn
           \/ pc' = pc /\ new' = new
    <3>1. CASE Drop(h) /\ fn' = fn
      <4>1. pc' \in [Hub -> Labels] /\ pc'[h] = "again" /\ new' = [new EXCEPT ![h] = NoFn]
        BY <1>2, <3>1, GoToType, LabelsAre DEF Drop
      <4> QED BY <1>3, <1>11, <3>1, <4>1, NoFnIs
    <3>2. CASE UNCHANGED <<pc, fn, new>>
      BY <1>3, <1>4, <3>2
    <3> QED BY <1>14, <3>1, <3>2
  <2>2. TypeOK'
    BY <1>1, <1>2, <1>7, <1>8, <1>9, <2>1 DEF TypeOK, busVars, reqVars, loopVars
  <2>3. DriverPlace(h)'
    BY <1>1, <1>2, <2>1, LabelsAre DEF DriverPlace, busVars, reqVars, loopVars
  <2>4. HandledPlace(h)'
    BY <1>1, <1>2, <1>5, <2>1, LabelsAre DEF HandledPlace, busVars
  <2>5. PortPlace(p)'
    BY <1>1, <1>2, <2>1 DEF PortPlace, busVars
  <2>6. p \in Handled' /\ p \in Cleared'
    BY <1>1, <1>2, <2>1, LabelsAre DEF Handled, Cleared
  <2>7. FunctionPlace(p)'
    BY <1>1, <1>5, <2>1, <2>6, NoFnIs DEF FunctionPlace, busVars
  <2>8. PortAgrees(p)'
    BY <2>6 DEF PortAgrees
  <2>9. AddressPlace'
    BY <1>1, <2>1, AddressNew DEF fnVars
  <2> QED BY <1>1, <1>2, <1>10, <1>12, <2>2, <2>3, <2>4, <2>5, <2>7, <2>8, <2>9, AddingStep
<1> QED BY <1>6, <1>13, <1>14

-----------------------------------------------------------------------------
(* What happens at the ports, and the HCD task *)

\* A step outside the drivers, which does something to the ports T and to the state of the
\* drivers of G.
LEMMA OutsideStep ==
    ASSUME HubInvariant, NEW T \in SUBSET Port, NEW G \in SUBSET Hub,
           UNCHANGED <<fn, new, old, powered, known, mixed, pc, at>>, running' \subseteq running,
           plugs <= plugs', gone \subseteq gone',
           \A g \in Hub \ G : /\ SameDriver(g) /\ (g \in gone' <=> g \in gone)
                              /\ (pc[g] \in Handling => at[g] \notin T),
           \A q \in Port \ T : /\ SamePort(q) /\ adr'[q] = adr[q]
                               /\ (HubOf[q] \in gone' <=> HubOf[q] \in gone),
           TypeOK', NoLostChange', \A g \in G : DriverPlace(g)' /\ HandledPlace(g)',
           \A q \in T : PortPlace(q)' /\ FunctionPlace(q)' /\ PortAgrees(q)'
    PROVE  HubInvariant'
<1>1. plugs \in Int /\ plugs' \in Int
  BY HubAssumption DEF HubInvariant, TypeOK
<1>2. AddressPlace'
  BY AddressFrame DEF HubInvariant
<1>3. ASSUME NEW g \in Hub \ G PROVE DriverPlace(g)' /\ HandledPlace(g)'
  <2>1. DriverPlace(g) /\ HandledPlace(g) /\ SameDriver(g) /\ new[g].dev \in Int
    BY <1>3, Types DEF HubInvariant
  <2>2. pc[g] \in Handling => at[g] \in Port \ T
    BY <1>3, <2>1 DEF DriverPlace, Ports
  <2>3. DriverPlace(g)'
    <3>1. Ports(g) \cap powered' = Ports(g) \cap powered
      OBVIOUS
    <3> QED BY <1>1, <2>1, <3>1, DriverFrame
  <2>4. HandledPlace(g)'
    BY <1>3, <2>1, <2>2, HandledFrame
  <2> QED BY <2>3, <2>4
<1>4. ASSUME NEW q \in Port \ T PROVE PortPlace(q)' /\ FunctionPlace(q)' /\ PortAgrees(q)'
  <2>1. /\ PortPlace(q) /\ FunctionPlace(q) /\ PortAgrees(q) /\ SamePort(q)
        /\ dev[q] \in Int /\ fn[q].dev \in Int
    BY <1>4, Types DEF HubInvariant
  <2>2. Stays(q)
    BY DEF Handled, Cleared, Stays
  <2>3. Serves(HubOf[q])' => Serves(HubOf[q])
    BY DEF Serves
  <2>4. PortPlace(q)'
    BY <1>1, <1>4, <2>1, PortFrame
  <2>5. FunctionPlace(q)'
    BY <1>4, <2>1, <2>2, FunctionFrame DEF Stays
  <2>6. PortAgrees(q)'
    BY <1>4, <2>1, <2>2, <2>3, AgreesFrame DEF Stays
  <2> QED BY <2>4, <2>5, <2>6
<1> QED BY <1>2, <1>3, <1>4 DEF HubInvariant

\* A change bit of a port is raised, and with it the signal if the port is the root hub's.
LEMMA RaiseIsSeen ==
    ASSUME TypeOK, NoLostChange, NEW p \in Port, NEW b \in {"connection", "reset"}, Raise(p, b),
           req' = req, powered' = powered
    PROVE  /\ chg' \in [Port -> SUBSET {"connection", "reset"}] /\ b \in chg'[p]
           /\ \A q \in Port \ {p} : chg'[q] = chg[q]
           /\ sig' \in BOOLEAN /\ NoLostChange'
<1>1. /\ chg' \in [Port -> SUBSET {"connection", "reset"}] /\ b \in chg'[p]
      /\ \A q \in Port \ {p} : chg'[q] = chg[q]
  BY DEF TypeOK, Raise
<1>2. sig' \in BOOLEAN /\ (sig => sig') /\ (HubOf[p] = root => sig')
  BY Zenon DEF Raise
<1>3. CASE HubOf[p] = root
  BY <1>1, <1>2, <1>3 DEF NoLostChange
<1>4. CASE HubOf[p] # root
  <2>1. \A q \in Ports(root) : chg'[q] = chg[q]
    BY <1>1, <1>4 DEF Ports
  <2> QED BY <1>1, <1>2, <2>1 DEF NoLostChange, Changed
<1> QED BY <1>1, <1>2, <1>3, <1>4

\* A port is handled by the driver of its own hub only.
LEMMA Untouched ==
    ASSUME HubInvariant, NEW p \in Port, NEW g \in Hub, g # HubOf[p], pc[g] \in Handling
    PROVE  at[g] # p
<1>1. HubOf[at[g]] = g
  BY DEF HubInvariant, DriverPlace, Ports
<1> QED BY <1>1 DEF Handled

LEMMA PlugStep ==
    ASSUME HubInvariant, NEW p \in Port, Plug(p) PROVE HubInvariant'
<1>1. /\ TypeOK /\ NoLostChange /\ p \in powered /\ dev[p] = 0 /\ plugs < MaxPlugs /\ HubOf[p] \notin gone
      /\ PortPlace(p) /\ FunctionPlace(p)
      /\ plugs' = plugs + 1 /\ dev' = [dev EXCEPT ![p] = plugs + 1] /\ adr' = [adr EXCEPT ![p] = NoAdr]
      /\ Raise(p, "connection") /\ missed' = [missed EXCEPT ![p] = "no"]
      /\ UNCHANGED <<enabled, powered, gone, mixed, addVars, fnVars, req, data, loopVars, pc, faults>>
  BY DEF Plug, HubInvariant
<1>2. /\ dev \in [Port -> 0 .. MaxPlugs] /\ adr \in [Port -> 0 .. MaxAdr \cup {NoAdr}]
      /\ missed \in [Port -> {"no", "kept", "failed", "lost"}] /\ plugs \in 0 .. MaxPlugs /\ MaxPlugs \in Nat
      /\ fn[p].dev \in Int
  <2>1. /\ dev \in [Port -> 0 .. MaxPlugs] /\ adr \in [Port -> 0 .. MaxAdr \cup {NoAdr}]
        /\ missed \in [Port -> {"no", "kept", "failed", "lost"}] /\ plugs \in 0 .. MaxPlugs
    BY <1>1 DEF TypeOK
  <2>2. fn[p].dev \in Int
    BY <1>1, Types
  <2> QED BY <2>1, <2>2, HubAssumption
<1>3. /\ dev' \in [Port -> 0 .. MaxPlugs] /\ dev'[p] = plugs + 1 /\ \A q \in Port \ {p} : dev'[q] = dev[q]
      /\ plugs' \in 0 .. MaxPlugs
  BY <1>1, <1>2
<1>4. /\ adr' \in [Port -> 0 .. MaxAdr \cup {NoAdr}] /\ \A q \in Port \ {p} : adr'[q] = adr[q]
      /\ missed' \in [Port -> {"no", "kept", "failed", "lost"}] /\ \A q \in Port \ {p} : missed'[q] = missed[q]
  BY <1>1, <1>2
<1>5. /\ chg' \in [Port -> SUBSET {"connection", "reset"}] /\ "connection" \in chg'[p]
      /\ \A q \in Port \ {p} : chg'[q] = chg[q]
      /\ sig' \in BOOLEAN /\ NoLostChange'
  BY <1>1, RaiseIsSeen
<1>6. TypeOK'
  BY <1>1, <1>3, <1>4, <1>5 DEF TypeOK, addVars, fnVars, loopVars
<1>7. p \notin enabled /\ fn[p].dev <= plugs
  BY <1>1 DEF PortPlace
<1>8. PortPlace(p)'
  BY <1>1, <1>2, <1>3, <1>7 DEF PortPlace, fnVars
<1>9. FunctionPlace(p)'
  BY <1>1, <1>2, <1>3, <1>7 DEF FunctionPlace, fnVars
<1>10. PortAgrees(p)'
  BY <1>5 DEF PortAgrees
<1>11. /\ UNCHANGED <<fn, new, old, powered, known, mixed, pc, at, running, gone>>
       /\ plugs <= plugs' /\ \A g \in Hub : SameDriver(g)
  BY <1>1, <1>2 DEF SameDriver, addVars, fnVars, loopVars
<1>12. \A q \in Port \ {p} : SamePort(q) /\ adr'[q] = adr[q]
  BY <1>1, <1>3, <1>4, <1>5 DEF SamePort, fnVars
<1>13. PICK h \in Hub : h = HubOf[p]
  BY HubAssumption
<1>14. \A g \in Hub \ {h} : pc[g] \in Handling => at[g] # p
  BY <1>13, Untouched
<1>15. DriverPlace(h) /\ HandledPlace(h) /\ new[h].dev \in Int
  BY <1>1, Types DEF HubInvariant
<1>16. DriverPlace(h)'
  BY <1>1, <1>2, <1>11, <1>15, DriverFrame
<1>17. HandledPlace(h)'
  <2>1. CASE at[h] = p
    <3>1. new[h].dev # dev'[p] /\ p \notin enabled' /\ "connection" \in chg'[p]
      BY <1>1, <1>2, <1>3, <1>5, <1>7, <1>15 DEF DriverPlace
    <3> QED BY <1>11, <1>15, <2>1, <3>1 DEF HandledPlace
  <2>2. CASE at[h] # p /\ pc[h] \in Handling
    <3>1. at[h] \in Port
      BY <1>15, <2>2 DEF DriverPlace, Ports
    <3> QED BY <1>11, <1>12, <1>15, <2>2, <3>1, HandledFrame
  <2>3. CASE pc[h] \notin Handling
    BY <1>11, <2>3 DEF HandledPlace
  <2> QED BY <2>1, <2>2, <2>3
<1> DEFINE T == {p}
           G == {h}
<1>18. /\ T \in SUBSET Port /\ G \in SUBSET Hub
       /\ \A g \in Hub \ G : /\ SameDriver(g) /\ (g \in gone' <=> g \in gone)
                             /\ (pc[g] \in Handling => at[g] \notin T)
       /\ \A q \in Port \ T : SamePort(q) /\ adr'[q] = adr[q] /\ (HubOf[q] \in gone' <=> HubOf[q] \in gone)
       /\ \A g \in G : DriverPlace(g)' /\ HandledPlace(g)'
       /\ \A q \in T : PortPlace(q)' /\ FunctionPlace(q)' /\ PortAgrees(q)'
  BY <1>8, <1>9, <1>10, <1>11, <1>12, <1>14, <1>16, <1>17
<1> HIDE DEF T, G
<1> QED BY <1>5, <1>6, <1>11, <1>18, OutsideStep

LEMMA UnplugStep ==
    ASSUME HubInvariant, NEW p \in Port, Unplug(p) PROVE HubInvariant'
<1>1. /\ TypeOK /\ NoLostChange /\ PortPlace(p) /\ FunctionPlace(p)
      /\ dev' = [dev EXCEPT ![p] = 0] /\ adr' = [adr EXCEPT ![p] = NoAdr] /\ enabled' = enabled \ {p}
      /\ Raise(p, "connection") /\ missed' = [missed EXCEPT ![p] = "no"]
      /\ UNCHANGED <<powered, gone, plugs, mixed, addVars, fnVars, req, data, loopVars, pc, faults>>
  BY DEF Unplug, HubInvariant
<1>2. /\ dev \in [Port -> 0 .. MaxPlugs] /\ adr \in [Port -> 0 .. MaxAdr \cup {NoAdr}]
      /\ missed \in [Port -> {"no", "kept", "failed", "lost"}] /\ plugs \in Int /\ plugs >= 0
      /\ enabled \subseteq Port
  <2>1. /\ dev \in [Port -> 0 .. MaxPlugs] /\ adr \in [Port -> 0 .. MaxAdr \cup {NoAdr}]
        /\ missed \in [Port -> {"no", "kept", "failed", "lost"}] /\ plugs \in 0 .. MaxPlugs
        /\ enabled \subseteq Port
    BY <1>1 DEF TypeOK
  <2> QED BY <2>1, HubAssumption
<1>3. /\ dev' \in [Port -> 0 .. MaxPlugs] /\ dev'[p] = 0 /\ \A q \in Port \ {p} : dev'[q] = dev[q]
  BY <1>1, <1>2, HubAssumption
<1>4. /\ adr' \in [Port -> 0 .. MaxAdr \cup {NoAdr}] /\ \A q \in Port \ {p} : adr'[q] = adr[q]
      /\ missed' \in [Port -> {"no", "kept", "failed", "lost"}] /\ \A q \in Port \ {p} : missed'[q] = missed[q]
      /\ enabled' \subseteq Port
  BY <1>1, <1>2
<1>5. /\ chg' \in [Port -> SUBSET {"connection", "reset"}] /\ "connection" \in chg'[p]
      /\ \A q \in Port \ {p} : chg'[q] = chg[q]
      /\ sig' \in BOOLEAN /\ NoLostChange'
  BY <1>1, RaiseIsSeen
<1>6. TypeOK'
  BY <1>1, <1>3, <1>4, <1>5 DEF TypeOK, addVars, fnVars, loopVars
<1>7. p \notin enabled'
  BY <1>1
<1>8. PortPlace(p)'
  BY <1>1, <1>2, <1>3, <1>7 DEF PortPlace, fnVars
<1>9. FunctionPlace(p)'
  BY <1>3, <1>7 DEF FunctionPlace
<1>10. PortAgrees(p)'
  BY <1>5 DEF PortAgrees
<1>11. /\ UNCHANGED <<fn, new, old, powered, known, mixed, pc, at, running, gone>>
       /\ plugs <= plugs' /\ \A g \in Hub : SameDriver(g)
  BY <1>1, <1>2 DEF SameDriver, addVars, fnVars, loopVars
<1>12. \A q \in Port \ {p} : SamePort(q) /\ adr'[q] = adr[q]
  BY <1>1, <1>3, <1>4, <1>5 DEF SamePort, fnVars
<1>13. PICK h \in Hub : h = HubOf[p]
  BY HubAssumption
<1>14. \A g \in Hub \ {h} : pc[g] \in Handling => at[g] # p
  BY <1>13, Untouched
<1>15. DriverPlace(h) /\ HandledPlace(h) /\ new[h].dev \in Int
  BY <1>1, Types DEF HubInvariant
<1>16. DriverPlace(h)'
  BY <1>1, <1>2, <1>11, <1>15, DriverFrame
<1>17. HandledPlace(h)'
  <2>1. CASE at[h] = p
    BY <1>1, <1>3, <1>5, <1>7, <1>11, <1>15, <2>1 DEF HandledPlace, DriverPlace
  <2>2. CASE at[h] # p /\ pc[h] \in Handling
    <3>1. at[h] \in Port
      BY <1>15, <2>2 DEF DriverPlace, Ports
    <3> QED BY <1>11, <1>12, <1>15, <2>2, <3>1, HandledFrame
  <2>3. CASE pc[h] \notin Handling
    BY <1>11, <2>3 DEF HandledPlace
  <2> QED BY <2>1, <2>2, <2>3
<1> DEFINE T == {p}
           G == {h}
<1>18. /\ T \in SUBSET Port /\ G \in SUBSET Hub
       /\ \A g \in Hub \ G : /\ SameDriver(g) /\ (g \in gone' <=> g \in gone)
                             /\ (pc[g] \in Handling => at[g] \notin T)
       /\ \A q \in Port \ T : SamePort(q) /\ adr'[q] = adr[q] /\ (HubOf[q] \in gone' <=> HubOf[q] \in gone)
       /\ \A g \in G : DriverPlace(g)' /\ HandledPlace(g)'
       /\ \A q \in T : PortPlace(q)' /\ FunctionPlace(q)' /\ PortAgrees(q)'
  BY <1>8, <1>9, <1>10, <1>11, <1>12, <1>14, <1>16, <1>17
<1> HIDE DEF T, G
<1> QED BY <1>5, <1>6, <1>11, <1>18, OutsideStep

LEMMA UnplugHubStep ==
    ASSUME HubInvariant, NEW h \in Hub, UnplugHub(h) PROVE HubInvariant'
<1>1. /\ TypeOK /\ NoLostChange /\ DriverPlace(h) /\ HandledPlace(h) /\ h # root
      /\ gone' = gone \cup {h} /\ enabled' = enabled \ Ports(h)
      /\ dev' = [p \in Port |-> IF HubOf[p] = h THEN 0 ELSE dev[p]]
      /\ adr' = [p \in Port |-> IF HubOf[p] = h THEN NoAdr ELSE adr[p]]
      /\ chg' = [p \in Port |-> IF HubOf[p] = h THEN {} ELSE chg[p]]
      /\ missed' = [p \in Port |-> IF HubOf[p] = h THEN "no" ELSE missed[p]]
      /\ UNCHANGED <<powered, plugs, mixed, addVars, fnVars, reqVars, loopVars, pc, faults>>
  BY DEF UnplugHub, HubInvariant
<1>2. /\ dev \in [Port -> 0 .. MaxPlugs] /\ adr \in [Port -> 0 .. MaxAdr \cup {NoAdr}]
      /\ missed \in [Port -> {"no", "kept", "failed", "lost"}] /\ plugs \in Int /\ plugs >= 0
      /\ enabled \subseteq Port /\ chg \in [Port -> SUBSET {"connection", "reset"}]
      /\ gone \subseteq Hub \ {root}
  <2>1. /\ dev \in [Port -> 0 .. MaxPlugs] /\ adr \in [Port -> 0 .. MaxAdr \cup {NoAdr}]
        /\ missed \in [Port -> {"no", "kept", "failed", "lost"}] /\ plugs \in 0 .. MaxPlugs
        /\ enabled \subseteq Port /\ chg \in [Port -> SUBSET {"connection", "reset"}]
        /\ gone \subseteq Hub \ {root}
    BY <1>1 DEF TypeOK
  <2> QED BY <2>1, HubAssumption
<1>3. /\ dev' \in [Port -> 0 .. MaxPlugs] /\ adr' \in [Port -> 0 .. MaxAdr \cup {NoAdr}]
      /\ missed' \in [Port -> {"no", "kept", "failed", "lost"}] /\ chg' \in [Port -> SUBSET {"connection", "reset"}]
      /\ enabled' \subseteq Port /\ gone' \subseteq Hub \ {root} /\ h \in gone'
  <2>1. dev' \in [Port -> 0 .. MaxPlugs] /\ adr' \in [Port -> 0 .. MaxAdr \cup {NoAdr}]
    BY <1>1, <1>2, HubAssumption
  <2>2. missed' \in [Port -> {"no", "kept", "failed", "lost"}] /\ chg' \in [Port -> SUBSET {"connection", "reset"}]
    BY <1>1, <1>2
  <2>3. enabled' \subseteq Port /\ gone' \subseteq Hub \ {root} /\ h \in gone'
    BY <1>1, <1>2
  <2> QED BY <2>1, <2>2, <2>3
<1>4. \A q \in Port \ Ports(h) : SamePort(q) /\ adr'[q] = adr[q]
  BY <1>1, <1>2 DEF SamePort, Ports, fnVars
<1>5. \A q \in Ports(h) : q \in Port /\ HubOf[q] = h /\ dev'[q] = 0 /\ q \notin enabled' /\ chg'[q] = {}
  BY <1>1, <1>2 DEF Ports
<1>6. TypeOK'
  BY <1>1, <1>3 DEF TypeOK, addVars, fnVars, reqVars, loopVars
<1>7. NoLostChange'
  <2>1. \A q \in Ports(root) : chg'[q] = chg[q]
    BY <1>1, <1>4 DEF SamePort, Ports
  <2> QED BY <1>1, <2>1 DEF NoLostChange, Changed, reqVars
<1>8. ASSUME NEW q \in Ports(h) PROVE PortPlace(q)' /\ FunctionPlace(q)' /\ PortAgrees(q)'
  <2>1. q \in Port /\ PortPlace(q)
    BY <1>5 DEF HubInvariant
  <2>2. PortPlace(q)'
    BY <1>1, <1>2, <1>5, <2>1 DEF PortPlace, fnVars
  <2>3. FunctionPlace(q)'
    BY <1>5 DEF FunctionPlace
  <2>4. PortAgrees(q)'
    BY <1>3, <1>5 DEF PortAgrees, Serves
  <2> QED BY <2>2, <2>3, <2>4
<1>9. /\ UNCHANGED <<fn, new, old, powered, known, mixed, pc, at, seen, running>>
      /\ plugs <= plugs' /\ gone \subseteq gone' /\ \A g \in Hub : SameDriver(g)
  BY <1>1, <1>2 DEF SameDriver, addVars, fnVars, reqVars, loopVars
<1>10. DriverPlace(h)'
  <2>1. new[h].dev \in Int
    BY <1>1, Types
  <2> QED BY <1>1, <1>2, <1>9, <2>1, DriverFrame
<1>11. HandledPlace(h)'
  <2>1. pc[h] \in Handling => at[h] \in Ports(h)
    BY <1>1 DEF DriverPlace
  <2>2. pc[h] \in Handling => at[h] \notin enabled' /\ dev'[at[h]] = 0
    BY <1>5, <2>1
  <2> QED BY <1>1, <1>3, <1>9, <2>2 DEF HandledPlace
<1>12. \A g \in Hub \ {h} : pc[g] \in Handling => at[g] \notin Ports(h)
  BY DEF HubInvariant, DriverPlace, Ports
<1> DEFINE T == Ports(h)
           G == {h}
<1>13. /\ T \in SUBSET Port /\ G \in SUBSET Hub
       /\ \A g \in Hub \ G : /\ SameDriver(g) /\ (g \in gone' <=> g \in gone)
                             /\ (pc[g] \in Handling => at[g] \notin T)
       /\ \A q \in Port \ T : SamePort(q) /\ adr'[q] = adr[q] /\ (HubOf[q] \in gone' <=> HubOf[q] \in gone)
       /\ \A g \in G : DriverPlace(g)' /\ HandledPlace(g)'
       /\ \A q \in T : PortPlace(q)' /\ FunctionPlace(q)' /\ PortAgrees(q)'
  <2>1. T \in SUBSET Port /\ \A q \in Port \ T : HubOf[q] # h
    BY DEF Ports
  <2> QED BY <1>1, <1>4, <1>8, <1>9, <1>10, <1>11, <1>12, <2>1
<1> HIDE DEF T, G
<1> QED BY <1>6, <1>7, <1>9, <1>13, OutsideStep

\* A step that only touches the drivers' own state, at no port.
LEMMA DriversStep ==
    ASSUME HubInvariant, NEW G \in SUBSET Hub,
           UNCHANGED <<busVars, fn, new, old, known, pc, at, missed>>, running' \subseteq running,
           \A g \in Hub \ G : SameDriver(g),
           TypeOK', NoLostChange', \A g \in G : DriverPlace(g)' /\ HandledPlace(g)'
    PROVE  HubInvariant'
<1> DEFINE T == {}
<1>1. /\ T \in SUBSET Port
      /\ \A g \in Hub \ G : SameDriver(g) /\ (g \in gone' <=> g \in gone) /\ (pc[g] \in Handling => at[g] \notin T)
      /\ \A q \in Port \ T : SamePort(q) /\ adr'[q] = adr[q] /\ (HubOf[q] \in gone' <=> HubOf[q] \in gone)
      /\ \A q \in T : PortPlace(q)' /\ FunctionPlace(q)' /\ PortAgrees(q)'
  BY DEF SamePort, busVars
<1>2. plugs \in Int /\ UNCHANGED <<powered, mixed, plugs, gone>>
  BY HubAssumption DEF HubInvariant, TypeOK, busVars
<1>3. plugs <= plugs' /\ gone \subseteq gone'
  BY <1>2
<1> HIDE DEF T
<1> QED BY <1>1, <1>2, <1>3, OutsideStep

LEMMA StopStep ==
    ASSUME HubInvariant, NEW h \in Hub, Stop(h) PROVE HubInvariant'
<1>1. /\ TypeOK /\ DriverPlace(h) /\ HandledPlace(h) /\ running' = running \ {h}
      /\ UNCHANGED <<busVars, addVars, fnVars, reqVars, known, errors, todo, pc, faults, missed>>
  BY DEF Stop, HubInvariant
<1>2. TypeOK'
  <2>1. running' \subseteq Hub
    BY <1>1 DEF TypeOK
  <2> QED BY <1>1, <2>1 DEF TypeOK, busVars, addVars, fnVars, reqVars
<1>3. NoLostChange'
  BY <1>1 DEF HubInvariant, NoLostChange, Changed, busVars, reqVars
<1>4. DriverPlace(h)'
  BY <1>1 DEF DriverPlace, busVars, addVars, reqVars
<1>5. HandledPlace(h)'
  BY <1>1 DEF HandledPlace, Missed, busVars, addVars, fnVars
<1>6. \A g \in Hub \ {h} : SameDriver(g)
  BY <1>1 DEF SameDriver, addVars, reqVars
<1>7. UNCHANGED <<busVars, fn, new, old, known, pc, at, missed>> /\ running' \subseteq running
  BY <1>1 DEF addVars, fnVars
<1>8. {h} \in SUBSET Hub /\ \A g \in {h} : DriverPlace(g)' /\ HandledPlace(g)'
  BY <1>4, <1>5
<1> QED BY <1>2, <1>3, <1>6, <1>7, <1>8, DriversStep

LEMMA HandleReadStep ==
    ASSUME HubInvariant, HandleRead PROVE HubInvariant'
<1>1. /\ TypeOK /\ DriverPlace(root) /\ HandledPlace(root) /\ root \in Hub /\ req[root] = "sent"
      /\ req' = [req EXCEPT ![root] = "listed"] /\ sig' = TRUE
      /\ UNCHANGED <<busVars, addVars, fnVars, data, loopVars, pc, faults, missed>>
  BY HubAssumption DEF HandleRead, ReadSignals, HubInvariant
<1>2. /\ req' \in [Hub -> {"idle", "sent", "listed", "replied"}] /\ \A g \in Hub \ {root} : req'[g] = req[g]
  BY <1>1 DEF TypeOK
<1>3. TypeOK'
  BY <1>1, <1>2 DEF TypeOK, busVars, addVars, fnVars, loopVars
<1>4. NoLostChange'
  BY <1>1 DEF NoLostChange
<1>5. DriverPlace(root)'
  BY <1>1 DEF DriverPlace, busVars, addVars, loopVars
<1>6. HandledPlace(root)'
  BY <1>1 DEF HandledPlace, Missed, busVars, addVars, fnVars
<1>7. \A g \in Hub \ {root} : SameDriver(g)
  BY <1>1, <1>2 DEF SameDriver, addVars, loopVars
<1>8. UNCHANGED <<busVars, fn, new, old, known, pc, at, missed>> /\ running' \subseteq running
  BY <1>1 DEF addVars, fnVars, loopVars
<1>9. {root} \in SUBSET Hub /\ \A g \in {root} : DriverPlace(g)' /\ HandledPlace(g)'
  BY <1>1, <1>5, <1>6
<1> QED BY <1>3, <1>4, <1>7, <1>8, <1>9, DriversStep

LEMMA HandleChgStep ==
    ASSUME HubInvariant, HandleChg PROVE HubInvariant'
<1>1. /\ TypeOK /\ DriverPlace(root) /\ HandledPlace(root) /\ root \in Hub /\ sig' = FALSE
      /\ UNCHANGED <<busVars, addVars, fnVars, loopVars, pc, faults, missed>>
  BY HubAssumption DEF HandleChg, HubInvariant
<1>2. \/ /\ req[root] = "listed" /\ req' = [req EXCEPT ![root] = "replied"]
         /\ data' = [data EXCEPT ![root] = Bits(Changed(root))]
      \/ ~ (req[root] = "listed" /\ Changed(root) # {}) /\ UNCHANGED <<req, data>>
  BY DEF HandleChg
<1>3. /\ Changed(root) \subseteq Ports(root) \cap powered
      /\ Bits(Changed(root)) \in Result /\ Bits(Changed(root)).ports = Changed(root)
  <2>1. Changed(root) \subseteq Ports(root) \cap powered /\ Changed(root) \in SUBSET Port
    BY DEF Changed, Ports
  <2> QED BY <2>1, ResultsAre
<1>4. /\ req' \in [Hub -> {"idle", "sent", "listed", "replied"}] /\ data' \in [Hub -> Result]
      /\ \A g \in Hub \ {root} : req'[g] = req[g] /\ data'[g] = data[g]
      /\ (req[root] # "listed" /\ req'[root] = req[root] /\ data'[root] = data[root])
         \/ (Changed(root) = {} /\ req'[root] = req[root] /\ data'[root] = data[root])
         \/ (req[root] = "listed" /\ req'[root] = "replied" /\ data'[root].ports = Changed(root))
  <2>1. req \in [Hub -> {"idle", "sent", "listed", "replied"}] /\ data \in [Hub -> Result]
    BY <1>1 DEF TypeOK
  <2> QED BY <1>1, <1>2, <1>3, <2>1
<1>5. TypeOK'
  BY <1>1, <1>4 DEF TypeOK, busVars, addVars, fnVars, loopVars
<1>6. NoLostChange'
  BY <1>1, <1>4 DEF NoLostChange, Changed, busVars
<1>7. DriverPlace(root)'
  BY <1>1, <1>3, <1>4 DEF DriverPlace, busVars, addVars, loopVars
<1>8. HandledPlace(root)'
  BY <1>1 DEF HandledPlace, Missed, busVars, addVars, fnVars
<1>9. \A g \in Hub \ {root} : SameDriver(g)
  BY <1>1, <1>4 DEF SameDriver, addVars, loopVars
<1>10. UNCHANGED <<busVars, fn, new, old, known, pc, at, missed>> /\ running' \subseteq running
  BY <1>1 DEF addVars, fnVars, loopVars
<1>11. {root} \in SUBSET Hub /\ \A g \in {root} : DriverPlace(g)' /\ HandledPlace(g)'
  BY <1>1, <1>7, <1>8
<1> QED BY <1>5, <1>6, <1>9, <1>10, <1>11, DriversStep

LEMMA StutterStep ==
    ASSUME HubInvariant, UNCHANGED vars PROVE HubInvariant'
<1>1. TypeOK'
  BY DEF HubInvariant, TypeOK, vars, busVars, addVars, fnVars, reqVars, loopVars
<1>2. NoLostChange'
  BY DEF HubInvariant, NoLostChange, Changed, vars, busVars, reqVars
<1>3. \A g \in Hub : SameDriver(g)
  BY DEF SameDriver, vars, addVars, reqVars, loopVars
<1>4. UNCHANGED <<busVars, fn, new, old, known, pc, at, missed>> /\ running' \subseteq running
  BY DEF vars, addVars, fnVars, loopVars
<1> DEFINE G == {}
<1>5. G \in SUBSET Hub /\ \A g \in Hub \ G : SameDriver(g)
  BY <1>3
<1>6. \A k \in G : DriverPlace(k)' /\ HandledPlace(k)'
  OBVIOUS
<1> HIDE DEF G
<1> QED BY <1>1, <1>2, <1>4, <1>5, <1>6, DriversStep

-----------------------------------------------------------------------------
(* The theorems *)

LEMMA InitHolds == Init => HubInvariant
<1> SUFFICES ASSUME Init PROVE HubInvariant
  OBVIOUS
<1>1. TypeOK
  <2>1. /\ dev \in [Port -> 0 .. MaxPlugs] /\ adr \in [Port -> 0 .. MaxAdr \cup {NoAdr}]
        /\ errors \in [Hub -> 0 .. MaxErrors + 1] /\ seen \in [Hub -> 0 .. MaxPlugs]
        /\ retry \in [Hub -> 0 .. Retries] /\ tries \in [Hub -> 0 .. Tries - 1]
        /\ plugs \in 0 .. MaxPlugs /\ faults \in 0 .. MaxFaults
    BY HubAssumption DEF Init
  <2>2. stage \in [Hub -> 1 .. Len(Gets)]
    BY DEF Init, Gets
  <2>3. /\ new \in [Hub -> Fn] /\ fn \in [Port -> Fn] /\ old \in [Hub -> SUBSET Fn]
        /\ data \in [Hub -> Result] /\ pc \in [Hub -> Labels]
    BY NoFnIs, ResultsAre, LabelsAre DEF Init
  <2> QED BY <2>1, <2>2, <2>3 DEF Init, TypeOK
<1>2. AddressPlace
  BY NoFnIs DEF Init, AddressPlace
<1>3. NoLostChange
  BY HubAssumption DEF Init, NoLostChange
<1>4. \A h \in Hub : DriverPlace(h) /\ HandledPlace(h)
  BY NoFnIs, ResultsAre, LabelsAre, HubAssumption DEF Init, DriverPlace, HandledPlace
<1>5. \A p \in Port : PortPlace(p) /\ FunctionPlace(p) /\ PortAgrees(p)
  BY NoFnIs, HubAssumption DEF Init, PortPlace, FunctionPlace, PortAgrees
<1> QED BY <1>1, <1>2, <1>3, <1>4, <1>5 DEF HubInvariant

LEMMA NextKeeps ==
    ASSUME HubInvariant, [Next]_vars PROVE HubInvariant'
<1>1. CASE UNCHANGED vars
  BY <1>1, StutterStep
<1>2. CASE HCDNext
  BY <1>2, HandleReadStep, HandleChgStep DEF HCDNext
<1>3. CASE World
  BY <1>3, PlugStep, UnplugStep, UnplugHubStep, StopStep DEF World
<1>4. ASSUME NEW h \in Hub, HubNext(h) \/ BusReply(h) \/ FreeFNs(h) PROVE HubInvariant'
  BY <1>4, StartStep, InterruptStep, NextPortStep, FreeStep, AbortRequestStep, EndStep, PortStatusStep, ClearConnectionStep,
     RemoveStep, AddStep, ResetStep, ClearResetStep, ObtainStep, SetAddrStep, InitFunctionStep,
     AgainStep, BusReplyStep, FreeFNsStep DEF HubNext
<1> QED BY <1>1, <1>2, <1>3, <1>4 DEF Next

LEMMA AddressesAreUnique == ASSUME HubInvariant PROVE AddressesUnique
<1> SUFFICES ASSUME NEW h \in Hub, NEW g \in Hub, NEW x \in Made(h), NEW y \in Made(g),
                    x.adr # NoAdr, x.adr = y.adr
             PROVE  x = y
  BY DEF AddressesUnique
<1>1. AddressPlace
  BY DEF HubInvariant
<1>2. /\ x = new[h] \/ x \in old[h] \/ \E p \in Port : x = fn[p]
      /\ y = new[g] \/ y \in old[g] \/ \E p \in Port : y = fn[p]
  BY DEF Made, Functions, Ports
<1> QED BY <1>1, <1>2 DEF AddressPlace

LEMMA DeviceIsRight == ASSUME HubInvariant PROVE RightDevice
<1> SUFFICES ASSUME NEW p \in enabled \ Handled, ~ mixed, fn[p].dev = dev[p]
             PROVE  /\ p \in Answering(fn[p].adr)
                    /\ Answering(fn[p].adr) \subseteq {p} \cup Handled \cup Missed \cup Unserved
  BY DEF RightDevice
<1>1. p \in Port /\ enabled \subseteq Port
  BY DEF HubInvariant, TypeOK
<1>2. dev[p] # 0 /\ fn[p].adr = adr[p]
  BY <1>1 DEF HubInvariant, PortPlace, FunctionPlace
<1>3. fn[p].adr # NoAdr
  <2>1. fn[p] # NoFn
    BY <1>2, NoFnIs
  <2> QED BY <1>1, <2>1, HubAssumption DEF HubInvariant, PortPlace, NoAdr
<1>4. ASSUME NEW q \in Answering(fn[p].adr), q \notin Handled \cup Missed \cup Unserved PROVE q = p
  <2>1. q \in enabled /\ q \in Port /\ dev[q] # 0 /\ adr[q] = fn[p].adr
    BY <1>1 DEF Answering
  <2>2. fn[q].dev = dev[q] /\ fn[q].adr = adr[q]
    BY <1>4, <2>1 DEF HubInvariant, FunctionPlace, Cleared
  <2> QED BY <1>1, <1>3, <2>1, <2>2 DEF HubInvariant, AddressPlace
<1>5. p \in Answering(fn[p].adr)
  BY <1>2 DEF Answering
<1> QED BY <1>4, <1>5

\* The inductive invariant.
THEOREM HubInvariantAlways == Spec => []HubInvariant
<1>1. HubInvariant /\ [Next]_vars => HubInvariant'
  BY NextKeeps
<1> QED BY <1>1, InitHolds, PTL DEF Spec

\* With any number of hubs, ports, devices and failed requests, and whatever changes while its
\* driver handles it: a port whose function is not that of the device in it has a change that its
\* driver will handle or handles, unless a failed request has kept the driver from it or the code
\* has lost the device, which came between the status of the port and the clearing of its bit
\* (HUB__Port_Change.c:66-93); and no change waits at the root hub without the HCD task being
\* signalled (RootHUB/Handle_Read.c).
THEOREM ChangesSeenAlways == Spec => []ChangesSeen
<1>1. HubInvariant => ChangesSeen
  BY DEF HubInvariant, ChangesSeen
<1>2. Spec => []HubInvariant
  BY HubInvariantAlways
<1> QED BY <1>1, <1>2, PTL

\* A function talks to its own device: no two functions have one address, also while the removed
\* one waits to be freed, and a function's device answers at it alone (HCD/Addr_Obtain.c,
\* HUB__Port_Function_SetAddr.c).
THEOREM OneDeviceAlways == Spec => []OneDevice
<1>1. HubInvariant => OneDevice
  BY AddressesAreUnique, DeviceIsRight DEF OneDevice
<1>2. Spec => []HubInvariant
  BY HubInvariantAlways
<1> QED BY <1>1, <1>2, PTL

================================================================================
