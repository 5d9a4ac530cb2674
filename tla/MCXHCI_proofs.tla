---------------------------- MODULE MCXHCI_proofs ----------------------------
(***************************************************************************)
(* What MCXHCI checks of the xHCI driver's modules and of the pools, for every *)
(* value of the constants: each module has an inductive invariant, a step of    *)
(* the whole is a step of one of them or none, and so the properties are       *)
(* invariants of MCSpec.                                                     *)
(***************************************************************************)
EXTENDS MCXHCI, TLAPS, WellFoundedInduction, FiniteSetTheorems, SequenceTheorems

-----------------------------------------------------------------------------
(* The transfer ring (XHCIRing), for a ring and a TD of any length that fits, any number of   *)
(* transfers, with halts and removals.                                                    *)

LEMMA RingConstants == /\ Link \in Nat /\ MaxTRBs \in Nat
                       /\ 1 <= MaxTRBs /\ MaxTRBs <= Link - 1
                       /\ Slots = 0 .. Link
                       /\ Flushes \in BOOLEAN /\ CanHalt \in BOOLEAN
BY RingAssumption DEF Link, Slots

\* The ring as initialised is one the controller has nothing to run from.
LEMMA RingInit == Init => RingInvariant
<1> SUFFICES ASSUME Init PROVE RingInvariant
    OBVIOUS
<1> USE RingConstants
<1>1. TypeOK
    BY DEF Init, TypeOK, TRBs
<1>2. ProducerLap
    BY DEF Init, ProducerLap
<1>3. ControllerLap
    BY DEF Init, ControllerLap
<1>4. OneTransfer
    BY DEF Init, OneTransfer
<1>5. EventOfTransfer
    BY DEF Init, EventOfTransfer
<1> QED
    BY <1>1, <1>2, <1>3, <1>4, <1>5 DEF Init, RingInvariant

-----------------------------------------------------------------------------
(* Each action of the HCD task preserves the invariant. *)

LEMMA BuildStep == ASSUME RingInvariant, NEW n \in 1 .. MaxTRBs, Build(n)
                   PROVE  RingInvariant'
<1> USE RingConstants
<1>1. TypeOK'
    BY DEF Build, RingInvariant, TypeOK, hwVars
<1>2. ProducerLap'
    BY DEF Build, RingInvariant, TypeOK, ProducerLap, hwVars
<1>3. EventOfTransfer'
    BY DEF Build, RingInvariant, EventOfTransfer, hwVars
<1>4. ASSUME hw # "halted" PROVE ControllerLap' /\ OneTransfer'
  <2>1. ControllerLap'
      BY <1>4 DEF Build, RingInvariant, TypeOK, ControllerLap, hwVars
  <2>2. OneTransfer'
      BY <1>4 DEF Build, RingInvariant, TypeOK, TRBs, ProducerLap, OneTransfer, hwVars
  <2> QED
      BY <2>1, <2>2
<1> QED
    BY <1>1, <1>2, <1>3, <1>4 DEF Build, RingInvariant, hwVars

LEMMA WriteBodyStep == ASSUME RingInvariant, WriteBody PROVE RingInvariant'
<1> USE RingConstants
<1> DEFINE new == [n |-> sent + 1, td |-> td, last |-> left = 1]
<1>0. /\ new \in TRBs /\ new.n = sent + 1
      /\ trb' = [trb EXCEPT ![enqueue] = new]
      /\ trb \in [Slots -> TRBs] /\ enqueue \in Slots
      /\ enqueue # Link
    BY DEF WriteBody, RingInvariant, TypeOK, TRBs, ProducerLap
<1> HIDE DEF new
<1>1. TypeOK'
    BY <1>0 DEF WriteBody, RingInvariant, TypeOK, hwVars
<1>2. EventOfTransfer'
    BY DEF WriteBody, RingInvariant, EventOfTransfer, hwVars
<1>3. \A i \in Slots : trb'[i] = IF i = enqueue THEN new ELSE trb[i]
    BY <1>0
<1>4. ProducerLap'
  <2>1. trb'[enqueue] = [n |-> sent + 1, td |-> td, last |-> left = 1]
      BY <1>0, <1>3 DEF new
  <2>2. \A i \in Slots : i # enqueue => trb'[i].n <= sent
      BY <1>3 DEF RingInvariant, ProducerLap, WriteBody
  <2> QED
      BY <2>1, <2>2, <1>0 DEF WriteBody, RingInvariant, ProducerLap, hwVars
<1>5. ASSUME hw # "halted" PROVE ControllerLap' /\ OneTransfer'
  <2>0. ControllerLap /\ OneTransfer /\ TypeOK /\ ProducerLap /\ step = "body"
      BY <1>5 DEF WriteBody, RingInvariant
  <2>1. ControllerLap'
    <3>1. \/ /\ hwCycle = cycle /\ hwDequeue <= enqueue
             /\ sent - ran = enqueue - hwDequeue
             /\ \A i \in hwDequeue .. (enqueue - 1) : trb[i].n = sent - enqueue + i + 1
          \/ /\ hwCycle = 1 - cycle /\ enqueue < hwDequeue
             /\ sent - ran = enqueue + Link - hwDequeue
             /\ \A i \in 0 .. (enqueue - 1) : trb[i].n = sent - enqueue + i + 1
             /\ \A i \in hwDequeue .. (Link - 1) : trb[i].n = sent - enqueue - Link + i + 1
        BY <2>0 DEF ControllerLap, OneTransfer, TypeOK, ProducerLap
    <3> QED
        BY <2>0, <3>1, <1>0, <1>3 DEF WriteBody, ControllerLap, TypeOK, hwVars
  <2>2. OneTransfer'
    <3>1. \A i \in Slots : i # Link /\ trb'[i].n > ran /\ trb'[i].n <= sent =>
             trb'[i].td = td /\ (trb'[i].last <=> trb'[i].n = sent /\ left = 0)
        BY <2>0, <1>0, <1>3 DEF OneTransfer, TypeOK
    <3> QED
        BY <2>0, <3>1 DEF WriteBody, OneTransfer, hwVars
  <2> QED
      BY <2>1, <2>2
<1> QED
    BY <1>1, <1>2, <1>4, <1>5 DEF WriteBody, RingInvariant, hwVars

LEMMA WriteControlStep == ASSUME RingInvariant, WriteControl PROVE RingInvariant'
<1> USE RingConstants
<1>0. /\ enqueue \in 0 .. (Link - 1) /\ left >= 1 /\ request = "active"
      /\ TypeOK /\ ProducerLap /\ EventOfTransfer
      /\ \A i \in Slots : bit'[i] = IF i = enqueue THEN cycle ELSE bit[i]
    BY DEF WriteControl, RingInvariant, TypeOK, ProducerLap
<1>a. trb[enqueue] = [n |-> sent + 1, td |-> td, last |-> left = 1]
    BY DEF WriteControl, RingInvariant, ProducerLap
<1>b. trb[enqueue].n = sent + 1 /\ trb[enqueue].td = td
    BY <1>a
<1>c. trb[enqueue].last = (left = 1)
    BY <1>a
<1>d. \A i \in Slots : i # enqueue => trb[i].n <= sent
    BY <1>0 DEF ProducerLap
<1>e. /\ sent' = sent + 1 /\ left' = left - 1 /\ enqueue' = enqueue + 1
      /\ trb' = trb /\ cycle' = cycle /\ td' = td /\ request' = request
      /\ hw' = hw /\ hwDequeue' = hwDequeue /\ hwCycle' = hwCycle /\ ran' = ran
      /\ events' = events
    BY DEF WriteControl, hwVars
<1>f. /\ sent \in Nat /\ ran \in Nat /\ left \in Nat /\ cycle \in {0, 1}
      /\ enqueue \in Nat /\ hwDequeue \in 0 .. Link /\ hwCycle \in {0, 1}
    BY <1>0 DEF TypeOK
<1>1. TypeOK'
    BY <1>0 DEF WriteControl, TypeOK, hwVars, NextTRB
<1>2. ProducerLap'
  <2>1. \A i \in Slots : trb'[i].n <= sent'
    <3> SUFFICES ASSUME NEW i \in Slots PROVE trb[i].n <= sent + 1
        BY <1>e
    <3>1. trb[i] \in TRBs
        BY <1>0 DEF TypeOK
    <3>2. trb[i].n \in Nat
        BY <3>1 DEF TRBs
    <3>3. CASE i = enqueue
        BY <1>b, <1>f, <3>2, <3>3
    <3>4. CASE i # enqueue
        BY <1>d, <1>f, <3>2, <3>4
    <3> QED
        BY <3>3, <3>4
  <2>2. /\ \A i \in 0 .. (Link - 1) : bit'[i] = IF i < enqueue' THEN cycle' ELSE 1 - cycle'
        /\ bit'[Link] = 1 - cycle'
      BY <1>0 DEF WriteControl, ProducerLap, TypeOK
  <2> QED
      BY <1>0, <2>1, <2>2 DEF WriteControl, ProducerLap, TypeOK, NextTRB
<1>3. EventOfTransfer'
    BY <1>0 DEF WriteControl, EventOfTransfer, RingInvariant, OneTransfer, TypeOK, hwVars
<1>4. ASSUME hw # "halted" PROVE ControllerLap' /\ OneTransfer'
  <2>0. ControllerLap /\ OneTransfer
      BY <1>4 DEF RingInvariant
  <2>2. ControllerLap'
    <3>1. CASE hwCycle = cycle /\ hwDequeue <= enqueue
                /\ sent - ran = enqueue - hwDequeue
                /\ \A i \in hwDequeue .. (enqueue - 1) : trb[i].n = sent - enqueue + i + 1
      <4>1. /\ hwCycle' = cycle' /\ hwDequeue' <= enqueue'
            /\ sent' - ran' = enqueue' - hwDequeue'
          BY <3>1, <1>e, <1>f
      <4>2. \A i \in hwDequeue' .. (enqueue' - 1) : trb'[i].n = sent' - enqueue' + i + 1
        <5> SUFFICES ASSUME NEW i \in hwDequeue .. enqueue
                     PROVE  trb[i].n = sent - enqueue + i + 1
            BY <1>e, <1>f
        <5>1. CASE i = enqueue
            BY <5>1, <1>b, <1>f
        <5>2. CASE i # enqueue
            BY <5>2, <3>1, <1>f
        <5> QED
            BY <5>1, <5>2
      <4> QED
          BY <4>1, <4>2 DEF ControllerLap
    <3>2. CASE /\ hwCycle = 1 - cycle /\ enqueue <= hwDequeue
               /\ sent - ran = enqueue + Link - hwDequeue
               /\ \A i \in 0 .. (enqueue - 1) : trb[i].n = sent - enqueue + i + 1
               /\ \A i \in hwDequeue .. (Link - 1) : trb[i].n = sent - enqueue - Link + i + 1
      <4>1. enqueue + 1 < hwDequeue \/ (enqueue + 1 <= hwDequeue /\ enqueue + 1 # Link)
          BY <3>2, <1>0, <2>0 DEF OneTransfer, TypeOK
      <4> QED
        <5>1. /\ hwCycle' = 1 - cycle' /\ enqueue' <= hwDequeue' /\ enqueue' # Link
              /\ sent' - ran' = enqueue' + Link - hwDequeue'
            BY <3>2, <4>1, <1>e, <1>f
        <5>2. \A i \in 0 .. (enqueue' - 1) : trb'[i].n = sent' - enqueue' + i + 1
          <6>0. trb' = trb /\ enqueue' - 1 = enqueue /\ sent' - enqueue' = sent - enqueue
              BY <1>e, <1>f
          <6> SUFFICES ASSUME NEW i \in 0 .. enqueue
                       PROVE  trb[i].n = sent - enqueue + i + 1
              BY <6>0
          <6>1. CASE i = enqueue
              BY <6>1, <1>b, <1>f
          <6>2. CASE i # enqueue
              BY <6>2, <3>2, <1>f
          <6> QED
              BY <6>1, <6>2
        <5>3. \A i \in hwDequeue' .. (Link - 1) :
                 trb'[i].n = sent' - enqueue' - Link + i + 1
            BY <3>2, <1>e, <1>f
        <5> QED
            BY <5>1, <5>2, <5>3 DEF ControllerLap
    <3> QED
        BY <2>0, <3>1, <3>2 DEF ControllerLap
  <2>3. OneTransfer'
    <3>2. \A i \in Slots : i # Link /\ trb'[i].n > ran' /\ trb'[i].n <= sent' =>
             trb'[i].td = td' /\ (trb'[i].last <=> trb'[i].n = sent' /\ left' = 0)
      <4> SUFFICES ASSUME NEW i \in Slots, i # Link, trb[i].n > ran, trb[i].n <= sent + 1
                   PROVE  trb[i].td = td /\ (trb[i].last <=> trb[i].n = sent + 1 /\ left = 1)
          BY <1>0 DEF WriteControl, hwVars, TypeOK
      <4>1. CASE i = enqueue
          BY <4>1, <1>b, <1>c
      <4>2. CASE i # enqueue
          BY <4>2, <1>d, <2>0, <1>0 DEF OneTransfer, TypeOK, TRBs
      <4> QED
          BY <4>1, <4>2
    <3> QED
        BY <3>2, <2>0, <1>0 DEF WriteControl, OneTransfer, TypeOK, hwVars
  <2> QED
      BY <2>2, <2>3
<1> QED
    BY <1>1, <1>2, <1>3, <1>4 DEF WriteControl, RingInvariant, hwVars

LEMMA WriteLinkStep == ASSUME RingInvariant, WriteLink PROVE RingInvariant'
<1> USE RingConstants
<1>0. /\ enqueue = Link /\ request = "active"
      /\ TypeOK /\ ProducerLap /\ EventOfTransfer
      /\ \A i \in Slots : bit'[i] = IF i = Link THEN cycle ELSE bit[i]
    BY DEF WriteLink, RingInvariant, TypeOK, ProducerLap
<1>1. TypeOK'
    BY <1>0 DEF WriteLink, TypeOK, hwVars, NextTRB, CycleAfterLink
<1>2. ProducerLap'
  <2>1. \A i \in Slots : trb'[i].n <= sent'
      BY <1>0 DEF WriteLink, ProducerLap, TypeOK, TRBs
  <2>2. /\ \A i \in 0 .. (Link - 1) : bit'[i] = IF i < enqueue' THEN cycle' ELSE 1 - cycle'
        /\ bit'[Link] = 1 - cycle'
      BY <1>0 DEF WriteLink, ProducerLap, TypeOK, CycleAfterLink
  <2>3. enqueue' # Link /\ step' \in {"idle", "body"}
      BY DEF WriteLink, NextTRB
  <2>4. /\ step' = "idle" => left' = 0
        /\ step' = "body" => left' >= 1
        /\ request' = "active"
      BY <1>0 DEF WriteLink, NextTRB, TypeOK
  <2> QED
      BY <2>1, <2>2, <2>3, <2>4 DEF ProducerLap
<1>3. EventOfTransfer'
    BY <1>0 DEF WriteLink, EventOfTransfer, hwVars
<1>4. ASSUME hw # "halted" PROVE ControllerLap' /\ OneTransfer'
  <2>0. ControllerLap /\ OneTransfer
      BY <1>4 DEF RingInvariant
  <2>1. ControllerLap'
      BY <1>0, <2>0 DEF WriteLink, ControllerLap, TypeOK, CycleAfterLink, hwVars
  <2>2. OneTransfer'
      BY <1>0, <2>0 DEF WriteLink, OneTransfer, TypeOK, hwVars
  <2> QED
      BY <2>1, <2>2
<1> QED
    BY <1>1, <1>2, <1>3, <1>4 DEF WriteLink, RingInvariant, hwVars

LEMMA ReadEventStep == ASSUME RingInvariant, ReadEvent PROVE RingInvariant'
<1> USE RingConstants
<1>0. /\ TypeOK /\ ProducerLap
      /\ events = <<td>> /\ events' = <<>> /\ request # "none"
      /\ request' \in {"none", "aborted"} /\ (request' = "aborted" <=> request = "aborted")
      /\ step = "idle" /\ (hw # "halted" => ran = sent)
    BY DEF ReadEvent, RingInvariant, EventOfTransfer, TypeOK
<1>1. TypeOK'
    BY <1>0 DEF ReadEvent, TypeOK, producerVars, hwVars
<1>2. ProducerLap'
    BY <1>0 DEF ReadEvent, ProducerLap, producerVars
<1>3. EventOfTransfer'
    BY <1>0 DEF EventOfTransfer
<1>4. ASSUME hw # "halted" PROVE ControllerLap' /\ OneTransfer'
  <2>0. ControllerLap /\ OneTransfer
      BY <1>4 DEF RingInvariant
  <2>1. ControllerLap'
      BY <2>0 DEF ReadEvent, ControllerLap, producerVars, hwVars
  <2>2. OneTransfer'
      BY <2>0, <1>0, <1>4 DEF ReadEvent, OneTransfer, producerVars, hwVars
  <2> QED
      BY <2>1, <2>2
<1> QED
    BY <1>1, <1>2, <1>3, <1>4 DEF ReadEvent, RingInvariant, hwVars

LEMMA RemoveStep == ASSUME Flushes, RingInvariant, Remove PROVE RingInvariant'
<1> USE RingConstants
<1>0. /\ TypeOK /\ ProducerLap /\ EventOfTransfer
      /\ request = "active" /\ request' = "aborted" /\ step = "idle"
      /\ hw' = IF hw = "run" THEN "stopped" ELSE hw
    BY DEF Remove, RingInvariant, StopsEndpoint
<1>1. TypeOK'
    BY <1>0 DEF Remove, TypeOK, producerVars
<1>2. ProducerLap'
    BY <1>0 DEF Remove, ProducerLap, producerVars
<1>3. EventOfTransfer'
    BY <1>0 DEF Remove, EventOfTransfer, producerVars
<1>4. ASSUME hw # "halted" PROVE ControllerLap' /\ OneTransfer'
  <2>0. ControllerLap /\ OneTransfer
      BY <1>4 DEF RingInvariant
  <2>1. ControllerLap'
      BY <2>0 DEF Remove, ControllerLap, producerVars
  <2>2. OneTransfer'
      BY <2>0, <1>0, <1>4 DEF Remove, OneTransfer, producerVars, TypeOK
  <2> QED
      BY <2>1, <2>2
<1> QED
    BY <1>0, <1>1, <1>2, <1>3, <1>4 DEF RingInvariant

LEMMA FlushStep == ASSUME RingInvariant, Flush PROVE RingInvariant'
<1> USE RingConstants
<1>0. /\ TypeOK /\ ProducerLap
      /\ request = "aborted" /\ request' = "none" /\ events = <<>> /\ events' = <<>>
      /\ step = "idle" /\ left = 0 /\ enqueue # Link
    BY DEF Flush, RingInvariant, ProducerLap
<1>1. TypeOK'
    BY <1>0 DEF Flush, TypeOK, producerVars, hwVars, FlushTo, FlushCycle
<1>2. ProducerLap'
    BY <1>0 DEF Flush, ProducerLap, producerVars
<1>3. EventOfTransfer'
    BY <1>0 DEF EventOfTransfer
<1>4. CASE hw = "halted"
    BY <1>0, <1>1, <1>2, <1>3, <1>4 DEF Flush, RingInvariant, hwVars
<1>5. CASE hw # "halted"
  <2>1. hw = "stopped"
      BY <1>5, <1>0 DEF RingInvariant, OneTransfer, TypeOK
  <2>2. /\ hw' = "run" /\ hwDequeue' = enqueue /\ hwCycle' = cycle /\ ran' = sent
        /\ enqueue' = enqueue /\ cycle' = cycle /\ sent' = sent /\ trb' = trb
        /\ left' = left /\ td' = td
      BY <2>1 DEF Flush, FlushTo, FlushCycle, producerVars
  <2>3. ControllerLap'
      BY <2>2, <1>0 DEF ControllerLap, TypeOK
  <2>4. OneTransfer'
      BY <2>2, <1>0 DEF OneTransfer, TypeOK, TRBs
  <2> QED
      BY <2>2, <2>3, <2>4, <1>1, <1>2, <1>3 DEF RingInvariant
<1> QED
    BY <1>4, <1>5

-----------------------------------------------------------------------------
(* What the controller finds at its dequeue pointer: nothing that is not the next TRB, *)
(* complete, of the transfer that has the endpoint.                                     *)

LEMMA NextTRBIsNext ==
    ASSUME RingInvariant, Active, hwDequeue # Link
    PROVE  /\ ControllerLap /\ OneTransfer
           /\ ran < sent
           /\ request = "active" /\ events = <<>>
           /\ trb[hwDequeue].n = ran + 1 /\ trb[hwDequeue].td = td
           /\ trb[hwDequeue].last <=> ran + 1 = sent /\ left = 0
           /\ ~ (hwCycle = cycle /\ hwDequeue = enqueue)
<1> USE RingConstants
<1>0. /\ TypeOK /\ ProducerLap /\ ControllerLap /\ OneTransfer
      /\ hw = "run" /\ bit[hwDequeue] = hwCycle
      /\ hwDequeue \in 0 .. (Link - 1)
    BY DEF RingInvariant, Active, TypeOK
<1>1. ~ (hwCycle = cycle /\ hwDequeue = enqueue)
    BY <1>0 DEF ProducerLap, TypeOK
<1>2. trb[hwDequeue].n = ran + 1 /\ ran < sent
  <2>1. CASE hwCycle = cycle
      BY <2>1, <1>0, <1>1 DEF ControllerLap, TypeOK
  <2>2. CASE hwCycle # cycle
      BY <2>2, <1>0 DEF ControllerLap, TypeOK
  <2> QED
      BY <2>1, <2>2
<1>3. request = "active"
    BY <1>0, <1>2 DEF OneTransfer, TypeOK
<1>4. events = <<>>
    BY <1>0, <1>2 DEF RingInvariant, EventOfTransfer, TypeOK
<1>5. trb[hwDequeue].td = td /\ (trb[hwDequeue].last <=> trb[hwDequeue].n = sent /\ left = 0)
  <2>1. /\ hwDequeue \in Slots /\ hwDequeue # Link
        /\ trb[hwDequeue].n > ran /\ trb[hwDequeue].n <= sent
      BY <1>0, <1>2 DEF TypeOK
  <2> QED
      BY <2>1, <1>0, Zenon DEF OneTransfer
<1> QED
    BY <1>0, <1>1, <1>2, <1>3, <1>4, <1>5

LEMMA RunStep == ASSUME RingInvariant, Run PROVE RingInvariant'
<1> USE RingConstants
<1>0. /\ TypeOK /\ ProducerLap /\ ControllerLap /\ OneTransfer
      /\ ran < sent /\ request = "active" /\ events = <<>>
      /\ trb[hwDequeue].n = ran + 1 /\ trb[hwDequeue].td = td
      /\ trb[hwDequeue].last <=> ran + 1 = sent /\ left = 0
      /\ ~ (hwCycle = cycle /\ hwDequeue = enqueue)
      /\ hw = "run" /\ hwDequeue # Link /\ hw' = "run"
    BY NextTRBIsNext DEF Run, Active, RingInvariant
<1>1. /\ ran' = ran + 1 /\ hwDequeue' = hwDequeue + 1
      /\ events' = IF ran + 1 = sent /\ left = 0 THEN <<td>> ELSE <<>>
    BY <1>0 DEF Run
<1>2. TypeOK'
    BY <1>0, <1>1 DEF Run, TypeOK, producerVars
<1>3. ProducerLap'
    BY <1>0 DEF Run, ProducerLap, producerVars
<1>4. EventOfTransfer'
    BY <1>0, <1>1 DEF Run, EventOfTransfer, producerVars
<1>5. ControllerLap'
  <2>1. CASE hwCycle = cycle
      BY <2>1, <1>0, <1>1 DEF Run, ControllerLap, TypeOK, producerVars
  <2>2. CASE hwCycle # cycle
      BY <2>2, <1>0, <1>1 DEF Run, ControllerLap, TypeOK, producerVars
  <2> QED
      BY <2>1, <2>2
<1>6. OneTransfer'
    BY <1>0, <1>1 DEF Run, OneTransfer, TypeOK, TRBs, producerVars
<1> QED
    BY <1>0, <1>2, <1>3, <1>4, <1>5, <1>6 DEF RingInvariant

LEMMA FollowLinkStep == ASSUME RingInvariant, FollowLink PROVE RingInvariant'
<1> USE RingConstants
<1>0. /\ TypeOK /\ ProducerLap /\ ControllerLap /\ OneTransfer /\ EventOfTransfer
      /\ hw = "run" /\ hw' = "run" /\ hwDequeue = Link /\ hwCycle # cycle
      /\ hwDequeue' = 0 /\ hwCycle' = 1 - hwCycle
    BY DEF FollowLink, Active, RingInvariant, ProducerLap, TypeOK, LinkTogglesCycle
<1>1. TypeOK'
    BY <1>0 DEF FollowLink, TypeOK, producerVars
<1>2. ProducerLap'
    BY <1>0 DEF FollowLink, ProducerLap, producerVars
<1>3. EventOfTransfer'
    BY <1>0 DEF FollowLink, EventOfTransfer, producerVars
<1>4. ControllerLap'
    BY <1>0 DEF FollowLink, ControllerLap, TypeOK, producerVars
<1>5. OneTransfer'
    BY <1>0 DEF FollowLink, OneTransfer, producerVars
<1> QED
    BY <1>0, <1>1, <1>2, <1>3, <1>4, <1>5 DEF RingInvariant

LEMMA HaltStep == ASSUME RingInvariant, Halt PROVE RingInvariant'
<1> USE RingConstants
<1>0. /\ TypeOK /\ ProducerLap /\ request = "active" /\ events' = <<td>>
      /\ hw' = "halted" /\ CanHalt
    BY NextTRBIsNext DEF Halt, Active, RingInvariant
<1>1. TypeOK'
    BY <1>0 DEF Halt, TypeOK, producerVars
<1>2. ProducerLap'
    BY <1>0 DEF Halt, ProducerLap, producerVars
<1>3. EventOfTransfer'
    BY <1>0 DEF Halt, EventOfTransfer, producerVars
<1> QED
    BY <1>0, <1>1, <1>2, <1>3 DEF RingInvariant

-----------------------------------------------------------------------------

LEMMA RingStep == ASSUME Flushes, RingInvariant, [Next]_vars PROVE RingInvariant'
<1>1. CASE UNCHANGED vars
    BY <1>1 DEF vars, producerVars, hwVars, RingInvariant, TypeOK, ProducerLap,
        ControllerLap, OneTransfer, EventOfTransfer
<1>2. ASSUME NEW n \in 1 .. MaxTRBs, Build(n) PROVE RingInvariant'
    BY <1>2, BuildStep
<1>3. CASE WriteBody
    BY <1>3, WriteBodyStep
<1>4. CASE WriteControl
    BY <1>4, WriteControlStep
<1>5. CASE WriteLink
    BY <1>5, WriteLinkStep
<1>6. CASE LoseSetup
    BY <1>6 DEF LoseSetup
<1>7. CASE ReadEvent
    BY <1>7, ReadEventStep
<1>8. CASE Remove
    BY <1>8, RemoveStep
<1>9. CASE Flush
    BY <1>9, FlushStep
<1>10. CASE Run
    BY <1>10, RunStep
<1>11. CASE FollowLink
    BY <1>11, FollowLinkStep
<1>12. CASE Halt
    BY <1>12, HaltStep
<1> QED
    BY <1>1, <1>2, <1>3, <1>4, <1>5, <1>6, <1>7, <1>8, <1>9, <1>10, <1>11, <1>12
       DEF Next, Producer, Controller

\* The ring of an endpoint whose removals flush it (Bulk_Remove and Interrupt_Remove) keeps
\* the invariant: producer and controller are at most a lap apart, and what lies between
\* them is the transfer that has the endpoint.
THEOREM RingInvariantAlways == ASSUME Flushes PROVE Spec => []RingInvariant
<1>1. Init => RingInvariant
    BY RingInit
<1>2. RingInvariant /\ [Next]_vars => RingInvariant'
    BY RingStep
<1> QED
    BY <1>1, <1>2, PTL DEF Spec

\* XHCI_Handler_HCD() matches events by slot and endpoint only; on such an endpoint the
\* event it reads is the event of the request it completes, after halts and removals too.
THEOREM OwnEventsAlways == ASSUME Flushes PROVE Spec => []OwnEvents
<1>1. RingInvariant => OwnEvents
    BY DEF RingInvariant, EventOfTransfer, OwnEvents
<1> QED
    BY <1>1, RingInvariantAlways, PTL

\* The controller runs every TRB exactly once and in order, and none that is stale or half
\* written, unless it is told to skip it.
THEOREM RunsInOrderAlways == ASSUME Flushes PROVE Spec => RunsInOrder
<1> DEFINE InOrder == ran' # ran => \/ ran' = ran + 1 /\ ran' <= sent
                                    \/ request = "aborted" /\ ran' = sent
<1>1. RingInvariant /\ [Next]_vars => [InOrder]_vars
  <2> SUFFICES ASSUME RingInvariant, Next, ran' # ran PROVE InOrder
      OBVIOUS
  <2>1. CASE Run
    <3>1. ran < sent /\ ran' = ran + 1
        BY <2>1, NextTRBIsNext DEF Run
    <3> QED
        BY <3>1 DEF RingInvariant, TypeOK
  <2>2. CASE Flush
      BY <2>2 DEF Flush, hwVars
  <2> QED
      BY <2>1, <2>2 DEF Next, Producer, Controller, Build, WriteBody, WriteControl, WriteLink,
         LoseSetup, ReadEvent, Remove, FollowLink, Halt, hwVars
<1> QED
    BY <1>1, RingInvariantAlways, PTL DEF Spec, RunsInOrder

\* No TRB of a transfer that was completed, aborted or timed out is ever run.
THEOREM RunsOwnAlways == ASSUME Flushes PROVE Spec => RunsOwn
<1> DEFINE Own == Run => trb[hwDequeue].td = td /\ request = "active"
<1>1. RingInvariant /\ [Next]_vars => [Own]_vars
    BY NextTRBIsNext DEF Run
<1> QED
    BY <1>1, RingInvariantAlways, PTL DEF Spec, RunsOwn

-----------------------------------------------------------------------------
(* The control ring (XHCIRing as K): no removal stops the endpoint, and Setup TRBs may be   *)
(* left on it.                                                                            *)

LEMMA ControlConstants == /\ K!Link \in Nat /\ MaxTRBs \in Nat /\ ControlLeft \in Nat
                          /\ 1 <= MaxTRBs /\ ControlLeft + MaxTRBs <= K!Link - 1
                          /\ K!Slots = 0 .. K!Link
BY ComponentAssumptions DEF K!RingAssumption, K!Link, K!Slots

\* The control ring as initialised.
LEMMA ControlInit == K!Init => K!ControlInvariant
<1> SUFFICES ASSUME K!Init PROVE K!ControlInvariant
    OBVIOUS
<1> USE ControlConstants
<1>1. K!TypeOK
    BY DEF K!Init, K!TypeOK, K!TRBs
<1>2. K!ProducerLap
    BY DEF K!Init, K!ProducerLap
<1>3. K!ControllerLap
    BY DEF K!Init, K!ControllerLap
<1>4. K!SetupsLeft
    BY DEF K!Init, K!SetupsLeft
<1>5. K!EventOfTransfer
    BY DEF K!Init, K!EventOfTransfer
<1> QED
    BY <1>1, <1>2, <1>3, <1>4, <1>5 DEF K!Init, K!ControlInvariant

LEMMA ControlBuildStep == ASSUME K!ControlInvariant, NEW n \in 1 .. MaxTRBs, K!Build(n)
                   PROVE  K!ControlInvariant'
<1> USE ControlConstants
<1>1. K!TypeOK'
    BY DEF K!Build, K!ControlInvariant, K!TypeOK, K!hwVars
<1>2. K!ProducerLap'
    BY DEF K!Build, K!ControlInvariant, K!TypeOK, K!ProducerLap, K!hwVars
<1>3. K!EventOfTransfer'
    BY DEF K!Build, K!ControlInvariant, K!EventOfTransfer, K!hwVars
<1>4. K!ControllerLap' /\ K!SetupsLeft'
  <2>1. K!ControllerLap'
      BY DEF K!Build, K!ControlInvariant, K!TypeOK, K!ControllerLap, K!hwVars
  <2>2. K!SetupsLeft'
      BY DEF K!Build, K!ControlInvariant, K!TypeOK, K!TRBs, K!ProducerLap, K!SetupsLeft, K!hwVars
  <2> QED
      BY <2>1, <2>2
<1> QED
    BY <1>1, <1>2, <1>3, <1>4 DEF K!Build, K!ControlInvariant, K!hwVars

LEMMA ControlWriteBodyStep == ASSUME K!ControlInvariant, K!WriteBody PROVE K!ControlInvariant'
<1> USE ControlConstants
<1> DEFINE new == [n |-> k_sent + 1, td |-> k_td, last |-> k_left = 1]
<1>0. /\ new \in K!TRBs /\ new.n = k_sent + 1
      /\ k_trb' = [k_trb EXCEPT ![k_enqueue] = new]
      /\ k_trb \in [K!Slots -> K!TRBs] /\ k_enqueue \in K!Slots
      /\ k_enqueue # K!Link
  <2>1. K!TypeOK /\ K!ProducerLap /\ k_step = "body" /\ k_trb' = [k_trb EXCEPT ![k_enqueue] = new]
      BY DEF K!WriteBody, K!ControlInvariant
  <2>2. k_sent + 1 \in Nat /\ k_td \in Nat /\ k_trb \in [K!Slots -> K!TRBs] /\ k_enqueue \in K!Slots
      BY <2>1 DEF K!TypeOK
  <2>3. new \in K!TRBs /\ new.n = k_sent + 1
      BY <2>2 DEF K!TRBs
  <2>4. k_enqueue # K!Link
      BY <2>1 DEF K!ProducerLap
  <2> QED
      BY <2>1, <2>2, <2>3, <2>4
<1> HIDE DEF new
<1>1. K!TypeOK'
    BY <1>0 DEF K!WriteBody, K!ControlInvariant, K!TypeOK, K!hwVars
<1>2. K!EventOfTransfer'
    BY DEF K!WriteBody, K!ControlInvariant, K!EventOfTransfer, K!hwVars
<1>3. \A i \in K!Slots : k_trb'[i] = IF i = k_enqueue THEN new ELSE k_trb[i]
    BY <1>0
<1>4. K!ProducerLap'
  <2>1. k_trb'[k_enqueue] = [n |-> k_sent + 1, td |-> k_td, last |-> k_left = 1]
      BY <1>0, <1>3 DEF new
  <2>2. \A i \in K!Slots : i # k_enqueue => k_trb'[i].n <= k_sent
      BY <1>3 DEF K!ControlInvariant, K!ProducerLap, K!WriteBody
  <2> QED
      BY <2>1, <2>2, <1>0 DEF K!WriteBody, K!ControlInvariant, K!ProducerLap, K!hwVars
<1>5. K!ControllerLap' /\ K!SetupsLeft'
  <2>0. K!ControllerLap /\ K!SetupsLeft /\ K!TypeOK /\ K!ProducerLap /\ k_step = "body"
      BY DEF K!WriteBody, K!ControlInvariant
  <2>1. K!ControllerLap'
    <3>1. \/ /\ k_hwCycle = k_cycle /\ k_hwDequeue <= k_enqueue
             /\ k_sent - k_ran = k_enqueue - k_hwDequeue
             /\ \A i \in k_hwDequeue .. (k_enqueue - 1) : k_trb[i].n = k_sent - k_enqueue + i + 1
          \/ /\ k_hwCycle = 1 - k_cycle /\ k_enqueue < k_hwDequeue
             /\ k_sent - k_ran = k_enqueue + K!Link - k_hwDequeue
             /\ \A i \in 0 .. (k_enqueue - 1) : k_trb[i].n = k_sent - k_enqueue + i + 1
             /\ \A i \in k_hwDequeue .. (K!Link - 1) : k_trb[i].n = k_sent - k_enqueue - K!Link + i + 1
        BY <2>0 DEF K!ControllerLap, K!SetupsLeft, K!TypeOK, K!ProducerLap
    <3> QED
        BY <2>0, <3>1, <1>0, <1>3 DEF K!WriteBody, K!ControllerLap, K!TypeOK, K!hwVars
  <2>2. K!SetupsLeft'
    <3>1. \A i \in K!Slots : i # K!Link /\ k_trb'[i].n > k_ran /\ k_trb'[i].n <= k_sent /\ k_trb'[i].last =>
             k_trb'[i].td = k_td /\ k_trb'[i].n = k_sent /\ k_left = 0 /\ k_request = "active"
        BY <2>0, <1>0, <1>3 DEF K!SetupsLeft, K!TypeOK
    <3> QED
        BY <2>0, <3>1 DEF K!WriteBody, K!SetupsLeft, K!hwVars
  <2> QED
      BY <2>1, <2>2
<1> QED
    BY <1>1, <1>2, <1>4, <1>5 DEF K!WriteBody, K!ControlInvariant, K!hwVars

LEMMA ControlWriteControlStep == ASSUME K!ControlInvariant, K!WriteControl PROVE K!ControlInvariant'
<1> USE ControlConstants
<1>0. /\ k_enqueue \in 0 .. (K!Link - 1) /\ k_left >= 1 /\ k_request = "active"
      /\ K!TypeOK /\ K!ProducerLap /\ K!EventOfTransfer
      /\ \A i \in K!Slots : k_bit'[i] = IF i = k_enqueue THEN k_cycle ELSE k_bit[i]
    BY DEF K!WriteControl, K!ControlInvariant, K!TypeOK, K!ProducerLap
<1>a. k_trb[k_enqueue] = [n |-> k_sent + 1, td |-> k_td, last |-> k_left = 1]
    BY DEF K!WriteControl, K!ControlInvariant, K!ProducerLap
<1>b. k_trb[k_enqueue].n = k_sent + 1 /\ k_trb[k_enqueue].td = k_td
    BY <1>a
<1>c. k_trb[k_enqueue].last = (k_left = 1)
    BY <1>a
<1>d. \A i \in K!Slots : i # k_enqueue => k_trb[i].n <= k_sent
    BY <1>0 DEF K!ProducerLap
<1>e. /\ k_sent' = k_sent + 1 /\ k_left' = k_left - 1 /\ k_enqueue' = k_enqueue + 1
      /\ k_trb' = k_trb /\ k_cycle' = k_cycle /\ k_td' = k_td /\ k_request' = k_request
      /\ k_hw' = k_hw /\ k_hwDequeue' = k_hwDequeue /\ k_hwCycle' = k_hwCycle /\ k_ran' = k_ran
      /\ k_events' = k_events
    BY DEF K!WriteControl, K!hwVars
<1>f. /\ k_sent \in Nat /\ k_ran \in Nat /\ k_left \in Nat /\ k_cycle \in {0, 1}
      /\ k_enqueue \in Nat /\ k_hwDequeue \in 0 .. K!Link /\ k_hwCycle \in {0, 1}
    BY <1>0 DEF K!TypeOK
<1>1. K!TypeOK'
    BY <1>0 DEF K!WriteControl, K!TypeOK, K!hwVars, K!NextTRB
<1>2. K!ProducerLap'
  <2>1. \A i \in K!Slots : k_trb'[i].n <= k_sent'
    <3> SUFFICES ASSUME NEW i \in K!Slots PROVE k_trb[i].n <= k_sent + 1
        BY <1>e
    <3>1. k_trb[i] \in K!TRBs
        BY <1>0 DEF K!TypeOK
    <3>2. k_trb[i].n \in Nat
        BY <3>1 DEF K!TRBs
    <3>3. CASE i = k_enqueue
        BY <1>b, <1>f, <3>2, <3>3
    <3>4. CASE i # k_enqueue
        BY <1>d, <1>f, <3>2, <3>4
    <3> QED
        BY <3>3, <3>4
  <2>2. /\ \A i \in 0 .. (K!Link - 1) : k_bit'[i] = IF i < k_enqueue' THEN k_cycle' ELSE 1 - k_cycle'
        /\ k_bit'[K!Link] = 1 - k_cycle'
      BY <1>0 DEF K!WriteControl, K!ProducerLap, K!TypeOK
  <2> QED
      BY <1>0, <2>1, <2>2 DEF K!WriteControl, K!ProducerLap, K!TypeOK, K!NextTRB
<1>3. K!EventOfTransfer'
    BY <1>0 DEF K!WriteControl, K!EventOfTransfer, K!ControlInvariant, K!SetupsLeft, K!TypeOK, K!hwVars
<1>4. K!ControllerLap' /\ K!SetupsLeft'
  <2>0. K!ControllerLap /\ K!SetupsLeft
      BY DEF K!ControlInvariant
  <2>2. K!ControllerLap'
    <3>1. CASE k_hwCycle = k_cycle /\ k_hwDequeue <= k_enqueue
                /\ k_sent - k_ran = k_enqueue - k_hwDequeue
                /\ \A i \in k_hwDequeue .. (k_enqueue - 1) : k_trb[i].n = k_sent - k_enqueue + i + 1
      <4>1. /\ k_hwCycle' = k_cycle' /\ k_hwDequeue' <= k_enqueue'
            /\ k_sent' - k_ran' = k_enqueue' - k_hwDequeue'
          BY <3>1, <1>e, <1>f
      <4>2. \A i \in k_hwDequeue' .. (k_enqueue' - 1) : k_trb'[i].n = k_sent' - k_enqueue' + i + 1
        <5> SUFFICES ASSUME NEW i \in k_hwDequeue .. k_enqueue
                     PROVE  k_trb[i].n = k_sent - k_enqueue + i + 1
            BY <1>e, <1>f
        <5>1. CASE i = k_enqueue
            BY <5>1, <1>b, <1>f
        <5>2. CASE i # k_enqueue
            BY <5>2, <3>1, <1>f
        <5> QED
            BY <5>1, <5>2
      <4> QED
          BY <4>1, <4>2 DEF K!ControllerLap
    <3>2. CASE /\ k_hwCycle = 1 - k_cycle /\ k_enqueue <= k_hwDequeue
               /\ k_sent - k_ran = k_enqueue + K!Link - k_hwDequeue
               /\ \A i \in 0 .. (k_enqueue - 1) : k_trb[i].n = k_sent - k_enqueue + i + 1
               /\ \A i \in k_hwDequeue .. (K!Link - 1) : k_trb[i].n = k_sent - k_enqueue - K!Link + i + 1
      <4>1. k_enqueue + 1 < k_hwDequeue \/ (k_enqueue + 1 <= k_hwDequeue /\ k_enqueue + 1 # K!Link)
          BY <3>2, <1>0, <2>0 DEF K!SetupsLeft, K!TypeOK
      <4> QED
        <5>1. /\ k_hwCycle' = 1 - k_cycle' /\ k_enqueue' <= k_hwDequeue' /\ k_enqueue' # K!Link
              /\ k_sent' - k_ran' = k_enqueue' + K!Link - k_hwDequeue'
            BY <3>2, <4>1, <1>e, <1>f
        <5>2. \A i \in 0 .. (k_enqueue' - 1) : k_trb'[i].n = k_sent' - k_enqueue' + i + 1
          <6>0. k_trb' = k_trb /\ k_enqueue' - 1 = k_enqueue /\ k_sent' - k_enqueue' = k_sent - k_enqueue
              BY <1>e, <1>f
          <6> SUFFICES ASSUME NEW i \in 0 .. k_enqueue
                       PROVE  k_trb[i].n = k_sent - k_enqueue + i + 1
              BY <6>0
          <6>1. CASE i = k_enqueue
              BY <6>1, <1>b, <1>f
          <6>2. CASE i # k_enqueue
              BY <6>2, <3>2, <1>f
          <6> QED
              BY <6>1, <6>2
        <5>3. \A i \in k_hwDequeue' .. (K!Link - 1) :
                 k_trb'[i].n = k_sent' - k_enqueue' - K!Link + i + 1
            BY <3>2, <1>e, <1>f
        <5> QED
            BY <5>1, <5>2, <5>3 DEF K!ControllerLap
    <3> QED
        BY <2>0, <3>1, <3>2 DEF K!ControllerLap
  <2>3. K!SetupsLeft'
    <3>2. \A i \in K!Slots : i # K!Link /\ k_trb'[i].n > k_ran' /\ k_trb'[i].n <= k_sent' /\ k_trb'[i].last =>
             k_trb'[i].td = k_td' /\ k_trb'[i].n = k_sent' /\ k_left' = 0 /\ k_request' = "active"
      <4> SUFFICES ASSUME NEW i \in K!Slots, i # K!Link, k_trb[i].n > k_ran, k_trb[i].n <= k_sent + 1,
                          k_trb[i].last
                   PROVE  k_trb[i].td = k_td /\ k_trb[i].n = k_sent + 1 /\ k_left = 1
          BY <1>0 DEF K!WriteControl, K!hwVars, K!TypeOK
      <4>1. CASE i = k_enqueue
          BY <4>1, <1>b, <1>c
      <4>2. CASE i # k_enqueue
        <5>1. k_trb[i].n <= k_sent
            BY <4>2, <1>d
        <5>2. k_left = 0
            BY <5>1, <2>0, Zenon DEF K!SetupsLeft
        <5> QED
            BY <5>2, <1>0
      <4> QED
          BY <4>1, <4>2
    <3> QED
        BY <3>2, <2>0, <1>0 DEF K!WriteControl, K!SetupsLeft, K!TypeOK, K!hwVars
  <2> QED
      BY <2>2, <2>3
<1> QED
    BY <1>1, <1>2, <1>3, <1>4 DEF K!WriteControl, K!ControlInvariant, K!hwVars

LEMMA ControlWriteLinkStep == ASSUME K!ControlInvariant, K!WriteLink PROVE K!ControlInvariant'
<1> USE ControlConstants
<1>0. /\ k_enqueue = K!Link /\ k_request = "active"
      /\ K!TypeOK /\ K!ProducerLap /\ K!EventOfTransfer
      /\ \A i \in K!Slots : k_bit'[i] = IF i = K!Link THEN k_cycle ELSE k_bit[i]
    BY DEF K!WriteLink, K!ControlInvariant, K!TypeOK, K!ProducerLap
<1>1. K!TypeOK'
    BY <1>0 DEF K!WriteLink, K!TypeOK, K!hwVars, K!NextTRB, K!CycleAfterLink
<1>2. K!ProducerLap'
  <2>1. \A i \in K!Slots : k_trb'[i].n <= k_sent'
      BY <1>0 DEF K!WriteLink, K!ProducerLap, K!TypeOK, K!TRBs
  <2>2. /\ \A i \in 0 .. (K!Link - 1) : k_bit'[i] = IF i < k_enqueue' THEN k_cycle' ELSE 1 - k_cycle'
        /\ k_bit'[K!Link] = 1 - k_cycle'
      BY <1>0 DEF K!WriteLink, K!ProducerLap, K!TypeOK, K!CycleAfterLink
  <2>3. k_enqueue' # K!Link /\ k_step' \in {"idle", "body"}
      BY DEF K!WriteLink, K!NextTRB
  <2>4. /\ k_step' = "idle" => k_left' = 0
        /\ k_step' = "body" => k_left' >= 1
        /\ k_request' = "active"
      BY <1>0 DEF K!WriteLink, K!NextTRB, K!TypeOK
  <2> QED
      BY <2>1, <2>2, <2>3, <2>4 DEF K!ProducerLap
<1>3. K!EventOfTransfer'
    BY <1>0 DEF K!WriteLink, K!EventOfTransfer, K!hwVars
<1>4. K!ControllerLap' /\ K!SetupsLeft'
  <2>0. K!ControllerLap /\ K!SetupsLeft
      BY DEF K!ControlInvariant
  <2>1. K!ControllerLap'
      BY <1>0, <2>0 DEF K!WriteLink, K!ControllerLap, K!TypeOK, K!CycleAfterLink, K!hwVars
  <2>2. K!SetupsLeft'
      BY <1>0, <2>0 DEF K!WriteLink, K!SetupsLeft, K!TypeOK, K!hwVars
  <2> QED
      BY <2>1, <2>2
<1> QED
    BY <1>1, <1>2, <1>3, <1>4 DEF K!WriteLink, K!ControlInvariant, K!hwVars

LEMMA ControlLoseSetupStep == ASSUME K!ControlInvariant, K!LoseSetup PROVE K!ControlInvariant'
<1> USE ControlConstants
<1>0. /\ K!TypeOK /\ K!ProducerLap /\ K!ControllerLap /\ K!SetupsLeft /\ K!EventOfTransfer /\ k_hw = "run"
      /\ k_step = "body" /\ k_left = 2 /\ k_events = <<>> /\ k_sent - k_ran <= ControlLeft
      /\ k_step' = "idle" /\ k_left' = 0 /\ k_request' = "none"
      /\ UNCHANGED <<k_trb, k_bit, k_enqueue, k_cycle, k_sent, k_td, k_hw, k_hwDequeue, k_hwCycle, k_ran, k_events>>
    BY DEF K!ControlInvariant, K!EventOfTransfer, K!LoseSetup, K!hwVars
<1>1. K!TypeOK'
    BY <1>0 DEF K!TypeOK
<1>2. K!ProducerLap'
    BY <1>0 DEF K!ProducerLap
<1>3. K!EventOfTransfer'
    BY <1>0 DEF K!EventOfTransfer
<1>4. K!ControllerLap'
    BY <1>0 DEF K!ControllerLap
<1>5. K!SetupsLeft'
    BY <1>0 DEF K!SetupsLeft, K!TypeOK
<1> QED
    BY <1>0, <1>1, <1>2, <1>3, <1>4, <1>5 DEF K!ControlInvariant

LEMMA ControlReadEventStep == ASSUME K!ControlInvariant, K!ReadEvent PROVE K!ControlInvariant'
<1> USE ControlConstants
<1>0. /\ K!TypeOK /\ K!ProducerLap /\ k_events # <<>> /\ k_step = "idle" /\ k_request # "aborted"
      /\ k_events' = Tail(k_events)
      /\ k_request' = IF k_request = "active" THEN "none" ELSE k_request
    BY DEF K!ReadEvent, K!ControlInvariant
<1>e. /\ k_events = <<k_td>> /\ k_events' = <<>>
      /\ k_request = "active" /\ k_request' = "none" /\ k_ran = k_sent /\ k_left = 0
  <2>1. k_events = <<k_td>> /\ k_request # "none" /\ k_ran = k_sent /\ k_left = 0
      BY <1>0 DEF K!ControlInvariant, K!EventOfTransfer
  <2>2. k_request \in {"none", "active", "aborted"}
      BY <1>0 DEF K!TypeOK
  <2> QED
      BY <1>0, <2>1, <2>2
<1>1. K!TypeOK'
    BY <1>0, <1>e DEF K!ReadEvent, K!TypeOK, K!producerVars, K!hwVars
<1>2. K!ProducerLap'
    BY <1>0, <1>e DEF K!ReadEvent, K!ProducerLap, K!producerVars
<1>3. K!EventOfTransfer'
    BY <1>0, <1>e DEF K!EventOfTransfer
<1>4. K!ControllerLap' /\ K!SetupsLeft'
  <2>0. K!ControllerLap /\ K!SetupsLeft
      BY DEF K!ControlInvariant
  <2>1. K!ControllerLap'
      BY <2>0 DEF K!ReadEvent, K!ControllerLap, K!producerVars, K!hwVars
  <2>2. K!SetupsLeft'
      BY <2>0, <1>0, <1>e DEF K!ReadEvent, K!SetupsLeft, K!TypeOK, K!producerVars, K!hwVars
  <2> QED
      BY <2>1, <2>2
<1> QED
    BY <1>0, <1>e, <1>1, <1>2, <1>3, <1>4 DEF K!ReadEvent, K!ControlInvariant, K!hwVars

LEMMA ControlNextTRBIsNext ==
    ASSUME K!ControlInvariant, K!Active, k_hwDequeue # K!Link
    PROVE  /\ K!ControllerLap /\ K!SetupsLeft
           /\ k_ran < k_sent
           /\ k_events = <<>> /\ k_trb[k_hwDequeue].n = k_ran + 1
           /\ k_trb[k_hwDequeue].last =>
                  k_trb[k_hwDequeue].td = k_td /\ k_ran + 1 = k_sent /\ k_left = 0 /\ k_request = "active"
           /\ ~ (k_hwCycle = k_cycle /\ k_hwDequeue = k_enqueue)
<1> USE ControlConstants
<1>0. /\ K!TypeOK /\ K!ProducerLap /\ K!ControllerLap /\ K!SetupsLeft
      /\ k_hw = "run" /\ k_bit[k_hwDequeue] = k_hwCycle
      /\ k_hwDequeue \in 0 .. (K!Link - 1)
    BY DEF K!ControlInvariant, K!Active, K!TypeOK
<1>1. ~ (k_hwCycle = k_cycle /\ k_hwDequeue = k_enqueue)
    BY <1>0 DEF K!ProducerLap, K!TypeOK
<1>2. k_trb[k_hwDequeue].n = k_ran + 1 /\ k_ran < k_sent
  <2>1. CASE k_hwCycle = k_cycle
      BY <2>1, <1>0, <1>1 DEF K!ControllerLap, K!TypeOK
  <2>2. CASE k_hwCycle # k_cycle
      BY <2>2, <1>0 DEF K!ControllerLap, K!TypeOK
  <2> QED
      BY <2>1, <2>2
<1>4. k_events = <<>>
    BY <1>0, <1>2 DEF K!ControlInvariant, K!EventOfTransfer, K!TypeOK
<1>5. k_trb[k_hwDequeue].last =>
         k_trb[k_hwDequeue].td = k_td /\ k_trb[k_hwDequeue].n = k_sent /\ k_left = 0 /\ k_request = "active"
  <2>1. /\ k_hwDequeue \in K!Slots /\ k_hwDequeue # K!Link
        /\ k_trb[k_hwDequeue].n > k_ran /\ k_trb[k_hwDequeue].n <= k_sent
      BY <1>0, <1>2 DEF K!TypeOK
  <2> QED
      BY <2>1, <1>0, Zenon DEF K!SetupsLeft
<1> QED
    BY <1>0, <1>1, <1>2, <1>4, <1>5

LEMMA ControlRunStep == ASSUME K!ControlInvariant, K!Run PROVE K!ControlInvariant'
<1> USE ControlConstants
<1>0. /\ K!TypeOK /\ K!ProducerLap /\ K!ControllerLap /\ K!SetupsLeft
      /\ k_ran < k_sent /\ k_events = <<>> /\ k_trb[k_hwDequeue].n = k_ran + 1
      /\ k_trb[k_hwDequeue].last =>
             k_trb[k_hwDequeue].td = k_td /\ k_ran + 1 = k_sent /\ k_left = 0 /\ k_request = "active"
      /\ ~ (k_hwCycle = k_cycle /\ k_hwDequeue = k_enqueue)
      /\ k_hw = "run" /\ k_hwDequeue # K!Link /\ k_hw' = "run"
    BY ControlNextTRBIsNext DEF K!Run, K!Active, K!ControlInvariant
<1>1. /\ k_ran' = k_ran + 1 /\ k_hwDequeue' = k_hwDequeue + 1
      /\ k_events' # <<>> => /\ k_events' = <<k_td>> /\ k_request = "active"
                             /\ k_ran + 1 = k_sent /\ k_left = 0
    BY <1>0 DEF K!Run
<1>2. K!TypeOK'
    BY <1>0, <1>1 DEF K!Run, K!TypeOK, K!producerVars
<1>3. K!ProducerLap'
    BY <1>0 DEF K!Run, K!ProducerLap, K!producerVars
<1>4. K!EventOfTransfer'
    BY <1>0, <1>1 DEF K!Run, K!EventOfTransfer, K!producerVars
<1>5. K!ControllerLap'
  <2>1. CASE k_hwCycle = k_cycle
      BY <2>1, <1>0, <1>1 DEF K!Run, K!ControllerLap, K!TypeOK, K!producerVars
  <2>2. CASE k_hwCycle # k_cycle
      BY <2>2, <1>0, <1>1 DEF K!Run, K!ControllerLap, K!TypeOK, K!producerVars
  <2> QED
      BY <2>1, <2>2
<1>6. K!SetupsLeft'
  <2>1. /\ UNCHANGED <<k_trb, k_sent, k_left, k_td, k_request>>
        /\ k_ran \in Nat /\ k_sent \in Nat /\ k_left \in Nat
      BY <1>0 DEF K!Run, K!TypeOK, K!producerVars
  <2>2. /\ k_ran' <= k_sent' /\ k_sent' - k_ran' + k_left' <= ControlLeft + MaxTRBs
        /\ k_request' = "none" => k_sent' - k_ran' <= ControlLeft
      BY <2>1, <1>0, <1>1 DEF K!SetupsLeft
  <2>3. \A i \in K!Slots : k_trb[i].n \in Nat
      BY <1>0 DEF K!TypeOK, K!TRBs
  <2>4. \A i \in K!Slots : k_trb[i].n > k_ran' => k_trb[i].n > k_ran
      BY <2>1, <2>3, <1>1
  <2>5. \A i \in K!Slots : i # K!Link /\ k_trb[i].n > k_ran /\ k_trb[i].n <= k_sent /\ k_trb[i].last =>
           k_trb[i].td = k_td /\ k_trb[i].n = k_sent /\ k_left = 0 /\ k_request = "active"
      BY <1>0 DEF K!SetupsLeft
  <2>6. \A i \in K!Slots : i # K!Link /\ k_trb'[i].n > k_ran' /\ k_trb'[i].n <= k_sent' /\ k_trb'[i].last =>
           k_trb'[i].td = k_td' /\ k_trb'[i].n = k_sent' /\ k_left' = 0 /\ k_request' = "active"
      BY <2>1, <2>4, <2>5, Zenon
  <2> QED
      BY <2>2, <2>6, Zenon DEF K!SetupsLeft
<1> QED
    BY <1>0, <1>2, <1>3, <1>4, <1>5, <1>6 DEF K!Run, K!producerVars, K!ControlInvariant

LEMMA ControlFollowLinkStep == ASSUME K!ControlInvariant, K!FollowLink PROVE K!ControlInvariant'
<1> USE ControlConstants
<1>0. /\ K!TypeOK /\ K!ProducerLap /\ K!ControllerLap /\ K!SetupsLeft /\ K!EventOfTransfer
      /\ k_hw = "run" /\ k_hw' = "run" /\ k_hwDequeue = K!Link /\ k_hwCycle # k_cycle
      /\ k_hwDequeue' = 0 /\ k_hwCycle' = 1 - k_hwCycle
    BY DEF K!FollowLink, K!Active, K!ControlInvariant, K!ProducerLap, K!TypeOK, K!LinkTogglesCycle
<1>1. K!TypeOK'
    BY <1>0 DEF K!FollowLink, K!TypeOK, K!producerVars
<1>2. K!ProducerLap'
    BY <1>0 DEF K!FollowLink, K!ProducerLap, K!producerVars
<1>3. K!EventOfTransfer'
    BY <1>0 DEF K!FollowLink, K!EventOfTransfer, K!producerVars
<1>4. K!ControllerLap'
    BY <1>0 DEF K!FollowLink, K!ControllerLap, K!TypeOK, K!producerVars
<1>5. K!SetupsLeft'
    BY <1>0 DEF K!FollowLink, K!SetupsLeft, K!producerVars
<1> QED
    BY <1>0, <1>1, <1>2, <1>3, <1>4, <1>5 DEF K!FollowLink, K!producerVars, K!ControlInvariant

\* Every step of the control ring keeps its invariant.
LEMMA ControlStep == ASSUME K!ControlInvariant, K!Next \/ UNCHANGED K!vars PROVE K!ControlInvariant'
<1>1. CASE UNCHANGED K!vars
    BY <1>1 DEF K!vars, K!producerVars, K!hwVars, K!ControlInvariant, K!TypeOK, K!ProducerLap,
        K!ControllerLap, K!SetupsLeft, K!EventOfTransfer
<1>2. CASE K!Remove \/ K!Halt
    BY <1>2 DEF K!Remove, K!Halt
<1>3. CASE K!Flush
    BY <1>3 DEF K!Flush, K!ControlInvariant
<1> QED
    BY <1>1, <1>2, <1>3, ControlBuildStep, ControlWriteBodyStep, ControlWriteControlStep,
       ControlWriteLinkStep, ControlLoseSetupStep, ControlReadEventStep, ControlRunStep,
       ControlFollowLinkStep
       DEF K!Next, K!Producer, K!Controller

\* What the invariant says of a step of the control ring, and of its events.
LEMMA ControlGood ==
    ASSUME K!ControlInvariant, K!Next \/ UNCHANGED K!vars
    PROVE  /\ k_ran' # k_ran => k_ran' = k_ran + 1 /\ k_ran' <= k_sent
           /\ K!OwnEvents
<1>1. K!OwnEvents
    BY DEF K!ControlInvariant, K!EventOfTransfer, K!OwnEvents
<1>2. SUFFICES ASSUME k_ran' # k_ran PROVE k_ran' = k_ran + 1 /\ k_ran' <= k_sent
    BY <1>1
<1>3. CASE K!Run
  <2>1. k_ran < k_sent /\ k_ran' = k_ran + 1 /\ k_ran \in Nat /\ k_sent \in Nat
      BY <1>3, ControlNextTRBIsNext DEF K!Run, K!ControlInvariant, K!TypeOK
  <2> QED
      BY <2>1
<1>4. CASE K!Flush
    BY <1>4 DEF K!Flush, K!ControlInvariant
<1> QED
    BY <1>2, <1>3, <1>4 DEF K!Next, K!Producer, K!Controller, K!Build, K!WriteBody, K!WriteControl,
       K!WriteLink, K!LoseSetup, K!ReadEvent, K!Remove, K!FollowLink, K!Halt, K!hwVars, K!vars

\* A step of the whole is a step of each ring, or leaves it alone.
LEMMA OneRingSteps ==
    ASSUME MCNext \/ UNCHANGED allVars
    PROVE  /\ Next \/ UNCHANGED vars
           /\ K!Next \/ UNCHANGED K!vars
<1>1. UNCHANGED k_vars => UNCHANGED K!vars
    BY DEF k_vars, K!vars, K!producerVars, K!hwVars
<1> QED
    BY <1>1 DEF MCNext, allVars

\* Transfers keep to themselves: the controller runs only TRBs of the transfer that has its
\* endpoint, a transfer that lost it left none behind, and on the control ring, where Setup TRBs
\* may be left behind (XHCI_Control_Build()), each TRB is run once and in order and an event is
\* for the request it completes, as long as what was left and one more transfer fit the ring.
THEOREM TransfersKeptApartAlways == ASSUME Flushes PROVE MCSpec => TransfersKeptApart
<1> DEFINE Inv == RingInvariant /\ K!ControlInvariant
           Own == Run => trb[hwDequeue].td = td /\ request = "active"
           InOrder == k_ran' # k_ran => \/ k_ran' = k_ran + 1 /\ k_ran' <= k_sent
                                        \/ k_request = "aborted" /\ k_ran' = k_sent
           Apart == ConsumedWhenCompleted /\ K!OwnEvents
<1>1. MCInit => Inv
    BY RingInit, ControlInit DEF MCInit
<1>2. Inv /\ [MCNext]_allVars => Inv'
    BY OneRingSteps, RingStep, ControlStep
<1>3. Inv /\ [MCNext]_allVars => [Own]_vars /\ [InOrder]_(K!vars)
    BY NextTRBIsNext, OneRingSteps, ControlGood DEF Run
<1>4. Inv => Apart
    BY DEF RingInvariant, OneTransfer, ConsumedWhenCompleted, K!ControlInvariant,
       K!EventOfTransfer, K!OwnEvents
<1>5. MCSpec => [][Own]_vars /\ [][InOrder]_(K!vars) /\ []Apart
    BY <1>1, <1>2, <1>3, <1>4, PTL DEF MCSpec
<1>6. []Apart => [][Apart']_<<vars, k_vars>>
    BY PTL
<1> QED
    BY <1>5, <1>6 DEF TransfersKeptApart, RunsOwn, K!RunsInOrder

-----------------------------------------------------------------------------
(* The command ring and the event ring (XHCICommandRing): the argument is by laps. *)

\* The rings hold an entry besides the link.
LEMMA RingSizes ==
    ASSUME C!CommandRingAssumption
    PROVE  /\ C!Link \in Nat /\ C!Link >= 2 /\ EvtSize \in Nat /\ EvtSize >= 2
           /\ CmdSize = C!Link + 1
BY DEF C!CommandRingAssumption, C!Link

\* What the types say, one by one.
CmdType == [cmd : Nat, cycle : {0, 1}]
EvtType == [n : Nat, cmd : Nat, cycle : {0, 1}]
Numbers ==
    /\ c_cmdEnq \in 0 .. C!Link - 1 /\ c_hwCmd \in 0 .. C!Link
    /\ c_evtDeq \in 0 .. EvtSize - 1 /\ c_hwEvt \in 0 .. EvtSize - 1 /\ c_erdp \in 0 .. EvtSize - 1
    /\ c_cmdCycle \in {0, 1} /\ c_evtCycle \in {0, 1} /\ c_hwCmdCycle \in {0, 1} /\ c_hwEvtCycle \in {0, 1}
    /\ c_pc \in {"idle", "poll"}
    /\ c_call \in Nat /\ c_result \in Nat /\ c_sent \in Nat /\ c_ran \in Nat
    /\ c_made \in Nat /\ c_read \in Nat /\ c_others \in Nat
Flags == c_restarted \in BOOLEAN /\ c_alone \in BOOLEAN
Rings == c_cmdRing \in [0 .. C!Link -> CmdType] /\ c_evtRing \in [0 .. EvtSize - 1 -> EvtType]

\* The types are those of the numbers and of the two rings.
LEMMA CommandTypes == C!TypeOK <=> Numbers /\ Rings /\ Flags
BY DEF C!TypeOK, Numbers, Rings, Flags, CmdType, EvtType

\* The same after a step.
LEMMA CommandTypesNext == ASSUME Numbers', Rings', Flags' PROVE C!TypeOK'
BY DEF C!TypeOK, Numbers, Rings, Flags, CmdType, EvtType

\* The next slot of a ring of size n.
LEMMA NextSlot ==
    ASSUME NEW n \in Nat, n >= 2, NEW i \in 0 .. n - 1
    PROVE  (i + 1) % n = IF i + 1 = n THEN 0 ELSE i + 1
OBVIOUS

\* The rings begin empty and in phase.
LEMMA CommandsInit == ASSUME C!CommandRingAssumption, C!Init PROVE C!CommandsInvariant
<1>s. /\ C!Link \in Nat /\ C!Link >= 2 /\ EvtSize \in Nat /\ EvtSize >= 2
  BY RingSizes
<1> USE <1>s
<1>1. Numbers
  <2>1. 0 \in 0 .. C!Link - 1 /\ 0 \in 0 .. C!Link /\ 0 \in 0 .. EvtSize - 1
    OBVIOUS
  <2> QED BY <2>1 DEF C!Init, Numbers
<1>2. C!NoCommand \in CmdType /\ C!NoEvent \in EvtType
  BY DEF C!NoCommand, C!NoEvent, CmdType, EvtType
<1>3. Rings
  BY <1>2 DEF C!Init, Rings
<1>4. C!CommandBits /\ C!EventBits
  BY DEF C!Init, C!CommandBits, C!EventBits, C!NoCommand, C!NoEvent
<1>5. C!CommandLap /\ C!EventLap
  BY DEF C!Init, C!CommandLap, C!EventLap
<1>6. C!AnswerComes /\ C!OneAnswer
  BY DEF C!Init, C!AnswerComes, C!OneAnswer
<1>7. Flags
  BY DEF C!Init, Flags
<1> QED BY <1>1, <1>3, <1>4, <1>5, <1>6, <1>7, CommandTypes DEF C!CommandsInvariant, C!CommandsExact

-----------------------------------------------------------------------------
(* Both sides of the event ring *)

\* The task sees an event exactly if there is one it has not read, and it is the next.
LEMMA NextEvent ==
    ASSUME C!CommandRingAssumption, Numbers, C!EventBits, C!EventLap
    PROVE  /\ c_read <= c_made
           /\ c_evtRing[c_evtDeq].cycle = c_evtCycle <=> c_read # c_made
           /\ c_evtRing[c_evtDeq].cycle = c_evtCycle <=> c_evtDeq \in C!Unread
           /\ c_evtRing[c_evtDeq].cycle # c_evtCycle => C!Unread = {} /\ c_evtDeq = c_hwEvt
           /\ c_evtDeq \in C!Unread => c_evtRing[c_evtDeq].n = c_read + 1
<1>s. /\ C!Link \in Nat /\ C!Link >= 2 /\ EvtSize \in Nat /\ EvtSize >= 2
  BY RingSizes
<1> USE <1>s
<1>1. /\ c_evtRing[c_evtDeq].cycle = IF c_evtDeq < c_hwEvt THEN c_hwEvtCycle ELSE 1 - c_hwEvtCycle
      /\ c_evtDeq < c_hwEvt => c_evtRing[c_evtDeq].n = c_made - c_hwEvt + c_evtDeq + 1
      /\ c_evtDeq >= c_hwEvt /\ c_evtCycle # c_hwEvtCycle =>
            c_evtRing[c_evtDeq].n = c_made - c_hwEvt - EvtSize + c_evtDeq + 1
  BY DEF C!EventBits, Numbers
<1> QED BY <1>1 DEF Numbers, C!EventLap, C!Unread

\* The controller adds an event to those that are unread.
LEMMA EventMade ==
    ASSUME C!CommandRingAssumption, Numbers, Rings, C!EventBits, C!EventLap, NEW c \in Nat, C!MakeEvent(c),
           UNCHANGED <<c_erdp, c_evtDeq, c_evtCycle, c_read>>
    PROVE  /\ c_hwEvt' \in 0 .. EvtSize - 1 /\ c_hwEvtCycle' \in {0, 1} /\ c_made' = c_made + 1
           /\ c_evtRing' \in [0 .. EvtSize - 1 -> EvtType]
           /\ C!EventBits' /\ C!EventLap'
           /\ c_hwEvt \notin C!Unread /\ C!Unread' = C!Unread \cup {c_hwEvt} /\ c_evtRing'[c_hwEvt].cmd = c
           /\ \A i \in C!Unread : c_evtRing'[i] = c_evtRing[i]
<1>s. /\ C!Link \in Nat /\ C!Link >= 2 /\ EvtSize \in Nat /\ EvtSize >= 2
  BY RingSizes
<1> USE <1>s
<1> DEFINE new == [n |-> c_made + 1, cmd |-> c, cycle |-> c_hwEvtCycle]
<1>1. /\ (c_hwEvt + 1) % EvtSize = IF c_hwEvt + 1 = EvtSize THEN 0 ELSE c_hwEvt + 1
      /\ c_hwEvt' = (c_hwEvt + 1) % EvtSize /\ (c_hwEvt + 1) % EvtSize # c_erdp
      /\ c_hwEvtCycle' = IF c_hwEvt + 1 = EvtSize THEN 1 - c_hwEvtCycle ELSE c_hwEvtCycle
      /\ c_made' = c_made + 1
  BY NextSlot DEF C!MakeEvent, C!EventRingFull, Numbers
<1>2. c_evtRing' = [c_evtRing EXCEPT ![c_hwEvt] = new] /\ new \in EvtType
      /\ new.n = c_made + 1 /\ new.cmd = c /\ new.cycle = c_hwEvtCycle
  BY DEF C!MakeEvent, EvtType, Numbers
<1> HIDE DEF new
<1>3. /\ c_hwEvt' \in 0 .. EvtSize - 1 /\ c_hwEvtCycle' \in {0, 1}
      /\ c_evtRing' \in [0 .. EvtSize - 1 -> EvtType]
  <2>1. c_hwEvt' \in 0 .. EvtSize - 1
    BY <1>1 DEF Numbers
  <2>2. c_hwEvtCycle' \in {0, 1}
    BY <1>1 DEF Numbers
  <2>3. c_evtRing' \in [0 .. EvtSize - 1 -> EvtType]
    BY <1>2 DEF Rings
  <2> QED BY <2>1, <2>2, <2>3
<1>4. \A i \in 0 .. EvtSize - 1 : c_evtRing'[i] = IF i = c_hwEvt THEN new ELSE c_evtRing[i]
  BY <1>2 DEF Rings, Numbers
<1>5. C!EventLap'
  BY <1>1 DEF C!EventLap, Numbers
<1>6. c_hwEvt \notin C!Unread /\ C!Unread' = C!Unread \cup {c_hwEvt}
  BY <1>1 DEF C!Unread, C!EventLap, Numbers
<1>7. C!EventBits'
  <2> SUFFICES ASSUME NEW i \in 0 .. EvtSize - 1
               PROVE  /\ c_evtRing'[i].cycle = IF i < c_hwEvt' THEN c_hwEvtCycle' ELSE 1 - c_hwEvtCycle'
                      /\ i < c_hwEvt' => c_evtRing'[i].n = c_made' - c_hwEvt' + i + 1
                      /\ i >= c_hwEvt' /\ c_evtCycle # c_hwEvtCycle' =>
                            c_evtRing'[i].n = c_made' - c_hwEvt' - EvtSize + i + 1
    BY DEF C!EventBits
  <2>1. /\ c_evtRing[i].cycle = IF i < c_hwEvt THEN c_hwEvtCycle ELSE 1 - c_hwEvtCycle
        /\ i < c_hwEvt => c_evtRing[i].n = c_made - c_hwEvt + i + 1
        /\ i >= c_hwEvt /\ c_evtCycle # c_hwEvtCycle => c_evtRing[i].n = c_made - c_hwEvt - EvtSize + i + 1
    BY DEF C!EventBits
  <2>2. c_evtRing'[i] = IF i = c_hwEvt THEN new ELSE c_evtRing[i]
    BY <1>4
  <2>3. CASE i = c_hwEvt
    BY <1>1, <1>2, <2>2, <2>3 DEF Numbers
  <2>4. CASE i # c_hwEvt
    <3>1. c_evtRing'[i] = c_evtRing[i]
      BY <2>2, <2>4
    <3>2. CASE c_hwEvt + 1 = EvtSize
      <4>1. c_hwEvt' = 0 /\ c_hwEvtCycle' = 1 - c_hwEvtCycle /\ c_made' = c_made + 1 /\ i < c_hwEvt
        BY <1>1, <2>4, <3>2 DEF Numbers
      <4> QED BY <2>1, <3>1, <3>2, <4>1 DEF Numbers
    <3>3. CASE c_hwEvt + 1 # EvtSize
      <4>1. c_hwEvt' = c_hwEvt + 1 /\ c_hwEvtCycle' = c_hwEvtCycle /\ c_made' = c_made + 1
        BY <1>1, <3>3 DEF Numbers
      <4>2. (i < c_hwEvt + 1 <=> i < c_hwEvt) /\ (i >= c_hwEvt + 1 <=> i >= c_hwEvt)
        BY <2>4 DEF Numbers
      <4> QED BY <2>1, <3>1, <4>1, <4>2 DEF Numbers
    <3> QED BY <3>2, <3>3
  <2> QED BY <2>3, <2>4
<1>8. \A i \in C!Unread : c_evtRing'[i] = c_evtRing[i]
  BY <1>4, <1>6 DEF C!Unread
<1>9. c_evtRing'[c_hwEvt].cmd = c
  BY <1>2, <1>4 DEF Numbers
<1> QED BY <1>1, <1>3, <1>5, <1>6, <1>7, <1>8, <1>9

-----------------------------------------------------------------------------
(* The types, restarts or not *)

\* The controller writes an event in the ring.
LEMMA MakeEventTypes ==
    ASSUME C!CommandRingAssumption, Numbers, Rings, NEW c \in Nat, C!MakeEvent(c)
    PROVE  /\ c_hwEvt' \in 0 .. EvtSize - 1 /\ c_hwEvtCycle' \in {0, 1} /\ c_made' \in Nat
           /\ c_evtRing' \in [0 .. EvtSize - 1 -> EvtType]
<1>s. EvtSize \in Nat /\ EvtSize >= 2
  BY RingSizes
<1>1. (c_hwEvt + 1) % EvtSize = IF c_hwEvt + 1 = EvtSize THEN 0 ELSE c_hwEvt + 1
  BY <1>s, NextSlot DEF Numbers
<1>2. c_hwEvt' \in 0 .. EvtSize - 1
  BY <1>s, <1>1 DEF C!MakeEvent, Numbers
<1>3. c_hwEvtCycle' \in {0, 1} /\ c_made' \in Nat
  BY <1>s DEF C!MakeEvent, Numbers
<1>4. c_evtRing' \in [0 .. EvtSize - 1 -> EvtType]
  <2>1. [n |-> c_made + 1, cmd |-> c, cycle |-> c_hwEvtCycle] \in EvtType
    BY DEF EvtType, Numbers
  <2> QED BY <2>1 DEF C!MakeEvent, Rings
<1> QED BY <1>2, <1>3, <1>4

\* What is in a slot.
LEMMA SlotTypes ==
    ASSUME C!CommandRingAssumption, Numbers, Rings
    PROVE  /\ c_cmdRing[c_hwCmd].cmd \in Nat
           /\ c_evtRing[c_evtDeq].cmd \in Nat /\ c_evtRing[c_evtDeq].n \in Nat
BY RingSizes DEF Numbers, Rings, CmdType, EvtType

\* Every step keeps the types.
LEMMA CommandTypesStep ==
    ASSUME C!CommandRingAssumption, C!TypeOK, C!Next \/ UNCHANGED C!vars PROVE C!TypeOK'
<1>s. /\ C!Link \in Nat /\ C!Link >= 2 /\ EvtSize \in Nat /\ EvtSize >= 2
  BY RingSizes
<1>t. Numbers /\ Rings /\ Flags
  BY CommandTypes
<1>1. CASE C!SendCommand
  <2>1. Rings'
    <3>1. UNCHANGED c_evtRing /\ C!Link \in 0 .. C!Link /\ c_cmdEnq \in 0 .. C!Link
      BY <1>1, <1>s, <1>t DEF C!SendCommand, Numbers
    <3>2. [cmd |-> c_sent + 1, cycle |-> c_cmdCycle] \in CmdType
      BY <1>t DEF CmdType, Numbers
    <3>3. PICK w : w = [c_cmdRing EXCEPT ![c_cmdEnq] = [cmd |-> c_sent + 1, cycle |-> c_cmdCycle]]
      OBVIOUS
    <3>4. w \in [0 .. C!Link -> CmdType]
      BY <1>t, <3>2, <3>3 DEF Rings
    <3>5. [w[C!Link] EXCEPT !.cycle = c_cmdCycle] \in CmdType
      BY <1>t, <3>1, <3>4 DEF CmdType, Numbers
    <3>6. c_cmdRing' = w \/ c_cmdRing' = [w EXCEPT ![C!Link] = [w[C!Link] EXCEPT !.cycle = c_cmdCycle]]
      BY <1>1, <3>3 DEF C!SendCommand, C!LinkGiven
    <3> QED BY <1>t, <3>1, <3>4, <3>5, <3>6 DEF Rings
  <2>2. Numbers'
    BY <1>1, <1>s, <1>t DEF C!SendCommand, C!AtLink, C!CmdCycleAfterLink, Numbers, C!chipVars
  <2>3. Flags'
    BY <1>1, <1>t DEF C!SendCommand, Flags
  <2> QED BY <2>1, <2>2, <2>3, CommandTypesNext
<1>2. CASE C!Wake
  <2>1. Numbers'
    BY <1>2, <1>t DEF C!Wake, Numbers, C!chipVars
  <2>2. Rings' /\ Flags'
    BY <1>2, <1>t DEF C!Wake, Rings, Flags
  <2> QED BY <2>1, <2>2, CommandTypesNext
<1>3. CASE C!ReadEvent
  <2>1. c_evtRing[c_evtDeq].cmd \in Nat /\ c_evtRing[c_evtDeq].n \in Nat
    BY <1>t, SlotTypes
  <2>2. Numbers'
    BY <1>3, <1>s, <1>t, <2>1 DEF C!ReadEvent, C!EvtCycleAfterWrap, Numbers, C!chipVars
  <2>3. Rings' /\ Flags'
    BY <1>3, <1>t DEF C!ReadEvent, Rings, Flags
  <2> QED BY <2>2, <2>3, CommandTypesNext
<1>4. CASE C!PollEnds
  <2>1. Numbers'
    BY <1>4, <1>t DEF C!PollEnds, C!ErdpWritten, Numbers, C!chipVars
  <2>2. Rings' /\ Flags'
    BY <1>4, <1>t DEF C!PollEnds, Rings, Flags
  <2> QED BY <2>1, <2>2, CommandTypesNext
<1>5. CASE C!GiveUp
  <2>1. Numbers'
    BY <1>5, <1>t DEF C!GiveUp, Numbers, C!chipVars
  <2>2. Rings' /\ Flags'
    BY <1>5, <1>t DEF C!GiveUp, Rings, Flags
  <2> QED BY <2>1, <2>2, CommandTypesNext
<1>6. CASE C!Restart
  <2>1. C!NoCommand \in CmdType /\ C!NoEvent \in EvtType
    BY DEF C!NoCommand, C!NoEvent, CmdType, EvtType
  <2>2. Rings' /\ Flags'
    BY <1>6, <1>t, <2>1 DEF C!Restart, Rings, Flags, C!driverVars
  <2>3. 0 \in 0 .. C!Link /\ 0 \in 0 .. EvtSize - 1
    BY <1>s
  <2>4. Numbers'
    BY <1>6, <1>t, <2>3 DEF C!Restart, Numbers, C!driverVars
  <2> QED BY <2>2, <2>4, CommandTypesNext
<1>7. CASE C!RunCommand
  <2>1. PICK c \in Nat : c = c_cmdRing[c_hwCmd].cmd
    BY <1>t, SlotTypes
  <2>2. C!MakeEvent(c) /\ c_ran' = c /\ c_hwCmd' = c_hwCmd + 1 /\ c_hwCmd # C!Link
        /\ UNCHANGED <<c_cmdRing, c_erdp, c_restarted, C!driverVars, c_hwCmdCycle, c_others>>
    BY <1>7, <2>1 DEF C!RunCommand
  <2>3. c_hwCmd' \in 0 .. C!Link
    BY <1>s, <1>t, <2>2 DEF Numbers
  <2>4. /\ c_hwEvt' \in 0 .. EvtSize - 1 /\ c_hwEvtCycle' \in {0, 1} /\ c_made' \in Nat
        /\ c_evtRing' \in [0 .. EvtSize - 1 -> EvtType]
    BY <1>t, <2>2, MakeEventTypes
  <2> QED BY <1>t, <2>2, <2>3, <2>4, CommandTypesNext DEF Numbers, Rings, Flags, C!driverVars
<1>8. CASE C!FollowLink
  <2>1. Numbers'
    BY <1>8, <1>s, <1>t DEF C!FollowLink, Numbers, C!driverVars
  <2> QED BY <1>8, <1>t, <2>1, CommandTypesNext DEF C!FollowLink, Rings, Flags, C!driverVars
<1>9. CASE C!OtherEvent
  <2>1. C!MakeEvent(0) /\ c_others' = c_others + 1
        /\ UNCHANGED <<c_cmdRing, c_erdp, c_restarted, C!driverVars, c_hwCmd, c_hwCmdCycle, c_ran>>
    BY <1>9 DEF C!OtherEvent
  <2>2. /\ c_hwEvt' \in 0 .. EvtSize - 1 /\ c_hwEvtCycle' \in {0, 1} /\ c_made' \in Nat
        /\ c_evtRing' \in [0 .. EvtSize - 1 -> EvtType]
    BY <1>t, <2>1, MakeEventTypes
  <2> QED BY <1>t, <2>1, <2>2, CommandTypesNext DEF Numbers, Rings, Flags, C!driverVars
<1>10. CASE UNCHANGED C!vars
  <2>1. Numbers'
    BY <1>10, <1>t DEF C!vars, C!driverVars, C!chipVars, Numbers
  <2>2. Rings' /\ Flags'
    BY <1>10, <1>t DEF C!vars, C!driverVars, Rings, Flags
  <2> QED BY <2>1, <2>2, CommandTypesNext
<1> QED BY <1>1, <1>2, <1>3, <1>4, <1>5, <1>6, <1>7, <1>8, <1>9, <1>10 DEF C!Next, C!Driver, C!Controller

-----------------------------------------------------------------------------
(* Before a restart *)

\* What the controller sees of the command ring is what there is to run.
LEMMA Seen ==
    ASSUME C!CommandRingAssumption, Numbers, C!CommandBits, C!CommandLap
    PROVE  /\ C!Runnable /\ c_hwCmd # C!Link => c_ran < c_sent /\ c_cmdRing[c_hwCmd].cmd = c_ran + 1
           /\ c_ran < c_sent => C!Runnable
           /\ C!Runnable /\ c_hwCmd = C!Link => c_hwCmdCycle = 1 - c_cmdCycle
<1>s. /\ C!Link \in Nat /\ C!Link >= 2
  BY RingSizes
<1>0. c_sent - c_ran \in 0 .. C!Link - 1
  BY DEF C!CommandLap
<1>1. CASE c_hwCmdCycle = c_cmdCycle /\ c_hwCmd + (c_sent - c_ran) = c_cmdEnq
  <2>1. c_hwCmd <= c_cmdEnq /\ c_hwCmd \in 0 .. C!Link - 1 /\ c_hwCmd # C!Link
    BY <1>0, <1>1, <1>s DEF Numbers
  <2>2. C!Runnable <=> c_hwCmd < c_cmdEnq
    BY <1>1, <2>1 DEF C!Runnable, C!CommandBits, Numbers
  <2>3. c_hwCmd < c_cmdEnq <=> c_ran < c_sent
    BY <1>0, <1>1, <2>1 DEF Numbers
  <2>4. c_hwCmd < c_cmdEnq => c_cmdRing[c_hwCmd].cmd = c_sent - c_cmdEnq + c_hwCmd + 1
    BY <2>1 DEF C!CommandBits
  <2>5. c_sent - c_cmdEnq + c_hwCmd + 1 = c_ran + 1
    BY <1>1, <2>1 DEF Numbers
  <2> QED BY <2>1, <2>2, <2>3, <2>4, <2>5
<1>2. CASE c_hwCmdCycle = 1 - c_cmdCycle /\ c_hwCmd + (c_sent - c_ran) = c_cmdEnq + C!Link
  <2>1. CASE c_hwCmd = C!Link
    BY <1>2, <2>1 DEF C!Runnable, C!CommandBits
  <2>2. CASE c_hwCmd # C!Link
    <3>1. c_hwCmd \in 0 .. C!Link - 1 /\ c_hwCmd >= c_cmdEnq /\ c_ran < c_sent /\ c_hwCmdCycle # c_cmdCycle
      BY <1>0, <1>2, <1>s, <2>2 DEF Numbers
    <3>2. c_cmdRing[c_hwCmd].cmd = c_sent - c_cmdEnq - C!Link + c_hwCmd + 1
      BY <3>1 DEF C!CommandBits
    <3>3. c_sent - c_cmdEnq - C!Link + c_hwCmd + 1 = c_ran + 1
      BY <1>2, <1>s, <3>1 DEF Numbers
    <3>4. c_cmdRing[c_hwCmd].cycle = 1 - c_cmdCycle
      BY <3>1 DEF C!CommandBits, Numbers
    <3> QED BY <1>2, <2>2, <3>1, <3>2, <3>3, <3>4 DEF C!Runnable
  <2> QED BY <2>1, <2>2
<1> QED BY <1>1, <1>2 DEF C!CommandLap

\* A command is sent: the rings stay in phase.
LEMMA SendExact ==
    ASSUME C!CommandRingAssumption, Numbers, Rings, C!CommandsExact, C!SendCommand, ~ c_restarted
    PROVE  C!CommandsExact'
<1>s. /\ C!Link \in Nat /\ C!Link >= 2
  BY RingSizes
<1>0. C!CommandBits /\ C!CommandLap /\ C!EventBits /\ C!EventLap /\ C!AnswerComes /\ C!OneAnswer
  BY DEF C!CommandsExact
<1>1. /\ UNCHANGED <<c_evtRing, c_erdp, c_evtDeq, c_evtCycle, c_read, c_hwCmd, c_hwCmdCycle, c_hwEvt, c_hwEvtCycle, c_ran, c_made>>
      /\ c_call = 0 /\ c_sent' = c_sent + 1 /\ c_call' = c_sent + 1 /\ c_result' = 0 /\ c_pc' = "poll"
      /\ c_alone' = (c_ran = c_sent /\ C!NoAnswer(C!Unread))
  BY DEF C!SendCommand, C!chipVars
<1>2. C!EventBits' /\ C!EventLap' /\ C!Unread' = C!Unread
  BY <1>0, <1>1 DEF C!EventBits, C!EventLap, C!Unread
<1>3. c_sent - c_ran \in 0 .. C!Link - 1 /\ c_sent - c_ran < C!Link - 1
  BY <1>0 DEF C!CommandLap, C!SendCommand, C!RingNotFull
<1>4. C!AnswerComes' /\ C!OneAnswer'
  <2>1. C!AnswerComes'
    BY <1>1, <1>3, <1>s DEF C!AnswerComes, Numbers
  <2>2. c_alone' => c_ran' + 1 = c_sent' /\ C!NoAnswer(C!Unread)'
    BY <1>1, <1>2 DEF C!NoAnswer
  <2> QED BY <1>1, <2>1, <2>2 DEF C!OneAnswer
<1>5. PICK w : w = [c_cmdRing EXCEPT ![c_cmdEnq] = [cmd |-> c_sent + 1, cycle |-> c_cmdCycle]]
  OBVIOUS
<1>6. /\ w \in [0 .. C!Link -> CmdType] /\ w[c_cmdEnq].cmd = c_sent + 1 /\ w[c_cmdEnq].cycle = c_cmdCycle
      /\ \A i \in 0 .. C!Link : i # c_cmdEnq => w[i] = c_cmdRing[i]
      /\ c_cmdEnq \in 0 .. C!Link
  <2>1. [cmd |-> c_sent + 1, cycle |-> c_cmdCycle] \in CmdType
    BY DEF CmdType, Numbers
  <2> QED BY <1>5, <1>s, <2>1 DEF Rings, Numbers
<1>7. CASE C!AtLink
  <2>1. c_cmdRing' = [w EXCEPT ![C!Link] = [w[C!Link] EXCEPT !.cycle = c_cmdCycle]] /\ c_cmdEnq' = 0
        /\ c_cmdCycle' = 1 - c_cmdCycle /\ c_cmdEnq = C!Link - 1
    BY <1>5, <1>7, <1>s DEF C!SendCommand, C!LinkGiven, C!AtLink, C!CmdCycleAfterLink, Numbers
  <2>2. /\ c_cmdRing'[C!Link].cycle = c_cmdCycle
        /\ \A i \in 0 .. C!Link - 1 : c_cmdRing'[i] = w[i]
    <3>1. C!Link \in 0 .. C!Link
      BY <1>s
    <3>2. [w[C!Link] EXCEPT !.cycle = c_cmdCycle].cycle = c_cmdCycle
      BY <1>6, <3>1 DEF CmdType
    <3> QED BY <1>6, <1>s, <2>1, <3>1, <3>2
  <2>3. \A i \in 0 .. C!Link - 1 : w[i].cycle = c_cmdCycle /\ w[i].cmd = (c_sent + 1) - 0 - C!Link + i + 1
    <3> SUFFICES ASSUME NEW i \in 0 .. C!Link - 1
                 PROVE  w[i].cycle = c_cmdCycle /\ w[i].cmd = (c_sent + 1) - 0 - C!Link + i + 1
      OBVIOUS
    <3>1. CASE i = c_cmdEnq
      BY <1>6, <1>s, <2>1, <3>1 DEF Numbers
    <3>2. CASE i # c_cmdEnq
      <4>1. w[i] = c_cmdRing[i] /\ i < c_cmdEnq
        BY <1>6, <1>s, <2>1, <3>2
      <4>2. w[i].cycle = c_cmdCycle /\ w[i].cmd = c_sent - c_cmdEnq + i + 1
        BY <1>0, <4>1 DEF C!CommandBits
      <4> QED BY <1>s, <2>1, <4>2 DEF Numbers
    <3> QED BY <3>1, <3>2
  <2>4. C!CommandBits'
    BY <1>1, <1>s, <2>1, <2>2, <2>3 DEF C!CommandBits, Numbers
  <2>5. C!CommandLap'
    BY <1>0, <1>1, <1>3, <1>s, <2>1 DEF C!CommandLap, Numbers
  <2> QED BY <1>2, <1>4, <2>4, <2>5 DEF C!CommandsExact
<1>8. CASE ~ C!AtLink
  <2>1. c_cmdRing' = w /\ c_cmdEnq' = c_cmdEnq + 1 /\ c_cmdCycle' = c_cmdCycle /\ c_cmdEnq + 1 < C!Link
    BY <1>5, <1>8, <1>s DEF C!SendCommand, C!AtLink, Numbers
  <2>2. C!CommandBits'
    <3>1. \A i \in 0 .. C!Link - 1 :
             /\ w[i].cycle = IF i < c_cmdEnq + 1 THEN c_cmdCycle ELSE 1 - c_cmdCycle
             /\ i < c_cmdEnq + 1 => w[i].cmd = (c_sent + 1) - (c_cmdEnq + 1) + i + 1
             /\ i >= c_cmdEnq + 1 /\ c_hwCmdCycle # c_cmdCycle =>
                   w[i].cmd = (c_sent + 1) - (c_cmdEnq + 1) - C!Link + i + 1
      <4> SUFFICES ASSUME NEW i \in 0 .. C!Link - 1
                   PROVE  /\ w[i].cycle = IF i < c_cmdEnq + 1 THEN c_cmdCycle ELSE 1 - c_cmdCycle
                          /\ i < c_cmdEnq + 1 => w[i].cmd = (c_sent + 1) - (c_cmdEnq + 1) + i + 1
                          /\ i >= c_cmdEnq + 1 /\ c_hwCmdCycle # c_cmdCycle =>
                                w[i].cmd = (c_sent + 1) - (c_cmdEnq + 1) - C!Link + i + 1
        OBVIOUS
      <4>1. CASE i = c_cmdEnq
        BY <1>6, <1>s, <4>1 DEF Numbers
      <4>2. CASE i # c_cmdEnq
        <5>1. w[i] = c_cmdRing[i] /\ (i < c_cmdEnq <=> i < c_cmdEnq + 1) /\ (i >= c_cmdEnq <=> i >= c_cmdEnq + 1)
          BY <1>6, <1>s, <4>2 DEF Numbers
        <5>2. /\ w[i].cycle = IF i < c_cmdEnq THEN c_cmdCycle ELSE 1 - c_cmdCycle
              /\ i < c_cmdEnq => w[i].cmd = c_sent - c_cmdEnq + i + 1
              /\ i >= c_cmdEnq /\ c_hwCmdCycle # c_cmdCycle => w[i].cmd = c_sent - c_cmdEnq - C!Link + i + 1
          BY <1>0, <5>1 DEF C!CommandBits
        <5> QED BY <1>s, <5>1, <5>2 DEF Numbers
      <4> QED BY <4>1, <4>2
    <3>2. w[C!Link].cycle = 1 - c_cmdCycle
      BY <1>0, <1>6, <1>s, <2>1 DEF C!CommandBits, Numbers
    <3> QED BY <1>1, <2>1, <3>1, <3>2 DEF C!CommandBits
  <2>3. C!CommandLap'
    BY <1>0, <1>1, <1>3, <1>s, <2>1 DEF C!CommandLap, Numbers
  <2> QED BY <1>2, <1>4, <2>2, <2>3 DEF C!CommandsExact
<1> QED BY <1>7, <1>8

\* The event read is of the command waited for, if that was sent alone and it is of one at all.
LEMMA ReadExact ==
    ASSUME C!CommandRingAssumption, Numbers, Rings, C!CommandsExact, C!ReadEvent
    PROVE  C!CommandsExact' /\ c_read' = c_read + 1 /\ c_read' <= c_made
<1>s. /\ EvtSize \in Nat /\ EvtSize >= 2
  BY RingSizes
<1>0. C!CommandBits /\ C!CommandLap /\ C!EventBits /\ C!EventLap /\ C!AnswerComes /\ C!OneAnswer
  BY DEF C!CommandsExact
<1>1. /\ UNCHANGED <<c_cmdRing, c_evtRing, c_erdp, c_cmdEnq, c_cmdCycle, c_pc, c_call, c_sent, c_alone, c_hwCmd, c_hwCmdCycle,
                     c_hwEvt, c_hwEvtCycle, c_ran, c_made>>
      /\ c_evtRing[c_evtDeq].cycle = c_evtCycle /\ c_read' = c_evtRing[c_evtDeq].n
      /\ c_result' = IF c_evtRing[c_evtDeq].cmd # 0 THEN c_evtRing[c_evtDeq].cmd ELSE c_result
      /\ IF c_evtDeq + 1 >= EvtSize THEN c_evtDeq' = 0 /\ c_evtCycle' = 1 - c_evtCycle
         ELSE c_evtDeq' = c_evtDeq + 1 /\ c_evtCycle' = c_evtCycle
  BY DEF C!ReadEvent, C!chipVars, C!EvtCycleAfterWrap
<1>2. c_evtDeq \in C!Unread /\ c_read' = c_read + 1 /\ c_read + 1 <= c_made
  BY <1>0, <1>1, NextEvent DEF Numbers
<1>3. C!EventLap'
  BY <1>0, <1>1, <1>2, <1>s DEF C!EventLap, Numbers, C!Unread
<1>4. C!Unread' = C!Unread \ {c_evtDeq}
  BY <1>0, <1>1, <1>2, <1>s DEF C!EventLap, Numbers, C!Unread
<1>5. C!EventBits'
  BY <1>0, <1>1, <1>2, <1>s DEF C!EventBits, C!EventLap, Numbers
<1>6. C!CommandBits' /\ C!CommandLap'
  BY <1>0, <1>1 DEF C!CommandBits, C!CommandLap
<1>7. c_evtRing[c_evtDeq].cmd \in Nat
  BY SlotTypes
<1>8. C!AnswerComes'
  <2>1. SUFFICES ASSUME c_call # 0, c_result' = 0, ~ (c_ran < c_sent)
        PROVE  ~ C!NoAnswer(C!Unread)'
    BY <1>0, <1>1 DEF C!AnswerComes
  <2>2. c_result = 0 /\ c_evtRing[c_evtDeq].cmd = 0
    BY <1>1, <1>7, <2>1
  <2>3. ~ C!NoAnswer(C!Unread)
    BY <1>0, <2>1, <2>2 DEF C!AnswerComes
  <2>4. PICK i \in C!Unread : c_evtRing[i].cmd # 0
    BY <2>3 DEF C!NoAnswer
  <2>5. i \in C!Unread' /\ c_evtRing'[i].cmd # 0
    BY <1>1, <1>4, <2>2, <2>4
  <2> QED BY <2>5 DEF C!NoAnswer
<1>9. C!OneAnswer'
  <2> SUFFICES ASSUME c_alone, c_call # 0
               PROVE  \/ c_result' = 0 /\ c_ran + 1 = c_sent /\ C!NoAnswer(C!Unread)'
                      \/ /\ c_result' = 0 /\ c_ran = c_sent
                         /\ \E i \in C!Unread' : c_evtRing[i].cmd = c_sent /\ C!NoAnswer(C!Unread \ {i})'
                      \/ c_result' = c_sent /\ c_ran = c_sent /\ C!NoAnswer(C!Unread)'
    BY <1>1 DEF C!OneAnswer
  <2>1. C!NoAnswer(C!Unread) => C!NoAnswer(C!Unread)'
    BY <1>1, <1>4 DEF C!NoAnswer
  <2>2. CASE C!NoAnswer(C!Unread)
    <3>1. c_result' = c_result
      BY <1>1, <1>2, <2>2 DEF C!NoAnswer
    <3> QED BY <1>0, <2>1, <2>2, <3>1 DEF C!OneAnswer, C!NoAnswer
  <2>3. CASE ~ C!NoAnswer(C!Unread)
    <3>1. c_result = 0 /\ c_ran = c_sent
      BY <1>0, <2>3 DEF C!OneAnswer
    <3>2. PICK i \in C!Unread : c_evtRing[i].cmd = c_sent /\ C!NoAnswer(C!Unread \ {i})
      BY <1>0, <2>3 DEF C!OneAnswer
    <3>3. CASE i = c_evtDeq
      <4>1. C!NoAnswer(C!Unread)' /\ c_evtRing[c_evtDeq].cmd # 0
        BY <1>1, <1>4, <2>3, <3>2, <3>3 DEF C!NoAnswer
      <4>2. c_result' = c_sent
        BY <1>1, <3>2, <3>3, <4>1
      <4> QED BY <3>1, <4>1, <4>2
    <3>4. CASE i # c_evtDeq
      <4>1. c_result' = 0
        BY <1>1, <1>2, <3>1, <3>2, <3>4 DEF C!NoAnswer
      <4>2. i \in C!Unread' /\ C!NoAnswer(C!Unread \ {i})'
        BY <1>1, <1>4, <3>2, <3>4 DEF C!NoAnswer
      <4> QED BY <3>1, <3>2, <4>1, <4>2
    <3> QED BY <3>3, <3>4
  <2> QED BY <2>2, <2>3
<1> QED BY <1>2, <1>3, <1>5, <1>6, <1>8, <1>9, <1>1 DEF C!CommandsExact

\* The task has read all there is; it polls on, or has the answer to its command.
LEMMA PollExact ==
    ASSUME C!CommandRingAssumption, Numbers, C!CommandsExact, C!PollEnds PROVE C!CommandsExact'
<1>s. /\ EvtSize \in Nat /\ EvtSize >= 2
  BY RingSizes
<1>0. C!CommandBits /\ C!CommandLap /\ C!EventBits /\ C!EventLap /\ C!AnswerComes /\ C!OneAnswer
  BY DEF C!CommandsExact
<1>1. /\ UNCHANGED <<c_cmdRing, c_evtRing, c_cmdEnq, c_cmdCycle, c_evtDeq, c_evtCycle, c_result, c_sent, c_read, c_alone,
                     c_hwCmd, c_hwCmdCycle, c_hwEvt, c_hwEvtCycle, c_ran, c_made>>
      /\ c_evtRing[c_evtDeq].cycle # c_evtCycle /\ c_erdp' = c_evtDeq
      /\ c_pc = "poll" /\ c_pc' = IF c_call # 0 /\ c_result = 0 THEN "poll" ELSE "idle"
      /\ c_call' = IF c_result = 0 THEN c_call ELSE 0
  BY DEF C!PollEnds, C!chipVars, C!ErdpWritten
<1>2. C!Unread = {} /\ c_evtDeq = c_hwEvt
  BY <1>0, <1>1, NextEvent
<1>3. C!EventLap'
  BY <1>0, <1>1, <1>2 DEF C!EventLap, Numbers
<1>4. C!EventBits' /\ C!CommandBits' /\ C!CommandLap' /\ C!Unread' = {}
  BY <1>0, <1>1, <1>2 DEF C!EventBits, C!CommandBits, C!CommandLap, C!Unread
<1>5. C!AnswerComes' /\ C!OneAnswer'
  BY <1>0, <1>1, <1>2, <1>4 DEF C!AnswerComes, C!OneAnswer, C!NoAnswer
<1> QED BY <1>3, <1>4, <1>5 DEF C!CommandsExact

\* While there is no answer the controller sees the command, and there is room for its event:
\* who gives up does so because it is slow, and leaves the rings in phase.
LEMMA GivenUpExact ==
    ASSUME C!CommandRingAssumption, Numbers, C!CommandsExact, C!GiveUp PROVE ~ C!Stuck /\ C!CommandsExact'
<1>s. /\ EvtSize \in Nat /\ EvtSize >= 2
  BY RingSizes
<1>0. C!CommandBits /\ C!CommandLap /\ C!EventBits /\ C!EventLap /\ C!AnswerComes /\ C!OneAnswer
  BY DEF C!CommandsExact
<1>1. /\ c_call # 0 /\ c_result = 0 /\ c_evtRing[c_evtDeq].cycle # c_evtCycle /\ c_erdp = c_evtDeq
      /\ UNCHANGED <<c_cmdRing, c_evtRing, c_erdp, c_cmdEnq, c_cmdCycle, c_evtDeq, c_evtCycle, c_result, c_sent, c_read,
                     c_hwCmd, c_hwCmdCycle, c_hwEvt, c_hwEvtCycle, c_ran, c_made>>
      /\ c_call' = 0
  BY DEF C!GiveUp, C!ErdpWritten, C!chipVars
<1>2. C!Unread = {} /\ c_evtDeq = c_hwEvt
  BY <1>0, <1>1, NextEvent
<1>3. c_ran < c_sent
  BY <1>0, <1>1, <1>2 DEF C!AnswerComes, C!NoAnswer
<1>4. C!Runnable
  BY <1>0, <1>3, Seen
<1>5. (c_hwEvt + 1) % EvtSize = IF c_hwEvt + 1 = EvtSize THEN 0 ELSE c_hwEvt + 1
  BY <1>s, NextSlot DEF Numbers
<1>6. ~ C!EventRingFull
  BY <1>1, <1>2, <1>5, <1>s DEF C!EventRingFull, Numbers
<1>7. C!CommandBits' /\ C!CommandLap' /\ C!EventBits' /\ C!EventLap'
  BY <1>0, <1>1 DEF C!CommandBits, C!CommandLap, C!EventBits, C!EventLap
<1>8. C!AnswerComes' /\ C!OneAnswer'
  BY <1>1 DEF C!AnswerComes, C!OneAnswer
<1> QED BY <1>4, <1>6, <1>7, <1>8 DEF C!Stuck, C!CommandsExact

\* The controller runs the first command it has not run.
LEMMA RunExact ==
    ASSUME C!CommandRingAssumption, Numbers, Rings, C!CommandsExact, C!RunCommand
    PROVE  C!CommandsExact' /\ c_ran' = c_ran + 1 /\ c_ran' <= c_sent
<1>s. C!Link \in Nat /\ C!Link >= 2
  BY RingSizes
<1>0. C!CommandBits /\ C!CommandLap /\ C!EventBits /\ C!EventLap /\ C!AnswerComes /\ C!OneAnswer
  BY DEF C!CommandsExact
<1>1. c_ran < c_sent /\ c_cmdRing[c_hwCmd].cmd = c_ran + 1
  BY <1>0, Seen DEF C!RunCommand
<1>2. /\ C!MakeEvent(c_ran + 1) /\ c_ran' = c_ran + 1 /\ c_hwCmd' = c_hwCmd + 1 /\ c_hwCmd # C!Link
      /\ UNCHANGED <<c_cmdRing, c_erdp, c_cmdEnq, c_cmdCycle, c_evtDeq, c_evtCycle, c_pc, c_call, c_result, c_sent, c_read,
                     c_alone, c_hwCmdCycle>>
  BY <1>1 DEF C!RunCommand, C!driverVars
<1>3. c_ran + 1 \in Nat /\ c_ran + 1 # 0
  BY DEF Numbers
<1>4. /\ C!EventBits' /\ C!EventLap'
      /\ c_hwEvt \notin C!Unread /\ C!Unread' = C!Unread \cup {c_hwEvt} /\ c_evtRing'[c_hwEvt].cmd = c_ran + 1
      /\ \A i \in C!Unread : c_evtRing'[i] = c_evtRing[i]
  BY <1>0, <1>2, <1>3, EventMade
<1>5. C!CommandBits' /\ C!CommandLap'
  BY <1>0, <1>1, <1>2, <1>s DEF C!CommandBits, C!CommandLap, Numbers
<1>6. C!AnswerComes'
  <2>1. ~ C!NoAnswer(C!Unread)'
    BY <1>3, <1>4 DEF C!NoAnswer
  <2> QED BY <1>0, <1>2, <2>1 DEF C!AnswerComes
<1>7. C!OneAnswer'
  <2>1. c_alone /\ c_call # 0 => c_result = 0 /\ c_ran + 1 = c_sent /\ C!NoAnswer(C!Unread)
    BY <1>0, <1>1 DEF C!OneAnswer, Numbers
  <2>2. C!NoAnswer(C!Unread) => \E i \in C!Unread' : c_evtRing'[i].cmd = c_ran + 1 /\ C!NoAnswer(C!Unread \ {i})'
    BY <1>4 DEF C!NoAnswer
  <2> QED BY <1>2, <2>1, <2>2 DEF C!OneAnswer
<1> QED BY <1>1, <1>2, <1>4, <1>5, <1>6, <1>7 DEF C!CommandsExact, Numbers

\* An event that answers no command is written.
LEMMA OtherExact ==
    ASSUME C!CommandRingAssumption, Numbers, Rings, C!CommandsExact, C!OtherEvent PROVE C!CommandsExact'
<1>0. C!CommandBits /\ C!CommandLap /\ C!EventBits /\ C!EventLap /\ C!AnswerComes /\ C!OneAnswer
  BY DEF C!CommandsExact
<1>1. /\ C!MakeEvent(0)
      /\ UNCHANGED <<c_cmdRing, c_erdp, c_cmdEnq, c_cmdCycle, c_evtDeq, c_evtCycle, c_pc, c_call, c_result, c_sent, c_read,
                     c_alone, c_hwCmd, c_hwCmdCycle, c_ran>>
  BY DEF C!OtherEvent, C!driverVars
<1>2. /\ C!EventBits' /\ C!EventLap'
      /\ c_hwEvt \notin C!Unread /\ C!Unread' = C!Unread \cup {c_hwEvt} /\ c_evtRing'[c_hwEvt].cmd = 0
      /\ \A i \in C!Unread : c_evtRing'[i] = c_evtRing[i]
  BY <1>0, <1>1, EventMade
<1>3. C!CommandBits' /\ C!CommandLap'
  BY <1>0, <1>1 DEF C!CommandBits, C!CommandLap
<1>4. C!NoAnswer(C!Unread) <=> C!NoAnswer(C!Unread)'
  BY <1>2 DEF C!NoAnswer
<1>5. ASSUME NEW i \in C!Unread, c_evtRing[i].cmd = c_sent, C!NoAnswer(C!Unread \ {i})
      PROVE  i \in C!Unread' /\ c_evtRing'[i].cmd = c_sent /\ C!NoAnswer(C!Unread \ {i})'
  BY <1>2, <1>5 DEF C!NoAnswer
<1>6. C!AnswerComes'
  BY <1>0, <1>1, <1>4 DEF C!AnswerComes
<1>7. C!OneAnswer'
  BY <1>0, <1>1, <1>4, <1>5 DEF C!OneAnswer
<1> QED BY <1>2, <1>3, <1>6, <1>7 DEF C!CommandsExact

\* The controller follows the link to the first command.
LEMMA FollowExact ==
    ASSUME C!CommandRingAssumption, Numbers, C!CommandsExact, C!FollowLink PROVE C!CommandsExact'
<1>s. C!Link \in Nat /\ C!Link >= 2
  BY RingSizes
<1>0. C!CommandBits /\ C!CommandLap /\ C!EventBits /\ C!EventLap /\ C!AnswerComes /\ C!OneAnswer
  BY DEF C!CommandsExact
<1>1. /\ C!Runnable /\ c_hwCmd = C!Link /\ c_hwCmd' = 0 /\ c_hwCmdCycle' = 1 - c_hwCmdCycle
      /\ UNCHANGED <<c_cmdRing, c_evtRing, c_erdp, c_cmdEnq, c_cmdCycle, c_evtDeq, c_evtCycle, c_pc, c_call, c_result, c_sent,
                     c_read, c_alone, c_hwEvt, c_hwEvtCycle, c_ran, c_made>>
  BY DEF C!FollowLink, C!driverVars
<1>2. c_hwCmdCycle = 1 - c_cmdCycle
  BY <1>0, <1>1, Seen
<1>3. C!CommandLap'
  BY <1>0, <1>1, <1>2, <1>s DEF C!CommandLap, Numbers
<1>4. c_hwCmdCycle' = c_cmdCycle'
  BY <1>1, <1>2 DEF Numbers
<1>5. C!CommandBits'
  BY <1>0, <1>1, <1>4 DEF C!CommandBits
<1>6. C!EventBits' /\ C!EventLap' /\ C!AnswerComes' /\ C!OneAnswer'
  BY <1>0, <1>1 DEF C!EventBits, C!EventLap, C!AnswerComes, C!OneAnswer, C!NoAnswer, C!Unread
<1> QED BY <1>3, <1>5, <1>6 DEF C!CommandsExact

\* Giving up reads no event, runs no command and restarts nothing.
LEMMA DriverGivesUp ==
    ASSUME C!GiveUp PROVE UNCHANGED <<c_read, c_ran, c_restarted>>
BY DEF C!GiveUp, C!chipVars

\* What a step does before a restart.
LEMMA ExactStep ==
    ASSUME C!CommandRingAssumption, Numbers, Rings, C!CommandsExact, ~ c_restarted, C!Next \/ UNCHANGED C!vars
    PROVE  /\ c_restarted' \/ C!CommandsExact'
           /\ c_read' # c_read => c_read' = c_read + 1 /\ c_read' <= c_made
           /\ c_ran' # c_ran => c_ran' = c_ran + 1 /\ c_ran' <= c_sent
<1>1. CASE C!SendCommand
  BY <1>1, SendExact DEF C!SendCommand, C!chipVars
<1>2. CASE C!Wake \/ UNCHANGED C!vars
  <2>1. /\ UNCHANGED <<c_cmdRing, c_evtRing, c_erdp, c_cmdEnq, c_cmdCycle, c_evtDeq, c_evtCycle, c_call, c_result, c_sent,
                       c_read, c_alone, c_hwCmd, c_hwCmdCycle, c_hwEvt, c_hwEvtCycle, c_ran, c_made>>
        /\ c_pc' = c_pc \/ c_pc' = "poll"
    BY <1>2 DEF C!Wake, C!vars, C!driverVars, C!chipVars
  <2>2. C!CommandBits' /\ C!CommandLap' /\ C!EventBits' /\ C!EventLap'
    BY <2>1 DEF C!CommandsExact, C!CommandBits, C!CommandLap, C!EventBits, C!EventLap
  <2>3. C!AnswerComes' /\ C!OneAnswer'
    BY <2>1 DEF C!CommandsExact, C!AnswerComes, C!OneAnswer, C!NoAnswer, C!Unread
  <2> QED BY <2>1, <2>2, <2>3 DEF C!CommandsExact
<1>3. CASE C!ReadEvent
  BY <1>3, ReadExact DEF C!ReadEvent, C!chipVars
<1>4. CASE C!PollEnds
  BY <1>4, PollExact DEF C!PollEnds, C!chipVars
<1>5. CASE C!GiveUp
  BY <1>5, GivenUpExact, DriverGivesUp
<1>6. CASE C!Restart
  BY <1>6 DEF C!Restart, C!driverVars
<1>7. CASE C!RunCommand
  BY <1>7, RunExact DEF C!RunCommand, C!driverVars
<1>8. CASE C!FollowLink
  BY <1>8, FollowExact DEF C!FollowLink, C!driverVars
<1>9. CASE C!OtherEvent
  BY <1>9, OtherExact DEF C!OtherEvent, C!driverVars
<1> QED BY <1>1, <1>2, <1>3, <1>4, <1>5, <1>6, <1>7, <1>8, <1>9 DEF C!Next, C!Driver, C!Controller

\* A restart is not forgotten.
LEMMA RestartedStays == ASSUME c_restarted, C!Next \/ UNCHANGED C!vars PROVE c_restarted'
BY DEF C!Next, C!Driver, C!Controller, C!SendCommand, C!Wake, C!ReadEvent, C!PollEnds, C!GiveUp, C!Restart,
   C!RunCommand,
       C!FollowLink, C!OtherEvent, C!vars

\* Every step keeps the invariant.
LEMMA CommandsStep ==
    ASSUME C!CommandRingAssumption, C!CommandsInvariant, C!Next \/ UNCHANGED C!vars PROVE C!CommandsInvariant'
<1>1. C!TypeOK'
  BY CommandTypesStep DEF C!CommandsInvariant
<1>2. c_restarted' \/ C!CommandsExact'
  BY ExactStep, RestartedStays, CommandTypes DEF C!CommandsInvariant
<1> QED BY <1>1, <1>2 DEF C!CommandsInvariant

-----------------------------------------------------------------------------
(* The slots (XHCISlots). *)

\* A sequence of one element.
LEMMA Single ==
    ASSUME NEW x
    PROVE  /\ <<x>> # <<>> /\ Head(<<x>>) = x /\ Tail(<<x>>) = <<>> /\ Append(<<>>, x) = <<x>>
           /\ Len(<<x>>) = 1 /\ <<x>>[1] = x
OBVIOUS

\* Slots and addresses are numbers, and slot 0 is none.
LEMMA SlotsOfConstants == ASSUME S!SlotsAssumption PROVE S!Slot \subseteq Nat /\ 0 \notin S!Slot /\ S!Addr \subseteq Nat
BY DEF S!SlotsAssumption, S!Slot, S!Addr

\* The driver begins with no slot in use and no command under way.
LEMMA SlotsInit == ASSUME S!SlotsAssumption, S!Init PROVE S!SlotsInvariant
<1>1. S!TypeOK
  <2>1. <<>> \in Seq(S!Commands) /\ <<>> \in Seq(S!Results)
    OBVIOUS
  <2> QED BY <2>1 DEF S!TypeOK, S!Init
<1>2. S!OneWait
  BY DEF S!OneWait, S!Init, S!Pending
<1>3. S!AddressOfDevice /\ S!SlotOwned
  BY DEF S!AddressOfDevice, S!SlotOwned, S!Init
<1>4. S!CallFits
  BY DEF S!CallFits, S!Init, S!NoCall
<1>5. \A a \in S!Addr : s_function[a] = "live" => s_byAddress[a] # 0
  BY DEF S!Init
<1> QED BY <1>1, <1>2, <1>3, <1>4, <1>5 DEF S!SlotsInvariant

\* A function is plugged in, and asks for an address.
LEMMA PlugKeeps ==
    ASSUME S!SlotsAssumption, s_overlapped' = FALSE, S!SlotsInvariant, S!Plug
    PROVE  S!SlotsInvariant'
<1> USE DEF S!SlotsInvariant
<1>1. PICK a \in S!Addr : s_function[a] = "free" /\ s_function' = [s_function EXCEPT ![a] = "asking"]
  BY DEF S!Plug
<1>2. UNCHANGED <<s_byAddress, s_slots, s_call, s_drain, s_result, s_alone, s_hw, s_cmds, s_events, s_halted>>
  BY DEF S!Plug, S!taskVars, S!chipVars
<1>3. S!TypeOK'
  BY <1>1, <1>2 DEF S!TypeOK
<1>4. S!OneWait'
  BY <1>2 DEF S!OneWait, S!OnePlace, S!NotYetRun, S!Awaited, S!AnswerFits, S!Pending
<1>5. S!AddressOfDevice'
  BY <1>1, <1>2 DEF S!AddressOfDevice, S!TypeOK
<1>6. S!SlotOwned'
  BY <1>2 DEF S!SlotOwned, S!JustEnabled
<1>7. S!CallFits'
  BY <1>1, <1>2 DEF S!CallFits, S!TypeOK
<1>8. (\A b \in S!Addr : s_function[b] = "live" => s_byAddress[b] # 0)'
  BY <1>1, <1>2 DEF S!TypeOK
<1> QED BY <1>3, <1>4, <1>5, <1>6, <1>7, <1>8

\* The controller halts: it answers nothing more.
LEMMA HaltKeeps ==
    ASSUME S!SlotsAssumption, s_overlapped' = FALSE, S!SlotsInvariant, S!Halt
    PROVE  S!SlotsInvariant'
<1> USE DEF S!SlotsInvariant
<1>2. UNCHANGED <<s_function, s_byAddress, s_slots, s_call, s_drain, s_result, s_alone, s_hw, s_cmds, s_events>> /\ s_halted' = TRUE
  BY DEF S!Halt, S!taskVars
<1>3. S!TypeOK'
  BY <1>2 DEF S!TypeOK
<1>4. S!OneWait'
  BY <1>2 DEF S!OneWait, S!OnePlace, S!NotYetRun, S!Awaited, S!AnswerFits, S!Pending
<1>5. S!AddressOfDevice'
  BY <1>2 DEF S!AddressOfDevice
<1>6. S!SlotOwned'
  BY <1>2 DEF S!SlotOwned, S!JustEnabled
<1>7. S!CallFits'
  BY <1>2 DEF S!CallFits
<1>8. (\A b \in S!Addr : s_function[b] = "live" => s_byAddress[b] # 0)'
  BY <1>2
<1> QED BY <1>3, <1>4, <1>5, <1>6, <1>7, <1>8

\* A function is pulled out.
LEMMA UnplugKeeps ==
    ASSUME S!SlotsAssumption, s_overlapped' = FALSE, S!SlotsInvariant, NEW a \in S!Addr, S!Unplug(a)
    PROVE  S!SlotsInvariant'
<1> USE DEF S!SlotsInvariant
<1>s. S!Slot \subseteq Nat /\ 0 \notin S!Slot
  BY SlotsOfConstants
<1>1. /\ s_function[a] \in {"live", "failed"} /\ s_call = S!NoCall
      /\ s_function' = [s_function EXCEPT ![a] = "free"]
      /\ s_byAddress' = [s_byAddress EXCEPT ![a] = 0]
      /\ UNCHANGED <<s_call, s_drain, s_result, s_alone, s_hw, s_cmds, s_events, s_halted>>
  BY DEF S!Unplug, S!taskVars, S!chipVars, S!AddressForgotten
<1> DEFINE s == s_byAddress[a]
<1>2. s_slots' = IF s # 0 /\ s_slots[s] # "none" THEN [s_slots EXCEPT ![s] = S!AfterDetach] ELSE s_slots
  BY DEF S!Unplug
<1>3. S!AfterDetach \in {"none", "pending"}
  BY DEF S!AfterDetach
<1>4. S!TypeOK'
  BY <1>1, <1>2, <1>3, <1>s DEF S!TypeOK
<1>5. /\ \A t \in S!Slot : t # s => s_slots'[t] = s_slots[t]
      /\ s # 0 => s \in S!Slot /\ s_slots'[s] = S!AfterDetach /\ s_slots[s] = "used" /\ s_hw[s] = "addressed"
      /\ \A b \in S!Addr : s_byAddress'[b] = IF b = a THEN 0 ELSE s_byAddress[b]
      /\ \A b \in S!Addr : s_function'[b] = IF b = a THEN "free" ELSE s_function[b]
      /\ s # s_drain \/ s_drain = 0
  BY <1>1, <1>2, <1>s DEF S!TypeOK, S!AddressOfDevice, S!CallFits
<1>6. S!OneWait'
  <2>1. s_call' = S!NoCall
    BY <1>1
  <2>2. CASE s_drain = 0
    BY <2>1, <2>2, <1>1 DEF S!OneWait
  <2>3. CASE s_drain # 0
    <3>1. S!OnePlace /\ S!Awaited' = S!Awaited /\ S!Awaited.op = "drain"
      BY <1>1, <2>3 DEF S!OneWait, S!Awaited
    <3>2. \A r : S!AnswerFits(r) => S!AnswerFits(r)'
      BY <1>1, <3>1 DEF S!AnswerFits
    <3> QED BY <1>1, <2>3, <3>1, <3>2 DEF S!OneWait, S!OnePlace, S!NotYetRun
  <2> QED BY <2>2, <2>3
<1>7. S!AddressOfDevice'
  <2>1. SUFFICES ASSUME NEW b \in S!Addr, s_byAddress'[b] # 0
        PROVE /\ s_function'[b] = "live"
              /\ s_slots'[s_byAddress'[b]] = "used" /\ s_hw[s_byAddress'[b]] = "addressed"
              /\ \A c \in S!Addr : s_byAddress'[c] = s_byAddress'[b] => b = c
    BY <1>1 DEF S!AddressOfDevice
  <2>2. b # a /\ s_byAddress'[b] = s_byAddress[b] /\ s_byAddress[b] # s /\ s_byAddress[b] \in S!Slot
    BY <2>1, <1>5, <1>s DEF S!AddressOfDevice, S!TypeOK
  <2>3. s_function[b] = "live" /\ s_slots[s_byAddress[b]] = "used" /\ s_hw[s_byAddress[b]] = "addressed"
        /\ \A c \in S!Addr : s_byAddress[c] = s_byAddress[b] => b = c
    BY <2>1, <2>2 DEF S!AddressOfDevice
  <2> QED BY <2>2, <2>3, <1>5
<1>8. S!SlotOwned'
  <2>1. SUFFICES ASSUME NEW t \in S!Slot
        PROVE /\ s_slots'[t] = "used" => (\E b \in S!Addr : s_byAddress'[b] = t) \/ s_drain = t
              /\ s_slots'[t] = "pending" => s_hw[t] = "addressed" /\ \A b \in S!Addr : s_byAddress'[b] # t
              /\ s_slots'[t] = "none" /\ ~ s_halted => s_hw[t] = "disabled"
    BY <1>1 DEF S!SlotOwned
  <2>2. CASE t = s
    BY <2>2, <1>5, <1>3, <1>s DEF S!AfterDetach, S!AddressOfDevice
  <2>3. CASE t # s
    BY <2>3, <1>5, <1>1, <1>s DEF S!SlotOwned, S!NoCall
  <2> QED BY <2>2, <2>3
<1>9. S!CallFits'
  BY <1>1, <1>5, <1>s DEF S!CallFits, S!NoCall, S!TypeOK
<1>10. (\A b \in S!Addr : s_function[b] = "live" => s_byAddress[b] # 0)'
  BY <1>5
<1> QED BY <1>4, <1>6, <1>7, <1>8, <1>9, <1>10

\* What is known when the answer to a command is taken, or not waited for any longer.
LEMMA AnswerTaken ==
    ASSUME S!SlotsInvariant, S!AnswerTo(s_call)
    PROVE  /\ s_call # S!NoCall /\ s_drain = 0 /\ S!Pending(s_slots) = {} /\ s_events = <<>>
           /\ s_call \in S!Calls /\ S!Awaited = [op |-> s_call.op, slot |-> s_call.slot]
           /\ \/ s_cmds = <<>> /\ s_result # S!NoResult /\ S!AnswerFits(s_result)
              \/ s_halted /\ s_result = S!NoResult /\ S!NotYetRun
<1> USE DEF S!SlotsInvariant
<1>1. s_call # S!NoCall /\ s_drain = 0
  BY DEF S!AnswerTo
<1>2. S!OnePlace /\ S!Pending(s_slots) = {}
  BY <1>1 DEF S!OneWait
<1>3. s_call \in S!Calls
  BY <1>1 DEF S!TypeOK
<1>4. S!Awaited = [op |-> s_call.op, slot |-> s_call.slot]
  BY <1>1 DEF S!Awaited
<1>5. s_result # S!NoResult \/ (s_halted /\ s_events = <<>>)
  BY DEF S!AnswerTo
<1>6. \A r : <<r>> # <<>>
  BY Single
<1> QED BY <1>1, <1>2, <1>3, <1>4, <1>5, <1>6 DEF S!OnePlace

\* A command that is sent is on the ring, or lost if the controller is halted.
LEMMA CommandSent ==
    ASSUME S!SlotsInvariant, NEW op, NEW a, NEW s, S!Start(op, a, s),
           s_drain = 0, s_drain' = s_drain, S!Pending(s_slots)' = {}, op # "none",
           UNCHANGED <<s_events, s_hw, s_halted>>, s_events = <<>>, s_cmds = <<>> \/ s_halted,
           op \in {"address", "release"} => s_hw[s] = "enabled"
    PROVE  S!OneWait' /\ s_result' = S!NoResult /\ s_call' = [op |-> op, addr |-> a, slot |-> s]
<1>1. /\ s_call' = [op |-> op, addr |-> a, slot |-> s] /\ s_result' = S!NoResult
      /\ s_cmds' = IF s_halted THEN <<>> ELSE Append(s_cmds, [op |-> op, slot |-> s])
  BY DEF S!Start, S!Send
<1>2. s_call' # S!NoCall
  BY <1>1 DEF S!NoCall
<1>3. S!Awaited' = [op |-> op, slot |-> s]
  BY <1>1 DEF S!Awaited
<1>4. S!NotYetRun'
  BY <1>3 DEF S!NotYetRun
<1>5. ~ s_halted => s_cmds' = <<[op |-> op, slot |-> s]>>
  BY <1>1, Single
<1>6. S!OnePlace'
  BY <1>1, <1>3, <1>4, <1>5 DEF S!OnePlace
<1> QED BY <1>1, <1>2, <1>6 DEF S!OneWait

\* The queue of commands after one more is sent.
LEMMA TypesSent ==
    ASSUME S!SlotsInvariant, NEW op, NEW a, NEW s, S!Start(op, a, s),
           [op |-> op, addr |-> a, slot |-> s] \in S!Calls
    PROVE  s_call' \in S!Calls /\ s_result' = S!NoResult /\ s_cmds' \in Seq(S!Commands) /\ s_alone' \in BOOLEAN
<1>1. [op |-> op, slot |-> s] \in S!Commands
  BY DEF S!Calls, S!Commands, S!Ops
<1>2. s_cmds \in Seq(S!Commands) /\ <<>> \in Seq(S!Commands)
  BY DEF S!SlotsInvariant, S!TypeOK
<1>3. Append(s_cmds, [op |-> op, slot |-> s]) \in Seq(S!Commands)
  BY <1>1, <1>2
<1> QED BY <1>2, <1>3 DEF S!Start, S!Send, S!SentAlone

\* When no command is waited for.
LEMMA NothingAwaited ==
    ASSUME S!SlotsInvariant, s_call = S!NoCall, s_drain = 0
    PROVE  s_events = <<>> /\ (s_cmds = <<>> \/ s_halted)
BY DEF S!SlotsInvariant, S!OneWait

\* The driver asks for a slot (XHCI_Slot_Enable()).
LEMMA SetAddressKeeps ==
    ASSUME S!SlotsAssumption, s_overlapped' = FALSE, S!SlotsInvariant, NEW a \in S!Addr, S!SetAddress(a)
    PROVE  S!SlotsInvariant'
<1> USE DEF S!SlotsInvariant
<1>1. /\ s_call = S!NoCall /\ s_drain = 0 /\ S!Pending(s_slots) = {} /\ s_function[a] = "asking"
      /\ S!Start("enable", a, 0) /\ UNCHANGED <<s_function, s_byAddress, s_slots, s_drain, s_hw, s_events, s_halted>>
  BY DEF S!SetAddress, S!MayStart
<1>2. s_events = <<>> /\ (s_cmds = <<>> \/ s_halted)
  BY <1>1, NothingAwaited
<1>3. S!Pending(s_slots)' = {}
  BY <1>1 DEF S!Pending
<1>4. S!OneWait' /\ s_result' = S!NoResult /\ s_call' = [op |-> "enable", addr |-> a, slot |-> 0]
  BY <1>1, <1>2, <1>3, CommandSent
<1>5. S!TypeOK'
  <2>1. [op |-> "enable", addr |-> a, slot |-> 0] \in S!Calls
    BY DEF S!Calls
  <2>2. s_call' \in S!Calls /\ s_result' = S!NoResult /\ s_cmds' \in Seq(S!Commands) /\ s_alone' \in BOOLEAN
    BY <1>1, <2>1, TypesSent
  <2> QED BY <1>1, <2>2 DEF S!TypeOK
<1>6. S!AddressOfDevice'
  BY <1>1 DEF S!AddressOfDevice
<1>7. S!SlotOwned'
  BY <1>1, <1>4 DEF S!SlotOwned, S!NoCall
<1>8. S!CallFits'
  BY <1>1, <1>4 DEF S!CallFits
<1> QED BY <1>1, <1>4, <1>5, <1>6, <1>7, <1>8

\* A transfer is aborted and its endpoint is to be stopped.
LEMMA AbortTransferKeeps ==
    ASSUME S!SlotsAssumption, s_overlapped' = FALSE, S!SlotsInvariant, NEW a \in S!Addr, S!AbortTransfer(a)
    PROVE  S!SlotsInvariant'
<1> USE DEF S!SlotsInvariant
<1> DEFINE s == s_byAddress[a]
<1>1. /\ s_call = S!NoCall /\ s_drain = 0 /\ S!Pending(s_slots) = {} /\ s_function[a] = "live"
      /\ S!Start("stop", a, s) /\ UNCHANGED <<s_function, s_byAddress, s_slots, s_drain, s_hw, s_events, s_halted>>
  BY DEF S!AbortTransfer, S!MayStart
<1>2. s_events = <<>> /\ (s_cmds = <<>> \/ s_halted) /\ s \in S!Slot
  BY <1>1, NothingAwaited DEF S!TypeOK
<1>3. S!Pending(s_slots)' = {}
  BY <1>1 DEF S!Pending
<1>4. S!OneWait' /\ s_result' = S!NoResult /\ s_call' = [op |-> "stop", addr |-> a, slot |-> s]
  BY <1>1, <1>2, <1>3, CommandSent
<1>5. S!TypeOK'
  <2>1. [op |-> "stop", addr |-> a, slot |-> s] \in S!Calls
    BY <1>2 DEF S!Calls, S!Ops
  <2>2. s_call' \in S!Calls /\ s_result' = S!NoResult /\ s_cmds' \in Seq(S!Commands) /\ s_alone' \in BOOLEAN
    BY <1>1, <2>1, TypesSent
  <2> QED BY <1>1, <2>2 DEF S!TypeOK
<1>6. S!AddressOfDevice'
  BY <1>1 DEF S!AddressOfDevice
<1>7. S!SlotOwned'
  BY <1>1, <1>4 DEF S!SlotOwned, S!NoCall
<1>8. S!CallFits'
  BY <1>1, <1>4 DEF S!CallFits
<1> QED BY <1>1, <1>4, <1>5, <1>6, <1>7, <1>8

\* The address of the call is one of a function: what becomes of it.
LEMMA AnsweredKeeps ==
    ASSUME S!SlotsAssumption, s_overlapped' = FALSE, S!SlotsInvariant, S!AnswerTo(s_call), NEW outcome \in {"live", "failed"},
           S!Answered(s_call.addr, outcome), UNCHANGED <<s_slots, s_drain, s_hw, s_events, s_halted>>
    PROVE  /\ S!OneWait' /\ S!CallFits' /\ s_call' = S!NoCall
           /\ s_function' = [s_function EXCEPT ![s_call.addr] = outcome]
           /\ s_byAddress' \in [S!Addr -> S!Slot \cup {0}] => S!TypeOK'
           /\ s_call.addr \in S!Addr
<1> USE DEF S!SlotsInvariant
<1>1. /\ s_call' = S!NoCall /\ s_function' = [s_function EXCEPT ![s_call.addr] = outcome]
      /\ UNCHANGED <<s_result, s_alone, s_cmds>>
  BY DEF S!Answered
<1>2. /\ s_call # S!NoCall /\ s_drain = 0 /\ s_events = <<>> /\ s_call \in S!Calls
      /\ s_cmds = <<>> \/ s_halted
  BY AnswerTaken
<1>3. s_call.addr \in S!Addr
  BY <1>2 DEF S!Calls
<1>4. S!OneWait'
  BY <1>1, <1>2 DEF S!OneWait
<1>5. S!CallFits'
  BY <1>1, <1>2 DEF S!CallFits, S!NoCall
<1>6. s_byAddress' \in [S!Addr -> S!Slot \cup {0}] => S!TypeOK'
  BY <1>1, <1>2, <1>3 DEF S!TypeOK
<1> QED BY <1>1, <1>3, <1>4, <1>5, <1>6

\* A call for a slot that the controller did not give ends.
LEMMA ReleasedKeeps ==
    ASSUME S!SlotsAssumption, s_overlapped' = FALSE, S!SlotsInvariant, S!Released
    PROVE  S!SlotsInvariant'
<1> USE DEF S!SlotsInvariant
<1>1. /\ S!AnswerTo(s_call) /\ s_call.op = "release" /\ S!Answered(s_call.addr, "failed")
      /\ UNCHANGED <<s_byAddress, s_slots, s_drain, s_hw, s_events, s_halted>>
  BY DEF S!Released
<1>2. /\ S!OneWait' /\ S!CallFits' /\ s_call' = S!NoCall /\ s_call.addr \in S!Addr
      /\ s_function' = [s_function EXCEPT ![s_call.addr] = "failed"]
      /\ s_byAddress' \in [S!Addr -> S!Slot \cup {0}] => S!TypeOK'
  BY <1>1, AnsweredKeeps
<1>3. S!TypeOK'
  BY <1>1, <1>2 DEF S!TypeOK
<1>4. s_function[s_call.addr] = "asking"
  BY <1>1 DEF S!CallFits
<1>5. \A b \in S!Addr : s_byAddress[b] # 0 => b # s_call.addr
  BY <1>4 DEF S!AddressOfDevice
<1>6. S!AddressOfDevice'
  BY <1>1, <1>2, <1>5 DEF S!AddressOfDevice, S!TypeOK
<1>7. ~ s_halted => s_hw[s_call.slot] = "disabled"
  BY <1>1, AnswerTaken DEF S!AnswerFits
<1>8. S!SlotOwned'
  BY <1>1, <1>2, <1>7 DEF S!SlotOwned
<1>9. (\A b \in S!Addr : s_function[b] = "live" => s_byAddress[b] # 0)'
  BY <1>1, <1>2 DEF S!TypeOK
<1> QED BY <1>2, <1>3, <1>6, <1>8, <1>9

\* The slot of a function that has gone is marked for its Disable Slot.
LEMMA FlushedKeeps ==
    ASSUME S!SlotsAssumption, s_overlapped' = FALSE, S!SlotsInvariant, S!Flushed
    PROVE  S!SlotsInvariant'
<1> USE DEF S!SlotsInvariant
<1>1. /\ S!AnswerTo(s_call) /\ s_call.op = "flush" /\ S!Answered(s_call.addr, "live")
      /\ UNCHANGED <<s_byAddress, s_slots, s_drain, s_hw, s_events, s_halted>>
  BY DEF S!Flushed
<1>2. /\ S!OneWait' /\ S!CallFits' /\ s_call' = S!NoCall /\ s_call.addr \in S!Addr
      /\ s_function' = [s_function EXCEPT ![s_call.addr] = "live"]
      /\ s_byAddress' \in [S!Addr -> S!Slot \cup {0}] => S!TypeOK'
  BY <1>1, AnsweredKeeps
<1>3. S!TypeOK'
  BY <1>1, <1>2 DEF S!TypeOK
<1>4. s_function[s_call.addr] = "live"
  BY <1>1 DEF S!CallFits
<1>5. s_function' = s_function
  BY <1>2, <1>4 DEF S!TypeOK
<1>6. S!AddressOfDevice'
  BY <1>1, <1>5 DEF S!AddressOfDevice
<1>8. S!SlotOwned'
  BY <1>1, <1>2 DEF S!SlotOwned
<1> QED BY <1>1, <1>2, <1>3, <1>5, <1>6, <1>8

\* The wait for an endpoint to stop ends.
LEMMA StoppedKeeps ==
    ASSUME S!SlotsAssumption, s_overlapped' = FALSE, S!SlotsInvariant, S!Stopped
    PROVE  S!SlotsInvariant'
<1> USE DEF S!SlotsInvariant
<1>1. /\ S!AnswerTo(s_call) /\ s_call.op = "stop" /\ S!Start("flush", s_call.addr, s_call.slot)
      /\ UNCHANGED <<s_function, s_byAddress, s_slots, s_drain, s_hw, s_events, s_halted>>
  BY DEF S!Stopped
<1>2. /\ s_call # S!NoCall /\ s_drain = 0 /\ S!Pending(s_slots) = {} /\ s_events = <<>> /\ s_call \in S!Calls
      /\ s_cmds = <<>> \/ s_halted
  BY <1>1, AnswerTaken
<1>3. S!Pending(s_slots)' = {}
  BY <1>1, <1>2 DEF S!Pending
<1>4. S!OneWait' /\ s_result' = S!NoResult
      /\ s_call' = [op |-> "flush", addr |-> s_call.addr, slot |-> s_call.slot]
  BY <1>1, <1>2, <1>3, CommandSent
<1>5. S!TypeOK'
  <2>1. [op |-> "flush", addr |-> s_call.addr, slot |-> s_call.slot] \in S!Calls
    BY <1>1, <1>2 DEF S!Calls, S!Ops
  <2>2. s_call' \in S!Calls /\ s_result' = S!NoResult /\ s_cmds' \in Seq(S!Commands) /\ s_alone' \in BOOLEAN
    BY <1>1, <2>1, TypesSent
  <2> QED BY <1>1, <2>2 DEF S!TypeOK
<1>6. S!AddressOfDevice'
  BY <1>1 DEF S!AddressOfDevice
<1>7. S!SlotOwned'
  BY <1>1, <1>4 DEF S!SlotOwned
<1>8. S!CallFits'
  BY <1>1, <1>4 DEF S!CallFits
<1> QED BY <1>1, <1>4, <1>5, <1>6, <1>7, <1>8

\* The device has its address, or its slot is given back.
LEMMA AddressedKeeps ==
    ASSUME S!SlotsAssumption, s_overlapped' = FALSE, S!SlotsInvariant, S!Addressed
    PROVE  S!SlotsInvariant'
<1> USE DEF S!SlotsInvariant
<1>s. S!Slot \subseteq Nat /\ 0 \notin S!Slot
  BY SlotsOfConstants
<1> DEFINE s == s_call.slot
           a == s_call.addr
<1>1. S!AnswerTo(s_call) /\ s_call.op = "address" /\ UNCHANGED <<s_drain, s_hw, s_events, s_halted>>
  BY DEF S!Addressed
<1>2. /\ s_call # S!NoCall /\ s_drain = 0 /\ S!Pending(s_slots) = {} /\ s_events = <<>> /\ s_call \in S!Calls
      /\ S!Awaited.op = "address" /\ S!Awaited.slot = s
      /\ \/ s_cmds = <<>> /\ s_result # S!NoResult /\ S!AnswerFits(s_result)
         \/ s_halted /\ s_result = S!NoResult /\ S!NotYetRun
  BY <1>1, AnswerTaken
<1>3. s \in S!Slot /\ a \in S!Addr
  BY <1>1, <1>2 DEF S!Calls
<1>4. s_slots[s] = "used" /\ s_function[a] = "asking" /\ \A b \in S!Addr : s_byAddress[b] # s
  BY <1>1 DEF S!CallFits
<1>5. s_byAddress[a] = 0
  BY <1>3, <1>4 DEF S!AddressOfDevice
<1>6. CASE S!Succeeded
  <2>1. /\ s_byAddress' = [s_byAddress EXCEPT ![a] = s] /\ S!Answered(a, "live") /\ s_slots' = s_slots
    BY <1>6, <1>1 DEF S!Addressed, S!AddressEntered
  <2>2. s_hw[s] = "addressed"
    BY <1>6, <1>2 DEF S!Succeeded, S!AnswerFits
  <2>3. /\ S!OneWait' /\ S!CallFits' /\ s_call' = S!NoCall
        /\ s_function' = [s_function EXCEPT ![a] = "live"]
        /\ s_byAddress' \in [S!Addr -> S!Slot \cup {0}] => S!TypeOK'
    BY <1>1, <2>1, AnsweredKeeps
  <2>4. S!TypeOK'
    BY <2>1, <2>3, <1>3 DEF S!TypeOK
  <2>5. /\ \A b \in S!Addr : s_byAddress'[b] = IF b = a THEN s ELSE s_byAddress[b]
        /\ \A b \in S!Addr : s_function'[b] = IF b = a THEN "live" ELSE s_function[b]
    BY <2>1, <2>3 DEF S!TypeOK
  <2>6. S!AddressOfDevice'
    BY <1>1, <1>3, <1>4, <2>1, <2>2, <2>5 DEF S!AddressOfDevice
  <2>7. S!SlotOwned'
    <3>1. SUFFICES ASSUME NEW t \in S!Slot
          PROVE /\ s_slots[t] = "used" => (\E b \in S!Addr : s_byAddress'[b] = t) \/ s_drain = t
                /\ s_slots[t] = "pending" => s_hw[t] = "addressed" /\ \A b \in S!Addr : s_byAddress'[b] # t
                /\ s_slots[t] = "none" /\ ~ s_halted => s_hw[t] = "disabled"
      BY <1>1, <2>1, <2>3 DEF S!SlotOwned
    <3>2. /\ s_slots[t] = "used" => \/ \E b \in S!Addr : s_byAddress[b] = t
                                 \/ t = s \/ s_drain = t
          /\ s_slots[t] = "pending" => s_hw[t] = "addressed" /\ \A b \in S!Addr : s_byAddress[b] # t
          /\ s_slots[t] = "none" /\ ~ s_halted => s_hw[t] = "disabled"
      BY <1>1 DEF S!SlotOwned
    <3>3. t # s => ((\E b \in S!Addr : s_byAddress'[b] = t) <=> \E b \in S!Addr : s_byAddress[b] = t)
      BY <1>3, <1>5, <1>s, <2>5
    <3> QED BY <3>2, <3>3, <1>3, <1>4, <2>5
  <2>8. (\A b \in S!Addr : s_function[b] = "live" => s_byAddress[b] # 0)'
    BY <2>5, <1>3, <1>s
  <2> QED BY <2>3, <2>4, <2>6, <2>7, <2>8
<1>7. CASE ~ S!Succeeded
  <2>1. /\ s_slots' = [s_slots EXCEPT ![s] = "none"] /\ S!Start("release", a, s)
        /\ UNCHANGED <<s_function, s_byAddress>>
    BY <1>7, <1>1 DEF S!Addressed, S!SlotFreed
  <2>2. s_hw[s] = "enabled"
    <3>1. CASE s_halted /\ s_result = S!NoResult /\ S!NotYetRun
      BY <3>1, <1>2 DEF S!NotYetRun
    <3>2. CASE s_result # S!NoResult /\ S!AnswerFits(s_result)
      BY <3>2, <1>2, <1>7 DEF S!AnswerFits, S!Succeeded
    <3> QED BY <3>1, <3>2, <1>2
  <2>3. \A t \in S!Slot : s_slots'[t] = IF t = s THEN "none" ELSE s_slots[t]
    BY <2>1 DEF S!TypeOK
  <2>4. S!Pending(s_slots)' = {}
    BY <1>2, <2>3 DEF S!Pending
  <2>5. S!OneWait' /\ s_result' = S!NoResult /\ s_call' = [op |-> "release", addr |-> a, slot |-> s]
    BY <1>1, <1>2, <2>1, <2>2, <2>4, CommandSent
  <2>6. S!TypeOK'
    <3>1. [op |-> "release", addr |-> a, slot |-> s] \in S!Calls
      BY <1>3 DEF S!Calls, S!Ops
    <3>2. s_call' \in S!Calls /\ s_result' = S!NoResult /\ s_cmds' \in Seq(S!Commands) /\ s_alone' \in BOOLEAN
      BY <2>1, <3>1, TypesSent
    <3> QED BY <1>1, <2>1, <3>2 DEF S!TypeOK
  <2>7. S!AddressOfDevice'
    BY <1>1, <1>4, <2>1, <2>3 DEF S!AddressOfDevice, S!TypeOK
  <2>8. S!SlotOwned'
    BY <1>1, <1>3, <1>4, <2>1, <2>2, <2>3, <2>5 DEF S!SlotOwned
  <2>9. S!CallFits'
    BY <1>1, <1>2, <1>3, <1>4, <2>1, <2>3, <2>5 DEF S!CallFits
  <2> QED BY <2>1, <2>5, <2>6, <2>7, <2>8, <2>9
<1> QED BY <1>6, <1>7

\* The wait for a slot ends: it is recorded and the device is addressed in it.
LEMMA EnabledKeeps ==
    ASSUME S!SlotsAssumption, s_overlapped' = FALSE, S!SlotsInvariant, S!Enabled
    PROVE  S!SlotsInvariant'
<1> USE DEF S!SlotsInvariant
<1>s. S!Slot \subseteq Nat /\ 0 \notin S!Slot
  BY SlotsOfConstants
<1> DEFINE s == s_result.slot
           a == s_call.addr
<1>1. S!AnswerTo(s_call) /\ s_call.op = "enable" /\ UNCHANGED <<s_byAddress, s_drain, s_hw, s_events, s_halted>>
  BY DEF S!Enabled
<1>2. /\ s_call # S!NoCall /\ s_drain = 0 /\ S!Pending(s_slots) = {} /\ s_events = <<>> /\ s_call \in S!Calls
      /\ S!Awaited.op = "enable"
      /\ \/ s_cmds = <<>> /\ s_result # S!NoResult /\ S!AnswerFits(s_result)
         \/ s_halted /\ s_result = S!NoResult
  BY <1>1, AnswerTaken
<1>3. a \in S!Addr /\ s_function[a] = "asking"
  BY <1>1, <1>2 DEF S!Calls, S!CallFits
<1>4. \A b \in S!Addr : s_byAddress[b] # 0 => b # a
  BY <1>3 DEF S!AddressOfDevice
<1>5. CASE ~ (S!Succeeded /\ s # 0)
  <2>1. S!Answered(a, "failed") /\ s_slots' = s_slots
    BY <1>5 DEF S!Enabled
  <2>2. /\ S!OneWait' /\ S!CallFits' /\ s_call' = S!NoCall
        /\ s_function' = [s_function EXCEPT ![a] = "failed"]
        /\ s_byAddress' \in [S!Addr -> S!Slot \cup {0}] => S!TypeOK'
    BY <1>1, <2>1, AnsweredKeeps
  <2>3. S!TypeOK'
    BY <1>1, <2>2 DEF S!TypeOK
  <2>4. S!AddressOfDevice'
    BY <1>1, <1>4, <2>1, <2>2 DEF S!AddressOfDevice, S!TypeOK
  <2>5. \A t \in S!Slot : ~ s_halted => t \notin S!JustEnabled
    BY <1>2, <1>5, <1>s DEF S!JustEnabled, S!Succeeded, S!AnswerFits
  <2>6. S!SlotOwned'
    BY <1>1, <2>1, <2>2, <2>5 DEF S!SlotOwned
  <2>7. (\A b \in S!Addr : s_function[b] = "live" => s_byAddress[b] # 0)'
    BY <1>1, <2>2 DEF S!TypeOK
  <2> QED BY <2>2, <2>3, <2>4, <2>6, <2>7
<1>6. ASSUME S!Succeeded, s # 0
      PROVE  /\ s \in S!Slot /\ s_hw[s] = "enabled" /\ s_slots[s] = "none" /\ s_cmds = <<>>
             /\ \A t \in S!Slot : t \in S!JustEnabled => t = s
             /\ \A b \in S!Addr : s_byAddress[b] # s
  <2>1. s_result # S!NoResult /\ S!AnswerFits(s_result) /\ s_cmds = <<>>
    BY <1>2, <1>6 DEF S!Succeeded
  <2>2. s_hw[s] = "enabled" /\ s_slots[s] = "none" /\ s \in S!Slot
    BY <2>1, <1>2, <1>6 DEF S!AnswerFits, S!Results
  <2>3. \A t \in S!Slot : t \in S!JustEnabled => t = s
    BY <1>2 DEF S!JustEnabled
  <2>4. \A b \in S!Addr : s_byAddress[b] # s
    BY <2>2, <1>6 DEF S!AddressOfDevice
  <2> QED BY <2>1, <2>2, <2>3, <2>4
<1>7. ASSUME S!Succeeded, s # 0, s_slots' = [s_slots EXCEPT ![s] = "used"], S!Start("address", a, s),
             s_function' = s_function
      PROVE  S!SlotsInvariant'
  <2>1. \A t \in S!Slot : s_slots'[t] = IF t = s THEN "used" ELSE s_slots[t]
    BY <1>7 DEF S!TypeOK
  <2>2. S!Pending(s_slots)' = {}
    BY <1>2, <2>1 DEF S!Pending
  <2>3. S!OneWait' /\ s_result' = S!NoResult /\ s_call' = [op |-> "address", addr |-> a, slot |-> s]
    BY <1>1, <1>2, <1>6, <1>7, <2>2, CommandSent
  <2>4. S!TypeOK'
    <3>1. [op |-> "address", addr |-> a, slot |-> s] \in S!Calls
      BY <1>3, <1>6, <1>7 DEF S!Calls, S!Ops
    <3>2. s_call' \in S!Calls /\ s_result' = S!NoResult /\ s_cmds' \in Seq(S!Commands) /\ s_alone' \in BOOLEAN
      BY <1>7, <3>1, TypesSent
    <3> QED BY <1>1, <1>7, <3>2 DEF S!TypeOK
  <2>5. S!AddressOfDevice'
    BY <1>1, <1>6, <1>7, <2>1 DEF S!AddressOfDevice, S!TypeOK
  <2>6. S!SlotOwned'
    BY <1>1, <1>6, <1>7, <2>1, <2>3 DEF S!SlotOwned
  <2>7. S!CallFits'
    BY <1>1, <1>2, <1>3, <1>6, <1>7, <2>1, <2>3 DEF S!CallFits
  <2> QED BY <1>1, <1>7, <2>3, <2>4, <2>5, <2>6, <2>7
<1>8. ASSUME S!Succeeded, s # 0, s_slots' = s_slots, S!Start("release", a, s), s_function' = s_function
      PROVE  S!SlotsInvariant'
  <2>2. S!Pending(s_slots)' = {}
    BY <1>2, <1>8 DEF S!Pending
  <2>3. S!OneWait' /\ s_result' = S!NoResult /\ s_call' = [op |-> "release", addr |-> a, slot |-> s]
    BY <1>1, <1>2, <1>6, <1>8, <2>2, CommandSent
  <2>4. S!TypeOK'
    <3>1. [op |-> "release", addr |-> a, slot |-> s] \in S!Calls
      BY <1>3, <1>6, <1>8 DEF S!Calls, S!Ops
    <3>2. s_call' \in S!Calls /\ s_result' = S!NoResult /\ s_cmds' \in Seq(S!Commands) /\ s_alone' \in BOOLEAN
      BY <1>8, <3>1, TypesSent
    <3> QED BY <1>1, <1>8, <3>2 DEF S!TypeOK
  <2>5. S!AddressOfDevice'
    BY <1>1, <1>8 DEF S!AddressOfDevice
  <2>6. S!SlotOwned'
    BY <1>1, <1>6, <1>8, <2>3 DEF S!SlotOwned
  <2>7. S!CallFits'
    BY <1>1, <1>2, <1>3, <1>6, <1>8, <2>3 DEF S!CallFits
  <2> QED BY <1>1, <1>8, <2>3, <2>4, <2>5, <2>6, <2>7
<1> QED BY <1>5, <1>7, <1>8 DEF S!Enabled

-----------------------------------------------------------------------------
(* Reading, draining, running. *)

\* Events are read: the answer that is waited for is taken.
LEMMA ReadEventsKeeps ==
    ASSUME S!SlotsAssumption, s_overlapped' = FALSE, S!SlotsInvariant, S!ReadEvents
    PROVE  S!SlotsInvariant'
<1> USE DEF S!SlotsInvariant
<1>1. /\ s_events # <<>> /\ s_events' = <<>> /\ s_result' = s_events[Len(s_events)]
      /\ UNCHANGED <<s_function, s_byAddress, s_slots, s_call, s_drain, s_alone, s_hw, s_cmds, s_halted>>
  BY DEF S!ReadEvents
<1>2. PICK r \in S!Results : s_events = <<r>> /\ S!AnswerFits(r) /\ s_cmds = <<>> /\ s_result = S!NoResult
  BY <1>1 DEF S!OneWait, S!OnePlace
<1>3. s_result' = r /\ r # S!NoResult
  BY <1>1, <1>2, Single DEF S!Results, S!Ops, S!NoResult
<1>4. S!TypeOK'
  <2>1. s_result' \in S!Results \cup {S!NoResult}
    BY <1>3
  <2>2. <<>> \in Seq(S!Results)
    OBVIOUS
  <2>3. s_overlapped' \in BOOLEAN
    OBVIOUS
  <2> QED BY <1>1, <2>1, <2>2, <2>3 DEF S!TypeOK
<1>5. S!OneWait'
  <2>1. S!AnswerFits(r)'
    BY <1>1, <1>2 DEF S!AnswerFits, S!Awaited
  <2>2. S!OnePlace'
    BY <1>1, <1>2, <1>3, <2>1 DEF S!OnePlace
  <2> QED BY <1>1, <1>2, <2>2 DEF S!OneWait, S!Pending
<1>6. S!AddressOfDevice'
  BY <1>1 DEF S!AddressOfDevice
<1>7. \A s \in S!Slot : s \in S!JustEnabled => s \in S!JustEnabled'
  <2>1. SUFFICES ASSUME NEW s \in S!Slot, NEW i \in 1 .. Len(s_events), s_events[i].slot = s
        PROVE  s \in S!JustEnabled'
    BY <1>2 DEF S!JustEnabled
  <2>2. i = 1 /\ r.slot = s
    BY <1>2, <2>1, Single
  <2> QED BY <2>2, <1>3 DEF S!JustEnabled
<1>8. S!SlotOwned'
  BY <1>1, <1>7 DEF S!SlotOwned
<1>9. S!CallFits'
  BY <1>1 DEF S!CallFits
<1> QED BY <1>1, <1>4, <1>5, <1>6, <1>8, <1>9

\* The least of some slots, the first that is disabled.
LEMMA LeastSlot ==
    ASSUME S!SlotsAssumption, NEW P \in SUBSET S!Slot, P # {}
    PROVE  S!Min(P) \in P
<1>1. P \subseteq Nat
  BY SlotsOfConstants
<1> DEFINE Less == {p \in Nat \X Nat : p[1] < p[2]}
<1>2. IsWellFoundedOn(Less, Nat)
  BY NatLessThanWellFounded DEF OpToRel
<1>3. \A p, q \in Nat : <<p, q>> \in Less <=> p < q
  OBVIOUS
<1> HIDE DEF Less
<1>4. PICK x \in P : \A y \in P : ~ (<<y, x>> \in Less)
  BY <1>1, <1>2, WFMin
<1>5. \A y \in P : x <= y
  <2>1. TAKE y \in P
  <2>2. x \in Nat /\ y \in Nat /\ ~ (y < x)
    BY <1>1, <1>3, <1>4
  <2> QED BY <2>2
<1> QED BY <1>5 DEF S!Min

\* A wait that is over leaves the parts of the invariant that are not about it.
LEMMA DrainKeeps ==
    ASSUME S!SlotsAssumption, s_overlapped' = FALSE, S!SlotsInvariant, s_call = S!NoCall, s_events = <<>>,
           NEW table \in [S!Slot -> {"none", "used", "pending"}],
           NEW P \in SUBSET S!Pending(table), S!DrainSlots(table, P),
           \A s \in S!Slot :
              \/ table[s] = s_slots[s]
              \/ table[s] = "none" /\ s = s_drain /\ (s_halted \/ s_hw[s] = "disabled"),
           s_drain # 0 => table[s_drain] = "none", s_cmds = <<>> \/ s_halted,
           UNCHANGED <<s_function, s_byAddress, s_call, s_hw, s_events, s_halted>>
    PROVE  S!SlotsInvariant'
<1> USE DEF S!SlotsInvariant
<1>s. S!Slot \subseteq Nat /\ 0 \notin S!Slot
  BY SlotsOfConstants
<1>1. \A s \in S!Slot :
         \/ table[s] = s_slots[s] /\ s # s_drain
         \/ table[s] = "none" /\ s = s_drain /\ (s_halted \/ s_hw[s] = "disabled")
  BY <1>s DEF S!CallFits
<1>2. \A s \in S!Slot :
        /\ table[s] = "used" => \E a \in S!Addr : s_byAddress[a] = s
        /\ table[s] = "pending" => s_hw[s] = "addressed" /\ \A a \in S!Addr : s_byAddress[a] # s
        /\ table[s] = "none" /\ ~ s_halted => s_hw[s] = "disabled"
  BY <1>1 DEF S!SlotOwned, S!NoCall
<1>3. \A a \in S!Addr : s_byAddress[a] # 0 =>
        /\ s_function[a] = "live" /\ s_byAddress[a] \in S!Slot
        /\ table[s_byAddress[a]] = "used" /\ s_hw[s_byAddress[a]] = "addressed"
        /\ \A b \in S!Addr : s_byAddress[b] = s_byAddress[a] => a = b
  <2>1. \A a \in S!Addr : s_byAddress[a] # 0 => s_byAddress[a] \in S!Slot /\ (s_drain # 0 => s_byAddress[a] # s_drain)
    BY DEF S!CallFits, S!TypeOK
  <2>2. TAKE a \in S!Addr
  <2>3. HAVE s_byAddress[a] # 0
  <2>4. s_byAddress[a] \in S!Slot /\ s_byAddress[a] # s_drain
    BY <2>1, <2>3
  <2>5. table[s_byAddress[a]] = s_slots[s_byAddress[a]]
    BY <1>1, <2>4
  <2> QED BY <2>3, <2>4, <2>5 DEF S!AddressOfDevice
<1>4. CASE P = {} \/ s_halted
  <2>1. /\ s_slots' = [s \in S!Slot |-> IF s \in P THEN "none" ELSE table[s]] /\ s_drain' = 0
        /\ UNCHANGED <<s_cmds, s_result, s_alone>>
    BY <1>4 DEF S!DrainSlots
  <2>2. \A s \in S!Slot : s_slots'[s] = IF s \in P THEN "none" ELSE table[s]
    BY <2>1
  <2>3. \A s \in S!Slot : s \in P => s_halted /\ table[s] = "pending"
    BY <1>4 DEF S!Pending
  <2>4. S!TypeOK'
    BY <2>1 DEF S!TypeOK
  <2>5. S!OneWait'
    BY <2>1 DEF S!OneWait
  <2>6. S!AddressOfDevice'
    BY <1>3, <2>2, <2>3 DEF S!AddressOfDevice
  <2>7. S!SlotOwned'
    BY <1>2, <2>2, <2>3, <1>4 DEF S!SlotOwned
  <2>8. S!CallFits'
    BY <2>1 DEF S!CallFits, S!NoCall
  <2> QED BY <2>4, <2>5, <2>6, <2>7, <2>8
<1>5. CASE ~ (P = {} \/ s_halted)
  <2> DEFINE m == S!Min(P)
  <2>1. /\ s_slots' = [table EXCEPT ![m] = "used"] /\ s_drain' = m
        /\ s_result' = S!NoResult /\ s_cmds' = Append(s_cmds, [op |-> "drain", slot |-> m])
        /\ s_alone' \in BOOLEAN
    BY <1>5 DEF S!DrainSlots, S!Send, S!SentAlone
  <2>2. m \in S!Slot /\ table[m] = "pending"
    BY <1>5, LeastSlot DEF S!Pending
  <2> HIDE DEF m
  <2>3. \A s \in S!Slot : s_slots'[s] = IF s = m THEN "used" ELSE table[s]
    BY <2>1
  <2>4. s_cmds' = <<[op |-> "drain", slot |-> m]>>
    BY <2>1, <1>5, Single
  <2>5. S!TypeOK'
    <3>1. [op |-> "drain", slot |-> m] \in S!Commands
      BY <2>2 DEF S!Commands
    <3>2. s_cmds' \in Seq(S!Commands)
      BY <2>4, <3>1
    <3>3. s_slots' \in [S!Slot -> {"none", "used", "pending"}]
      BY <2>1, <2>2
    <3>4. s_overlapped' \in BOOLEAN
      OBVIOUS
    <3> QED BY <2>1, <2>2, <3>2, <3>3, <3>4 DEF S!TypeOK
  <2>6. S!OneWait'
    <3>1. S!Awaited' = [op |-> "drain", slot |-> m]
      BY <2>1, <2>2, <1>s DEF S!Awaited
    <3>2. S!NotYetRun'
      BY <3>1 DEF S!NotYetRun
    <3>3. S!OnePlace'
      BY <2>1, <2>4, <3>1, <3>2 DEF S!OnePlace
    <3> QED BY <3>3, <2>1, <2>2, <1>s DEF S!OneWait
  <2>7. S!AddressOfDevice'
    BY <1>3, <2>2, <2>3 DEF S!AddressOfDevice
  <2>8. S!SlotOwned'
    BY <1>2, <2>1, <2>2, <2>3, <1>5 DEF S!SlotOwned
  <2>9. S!CallFits'
    BY <1>2, <2>1, <2>2, <2>3 DEF S!CallFits, S!NoCall
  <2> QED BY <2>5, <2>6, <2>7, <2>8, <2>9
<1> QED BY <1>4, <1>5

\* The Disable Slot of a pending slot is sent.
LEMMA StartDrainKeeps ==
    ASSUME S!SlotsAssumption, s_overlapped' = FALSE, S!SlotsInvariant, S!StartDrain
    PROVE  S!SlotsInvariant'
<1>1. /\ s_drain = 0 /\ S!Pending(s_slots) # {} /\ s_events = <<>> /\ S!DrainSlots(s_slots, S!Pending(s_slots))
      /\ UNCHANGED <<s_function, s_byAddress, s_call, s_hw, s_events, s_halted>>
  BY DEF S!StartDrain
<1>2. s_call = S!NoCall
  BY <1>1 DEF S!SlotsInvariant, S!OneWait
<1>3. s_cmds = <<>> \/ s_halted
  BY <1>1, <1>2, NothingAwaited
<1>4. s_slots \in [S!Slot -> {"none", "used", "pending"}]
  BY DEF S!SlotsInvariant, S!TypeOK
<1> QED BY <1>1, <1>2, <1>3, <1>4, DrainKeeps

\* The wait for a Disable Slot ends.
LEMMA DrainedKeeps ==
    ASSUME S!SlotsAssumption, s_overlapped' = FALSE, S!SlotsInvariant, S!Drained
    PROVE  S!SlotsInvariant'
<1> DEFINE P == {s \in S!Pending(s_slots) : s > s_drain}
<1>1. /\ s_drain # 0 /\ (s_result # S!NoResult \/ (s_halted /\ s_events = <<>>))
      /\ S!DrainSlots([s_slots EXCEPT ![s_drain] = "none"], P)
      /\ UNCHANGED <<s_function, s_byAddress, s_call, s_hw, s_events, s_halted>>
  BY DEF S!Drained, S!DrainedSlotFreed
<1>2. s_call = S!NoCall /\ S!OnePlace /\ S!Awaited.op = "drain" /\ S!Awaited.slot = s_drain
  BY <1>1 DEF S!SlotsInvariant, S!OneWait, S!Awaited
<1>3. \A r : <<r>> # <<>>
  BY Single
<1>4. /\ s_events = <<>>
      /\ s_halted \/ (s_cmds = <<>> /\ S!AnswerFits(s_result))
  <2>1. s_result # S!NoResult => s_cmds = <<>> /\ s_events = <<>> /\ S!AnswerFits(s_result)
    BY <1>2 DEF S!OnePlace
  <2> QED BY <1>1, <2>1
<1>5. s_drain \in S!Slot /\ (s_halted \/ s_hw[s_drain] = "disabled")
  BY <1>1, <1>2, <1>4 DEF S!AnswerFits, S!SlotsInvariant, S!TypeOK
<1> DEFINE table == [s_slots EXCEPT ![s_drain] = "none"]
<1>6. table \in [S!Slot -> {"none", "used", "pending"}] /\ table[s_drain] = "none"
      /\ \A s \in S!Slot : table[s] = IF s = s_drain THEN "none" ELSE s_slots[s]
  BY <1>5 DEF S!SlotsInvariant, S!TypeOK
<1>7. P \in SUBSET S!Pending(table)
  <2>1. \A s \in S!Slot : s > s_drain => s # s_drain
    BY <1>5, SlotsOfConstants
  <2> QED BY <1>6, <2>1 DEF S!Pending
<1>8. S!DrainSlots(table, P)
  BY <1>1
<1> HIDE DEF table, P
<1> QED BY <1>1, <1>2, <1>4, <1>5, <1>6, <1>7, <1>8, DrainKeeps

\* The controller runs the one command there is, and the task is told what came of it.
LEMMA AnswerMade ==
    ASSUME S!SlotsAssumption, S!SlotsInvariant, S!RunCommand
    PROVE  /\ s_drain # 0 \/ s_call # S!NoCall
           /\ s_cmds = <<S!Awaited>> /\ s_events = <<>> /\ s_result = S!NoResult /\ S!NotYetRun
           /\ s_cmds' = <<>> /\ \E r \in S!Results : s_events' = <<r>> /\ S!AnswerFits(r)'
           /\ UNCHANGED <<s_function, s_byAddress, s_slots, s_call, s_drain, s_result, s_alone, s_halted>>
           /\ ~ s_halted
<1> USE DEF S!SlotsInvariant
<1>s. S!Slot \subseteq Nat /\ 0 \notin S!Slot
  BY SlotsOfConstants
<1>1. ~ s_halted /\ s_cmds # <<>> /\ s_cmds' = Tail(s_cmds)
      /\ UNCHANGED <<s_function, s_byAddress, s_slots, s_call, s_drain, s_result, s_alone, s_halted>>
  BY DEF S!RunCommand, S!taskVars
<1>2. s_drain # 0 \/ s_call # S!NoCall
  BY <1>1 DEF S!OneWait
<1>3. s_cmds = <<S!Awaited>> /\ s_events = <<>> /\ s_result = S!NoResult /\ S!NotYetRun
  BY <1>1, <1>2 DEF S!OneWait, S!OnePlace
<1>4. s_cmds' = <<>> /\ Head(s_cmds) = S!Awaited
  BY <1>1, <1>3, Single
<1>5. S!Awaited' = S!Awaited
  BY <1>1 DEF S!Awaited
<1>6. S!Awaited \in S!Commands /\ s_hw \in [S!Slot -> {"disabled", "enabled", "addressed"}]
  BY <1>2, <1>3 DEF S!TypeOK, S!Awaited, S!Commands, S!Calls, S!NoCall
<1>7. PICK w \in S!Commands : w = S!Awaited
  BY <1>6
<1>8. w = S!Awaited /\ S!Awaited' = w
  BY <1>5, <1>7
<1> DEFINE answer(s, ok) == [op |-> w.op, slot |-> s, ok |-> ok]
<1>9. ASSUME NEW s \in S!Slot \cup {0}, NEW ok \in BOOLEAN, s_events' = Append(s_events, answer(s, ok)),
             S!AnswerFits(answer(s, ok))'
      PROVE  \E r \in S!Results : s_events' = <<r>> /\ S!AnswerFits(r)'
  <2>1. answer(s, ok) \in S!Results
    BY DEF S!Commands, S!Results, S!Ops
  <2>2. s_events' = <<answer(s, ok)>>
    BY <1>3, <1>9, Single
  <2> QED BY <1>9, <2>1, <2>2
<1>10. \/ /\ w.op = "enable"
          /\ \/ \E s \in S!Slot : /\ s_hw[s] = "disabled"
                                  /\ s_hw' = [s_hw EXCEPT ![s] = "enabled"]
                                  /\ s_events' = Append(s_events, answer(s, TRUE))
             \/ s_events' = Append(s_events, answer(0, FALSE)) /\ UNCHANGED s_hw
       \/ /\ w.op = "address"
          /\ \/ s_hw[w.slot] = "enabled" /\ s_hw' = [s_hw EXCEPT ![w.slot] = "addressed"]
                /\ s_events' = Append(s_events, answer(w.slot, TRUE))
             \/ s_events' = Append(s_events, answer(w.slot, FALSE)) /\ UNCHANGED s_hw
       \/ /\ w.op \in {"release", "drain"}
          /\ s_hw' = [s_hw EXCEPT ![w.slot] = "disabled"]
          /\ s_events' = Append(s_events, answer(w.slot, s_hw[w.slot] # "disabled"))
       \/ /\ w.op \in {"stop", "flush"}
          /\ s_events' = Append(s_events, answer(w.slot, s_hw[w.slot] = "addressed")) /\ UNCHANGED s_hw
  BY <1>4, <1>8 DEF S!RunCommand
<1> HIDE DEF answer
<1>11. ASSUME w.op = "enable" PROVE \E r \in S!Results : s_events' = <<r>> /\ S!AnswerFits(r)'
  <2>1. ASSUME NEW s \in S!Slot, s_hw[s] = "disabled", s_hw' = [s_hw EXCEPT ![s] = "enabled"],
               s_events' = Append(s_events, answer(s, TRUE))
        PROVE  \E r \in S!Results : s_events' = <<r>> /\ S!AnswerFits(r)'
    <3>1. s_drain = 0 /\ s_call.op = "enable"
      BY <1>8, <1>11 DEF S!Awaited
    <3>2. s_slots[s] # "used"
      BY <2>1, <3>1, <1>s DEF S!SlotsInvariant, S!SlotOwned, S!AddressOfDevice
    <3>3. s_slots[s] # "pending"
      BY <2>1 DEF S!SlotsInvariant, S!SlotOwned
    <3>4. s_slots[s] = "none"
      BY <3>2, <3>3 DEF S!SlotsInvariant, S!TypeOK
    <3>5. answer(s, TRUE) \in S!Results
      BY DEF answer, S!Commands, S!Results, S!Ops
    <3>6. S!AnswerFits(answer(s, TRUE))'
      BY <3>4, <3>5, <1>1, <1>6, <1>8, <1>11, <2>1, <1>s DEF answer, S!AnswerFits
    <3> QED BY <2>1, <3>6, <1>9
  <2>2. ASSUME s_events' = Append(s_events, answer(0, FALSE))
        PROVE  \E r \in S!Results : s_events' = <<r>> /\ S!AnswerFits(r)'
    <3>1. answer(0, FALSE) \in S!Results
      BY DEF answer, S!Commands, S!Results, S!Ops
    <3>2. S!AnswerFits(answer(0, FALSE))'
      BY <1>8, <1>11, <3>1 DEF answer, S!AnswerFits
    <3> QED BY <2>2, <3>2, <1>9
  <2> QED BY <2>1, <2>2, <1>10, <1>11
<1>12. ASSUME w.op # "enable" PROVE \E r \in S!Results : s_events' = <<r>> /\ S!AnswerFits(r)'
  <2>1. w.slot \in S!Slot
    BY <1>12 DEF S!Commands
  <2>2. \E ok \in BOOLEAN :
           /\ s_events' = Append(s_events, answer(w.slot, ok))
           /\ w.op = "address" => s_hw'[w.slot] = IF ok THEN "addressed" ELSE "enabled"
           /\ w.op \in {"release", "drain"} => s_hw'[w.slot] = "disabled"
    <3>1. CASE w.op = "address"
      BY <1>3, <1>6, <1>8, <1>10, <2>1, <3>1 DEF S!NotYetRun
    <3>2. CASE w.op \in {"release", "drain"}
      BY <1>6, <1>10, <2>1, <3>2
    <3>3. CASE w.op \in {"stop", "flush"}
      BY <1>10, <3>3
    <3> QED BY <1>12, <3>1, <3>2, <3>3 DEF S!Commands, S!Ops
  <2>3. PICK ok \in BOOLEAN :
           /\ s_events' = Append(s_events, answer(w.slot, ok))
           /\ w.op = "address" => s_hw'[w.slot] = IF ok THEN "addressed" ELSE "enabled"
           /\ w.op \in {"release", "drain"} => s_hw'[w.slot] = "disabled"
    BY <2>2
  <2>4. answer(w.slot, ok) \in S!Results
    BY <2>1 DEF answer, S!Commands, S!Results, S!Ops
  <2>5. S!AnswerFits(answer(w.slot, ok))'
    BY <1>8, <1>12, <2>3, <2>4 DEF answer, S!AnswerFits
  <2> QED BY <2>1, <2>3, <2>5, <1>9
<1>13. \E r \in S!Results : s_events' = <<r>> /\ S!AnswerFits(r)'
  BY <1>11, <1>12
<1> QED BY <1>1, <1>2, <1>3, <1>4, <1>13

\* What a command does to the slots.
LEMMA SlotsRun ==
    ASSUME S!SlotsAssumption, S!SlotsInvariant, S!RunCommand, NEW s \in S!Slot
    PROVE  \/ s_hw'[s] = s_hw[s]
           \/ /\ S!Awaited.op = "enable" /\ s_hw[s] = "disabled" /\ s_hw'[s] = "enabled"
              /\ s \in S!JustEnabled'
           \/ S!Awaited.op = "address" /\ s = S!Awaited.slot /\ s_hw'[s] = "addressed"
           \/ S!Awaited.op \in {"release", "drain"} /\ s = S!Awaited.slot /\ s_hw'[s] = "disabled"
<1>1. s_cmds = <<S!Awaited>> /\ s_events = <<>>
  BY AnswerMade
<1>2. Head(s_cmds) = S!Awaited
  BY <1>1, Single
<1>3. s_hw \in [S!Slot -> {"disabled", "enabled", "addressed"}]
  BY DEF S!SlotsInvariant, S!TypeOK
<1>4. ASSUME NEW t \in S!Slot, s_events' = Append(s_events, [op |-> S!Awaited.op, slot |-> t, ok |-> TRUE])
      PROVE  t \in S!JustEnabled'
  <2>1. Len(s_events') = 1 /\ s_events'[1].slot = t
    BY <1>1, <1>4, Single
  <2> QED BY <2>1 DEF S!JustEnabled
<1>5. \/ s_hw' = s_hw
      \/ S!Awaited.op = "enable" /\ \E t \in S!Slot : /\ s_hw[t] = "disabled" /\ s_hw' = [s_hw EXCEPT ![t] = "enabled"]
                                                      /\ t \in S!JustEnabled'
      \/ S!Awaited.op = "address" /\ s_hw' = [s_hw EXCEPT ![S!Awaited.slot] = "addressed"]
      \/ S!Awaited.op \in {"release", "drain"} /\ s_hw' = [s_hw EXCEPT ![S!Awaited.slot] = "disabled"]
  BY <1>2, <1>4 DEF S!RunCommand
<1> QED BY <1>3, <1>5

\* The controller runs the oldest command and answers it.
LEMMA RunCommandKeeps ==
    ASSUME S!SlotsAssumption, s_overlapped' = FALSE, S!SlotsInvariant, S!RunCommand
    PROVE  S!SlotsInvariant'
<1>1. /\ s_drain # 0 \/ s_call # S!NoCall
      /\ s_cmds = <<S!Awaited>> /\ s_events = <<>> /\ s_result = S!NoResult /\ S!NotYetRun
      /\ s_cmds' = <<>> /\ ~ s_halted
      /\ UNCHANGED <<s_function, s_byAddress, s_slots, s_call, s_drain, s_result, s_alone, s_halted>>
  BY AnswerMade
<1>2. PICK r \in S!Results : s_events' = <<r>> /\ S!AnswerFits(r)'
  BY AnswerMade
<1>3. S!TypeOK'
  <2>1. s_hw' \in [S!Slot -> {"disabled", "enabled", "addressed"}]
    BY DEF S!SlotsInvariant, S!TypeOK, S!RunCommand
  <2>2. s_events' \in Seq(S!Results)
    BY <1>2
  <2>3. <<>> \in Seq(S!Commands)
    OBVIOUS
  <2>4. s_overlapped' \in BOOLEAN
    OBVIOUS
  <2> QED BY <1>1, <2>1, <2>2, <2>3, <2>4 DEF S!SlotsInvariant, S!TypeOK
<1>4. S!OneWait'
  <2>1. S!OnePlace'
    BY <1>1, <1>2 DEF S!OnePlace
  <2> QED BY <1>1, <2>1 DEF S!SlotsInvariant, S!OneWait, S!Pending
<1>5. \A s \in S!Slot :
           \/ s_hw'[s] = s_hw[s]
           \/ /\ S!Awaited.op = "enable" /\ s_hw[s] = "disabled" /\ s_hw'[s] = "enabled"
              /\ s \in S!JustEnabled'
           \/ S!Awaited.op = "address" /\ s = S!Awaited.slot /\ s_hw'[s] = "addressed"
           \/ S!Awaited.op \in {"release", "drain"} /\ s = S!Awaited.slot /\ s_hw'[s] = "disabled"
  BY SlotsRun
<1>6. /\ S!Awaited.op = "drain" => s_drain # 0 /\ S!Awaited.slot = s_drain
      /\ S!Awaited.op # "drain" => s_drain = 0 /\ s_call # S!NoCall /\ S!Awaited.slot = s_call.slot /\ S!Awaited.op = s_call.op
      /\ s_drain # 0 => s_call = S!NoCall
  BY <1>1 DEF S!Awaited, S!SlotsInvariant, S!OneWait, S!TypeOK, S!Calls, S!Ops
<1>7. S!AddressOfDevice'
  BY <1>1, <1>5, <1>6 DEF S!AddressOfDevice, S!SlotsInvariant, S!CallFits, S!TypeOK
<1>8. S!SlotOwned'
  <2>1. SUFFICES ASSUME NEW s \in S!Slot
        PROVE /\ s_slots[s] = "pending" => s_hw'[s] = "addressed"
              /\ s_slots[s] = "none" /\ ~ s_halted /\ s_hw'[s] # "disabled" =>
                    /\ s_hw'[s] = "enabled"
                    /\ \/ s_call.op = "enable" /\ s \in S!JustEnabled'
                       \/ s_call.op = "release" /\ s_call.slot = s
    BY <1>1 DEF S!SlotOwned, S!SlotsInvariant
  <2>2. \A t \in S!Slot : t \notin S!JustEnabled
    BY <1>1 DEF S!JustEnabled
  <2>3. /\ s_slots[s] = "pending" => s_hw[s] = "addressed" /\ s_call = S!NoCall
        /\ s_slots[s] = "none" /\ s_hw[s] # "disabled" => s_hw[s] = "enabled" /\ s_call.op = "release" /\ s_call.slot = s
    BY <1>1, <2>2 DEF S!SlotOwned, S!SlotsInvariant, S!OneWait, S!Pending
  <2>4. /\ S!Awaited.op = "address" => s_slots[S!Awaited.slot] = "used"
        /\ s_drain # 0 => s_slots[s_drain] = "used"
    BY <1>6 DEF S!CallFits, S!SlotsInvariant
  <2> QED BY <1>5, <1>6, <2>3, <2>4
<1>9. S!CallFits'
  BY <1>1 DEF S!SlotsInvariant, S!CallFits
<1> QED BY <1>1, <1>3, <1>4, <1>7, <1>8, <1>9 DEF S!SlotsInvariant

-----------------------------------------------------------------------------

\* A function that has gone during a wait is remembered.
LEMMA OverlapStays ==
    ASSUME s_overlapped \in BOOLEAN, S!Next \/ UNCHANGED S!vars
    PROVE  s_overlapped' \in BOOLEAN /\ (s_overlapped => s_overlapped')
<1>1. CASE \/ S!Plug \/ S!Halt \/ S!RunCommand \/ S!Enabled \/ S!Addressed \/ S!Released
           \/ S!Stopped \/ S!Flushed \/ S!ReadEvents \/ S!StartDrain \/ S!Drained \/ UNCHANGED S!vars
  <2>1. s_overlapped' = s_overlapped
    BY <1>1, Zenon DEF S!Plug, S!Halt, S!RunCommand, S!Enabled, S!Addressed, S!Released, S!Stopped,
       S!Flushed, S!ReadEvents, S!StartDrain, S!Drained, S!vars
  <2> QED BY <2>1
<1>2. CASE \E a \in S!Addr : S!Unplug(a) \/ S!SetAddress(a) \/ S!AbortTransfer(a)
  BY <1>2 DEF S!Unplug, S!SetAddress, S!AbortTransfer, S!MayStart
<1> QED BY <1>1, <1>2 DEF S!Next, S!HCDTask

\* Every step keeps the invariant, if no function goes during a wait.
LEMMA SlotsNext ==
    ASSUME S!SlotsAssumption, s_overlapped' = FALSE, S!SlotsInvariant, S!Next \/ UNCHANGED S!vars
    PROVE  S!SlotsInvariant'
<1>1. CASE S!Next
  BY <1>1, PlugKeeps, HaltKeeps, UnplugKeeps, SetAddressKeeps, AbortTransferKeeps, EnabledKeeps,
     AddressedKeeps, ReleasedKeeps, StoppedKeeps, FlushedKeeps, ReadEventsKeeps, StartDrainKeeps,
     DrainedKeeps, RunCommandKeeps DEF S!Next, S!HCDTask
<1>2. CASE UNCHANGED S!vars
  <2>1. UNCHANGED <<s_function, s_byAddress, s_slots, s_call, s_drain, s_result, s_alone, s_hw, s_cmds, s_events, s_halted, s_overlapped>>
    BY <1>2 DEF S!vars, S!taskVars, S!chipVars
  <2>2. S!TypeOK' /\ S!OneWait' /\ S!AddressOfDevice'
    BY <2>1 DEF S!SlotsInvariant, S!TypeOK, S!OneWait, S!OnePlace, S!NotYetRun, S!Awaited, S!AnswerFits,
       S!Pending,
                S!AddressOfDevice
  <2>3. S!SlotOwned' /\ S!CallFits'
    BY <2>1 DEF S!SlotsInvariant, S!SlotOwned, S!JustEnabled, S!CallFits
  <2> QED BY <2>1, <2>2, <2>3 DEF S!SlotsInvariant
<1> QED BY <1>1, <1>2

\* What the invariant says of the slots.
LEMMA SlotsGood == ASSUME S!SlotsAssumption, S!SlotsInvariant PROVE S!SlotsAgree
<1>s. S!Slot \subseteq Nat /\ 0 \notin S!Slot
  BY SlotsOfConstants
<1>1. S!FreedUnused
  BY DEF S!FreedUnused, S!SlotsInvariant, S!SlotOwned
<1>2. S!NoSlotLeaked
  <2>1. SUFFICES ASSUME S!AtRest, NEW s \in S!Slot
        PROVE  /\ s_slots[s] = "used" => \E a \in S!Addr : s_function[a] = "live" /\ s_byAddress[a] = s
               /\ s_hw[s] # "disabled" /\ ~ s_halted => s_slots[s] = "used"
    BY DEF S!NoSlotLeaked
  <2>2. s_call = S!NoCall /\ s_drain = 0 /\ s_slots[s] # "pending"
    BY <2>1 DEF S!AtRest, S!Pending
  <2>3. s_slots[s] = "used" => \E a \in S!Addr : s_byAddress[a] = s
    BY <2>2, <1>s DEF S!SlotsInvariant, S!SlotOwned, S!NoCall
  <2>4. s_hw[s] # "disabled" /\ ~ s_halted => s_slots[s] # "none"
    BY <2>2 DEF S!SlotsInvariant, S!SlotOwned, S!NoCall
  <2>5. s_slots[s] \in {"none", "used", "pending"}
    BY DEF S!SlotsInvariant, S!TypeOK
  <2> QED BY <2>2, <2>3, <2>4, <2>5, <1>s DEF S!SlotsInvariant, S!AddressOfDevice
<1> QED BY <1>1, <1>2 DEF S!SlotsAgree, S!SlotsInvariant

-----------------------------------------------------------------------------
(* Whose answer a wait takes, whether functions go during waits or not *)

\* A command that is sent is the only one, if it is sent alone.
LEMMA SentIsOnlyOne ==
    ASSUME NEW op, NEW a, NEW s, S!Start(op, a, s), s_drain = 0, s_drain' = 0,
           UNCHANGED <<s_events, s_halted>>
    PROVE  S!AloneAnswered'
<1>1. /\ s_call' = [op |-> op, addr |-> a, slot |-> s] /\ s_result' = S!NoResult
      /\ s_cmds' = IF s_halted THEN <<>> ELSE Append(s_cmds, [op |-> op, slot |-> s])
      /\ s_alone' => s_cmds = <<>> /\ s_events = <<>>
  BY DEF S!Start, S!Send, S!SentAlone
<1>2. S!Awaited' = [op |-> op, slot |-> s]
  BY <1>1 DEF S!Awaited
<1>3. s_alone' /\ ~ s_halted => s_cmds' = <<[op |-> op, slot |-> s]>>
  BY <1>1, Single
<1> QED BY <1>1, <1>2, <1>3 DEF S!AloneAnswered

\* A wait that is over asks for no answer.
LEMMA NoWaitLeft ==
    ASSUME NEW a, NEW outcome, S!Answered(a, outcome), s_drain = 0, s_drain' = 0 PROVE S!AloneAnswered'
BY DEF S!Answered, S!AloneAnswered

\* The drain goes on to its next slot, or ends.
LEMMA DrainsAlone ==
    ASSUME S!SlotsAssumption, NEW table, NEW P \in SUBSET S!Slot, S!DrainSlots(table, P),
           S!AloneAnswered, s_drain # 0 \/ UNCHANGED s_drain \/ P # {}, UNCHANGED <<s_call, s_events, s_halted>>
    PROVE  S!AloneAnswered'
<1>1. CASE P = {} \/ s_halted
  <2>1. s_drain' = 0 /\ UNCHANGED <<s_cmds, s_result, s_alone>>
    BY <1>1 DEF S!DrainSlots
  <2>2. s_alone /\ s_call # S!NoCall => s_drain = 0
    BY DEF S!AloneAnswered
  <2> QED BY <2>1, <2>2 DEF S!AloneAnswered, S!Awaited, S!CompletionFits
<1>2. CASE ~ (P = {} \/ s_halted)
  <2> DEFINE m == S!Min(P)
  <2>1. /\ s_drain' = m /\ s_result' = S!NoResult /\ s_cmds' = Append(s_cmds, [op |-> "drain", slot |-> m])
        /\ s_alone' => s_cmds = <<>> /\ s_events = <<>> /\ s_call = S!NoCall
    BY <1>2 DEF S!DrainSlots, S!Send, S!SentAlone
  <2>2. m # 0
    BY <1>2, LeastSlot, SlotsOfConstants
  <2> HIDE DEF m
  <2>3. S!Awaited' = [op |-> "drain", slot |-> m]
    BY <2>1, <2>2 DEF S!Awaited
  <2>4. s_alone' => s_cmds' = <<[op |-> "drain", slot |-> m]>>
    BY <2>1, Single
  <2> QED BY <2>1, <2>3, <2>4 DEF S!AloneAnswered
<1> QED BY <1>1, <1>2

\* The controller answers the only command with a completion that fits it.
LEMMA AnswerFitsAlone ==
    ASSUME S!AloneAnswered, S!RunCommand PROVE S!AloneAnswered'
<1>1. /\ s_cmds # <<>> /\ s_cmds' = Tail(s_cmds)
      /\ UNCHANGED <<s_call, s_drain, s_result, s_alone, s_halted>>
  BY DEF S!RunCommand, S!taskVars
<1>2. SUFFICES ASSUME s_alone, s_call # S!NoCall \/ s_drain # 0, s_cmds = <<S!Awaited>>, s_events = <<>>,
                      s_result = S!NoResult
      PROVE  S!AloneAnswered'
  BY <1>1 DEF S!AloneAnswered
<1>3. PICK c : c = Head(s_cmds)
  OBVIOUS
<1>4. c = S!Awaited /\ s_cmds' = <<>>
  BY <1>1, <1>2, <1>3, Single
<1>5. \E s, ok : /\ s_events' = Append(s_events, [op |-> c.op, slot |-> s, ok |-> ok])
                 /\ c.op # "enable" => s = c.slot
  BY <1>3 DEF S!RunCommand
<1>6. PICK s, ok : /\ s_events' = Append(s_events, [op |-> c.op, slot |-> s, ok |-> ok])
                   /\ c.op # "enable" => s = c.slot
  BY <1>5
<1> DEFINE e == [op |-> c.op, slot |-> s, ok |-> ok]
<1>7. e.op = c.op /\ e.slot = s
  OBVIOUS
<1> HIDE DEF e
<1>8. Len(s_events') = 1 /\ s_events'[1] = e
  <2>1. s_events' = <<e>>
    BY <1>2, <1>6, Single DEF e
  <2> QED BY <2>1, Single
<1>9. S!Awaited' = S!Awaited
  BY <1>1 DEF S!Awaited
<1>10. S!CompletionFits(s_events[1])'
  BY <1>4, <1>6, <1>7, <1>8, <1>9 DEF S!CompletionFits
<1>11. s_call = S!NoCall \/ s_drain = 0
  BY <1>2 DEF S!AloneAnswered
<1> QED BY <1>1, <1>2, <1>4, <1>8, <1>10, <1>11 DEF S!AloneAnswered

\* Every step keeps it.
LEMMA AloneNext ==
    ASSUME S!SlotsAssumption, S!AloneAnswered, S!Next \/ UNCHANGED S!vars PROVE S!AloneAnswered'
<1>1. CASE S!Plug \/ S!Halt \/ (\E a \in S!Addr : S!Unplug(a)) \/ UNCHANGED S!vars
  <2>1. UNCHANGED <<s_call, s_drain, s_result, s_alone, s_cmds, s_events>> /\ (s_halted => s_halted')
    BY <1>1 DEF S!Plug, S!Halt, S!Unplug, S!vars, S!taskVars, S!chipVars
  <2> QED BY <2>1 DEF S!AloneAnswered, S!Awaited, S!CompletionFits
<1>2. ASSUME NEW a \in S!Addr, S!SetAddress(a) \/ S!AbortTransfer(a) PROVE S!AloneAnswered'
  BY <1>2, SentIsOnlyOne DEF S!SetAddress, S!AbortTransfer, S!MayStart
<1>3. CASE S!Enabled
  <2>1. s_drain = 0 /\ UNCHANGED <<s_drain, s_events, s_halted>>
    BY <1>3 DEF S!Enabled, S!AnswerTo
  <2>2. \/ \E op, a, s : S!Start(op, a, s)
        \/ \E a, outcome : S!Answered(a, outcome)
    BY <1>3 DEF S!Enabled
  <2> QED BY <2>1, <2>2, SentIsOnlyOne, NoWaitLeft
<1>4. CASE S!Addressed
  <2>1. s_drain = 0 /\ UNCHANGED <<s_drain, s_events, s_halted>>
    BY <1>4 DEF S!Addressed, S!AnswerTo
  <2>2. \/ \E op, a, s : S!Start(op, a, s)
        \/ \E a, outcome : S!Answered(a, outcome)
    BY <1>4 DEF S!Addressed
  <2> QED BY <2>1, <2>2, SentIsOnlyOne, NoWaitLeft
<1>5. CASE S!Released \/ S!Flushed
  BY <1>5, NoWaitLeft DEF S!Released, S!Flushed, S!AnswerTo
<1>6. CASE S!Stopped
  BY <1>6, SentIsOnlyOne DEF S!Stopped, S!AnswerTo
<1>7. CASE S!ReadEvents
  <2>1. /\ s_events # <<>> /\ s_events' = <<>> /\ s_result' = s_events[Len(s_events)]
        /\ UNCHANGED <<s_call, s_drain, s_alone, s_cmds, s_halted>>
    BY <1>7 DEF S!ReadEvents
  <2>2. S!Awaited' = S!Awaited
    BY <2>1 DEF S!Awaited
  <2>3. s_alone /\ (s_call # S!NoCall \/ s_drain # 0) => s_cmds = <<>> /\ S!CompletionFits(s_result)'
    BY <2>1, <2>2 DEF S!AloneAnswered, S!CompletionFits
  <2> QED BY <2>1, <2>3 DEF S!AloneAnswered
<1>8. CASE S!StartDrain
  <2>1. /\ S!Pending(s_slots) # {} /\ S!DrainSlots(s_slots, S!Pending(s_slots))
        /\ UNCHANGED <<s_call, s_events, s_halted>>
    BY <1>8 DEF S!StartDrain
  <2>2. S!Pending(s_slots) \in SUBSET S!Slot
    BY DEF S!Pending
  <2> QED BY <2>1, <2>2, DrainsAlone
<1>9. CASE S!Drained
  <2> DEFINE P == {s \in S!Pending(s_slots) : s > s_drain}
  <2>1. /\ s_drain # 0 /\ S!DrainSlots(S!DrainedSlotFreed, P) /\ UNCHANGED <<s_call, s_events, s_halted>>
    BY <1>9 DEF S!Drained
  <2>2. P \in SUBSET S!Slot
    BY DEF S!Pending
  <2> HIDE DEF P
  <2> QED BY <2>1, <2>2, DrainsAlone
<1>10. CASE S!RunCommand
  BY <1>10, AnswerFitsAlone
<1> QED BY <1>1, <1>2, <1>3, <1>4, <1>5, <1>6, <1>7, <1>8, <1>9, <1>10 DEF S!Next, S!HCDTask

-----------------------------------------------------------------------------
(* The reset of the chip (XHCIReset). *)

\* The reset begins with a chip whose configuration is its own.
LEMMA ResetInit == ASSUME R!XHCIResetAssumption, R!Init PROVE R!ResetInvariant
<1>1. R!TypeOK
  <2>1. /\ r_run \in BOOLEAN /\ r_hch \in BOOLEAN /\ r_hce \in BOOLEAN /\ r_cnr \in BOOLEAN /\ r_hcrst \in BOOLEAN
        /\ r_bars \in BOOLEAN /\ r_decode \in BOOLEAN /\ r_saved \in BOOLEAN /\ r_blind \in BOOLEAN
    BY DEF R!Init
  <2>2. 1 \in 1 .. MaxBridges + 1 /\ 0 \in 0 .. 5
    BY DEF R!XHCIResetAssumption
  <2> QED BY <2>1, <2>2 DEF R!Init, R!TypeOK, R!Tiers
<1>2. R!ConfigByPC /\ R!ChipByPC /\ R!TierByPC /\ R!BridgeByPC /\ R!BlindForGood
  BY DEF R!Init, R!ConfigByPC, R!ChipByPC, R!TierByPC, R!BridgeByPC, R!BlindForGood
<1> QED BY <1>1, <1>2 DEF R!ResetInvariant

\* The types, bit by bit.
LEMMA ResetTypes ==
    R!TypeOK <=> /\ r_pc \in {"begin", "grace", "halt", "halted", "hcrst", "wait", "ready", "zero", "pci", "off",
                            "on", "again", "TRUE", "FALSE"}
                 /\ r_tier \in 0 .. 5 /\ r_idx \in 1 .. MaxBridges + 1 /\ r_owned \subseteq 1 .. MaxBridges
                 /\ r_run \in BOOLEAN /\ r_hch \in BOOLEAN /\ r_hce \in BOOLEAN /\ r_cnr \in BOOLEAN /\ r_hcrst \in BOOLEAN
                 /\ r_bars \in BOOLEAN /\ r_decode \in BOOLEAN /\ r_saved \in BOOLEAN /\ r_blind \in BOOLEAN
                 /\ r_held \in {"nothing", "d3", "reset", "down"}
BY DEF R!TypeOK, R!Tiers

\* The bridges that are owned are bridges.
LEMMA OwnedTypes ==
    ASSUME NEW m \in Nat, NEW n \in 0 .. m, NEW b \in 0 .. n, NEW O, O \subseteq {b}, 0 \notin O
    PROVE  O \subseteq 1 .. m
OBVIOUS

\* XHCI_Chip_Reset(), and what the chip does meanwhile.
LEMMA ChipSteps ==
    ASSUME R!XHCIResetAssumption, R!ResetInvariant,
           R!Begin \/ R!Grace \/ R!Halt \/ R!Halted \/ R!HCRST \/ R!_hcrst_wait \/ R!Ready \/ R!_zero_64b_regs \/ R!Chip
    PROVE  R!ResetInvariant'
<1> USE ResetTypes DEF R!XHCIResetAssumption, R!ResetInvariant, R!ConfigByPC, R!ChipByPC, R!TierByPC, R!BridgeByPC,
        R!BlindForGood, R!MayBeLost, R!Visible, R!Read, R!chip, R!config, R!search, R!fixed
<1>1. CASE R!Begin
  <2>1. R!TypeOK'
    BY <1>1 DEF R!Begin, R!TypeOK
  <2> QED BY <1>1, <2>1 DEF R!Begin
<1>2. CASE R!Grace
  <2>1. R!TypeOK'
    BY <1>2 DEF R!Grace, R!TypeOK
  <2> QED BY <1>2, <2>1 DEF R!Grace
<1>3. CASE R!Halted
  <2>1. R!TypeOK'
    BY <1>3 DEF R!Halted, R!TypeOK
  <2> QED BY <1>3, <2>1 DEF R!Halted
<1>4. CASE R!HCRST
  <2>1. R!TypeOK'
    BY <1>4 DEF R!HCRST, R!TypeOK
  <2> QED BY <1>4, <2>1 DEF R!HCRST
<1>5. CASE R!_hcrst_wait
  <2>1. R!TypeOK'
    BY <1>5 DEF R!_hcrst_wait, R!Next_Tier, R!TypeOK, R!Tiers
  <2> QED BY <1>5, <2>1 DEF R!_hcrst_wait, R!Next_Tier
<1>6. CASE R!Ready
  <2>1. R!TypeOK'
    BY <1>6 DEF R!Ready, R!NowReady, R!TypeOK
  <2> QED BY <1>6, <2>1 DEF R!Ready, R!NowReady
<1>7. CASE R!_zero_64b_regs
  <2>1. R!TypeOK'
    BY <1>7 DEF R!_zero_64b_regs, R!TypeOK
  <2> QED BY <1>7, <2>1 DEF R!_zero_64b_regs
<1>8. CASE R!Halt
  <2>1. r_blind' \in BOOLEAN /\ r_run' \in BOOLEAN
    BY <1>8 DEF R!Halt
  <2>2. R!TypeOK'
    BY <1>8, <2>1 DEF R!Halt, R!TypeOK
  <2>3. R!ConfigByPC'
    BY <1>8 DEF R!Halt
  <2>4. R!ChipByPC'
    BY <1>8 DEF R!Halt
  <2>5. R!TierByPC'
    BY <1>8 DEF R!Halt
  <2>6. R!BridgeByPC'
    BY <1>8 DEF R!Halt
  <2>7. R!BlindForGood'
    BY <1>8 DEF R!Halt
  <2> QED BY <2>2, <2>3, <2>4, <2>5, <2>6, <2>7
<1>9. CASE R!Chip
  <2>1. r_hch' \in BOOLEAN /\ r_cnr' \in BOOLEAN /\ r_hcrst' \in BOOLEAN
    BY <1>9 DEF R!Chip
  <2>2. R!TypeOK'
    BY <1>9, <2>1 DEF R!Chip, R!Ended, R!TypeOK, R!Tiers
  <2>3. R!ConfigByPC'
    BY <1>9 DEF R!Chip, R!Ended
  <2>4. R!ChipByPC'
    BY <1>9 DEF R!Chip, R!Ended
  <2>5. R!TierByPC'
    BY <1>9 DEF R!Chip, R!Ended
  <2>6. R!BridgeByPC'
    BY <1>9 DEF R!Chip, R!Ended
  <2>7. R!BlindForGood'
    BY <1>9 DEF R!Chip, R!Ended
  <2> QED BY <2>2, <2>3, <2>4, <2>5, <2>6, <2>7
<1> QED BY <1>1, <1>2, <1>3, <1>4, <1>5, <1>6, <1>7, <1>8, <1>9

\* The first two resets of the PCI device, and the search for the bridge.
LEMMA LightResets ==
    ASSUME R!XHCIResetAssumption, R!ResetInvariant,
           R!_pci_bus_master_toggle \/ R!_pci_power_cycle \/ R!FindBridge
    PROVE  R!ResetInvariant'
<1> USE ResetTypes DEF R!XHCIResetAssumption, R!ResetInvariant, R!MayBeLost, R!Visible, R!Read, R!chip, R!config, R!search, R!fixed,
        R!Look, R!Skip, R!Next_Tier, R!Wiped
<1>1. CASE R!_pci_bus_master_toggle
  <2>1. R!ConfigByPC'
    BY <1>1 DEF R!_pci_bus_master_toggle, R!ConfigByPC
  <2>2. R!ChipByPC'
    BY <1>1 DEF R!_pci_bus_master_toggle, R!ChipByPC
  <2>3. R!TierByPC'
    BY <1>1 DEF R!_pci_bus_master_toggle, R!TierByPC
  <2>4. R!BridgeByPC'
    BY <1>1 DEF R!_pci_bus_master_toggle, R!BridgeByPC
  <2>5. R!BlindForGood'
    BY <1>1 DEF R!_pci_bus_master_toggle, R!BlindForGood
  <2>6. R!TypeOK'
    BY <1>1 DEF R!_pci_bus_master_toggle, R!ConfigByPC, R!TierByPC, R!BridgeByPC, R!TypeOK
  <2> QED BY <2>1, <2>2, <2>3, <2>4, <2>5, <2>6
<1>2. CASE R!_pci_power_cycle
  <2>1. R!ConfigByPC'
    BY <1>2 DEF R!_pci_power_cycle, R!ConfigByPC
  <2>2. R!ChipByPC'
    BY <1>2 DEF R!_pci_power_cycle, R!ChipByPC
  <2>3. R!TierByPC'
    BY <1>2 DEF R!_pci_power_cycle, R!TierByPC
  <2>4. R!BridgeByPC'
    BY <1>2 DEF R!_pci_power_cycle, R!BridgeByPC
  <2>5. R!BlindForGood'
    BY <1>2 DEF R!_pci_power_cycle, R!BlindForGood
  <2>6. R!TypeOK'
    BY <1>2 DEF R!_pci_power_cycle, R!ConfigByPC, R!TierByPC, R!BridgeByPC, R!TypeOK
  <2> QED BY <2>1, <2>2, <2>3, <2>4, <2>5, <2>6
<1>3. CASE R!FindBridge
  <2>1. r_pc' \in {"begin", "grace", "halt", "halted", "hcrst", "wait", "ready", "zero", "pci", "off",
                 "on", "again", "TRUE", "FALSE"} /\ r_tier' \in 0 .. 5
    BY <1>3 DEF R!FindBridge, R!TierByPC
  <2>2. r_idx' \in 1 .. MaxBridges + 1
    BY <1>3 DEF R!FindBridge, R!BridgeByPC
  <2>3. /\ r_run' \in BOOLEAN /\ r_hch' \in BOOLEAN /\ r_hce' \in BOOLEAN /\ r_blind' \in BOOLEAN
        /\ r_held' \in {"nothing", "d3", "reset", "down"}
    BY <1>3 DEF R!FindBridge
  <2>4. r_cnr' \in BOOLEAN /\ r_hcrst' \in BOOLEAN
    BY <1>3 DEF R!FindBridge
  <2>5. r_bars' \in BOOLEAN /\ r_decode' \in BOOLEAN /\ r_saved' \in BOOLEAN
    BY <1>3 DEF R!FindBridge
  <2>6. R!ConfigByPC'
    BY <1>3 DEF R!FindBridge, R!ConfigByPC
  <2>7. R!ChipByPC'
    BY <1>3 DEF R!FindBridge, R!ChipByPC
  <2>8. R!TierByPC'
    BY <1>3 DEF R!FindBridge, R!TierByPC
  <2>9. R!BridgeByPC'
    <3>1. /\ r_pc = "pci" /\ r_tier \in {4, 5} /\ r_owned = {} /\ UNCHANGED <<r_bridge, r_bridges>>
          /\ r_bridges \in 0 .. MaxBridges /\ r_bridge \in 0 .. r_bridges
      BY <1>3 DEF R!FindBridge, R!BridgeByPC
    <3>2. \/ r_pc' = "pci" /\ r_tier' = r_tier /\ r_owned' = IF r_idx = r_bridge THEN {r_idx} ELSE {}
          \/ r_owned' = {}
      BY <1>3, <3>1 DEF R!FindBridge
    <3>3. r_idx # 0
      OBVIOUS
    <3> QED BY <3>1, <3>2, <3>3 DEF R!BridgeByPC
  <2>10. R!BlindForGood'
    BY <1>3 DEF R!FindBridge, R!BlindForGood
  <2>11. r_owned' \subseteq 1 .. MaxBridges
    BY <2>9, OwnedTypes DEF R!BridgeByPC
  <2>12. R!TypeOK'
    BY <2>1, <2>2, <2>3, <2>4, <2>5, <2>11 DEF R!TypeOK, R!Tiers
  <2> QED BY <2>6, <2>7, <2>8, <2>9, <2>10, <2>12
<1> QED BY <1>1, <1>2, <1>3

\* The others, which save the base addresses, hold the device and let go.
LEMMA HardResets ==
    ASSUME R!XHCIResetAssumption, R!ResetInvariant,
           R!_pci_flr \/ R!_pci_sbr \/ R!_pci_link_disable_enable
    PROVE  R!ResetInvariant'
<1> USE ResetTypes DEF R!XHCIResetAssumption, R!ResetInvariant, R!MayBeLost, R!Visible, R!Read, R!chip, R!config, R!search, R!fixed,
        R!Skip, R!Next_Tier, R!Save, R!Wiped, R!LetGo, R!Release, R!Back, R!Restore, R!Again, R!FreeBridge
<1>1. CASE R!_pci_flr
  <2>1. r_pc' \in {"begin", "grace", "halt", "halted", "hcrst", "wait", "ready", "zero", "pci", "off",
                 "on", "again", "TRUE", "FALSE"} /\ r_tier' \in 0 .. 5
    BY <1>1 DEF R!_pci_flr, R!TierByPC
  <2>2. r_idx' \in 1 .. MaxBridges + 1
    BY <1>1 DEF R!_pci_flr, R!BridgeByPC
  <2>3. /\ r_run' \in BOOLEAN /\ r_hch' \in BOOLEAN /\ r_hce' \in BOOLEAN /\ r_blind' \in BOOLEAN
        /\ r_held' \in {"nothing", "d3", "reset", "down"}
    BY <1>1 DEF R!_pci_flr
  <2>4. r_cnr' \in BOOLEAN /\ r_hcrst' \in BOOLEAN
    BY <1>1 DEF R!_pci_flr
  <2>5. r_bars' \in BOOLEAN /\ r_decode' \in BOOLEAN /\ r_saved' \in BOOLEAN
    BY <1>1 DEF R!_pci_flr
  <2>6. R!ConfigByPC'
    BY <1>1 DEF R!_pci_flr, R!ConfigByPC
  <2>7. R!ChipByPC'
    BY <1>1 DEF R!_pci_flr, R!ChipByPC
  <2>8. R!TierByPC'
    BY <1>1 DEF R!_pci_flr, R!TierByPC
  <2>9. R!BridgeByPC'
    BY <1>1 DEF R!_pci_flr, R!BridgeByPC
  <2>10. R!BlindForGood'
    BY <1>1 DEF R!_pci_flr, R!BlindForGood
  <2>11. r_owned' \subseteq 1 .. MaxBridges
    BY <2>9, OwnedTypes DEF R!BridgeByPC
  <2>12. R!TypeOK'
    BY <2>1, <2>2, <2>3, <2>4, <2>5, <2>11 DEF R!TypeOK, R!Tiers
  <2> QED BY <2>6, <2>7, <2>8, <2>9, <2>10, <2>12
<1>2. CASE R!_pci_sbr
  <2>1. r_pc' \in {"begin", "grace", "halt", "halted", "hcrst", "wait", "ready", "zero", "pci", "off",
                 "on", "again", "TRUE", "FALSE"} /\ r_tier' \in 0 .. 5
    BY <1>2 DEF R!_pci_sbr, R!TierByPC
  <2>2. r_idx' \in 1 .. MaxBridges + 1
    BY <1>2 DEF R!_pci_sbr, R!BridgeByPC
  <2>3. /\ r_run' \in BOOLEAN /\ r_hch' \in BOOLEAN /\ r_hce' \in BOOLEAN /\ r_blind' \in BOOLEAN
        /\ r_held' \in {"nothing", "d3", "reset", "down"}
    BY <1>2 DEF R!_pci_sbr
  <2>4. r_cnr' \in BOOLEAN /\ r_hcrst' \in BOOLEAN
    BY <1>2 DEF R!_pci_sbr
  <2>5. r_bars' \in BOOLEAN /\ r_decode' \in BOOLEAN /\ r_saved' \in BOOLEAN
    BY <1>2 DEF R!_pci_sbr
  <2>6. R!ConfigByPC'
    BY <1>2 DEF R!_pci_sbr, R!ConfigByPC
  <2>7. R!ChipByPC'
    BY <1>2 DEF R!_pci_sbr, R!ChipByPC
  <2>8. R!TierByPC'
    BY <1>2 DEF R!_pci_sbr, R!TierByPC
  <2>9. R!BridgeByPC'
    BY <1>2 DEF R!_pci_sbr, R!BridgeByPC
  <2>10. R!BlindForGood'
    BY <1>2 DEF R!_pci_sbr, R!BlindForGood
  <2>11. r_owned' \subseteq 1 .. MaxBridges
    BY <2>9, OwnedTypes DEF R!BridgeByPC
  <2>12. R!TypeOK'
    BY <2>1, <2>2, <2>3, <2>4, <2>5, <2>11 DEF R!TypeOK, R!Tiers
  <2> QED BY <2>6, <2>7, <2>8, <2>9, <2>10, <2>12
<1>3. CASE R!_pci_link_disable_enable
  <2>1. r_pc' \in {"begin", "grace", "halt", "halted", "hcrst", "wait", "ready", "zero", "pci", "off",
                 "on", "again", "TRUE", "FALSE"} /\ r_tier' \in 0 .. 5
    BY <1>3 DEF R!_pci_link_disable_enable, R!TierByPC
  <2>2. r_idx' \in 1 .. MaxBridges + 1
    BY <1>3 DEF R!_pci_link_disable_enable, R!BridgeByPC
  <2>3. /\ r_run' \in BOOLEAN /\ r_hch' \in BOOLEAN /\ r_hce' \in BOOLEAN /\ r_blind' \in BOOLEAN
        /\ r_held' \in {"nothing", "d3", "reset", "down"}
    BY <1>3 DEF R!_pci_link_disable_enable
  <2>4. r_cnr' \in BOOLEAN /\ r_hcrst' \in BOOLEAN
    BY <1>3 DEF R!_pci_link_disable_enable
  <2>5. r_bars' \in BOOLEAN /\ r_decode' \in BOOLEAN /\ r_saved' \in BOOLEAN
    BY <1>3 DEF R!_pci_link_disable_enable
  <2>6. R!ConfigByPC'
    BY <1>3 DEF R!_pci_link_disable_enable, R!ConfigByPC
  <2>7. R!ChipByPC'
    BY <1>3 DEF R!_pci_link_disable_enable, R!ChipByPC
  <2>8. R!TierByPC'
    BY <1>3 DEF R!_pci_link_disable_enable, R!TierByPC
  <2>9. R!BridgeByPC'
    BY <1>3 DEF R!_pci_link_disable_enable, R!BridgeByPC
  <2>10. R!BlindForGood'
    BY <1>3 DEF R!_pci_link_disable_enable, R!BlindForGood
  <2>11. r_owned' \subseteq 1 .. MaxBridges
    BY <2>9, OwnedTypes DEF R!BridgeByPC
  <2>12. R!TypeOK'
    BY <2>1, <2>2, <2>3, <2>4, <2>5, <2>11 DEF R!TypeOK, R!Tiers
  <2> QED BY <2>6, <2>7, <2>8, <2>9, <2>10, <2>12
<1> QED BY <1>1, <1>2, <1>3

\* Every step keeps the invariant.
LEMMA ResetNext ==
    ASSUME R!XHCIResetAssumption, R!ResetInvariant, R!Next \/ UNCHANGED R!vars PROVE R!ResetInvariant'
<1>1. CASE R!Next
  BY <1>1, ChipSteps, LightResets, HardResets DEF R!Next, R!XHCI_Chip_Reset
<1>2. CASE UNCHANGED R!vars
  BY <1>2 DEF R!vars, R!fixed, R!search, R!chip, R!config, R!ResetInvariant, R!TypeOK, R!ConfigByPC,
     R!ChipByPC, R!TierByPC, R!BridgeByPC, R!BlindForGood, R!MayBeLost, R!Visible
<1> QED BY <1>1, <1>2

\* What the invariant says of the device after the reset.
LEMMA ResetGood == ASSUME R!ResetInvariant PROVE R!ResetIsSound
<1> USE DEF R!ResetInvariant
<1>1. R!ResetIsTrue
  BY DEF R!ResetIsTrue, R!ChipByPC
<1>2. R!ConfigKept
  BY DEF R!ConfigKept, R!ConfigByPC, R!MayBeLost, R!Ended
<1>3. R!NoBlindWrite
  BY DEF R!NoBlindWrite, R!BlindForGood
<1>4. R!BridgesFreed
  BY DEF R!BridgesFreed, R!BridgeByPC, R!Ended
<1> QED BY <1>1, <1>2, <1>3, <1>4 DEF R!ResetIsSound

-----------------------------------------------------------------------------
(* The pools (MemoryPool). *)

\* Sizes of sets are the same in the pool's module as here.
LEMMA SameSize == ASSUME NEW X PROVE M!Cardinality(X) = Cardinality(X) /\ (M!IsFiniteSet(X) <=> IsFiniteSet(X))
BY Zenon DEF M!Cardinality, Cardinality, M!IsFiniteSet, IsFiniteSet

Elements(s) == {s[i] : i \in DOMAIN s}
Once(s) == \A i, j \in DOMAIN s : s[i] = s[j] => i = j

\* Pages and their nodes: numbers that follow each other.
LEMMA PageBase ==
    ASSUME M!MemoryPoolAssumption, NEW p \in Nat
    PROVE  p * PerPage \in Nat /\ (p + 1) * PerPage = p * PerPage + PerPage /\ PerPage \in Nat \ {0}
BY DEF M!MemoryPoolAssumption

\* A page ends where a later one begins, or before.
LEMMA PagesBefore ==
    ASSUME M!MemoryPoolAssumption, NEW p \in Nat, NEW q \in Nat, p < q
    PROVE  (p + 1) * PerPage <= q * PerPage
<1>1. PICK k \in Nat : q = (p + 1) + k
  <2>1. q - (p + 1) \in Nat /\ q = (p + 1) + (q - (p + 1))
    OBVIOUS
  <2> QED BY <2>1
<1>2. PerPage \in Nat
  BY DEF M!MemoryPoolAssumption
<1>3. ((p + 1) + k) * PerPage = (p + 1) * PerPage + k * PerPage
  BY <1>2
<1>4. k * PerPage \in Nat /\ (p + 1) * PerPage \in Nat
  BY <1>2
<1> QED BY <1>1, <1>3, <1>4

\* No address is in two pages.
LEMMA PagesApart ==
    ASSUME M!MemoryPoolAssumption, NEW p \in Nat, NEW q \in Nat, NEW a \in Nat, M!InPage(p, a), M!InPage(q, a)
    PROVE  p = q
<1>1. /\ p * PerPage <= a /\ a < (p + 1) * PerPage
      /\ q * PerPage <= a /\ a < (q + 1) * PerPage
  BY DEF M!InPage
<1>2. /\ p * PerPage \in Nat /\ (p + 1) * PerPage \in Nat
      /\ q * PerPage \in Nat /\ (q + 1) * PerPage \in Nat
  BY PageBase
<1>3. CASE p < q
  BY <1>1, <1>2, <1>3, PagesBefore
<1>4. CASE q < p
  BY <1>1, <1>2, <1>4, PagesBefore
<1> QED BY <1>3, <1>4

\* The nodes of a page are the addresses in it, each once.
LEMMA NodesOfPage ==
    ASSUME M!MemoryPoolAssumption, NEW p \in Nat
    PROVE  /\ \A i \in 1 .. PerPage : M!NodesOf(p)[i] \in Nat /\ M!InPage(p, M!NodesOf(p)[i])
           /\ \A b \in Nat : M!InPage(p, b) => \E i \in 1 .. PerPage : M!NodesOf(p)[i] = b
           /\ \A i \in 1 .. PerPage : M!NodesOf(p)[i] = 0 <=> p = 0 /\ i = PerPage
           /\ \A i, j \in 1 .. PerPage : M!NodesOf(p)[i] = M!NodesOf(p)[j] => i = j
<1> DEFINE base == p * PerPage
<1>1. base \in Nat /\ (p + 1) * PerPage = base + PerPage /\ PerPage \in Nat \ {0}
  BY PageBase
<1>2. \A i \in 1 .. PerPage : M!NodesOf(p)[i] = base + PerPage - i
  BY DEF M!NodesOf
<1>3. \A b : M!InPage(p, b) <=> base <= b /\ b < base + PerPage
  BY <1>1 DEF M!InPage
<1>4. base = 0 <=> p = 0
  BY <1>1
<1> HIDE DEF base
<1>5. \A b \in Nat : M!InPage(p, b) => \E i \in 1 .. PerPage : M!NodesOf(p)[i] = b
  <2>1. SUFFICES ASSUME NEW b \in Nat, M!InPage(p, b) PROVE \E i \in 1 .. PerPage : M!NodesOf(p)[i] = b
    OBVIOUS
  <2>2. base + PerPage - b \in 1 .. PerPage
    BY <1>1, <1>3, <2>1
  <2>3. M!NodesOf(p)[base + PerPage - b] = b
    BY <1>1, <1>2, <2>2
  <2> QED BY <2>2, <2>3
<1> QED BY <1>1, <1>2, <1>3, <1>4, <1>5

\* Blocks are the addresses in the pages.
LEMMA BlocksAre ==
    ASSUME M!MemoryPoolAssumption
    PROVE  /\ Pages \subseteq Nat /\ M!Blocks \subseteq Nat
           /\ \A b \in Nat : b \in M!Blocks <=> \E p \in Pages : M!InPage(p, b)
<1>1. Pages \subseteq Nat
  BY DEF M!MemoryPoolAssumption
<1>2. \A p \in Pages : \A b \in Nat : b \in {p * PerPage + i : i \in 0 .. PerPage - 1} <=> M!InPage(p, b)
  <2>1. SUFFICES ASSUME NEW p \in Pages, NEW b \in Nat
        PROVE  (\E i \in 0 .. PerPage - 1 : b = p * PerPage + i) <=> M!InPage(p, b)
    OBVIOUS
  <2> DEFINE base == p * PerPage
  <2>2. base \in Nat /\ (p + 1) * PerPage = base + PerPage /\ PerPage \in Nat \ {0}
    BY <1>1, PageBase
  <2>3. M!InPage(p, b) <=> base <= b /\ b < base + PerPage
    BY <2>2 DEF M!InPage
  <2> HIDE DEF base
  <2>4. ASSUME base <= b, b < base + PerPage PROVE \E i \in 0 .. PerPage - 1 : b = base + i
    <3>1. b - base \in 0 .. PerPage - 1 /\ b = base + (b - base)
      BY <2>2, <2>4
    <3> QED BY <3>1
  <2>5. (\E i \in 0 .. PerPage - 1 : b = base + i) <=> base <= b /\ b < base + PerPage
    BY <2>2, <2>4
  <2> QED BY <2>3, <2>5 DEF base
<1>3. \A p \in Pages : {p * PerPage + i : i \in 0 .. PerPage - 1} \subseteq Nat
  <2>1. SUFFICES ASSUME NEW p \in Pages, NEW i \in 0 .. PerPage - 1 PROVE p * PerPage + i \in Nat
    OBVIOUS
  <2>2. p * PerPage \in Nat /\ PerPage \in Nat
    BY <1>1, PageBase
  <2> QED BY <2>2
<1> QED BY <1>1, <1>2, <1>3 DEF M!Blocks

\* The nodes of some pages are the addresses in them.
LEMMA NodesOfPagesAre ==
    ASSUME M!MemoryPoolAssumption, NEW P \in SUBSET Pages
    PROVE  \A b : b \in UNION {{M!NodesOf(p)[i] : i \in 1 .. PerPage} : p \in P}
                  <=> b \in Nat /\ \E p \in P : M!InPage(p, b)
<1>1. P \subseteq Nat
  BY BlocksAre
<1>2. \A p \in P : \A b : b \in {M!NodesOf(p)[i] : i \in 1 .. PerPage} <=> b \in Nat /\ M!InPage(p, b)
  BY <1>1, NodesOfPage
<1> QED BY <1>2

\* The list of free nodes.
LEMMA ListHead ==
    ASSUME NEW D, NEW s \in Seq(D), s # <<>>, Once(s)
    PROVE  /\ Head(s) \in D /\ Tail(s) \in Seq(D) /\ Once(Tail(s))
           /\ Elements(s) = Elements(Tail(s)) \cup {Head(s)} /\ Head(s) \notin Elements(Tail(s))
<1>1. /\ Len(s) \in Nat /\ DOMAIN s = 1 .. Len(s) /\ Len(s) # 0
      /\ Head(s) = s[1] /\ Tail(s) \in Seq(D) /\ Len(Tail(s)) = Len(s) - 1
      /\ DOMAIN Tail(s) = 1 .. Len(s) - 1
      /\ \A i \in 1 .. Len(s) - 1 : Tail(s)[i] = s[i + 1]
  BY HeadTailProperties, LenProperties, EmptySeq
<1> DEFINE t == Tail(s)
           n == Len(s)
           h == Head(s)
<1>2. /\ n \in Nat /\ n # 0 /\ DOMAIN s = 1 .. n /\ DOMAIN t = 1 .. n - 1 /\ h = s[1]
      /\ \A i \in 1 .. n - 1 : t[i] = s[i + 1] /\ i + 1 \in 1 .. n
      /\ \A i \in 2 .. n : i - 1 \in 1 .. n - 1 /\ t[i - 1] = s[i]
  BY <1>1
<1>3. h \in D
  BY <1>1, ElementOfSeq
<1> HIDE DEF t, n, h
<1>a. \A i, j \in 1 .. n : s[i] = s[j] => i = j
  BY <1>2 DEF Once
<1>4. Once(t)
  <2>1. SUFFICES ASSUME NEW i \in 1 .. n - 1, NEW j \in 1 .. n - 1, t[i] = t[j] PROVE i = j
    BY <1>2 DEF Once
  <2>2. s[i + 1] = s[j + 1] /\ i + 1 \in 1 .. n /\ j + 1 \in 1 .. n
    BY <1>2, <2>1
  <2>3. i + 1 = j + 1
    BY <1>a, <2>2
  <2> QED BY <2>3
<1>5. h \notin Elements(t)
  <2>1. SUFFICES ASSUME NEW i \in 1 .. n - 1, t[i] = h PROVE FALSE
    BY <1>2 DEF Elements
  <2>2. s[i + 1] = s[1] /\ i + 1 \in 1 .. n /\ 1 \in 1 .. n
    BY <1>2, <2>1
  <2>3. i + 1 = 1
    BY <1>a, <2>2
  <2> QED BY <2>3
<1>6. \A x : x \in Elements(s) <=> x \in Elements(t) \/ x = h
  <2>1. SUFFICES ASSUME NEW x PROVE x \in Elements(s) <=> x \in Elements(t) \/ x = h
    OBVIOUS
  <2>2. ASSUME NEW i \in 1 .. n, x = s[i] PROVE x \in Elements(t) \/ x = h
    <3>1. CASE i = 1
      BY <1>2, <2>2, <3>1
    <3>2. CASE i \in 2 .. n
      BY <1>2, <2>2, <3>2 DEF Elements
    <3> QED BY <3>1, <3>2, <1>2
  <2>3. 1 \in 1 .. n
    BY <1>2
  <2>4. ASSUME NEW i \in 1 .. n - 1, x = t[i] PROVE x \in Elements(s)
    BY <1>2, <2>4 DEF Elements
  <2> QED BY <1>2, <2>2, <2>3, <2>4 DEF Elements
<1>7. t \in Seq(D)
  BY <1>1 DEF t
<1> QED BY <1>3, <1>4, <1>5, <1>6, <1>7 DEF t, h

\* A node is put in front of the list.
LEMMA ListFront ==
    ASSUME NEW D, NEW s \in Seq(D), NEW x \in D, Once(s), x \notin Elements(s)
    PROVE  <<x>> \o s \in Seq(D) /\ Once(<<x>> \o s) /\ Elements(<<x>> \o s) = Elements(s) \cup {x}
<1> DEFINE t == <<x>> \o s
           n == Len(s)
<1>1. /\ n \in Nat /\ DOMAIN s = 1 .. n /\ <<x>> \in Seq(D) /\ Len(<<x>>) = 1 /\ <<x>>[1] = x
      /\ t \in Seq(D) /\ Len(t) = n + 1 /\ DOMAIN t = 1 .. n + 1
  BY LenProperties, ConcatProperties
<1>2. \A i \in 1 .. n + 1 : t[i] = IF i <= 1 THEN <<x>>[i] ELSE s[i - 1]
  BY <1>1, ConcatProperties
<1>3. t[1] = x /\ \A i \in 1 .. n : t[i + 1] = s[i] /\ i + 1 \in 1 .. n + 1
  BY <1>1, <1>2
<1>4. \A i \in 2 .. n + 1 : t[i] = s[i - 1] /\ i - 1 \in 1 .. n
  BY <1>1, <1>2
<1> HIDE DEF t, n
<1>5. \A i \in 1 .. n : s[i] # x
  BY <1>1 DEF Elements
<1>6. Once(t)
  <2>1. SUFFICES ASSUME NEW i \in 1 .. n + 1, NEW j \in 1 .. n + 1, t[i] = t[j] PROVE i = j
    BY <1>1 DEF Once
  <2>2. CASE i = 1
    BY <1>1, <1>3, <1>4, <1>5, <2>1, <2>2
  <2>3. CASE j = 1
    BY <1>1, <1>3, <1>4, <1>5, <2>1, <2>3
  <2>4. CASE i # 1 /\ j # 1
    <3>1. i \in 2 .. n + 1 /\ j \in 2 .. n + 1
      BY <1>1, <2>4
    <3>2. s[i - 1] = s[j - 1] /\ i - 1 \in 1 .. n /\ j - 1 \in 1 .. n
      BY <1>4, <2>1, <3>1
    <3>3. i - 1 = j - 1
      BY <1>1, <3>2 DEF Once
    <3> QED BY <3>1, <3>3, <1>1
  <2> QED BY <2>2, <2>3, <2>4
<1>7. \A y : y \in Elements(t) <=> y \in Elements(s) \/ y = x
  <2>1. SUFFICES ASSUME NEW y PROVE y \in Elements(t) <=> y \in Elements(s) \/ y = x
    OBVIOUS
  <2>2. ASSUME NEW i \in 1 .. n + 1, y = t[i] PROVE y \in Elements(s) \/ y = x
    <3>1. CASE i = 1
      BY <1>3, <2>2, <3>1
    <3>2. CASE i \in 2 .. n + 1
      BY <1>1, <1>4, <2>2, <3>2 DEF Elements
    <3> QED BY <3>1, <3>2, <1>1
  <2>3. 1 \in 1 .. n + 1
    BY <1>1
  <2> QED BY <1>1, <1>3, <2>2, <2>3 DEF Elements
<1> QED BY <1>1, <1>6, <1>7 DEF t

\* A list in which no element is twice is as long as it has elements.
LEMMA ListCount ==
    ASSUME NEW D, NEW s \in Seq(D), Once(s)
    PROVE  IsFiniteSet(Elements(s)) /\ Cardinality(Elements(s)) = Len(s)
<1>1. Len(s) \in Nat /\ DOMAIN s = 1 .. Len(s) /\ s \in [1 .. Len(s) -> D]
  BY LenProperties
<1>2. IsFiniteSet(1 .. Len(s)) /\ Cardinality(1 .. Len(s)) = Len(s)
  BY <1>1, FS_Interval
<1> DEFINE f == [i \in 1 .. Len(s) |-> s[i]]
<1>3. f \in Bijection(1 .. Len(s), Elements(s))
  <2>1. f \in [1 .. Len(s) -> Elements(s)]
    BY <1>1 DEF Elements
  <2>2. \A i, j \in 1 .. Len(s) : f[i] = f[j] => i = j
    BY <1>1 DEF Once
  <2>3. \A x \in Elements(s) : \E i \in 1 .. Len(s) : f[i] = x
    BY <1>1 DEF Elements
  <2> QED BY <2>1, <2>2, <2>3 DEF Bijection, Injection, Surjection, IsInjective
<1>4. ExistsBijection(1 .. Len(s), Elements(s))
  BY <1>3 DEF ExistsBijection
<1> QED BY <1>2, <1>4, FS_Bijection

-----------------------------------------------------------------------------
(* The steps of the aligned pool. *)

Said(s, p) == {b \in Elements(s) : M!InPage(p, m_mfn_Addr[b])}
HasRoom(s, counts) ==
    /\ \A p \in m_pages' : /\ counts[p] >= Cardinality(Said(s, p))
                           /\ m_forgotten = {} => counts[p] = Cardinality(Said(s, p))
    /\ \A p \in Pages \ m_pages' : counts[p] = 0

\* Who has which nodes, when a record is added or taken away.
LEMMA HeldByAdded ==
    ASSUME NEW u \in Users, NEW x, m_held \in [Users -> SUBSET [block : M!Blocks, addr : M!Blocks \cup {0}]],
           m_held' = [m_held EXCEPT ![u] = @ \cup {x}]
    PROVE  /\ \A v \in Users : m_held'[v] = IF v = u THEN m_held[u] \cup {x} ELSE m_held[v]
           /\ \A v \in Users : M!HeldBy(v)' = IF v = u THEN M!HeldBy(u) \cup {x.block} ELSE M!HeldBy(v)
           /\ (UNION {M!HeldBy(v) : v \in Users})' = (UNION {M!HeldBy(v) : v \in Users}) \cup {x.block}
<1>1. \A v \in Users : m_held'[v] = IF v = u THEN m_held[u] \cup {x} ELSE m_held[v]
  OBVIOUS
<1>2. \A v \in Users : M!HeldBy(v)' = IF v = u THEN M!HeldBy(u) \cup {x.block} ELSE M!HeldBy(v)
  <2>1. SUFFICES ASSUME NEW v \in Users, NEW b
        PROVE  b \in M!HeldBy(v)' <=> b \in M!HeldBy(v) \/ (v = u /\ b = x.block)
    OBVIOUS
  <2> QED BY <1>1 DEF M!HeldBy
<1> DEFINE Have == UNION {M!HeldBy(v) : v \in Users}
<1>3. \A b : b \in Have' <=> \E v \in Users : b \in M!HeldBy(v)'
  OBVIOUS
<1>4. \A b : b \in Have <=> \E v \in Users : b \in M!HeldBy(v)
  OBVIOUS
<1> HIDE DEF Have
<1>5. ASSUME NEW b PROVE b \in Have' <=> b \in Have \/ b = x.block
  <2>1. \A v \in Users : b \in M!HeldBy(v)' <=> b \in M!HeldBy(v) \/ (v = u /\ b = x.block)
    BY <1>2
  <2>2. (\E v \in Users : b \in M!HeldBy(v)') <=> (\E v \in Users : b \in M!HeldBy(v)) \/ b = x.block
    BY <2>1
  <2> QED BY <1>3, <1>4, <2>2
<1>6. Have' = Have \cup {x.block}
  BY <1>5
<1> QED BY <1>1, <1>2, <1>6 DEF Have

\* The first node of a list of free nodes is given to an owner.
LEMMA TakeKeeps ==
    ASSUME M!MemoryPoolAssumption, M!PoolInvariant, m_up, NEW u \in Users,
           NEW s \in Seq(M!Blocks), s # <<>>, Once(s), NEW counts \in [Pages -> Nat],
           m_pages \subseteq m_pages', m_pages' \in SUBSET Pages,
           \A v \in Users : M!HeldBy(v) \cap Elements(s) = {},
           Elements(s) \cup UNION {M!HeldBy(v) : v \in Users} = M!NodesOfPages' \ {0},
           m_forgotten \subseteq M!NodesOfPages', HasRoom(s, counts),
           M!Take(u, Head(s), Tail(s), counts), UNCHANGED <<M!plainVars, m_returned, m_up>>
    PROVE  M!PoolInvariant'
<1> DEFINE b == Head(s)
           t == Tail(s)
           x == [block |-> b, addr |-> m_mfn_Addr[b]]
<1>1. /\ b \in M!Blocks /\ t \in Seq(M!Blocks) /\ Once(t)
      /\ Elements(s) = Elements(t) \cup {b} /\ b \notin Elements(t)
  BY ListHead
<1>2. /\ m_free' = t /\ m_held' = [m_held EXCEPT ![u] = @ \cup {x}] /\ UNCHANGED <<m_mfn_Addr, m_forgotten>>
      /\ m_mpn_Free' = [p \in Pages |-> counts[p] - M!CountFree(p, m_mfn_Addr[b])]
  BY DEF M!Take
<1>3. /\ m_free \in Seq(M!Blocks) /\ m_mfn_Addr \in [M!Blocks -> M!Blocks \cup {0}]
      /\ m_held \in [Users -> SUBSET [block : M!Blocks, addr : M!Blocks \cup {0}]]
      /\ \A c \in M!Blocks : m_mfn_Addr[c] = c \/ c \in m_forgotten
  BY DEF M!PoolInvariant, M!TypeOK, M!AddressesSaid
<1>4. x \in [block : M!Blocks, addr : M!Blocks \cup {0}] /\ x.block = b /\ x.addr = m_mfn_Addr[b]
  BY <1>1, <1>3
<1>5. UNCHANGED <<m_plain, m_list, m_Free_Count, m_Total_Count, m_returned, m_up>>
  BY DEF M!plainVars
<1> HIDE DEF b, t, x
<1>6. /\ \A v \in Users : m_held'[v] = IF v = u THEN m_held[u] \cup {x} ELSE m_held[v]
      /\ \A v \in Users : M!HeldBy(v)' = IF v = u THEN M!HeldBy(u) \cup {b} ELSE M!HeldBy(v)
      /\ (UNION {M!HeldBy(v) : v \in Users})' = (UNION {M!HeldBy(v) : v \in Users}) \cup {b}
  BY <1>2, <1>3, <1>4, HeldByAdded
<1>7. M!FreeBlocks' = Elements(t) /\ \A v \in Users : b \notin M!HeldBy(v)
  BY <1>1, <1>2 DEF M!FreeBlocks, Elements
<1>8. \A p \in Pages : /\ Said(t, p) = Said(s, p) \ {b}
                       /\ b \in Said(s, p) <=> M!InPage(p, m_mfn_Addr[b])
                       /\ IsFiniteSet(Said(s, p)) /\ Cardinality(Said(s, p)) \in Nat
                       /\ Cardinality(Said(t, p)) = IF M!InPage(p, m_mfn_Addr[b]) THEN Cardinality(Said(s, p)) - 1
                                                    ELSE Cardinality(Said(s, p))
                       /\ M!InPage(p, m_mfn_Addr[b]) => Cardinality(Said(s, p)) >= 1
  <2>1. TAKE p \in Pages
  <2>2. Said(t, p) = Said(s, p) \ {b} /\ (b \in Said(s, p) <=> M!InPage(p, m_mfn_Addr[b]))
    BY <1>1 DEF Said
  <2>3. IsFiniteSet(Said(s, p))
    <3>1. IsFiniteSet(Elements(s)) /\ Said(s, p) \in SUBSET Elements(s)
      BY ListCount DEF Said
    <3> QED BY <3>1, FS_Subset
  <2>4. Cardinality(Said(s, p)) \in Nat /\ (Cardinality(Said(s, p)) = 0 => Said(s, p) = {})
    BY <2>3, FS_CardinalityType, FS_EmptySet
  <2>5. Cardinality(Said(t, p)) = IF b \in Said(s, p) THEN Cardinality(Said(s, p)) - 1
                                  ELSE Cardinality(Said(s, p))
    <3>1. Cardinality(Said(s, p) \ {b}) = IF b \in Said(s, p) THEN Cardinality(Said(s, p)) - 1
                                           ELSE Cardinality(Said(s, p))
      BY <2>3, FS_RemoveElement
    <3> QED BY <2>2, <3>1
  <2> QED BY <2>2, <2>3, <2>4, <2>5
<1>9. \A p \in Pages : M!CountFree(p, m_mfn_Addr[b]) = IF p \in m_pages' /\ M!InPage(p, m_mfn_Addr[b]) THEN 1 ELSE 0
  BY DEF M!CountFree, M!PageOf, M!InPage
<1>10. \A p \in Pages : m_mpn_Free'[p] = IF p \in m_pages' /\ M!InPage(p, m_mfn_Addr[b]) THEN counts[p] - 1 ELSE counts[p]
  BY <1>2, <1>9
<1>11. \A p \in Pages : m_mpn_Free'[p] \in Nat
  <2>1. TAKE p \in Pages
  <2>2. counts[p] \in Nat /\ (p \in m_pages' => counts[p] >= Cardinality(Said(s, p)))
    BY DEF HasRoom
  <2> QED BY <1>8, <1>10, <2>2
<1>12. M!TypeOK'
  <2>1. m_mpn_Free' \in [Pages -> Nat]
    BY <1>2, <1>11
  <2>2. m_held' \in [Users -> SUBSET [block : M!Blocks, addr : M!Blocks \cup {0}]]
    BY <1>2, <1>3, <1>4
  <2> QED BY <1>1, <1>2, <1>5, <2>1, <2>2 DEF M!PoolInvariant, M!TypeOK
<1>13. M!NoneTwice'
  <2>1. Once(m_free') /\ \A v \in Users : \A y \in m_held[v] : y.block \in M!HeldBy(v)
    BY <1>1, <1>2 DEF M!HeldBy
  <2> QED BY <1>4, <1>6, <1>7, <2>1 DEF M!PoolInvariant, M!NoneTwice, Once
<1>14. M!Owners'
  <2>1. \A v \in Users : M!HeldBy(v)' \cap M!FreeBlocks' = {}
    BY <1>1, <1>6, <1>7
  <2>2. \A v, w \in Users : v # w => M!HeldBy(v)' \cap M!HeldBy(w)' = {}
    BY <1>6, <1>7 DEF M!PoolInvariant, M!Owners
  <2>3. M!FreeBlocks' \cup UNION {M!HeldBy(v) : v \in Users}' = M!NodesOfPages' \ {0}
    BY <1>1, <1>6, <1>7
  <2> QED BY <2>1, <2>2, <2>3 DEF M!Owners
<1>15. M!AddressTrue'
  BY <1>1, <1>2, <1>3, <1>4, <1>6 DEF M!PoolInvariant, M!AddressTrue
<1>16. M!AddressesSaid'
  BY <1>2, <1>3 DEF M!AddressesSaid
<1>17. M!CountsRight'
  <2>1. \A p : M!Counted(p)' = Said(t, p)
    BY <1>2, <1>7 DEF M!Counted, Said, M!InPage
  <2>2. ASSUME NEW p \in m_pages'
        PROVE  m_mpn_Free'[p] >= Cardinality(M!Counted(p)') /\ (m_forgotten' = {} => m_mpn_Free'[p] = Cardinality(M!Counted(p)'))
    <3>1. /\ p \in Pages /\ counts[p] \in Nat /\ counts[p] >= Cardinality(Said(s, p))
          /\ m_forgotten = {} => counts[p] = Cardinality(Said(s, p))
      BY <2>2 DEF HasRoom
    <3> QED BY <1>2, <1>8, <1>10, <2>1, <2>2, <3>1
  <2>3. \A p \in Pages \ m_pages' : m_mpn_Free'[p] = 0
    BY <1>10 DEF HasRoom
  <2> QED BY <2>2, <2>3, SameSize DEF M!CountsRight
<1>18. M!PlainCounted' /\ M!PagesReturned'
  BY <1>5 DEF M!PoolInvariant, M!PlainCounted, M!PlainNodes, M!PagesReturned
<1> QED BY <1>12, <1>13, <1>14, <1>15, <1>16, <1>17, <1>18 DEF M!PoolInvariant

\* __Add_Aligned(): what a new page adds to the list.
LEMMA UsableNodes ==
    ASSUME M!MemoryPoolAssumption, NEW p \in Pages
    PROVE  /\ M!Usable(p) \in Seq(M!Blocks) /\ Once(M!Usable(p))
           /\ \A b : b \in Elements(M!Usable(p)) <=> b \in Nat /\ M!InPage(p, b) /\ b # 0
<1> DEFINE n == IF p = 0 THEN PerPage - 1 ELSE PerPage
<1>1. p \in Nat /\ PerPage \in Nat \ {0} /\ n \in Nat /\ \A i \in 1 .. n : i \in 1 .. PerPage
  BY BlocksAre DEF M!MemoryPoolAssumption
<1>2. /\ \A i \in 1 .. PerPage : M!NodesOf(p)[i] \in Nat /\ M!InPage(p, M!NodesOf(p)[i])
      /\ \A b \in Nat : M!InPage(p, b) => \E i \in 1 .. PerPage : M!NodesOf(p)[i] = b
      /\ \A i \in 1 .. PerPage : M!NodesOf(p)[i] = 0 <=> p = 0 /\ i = PerPage
      /\ \A i, j \in 1 .. PerPage : M!NodesOf(p)[i] = M!NodesOf(p)[j] => i = j
  BY <1>1, NodesOfPage
<1>3. \A i \in 1 .. PerPage : i \in 1 .. n <=> ~ (p = 0 /\ i = PerPage)
  BY <1>1
<1>4. M!Usable(p) = [i \in 1 .. n |-> M!NodesOf(p)[i]]
  BY DEF M!Usable
<1> HIDE DEF n
<1>5. \A i \in 1 .. n : M!NodesOf(p)[i] \in M!Blocks
  BY <1>1, <1>2, BlocksAre
<1>6. M!Usable(p) \in Seq(M!Blocks)
  BY <1>1, <1>4, <1>5, SeqDef
<1>7. DOMAIN M!Usable(p) = 1 .. n /\ \A i \in 1 .. n : M!Usable(p)[i] = M!NodesOf(p)[i]
  BY <1>4
<1>8. Once(M!Usable(p))
  BY <1>1, <1>2, <1>7 DEF Once
<1>9. ASSUME NEW b PROVE b \in Elements(M!Usable(p)) <=> b \in Nat /\ M!InPage(p, b) /\ b # 0
  <2>1. b \in Elements(M!Usable(p)) <=> \E i \in 1 .. n : M!NodesOf(p)[i] = b
    BY <1>7 DEF Elements
  <2> QED BY <2>1, <1>1, <1>2, <1>3
<1> QED BY <1>6, <1>8, <1>9

\* A node of the aligned pool is allocated, from the list or from a new page.
LEMMA AllocKeeps ==
    ASSUME M!MemoryPoolAssumption, M!PoolInvariant, NEW u \in Users, M!Alloc(u) PROVE M!PoolInvariant'
<1>1. m_up /\ UNCHANGED <<M!plainVars, m_returned, m_up>>
  BY DEF M!Alloc
<1>2. /\ m_free \in Seq(M!Blocks) /\ m_pages \subseteq Pages /\ m_mpn_Free \in [Pages -> Nat] /\ Once(m_free)
      /\ m_forgotten \subseteq M!NodesOfPages /\ M!CountsRight /\ M!Owners
      /\ \A b \in M!Blocks : m_mfn_Addr[b] = b \/ b \in m_forgotten
  BY DEF M!PoolInvariant, M!TypeOK, M!NoneTwice, M!AddressesSaid, Once
<1>3. M!FreeBlocks = Elements(m_free)
  BY DEF M!FreeBlocks, Elements
<1>4. CASE m_free # <<>> /\ UNCHANGED m_pages /\ M!Take(u, Head(m_free), Tail(m_free), m_mpn_Free)
  <2>1. \A p : Said(m_free, p) = M!Counted(p)
    BY <1>3 DEF Said, M!Counted
  <2>2. HasRoom(m_free, m_mpn_Free)
    BY <1>2, <1>4, <2>1, SameSize DEF HasRoom, M!CountsRight
  <2>3. M!NodesOfPages' = M!NodesOfPages
    BY <1>4 DEF M!NodesOfPages
  <2>4. /\ \A v \in Users : M!HeldBy(v) \cap Elements(m_free) = {}
        /\ Elements(m_free) \cup UNION {M!HeldBy(v) : v \in Users} = M!NodesOfPages' \ {0}
    BY <1>2, <1>3, <2>3 DEF M!Owners
  <2>5. m_pages' \in SUBSET Pages /\ m_pages \subseteq m_pages' /\ m_forgotten \subseteq M!NodesOfPages'
    BY <1>2, <1>4, <2>3
  <2> QED BY <1>1, <1>2, <1>4, <2>2, <2>4, <2>5, TakeKeeps
<1>5. ASSUME m_free = <<>>, NEW p \in Pages \ m_pages, m_pages' = m_pages \cup {p}
      PROVE  /\ m_pages' \in SUBSET Pages /\ m_pages \subseteq m_pages' /\ m_forgotten \subseteq M!NodesOfPages'
             /\ \A v \in Users : M!HeldBy(v) \cap Elements(M!Usable(p)) = {}
             /\ Elements(M!Usable(p)) \cup UNION {M!HeldBy(v) : v \in Users} = M!NodesOfPages' \ {0}
             /\ HasRoom(M!Usable(p), [m_mpn_Free EXCEPT ![p] = Len(M!Usable(p))])
             /\ [m_mpn_Free EXCEPT ![p] = Len(M!Usable(p))] \in [Pages -> Nat]
             /\ M!Usable(p) \in Seq(M!Blocks) /\ Once(M!Usable(p))
  <2>1. m_pages' \in SUBSET Pages
    BY <1>2, <1>5
  <2>2. \A b : b \in M!NodesOfPages <=> b \in Nat /\ \E q \in m_pages : M!InPage(q, b)
    BY <1>2, NodesOfPagesAre DEF M!NodesOfPages
  <2>3. \A b : b \in M!NodesOfPages' <=> b \in Nat /\ \E q \in m_pages' : M!InPage(q, b)
    BY <2>1, NodesOfPagesAre DEF M!NodesOfPages
  <2>4. /\ M!Usable(p) \in Seq(M!Blocks) /\ Once(M!Usable(p))
        /\ \A b : b \in Elements(M!Usable(p)) <=> b \in Nat /\ M!InPage(p, b) /\ b # 0
    BY UsableNodes
  <2>5. \A b \in Elements(M!Usable(p)) : b \notin M!NodesOfPages
    BY <1>2, <1>5, <2>2, <2>4, PagesApart, BlocksAre
  <2>6. Elements(m_free) = {}
    BY <1>5 DEF Elements
  <2>7. UNION {M!HeldBy(v) : v \in Users} = M!NodesOfPages \ {0}
    BY <1>2, <1>3, <2>6 DEF M!Owners
  <2>8. m_forgotten \subseteq M!NodesOfPages'
    BY <1>2, <1>5, <2>2, <2>3
  <2>9. \A v \in Users : M!HeldBy(v) \cap Elements(M!Usable(p)) = {}
    BY <2>5, <2>7
  <2>10. Elements(M!Usable(p)) \cup UNION {M!HeldBy(v) : v \in Users} = M!NodesOfPages' \ {0}
    <3>1. \A b : b \in M!NodesOfPages' <=> b \in M!NodesOfPages \/ (b \in Nat /\ M!InPage(p, b))
      BY <1>5, <2>2, <2>3
    <3> QED BY <3>1, <2>4, <2>7
  <2>11. Len(M!Usable(p)) \in Nat
    BY <2>4, LenProperties
  <2>12. [m_mpn_Free EXCEPT ![p] = Len(M!Usable(p))] \in [Pages -> Nat]
         /\ \A q \in Pages : [m_mpn_Free EXCEPT ![p] = Len(M!Usable(p))][q]
                               = IF q = p THEN Len(M!Usable(p)) ELSE m_mpn_Free[q]
    BY <1>2, <2>11
  <2>13. \A b \in Elements(M!Usable(p)) : b \in Nat /\ m_mfn_Addr[b] = b /\ M!InPage(p, b)
    <3>1. \A b \in Elements(M!Usable(p)) : b \in M!Blocks
      BY <2>4, BlocksAre
    <3> QED BY <1>2, <2>4, <2>5, <3>1
  <2>14. Cardinality(Said(M!Usable(p), p)) = Len(M!Usable(p))
    <3>1. Said(M!Usable(p), p) = Elements(M!Usable(p))
      BY <2>13 DEF Said
    <3> QED BY <2>4, <3>1, ListCount
  <2>15. \A q \in m_pages : Cardinality(Said(M!Usable(p), q)) = 0 /\ (m_forgotten = {} => m_mpn_Free[q] = 0)
    <3>1. TAKE q \in m_pages
    <3>2. Said(M!Usable(p), q) = {}
      <4>1. p \in Nat /\ q \in Nat /\ p # q
        BY <1>2, <1>5, BlocksAre
      <4>2. \A b \in Elements(M!Usable(p)) : ~ M!InPage(q, m_mfn_Addr[b])
        BY <2>13, <4>1, PagesApart
      <4> QED BY <4>2 DEF Said
    <3>3. M!Counted(q) = {}
      BY <1>3, <2>6 DEF M!Counted
    <3> QED BY <1>2, <3>2, <3>3, FS_EmptySet, SameSize DEF M!CountsRight
  <2>16. HasRoom(M!Usable(p), [m_mpn_Free EXCEPT ![p] = Len(M!Usable(p))])
    BY <1>2, <1>5, <2>1, <2>11, <2>12, <2>14, <2>15 DEF HasRoom, M!CountsRight
  <2> QED BY <1>5, <2>1, <2>4, <2>8, <2>9, <2>10, <2>12, <2>16
<1>6. ASSUME m_free = <<>>, NEW p \in Pages \ m_pages, m_pages' = m_pages \cup {p}, M!Usable(p) # <<>>,
             M!Take(u, Head(M!Usable(p)), Tail(M!Usable(p)), [m_mpn_Free EXCEPT ![p] = Len(M!Usable(p))])
      PROVE  M!PoolInvariant'
  BY <1>1, <1>5, <1>6, TakeKeeps
<1>7. ASSUME m_free = <<>>, NEW p \in Pages \ m_pages, m_pages' = m_pages \cup {p}, M!Usable(p) = <<>>,
             m_mpn_Free' = [m_mpn_Free EXCEPT ![p] = Len(M!Usable(p))],
             UNCHANGED <<m_free, m_mfn_Addr, m_held, m_forgotten>>
      PROVE  M!PoolInvariant'
  <2>1. /\ m_pages' \in SUBSET Pages /\ m_pages \subseteq m_pages' /\ m_forgotten \subseteq M!NodesOfPages'
        /\ Elements(M!Usable(p)) \cup UNION {M!HeldBy(v) : v \in Users} = M!NodesOfPages' \ {0}
        /\ HasRoom(M!Usable(p), m_mpn_Free') /\ m_mpn_Free' \in [Pages -> Nat]
    BY <1>5, <1>7
  <2>2. UNCHANGED <<m_plain, m_list, m_Free_Count, m_Total_Count, m_returned, m_up>>
    BY <1>1 DEF M!plainVars
  <2>3. M!TypeOK'
    BY <1>7, <2>1, <2>2 DEF M!PoolInvariant, M!TypeOK
  <2>4. M!NoneTwice' /\ M!AddressTrue'
    BY <1>7 DEF M!PoolInvariant, M!NoneTwice, M!AddressTrue
  <2>5. M!Owners'
    <3>1. M!FreeBlocks' = M!FreeBlocks /\ \A v \in Users : M!HeldBy(v)' = M!HeldBy(v)
      BY <1>7 DEF M!FreeBlocks, M!HeldBy
    <3>2. UNION {M!HeldBy(v) : v \in Users}' = UNION {M!HeldBy(v) : v \in Users}
      BY <1>7 DEF M!HeldBy
    <3>3. Elements(M!Usable(p)) = M!FreeBlocks
      BY <1>3, <1>7
    <3> QED BY <1>2, <2>1, <3>1, <3>2, <3>3 DEF M!Owners
  <2>6. M!AddressesSaid'
    BY <1>2, <1>7, <2>1 DEF M!AddressesSaid
  <2>7. M!CountsRight'
    <3>1. \A q : M!Counted(q)' = Said(M!Usable(p), q)
      BY <1>3, <1>7 DEF M!Counted, Said, M!FreeBlocks, M!InPage
    <3> QED BY <1>7, <2>1, <3>1, SameSize DEF M!CountsRight, HasRoom
  <2>8. M!PlainCounted' /\ M!PagesReturned'
    BY <1>1, <2>2 DEF M!PoolInvariant, M!PlainCounted, M!PlainNodes, M!PagesReturned
  <2> QED BY <2>3, <2>4, <2>5, <2>6, <2>7, <2>8 DEF M!PoolInvariant
<1> QED BY <1>4, <1>6, <1>7 DEF M!Alloc

\* A node of the aligned pool is freed, with its address or with 0.
LEMMA FreeKeeps ==
    ASSUME M!MemoryPoolAssumption, M!PoolInvariant, NEW u \in Users, NEW x \in m_held[u], M!Free(u, x)
    PROVE  M!PoolInvariant'
<1> DEFINE b == x.block
           said == M!AddressSaid(u, x)
<1>1. /\ m_free \in Seq(M!Blocks) /\ m_pages \subseteq Pages /\ m_mpn_Free \in [Pages -> Nat] /\ Once(m_free)
      /\ m_mfn_Addr \in [M!Blocks -> M!Blocks \cup {0}]
      /\ m_held \in [Users -> SUBSET [block : M!Blocks, addr : M!Blocks \cup {0}]]
      /\ m_forgotten \subseteq M!NodesOfPages /\ m_forgotten \subseteq M!Blocks /\ M!CountsRight /\ M!Owners
      /\ \A c \in M!Blocks : m_mfn_Addr[c] = c \/ c \in m_forgotten
  BY DEF M!PoolInvariant, M!TypeOK, M!NoneTwice, M!AddressesSaid, Once
<1>2. /\ b \in M!Blocks /\ x.addr \in M!Blocks \cup {0} /\ b \in M!HeldBy(u)
      /\ x.addr = b \/ b \in m_forgotten
  BY <1>1 DEF M!HeldBy, M!PoolInvariant, M!AddressTrue
<1>3. said \in M!Blocks \cup {0} /\ (said = b \/ b \in m_forgotten \/ u \in Careless)
  BY <1>2 DEF M!AddressSaid
<1>4. /\ m_up /\ m_held' = [m_held EXCEPT ![u] = @ \ {x}] /\ m_free' = <<b>> \o m_free
      /\ m_mfn_Addr' = [m_mfn_Addr EXCEPT ![b] = said]
      /\ m_mpn_Free' = [p \in Pages |-> m_mpn_Free[p] + M!CountFree(p, said)]
      /\ m_forgotten' = IF u \in Careless THEN m_forgotten \cup {b} ELSE m_forgotten
      /\ UNCHANGED <<m_pages, m_plain, m_list, m_Free_Count, m_Total_Count, m_returned, m_up>>
  BY DEF M!Free, M!plainVars
<1>5. M!FreeBlocks = Elements(m_free) /\ M!FreeBlocks' = Elements(m_free')
  BY DEF M!FreeBlocks, Elements
<1>6. b \notin M!FreeBlocks /\ \A v \in Users : v # u => b \notin M!HeldBy(v)
  BY <1>1, <1>2 DEF M!Owners
<1>7. m_free' \in Seq(M!Blocks) /\ Once(m_free') /\ M!FreeBlocks' = M!FreeBlocks \cup {b}
  BY <1>1, <1>2, <1>4, <1>5, <1>6, ListFront
<1> HIDE DEF b, said
<1>8. /\ \A v \in Users : m_held'[v] = IF v = u THEN m_held[u] \ {x} ELSE m_held[v]
      /\ \A v \in Users : M!HeldBy(v)' = IF v = u THEN M!HeldBy(u) \ {b} ELSE M!HeldBy(v)
  <2>1. \A v \in Users : m_held'[v] = IF v = u THEN m_held[u] \ {x} ELSE m_held[v]
    BY <1>1, <1>4
  <2>2. SUFFICES ASSUME NEW v \in Users, NEW c
        PROVE  c \in M!HeldBy(v)' <=> c \in M!HeldBy(v) /\ ~ (v = u /\ c = b)
    BY <2>1
  <2>3. CASE v # u
    BY <2>1, <2>3 DEF M!HeldBy
  <2>4. CASE v = u
    <3>1. \A y \in m_held[u] : y.block = b <=> y = x
      BY <1>2 DEF b, M!PoolInvariant, M!NoneTwice
    <3> QED BY <2>1, <2>4, <3>1 DEF M!HeldBy
  <2> QED BY <2>3, <2>4
<1>9. M!TypeOK'
  <2>1. m_mpn_Free' \in [Pages -> Nat]
    BY <1>1, <1>4 DEF M!CountFree
  <2>2. m_held' \in [Users -> SUBSET [block : M!Blocks, addr : M!Blocks \cup {0}]]
    BY <1>1, <1>4
  <2>3. m_mfn_Addr' \in [M!Blocks -> M!Blocks \cup {0}] /\ m_forgotten' \subseteq M!Blocks
    BY <1>1, <1>2, <1>3, <1>4
  <2> QED BY <1>4, <1>7, <2>1, <2>2, <2>3 DEF M!PoolInvariant, M!TypeOK
<1>10. M!NoneTwice'
  BY <1>7, <1>8 DEF M!PoolInvariant, M!NoneTwice, Once
<1>11. M!NodesOfPages' = M!NodesOfPages
  BY <1>4 DEF M!NodesOfPages
<1>12. M!Owners'
  <2>1. \A v \in Users : M!HeldBy(v)' \cap M!FreeBlocks' = {}
    BY <1>1, <1>6, <1>7, <1>8 DEF M!Owners
  <2>2. \A v, w \in Users : v # w => M!HeldBy(v)' \cap M!HeldBy(w)' = {}
    BY <1>1, <1>8 DEF M!Owners
  <2>3. \A c : c \in UNION {M!HeldBy(v) : v \in Users}' <=> \E v \in Users : c \in M!HeldBy(v)'
    OBVIOUS
  <2>4. \A c : c \in UNION {M!HeldBy(v) : v \in Users} <=> \E v \in Users : c \in M!HeldBy(v)
    OBVIOUS
  <2>5. \A c : (\E v \in Users : c \in M!HeldBy(v)') \/ c = b <=> \E v \in Users : c \in M!HeldBy(v)
    BY <1>2, <1>8
  <2>6. M!FreeBlocks' \cup UNION {M!HeldBy(v) : v \in Users}' = M!FreeBlocks \cup UNION {M!HeldBy(v) : v \in Users}
    <3>1. SUFFICES ASSUME NEW c
          PROVE  c \in M!FreeBlocks' \/ (\E v \in Users : c \in M!HeldBy(v)')
                   <=> c \in M!FreeBlocks \/ (\E v \in Users : c \in M!HeldBy(v))
      BY <2>3, <2>4
    <3> QED BY <1>7, <2>5
  <2> QED BY <1>1, <1>11, <2>1, <2>2, <2>6 DEF M!Owners
<1>13. M!AddressTrue'
  BY <1>4, <1>8 DEF M!PoolInvariant, M!AddressTrue
<1>14. M!AddressesSaid'
  <2>1. b \in M!NodesOfPages
    <3>1. b # 0 /\ b \in UNION {M!HeldBy(v) : v \in Users} => b \in M!NodesOfPages
      BY <1>1 DEF M!Owners
    <3>2. b \in UNION {M!HeldBy(v) : v \in Users}
      BY <1>2
    <3> QED BY <1>1, <3>2 DEF M!Owners
  <2>2. \A c \in M!Blocks : m_mfn_Addr'[c] = IF c = b THEN said ELSE m_mfn_Addr[c]
    BY <1>1, <1>4
  <2> QED BY <1>1, <1>2, <1>3, <1>4, <1>11, <2>1, <2>2 DEF M!AddressesSaid
<1>15. M!CountsRight'
  <2>1. \A p \in Pages : M!CountFree(p, said) = IF p \in m_pages /\ M!InPage(p, said) THEN 1 ELSE 0
    BY <1>4 DEF M!CountFree, M!PageOf, M!InPage
  <2>2. \A p \in Pages : m_mpn_Free'[p] = m_mpn_Free[p] + (IF p \in m_pages /\ M!InPage(p, said) THEN 1 ELSE 0)
    BY <1>4, <2>1
  <2>3. \A c \in M!FreeBlocks : m_mfn_Addr'[c] = m_mfn_Addr[c]
    <3>1. M!FreeBlocks \subseteq M!Blocks
      BY <1>1, <1>5, ElementOfSeq, LenProperties DEF Elements
    <3> QED BY <1>1, <1>4, <1>6, <3>1
  <2>4. m_mfn_Addr'[b] = said
    BY <1>1, <1>2, <1>4
  <2>5. ASSUME NEW p \in m_pages
        PROVE  m_mpn_Free'[p] >= Cardinality(M!Counted(p)') /\ (m_forgotten' = {} => m_mpn_Free'[p] = Cardinality(M!Counted(p)'))
    <3>1. IsFiniteSet(M!Counted(p)) /\ Cardinality(M!Counted(p)) \in Nat
      <4>1. IsFiniteSet(M!FreeBlocks) /\ M!Counted(p) \in SUBSET M!FreeBlocks
        BY <1>1, <1>5, ListCount DEF M!Counted
      <4> QED BY <4>1, FS_Subset, FS_CardinalityType
    <3>2. b \notin M!Counted(p)
      BY <1>6 DEF M!Counted
    <3>3. M!Counted(p)' = IF M!InPage(p, said) THEN M!Counted(p) \cup {b} ELSE M!Counted(p)
      <4>1. \A c : c \in M!Counted(p)' <=> c \in M!FreeBlocks' /\ M!InPage(p, m_mfn_Addr'[c])
        BY DEF M!Counted, M!InPage
      <4>2. \A c : c \in M!Counted(p) <=> c \in M!FreeBlocks /\ M!InPage(p, m_mfn_Addr[c])
        BY DEF M!Counted
      <4> QED BY <4>1, <4>2, <1>7, <2>3, <2>4
    <3>4. Cardinality(M!Counted(p) \cup {b}) = Cardinality(M!Counted(p)) + 1
      BY <3>1, <3>2, FS_AddElement
    <3>5. /\ p \in Pages /\ m_mpn_Free[p] \in Nat /\ m_mpn_Free[p] >= Cardinality(M!Counted(p))
          /\ m_forgotten = {} => m_mpn_Free[p] = Cardinality(M!Counted(p))
      BY <1>1, <2>5, SameSize DEF M!CountsRight
    <3>6. m_forgotten' = {} => m_forgotten = {}
      BY <1>4
    <3> QED BY <2>2, <2>5, <3>1, <3>3, <3>4, <3>5, <3>6
  <2>6. ASSUME NEW p \in Pages, p \notin m_pages PROVE m_mpn_Free'[p] = 0
    <3>1. m_mpn_Free[p] = 0
      BY <1>1, <2>6 DEF M!CountsRight
    <3>2. m_mpn_Free'[p] = m_mpn_Free[p] + 0
      BY <2>2, <2>6
    <3> QED BY <3>1, <3>2
  <2> QED BY <1>4, <2>5, <2>6, SameSize DEF M!CountsRight
<1>16. M!PlainCounted' /\ M!PagesReturned'
  BY <1>4 DEF M!PoolInvariant, M!PlainCounted, M!PlainNodes, M!PagesReturned
<1> QED BY <1>9, <1>10, <1>12, <1>13, <1>14, <1>15, <1>16 DEF M!PoolInvariant

-----------------------------------------------------------------------------
(* The pool that is not aligned, and the cleanup. *)

\* What the steps of the other pool and the cleanup leave alone.
LEMMA AlignedKept ==
    ASSUME M!PoolInvariant, UNCHANGED M!alignedVars
    PROVE  M!NoneTwice' /\ M!Owners' /\ M!AddressTrue' /\ M!AddressesSaid' /\ M!CountsRight' /\ M!NodesOfPages' = M!NodesOfPages
<1>1. UNCHANGED <<m_free, m_mfn_Addr, m_pages, m_mpn_Free, m_held, m_forgotten>>
  BY DEF M!alignedVars
<1>2. M!NoneTwice' /\ M!AddressTrue'
  BY <1>1 DEF M!PoolInvariant, M!NoneTwice, M!AddressTrue
<1>3. M!NodesOfPages' = M!NodesOfPages
  BY <1>1 DEF M!NodesOfPages
<1>4. M!Owners'
  <2>1. M!FreeBlocks' = M!FreeBlocks /\ \A v : M!HeldBy(v)' = M!HeldBy(v)
    BY <1>1 DEF M!FreeBlocks, M!HeldBy
  <2>2. UNION {M!HeldBy(v) : v \in Users}' = UNION {M!HeldBy(v) : v \in Users}
    BY <1>1 DEF M!HeldBy
  <2> QED BY <1>3, <2>1, <2>2 DEF M!PoolInvariant, M!Owners
<1>5. M!AddressesSaid'
  BY <1>1, <1>3 DEF M!PoolInvariant, M!AddressesSaid
<1>6. M!CountsRight'
  <2>1. \A p : M!Counted(p)' = M!Counted(p)
    BY <1>1 DEF M!Counted, M!FreeBlocks, M!InPage
  <2> QED BY <1>1, <2>1 DEF M!PoolInvariant, M!CountsRight
<1> QED BY <1>2, <1>3, <1>4, <1>5, <1>6

\* A node of the other pool is allocated.
LEMMA AllocPlainKeeps ==
    ASSUME M!MemoryPoolAssumption, M!PoolInvariant, NEW u \in Users, M!AllocPlain(u) PROVE M!PoolInvariant'
<1>1. /\ m_up /\ m_plain[u] < MaxHeld /\ m_plain' = [m_plain EXCEPT ![u] = @ + 1]
      /\ IF m_list > 0 THEN m_list' = m_list - 1 /\ m_Free_Count' = m_Free_Count - 1 /\ UNCHANGED m_Total_Count
         ELSE m_Total_Count' = m_Total_Count + 1 /\ UNCHANGED <<m_list, m_Free_Count>>
      /\ UNCHANGED <<M!alignedVars, m_returned, m_up>>
  BY DEF M!AllocPlain
<1>2. /\ m_plain \in [Users -> 0 .. MaxHeld] /\ m_list \in Nat /\ m_Free_Count \in Nat /\ m_Total_Count \in Nat
      /\ MaxHeld \in Nat /\ Free_Max \in Nat
      /\ m_Free_Count = m_list /\ m_list <= Free_Max
      /\ IsFiniteSet(M!PlainNodes) /\ m_Total_Count = m_list + Cardinality(M!PlainNodes)
  BY <1>1, SameSize DEF M!PoolInvariant, M!TypeOK, M!PlainCounted, M!MemoryPoolAssumption
<1> DEFINE n == <<u, m_plain[u] + 1>>
<1>3. m_plain[u] + 1 \in 1 .. MaxHeld
  BY <1>1, <1>2
<1>4. M!PlainNodes' = M!PlainNodes \cup {n} /\ n \notin M!PlainNodes
  <2>1. \A v \in Users : m_plain'[v] = IF v = u THEN m_plain[u] + 1 ELSE m_plain[v]
    BY <1>1, <1>2
  <2>2. ASSUME NEW v \in Users, NEW i \in 1 .. MaxHeld
        PROVE  i <= m_plain'[v] <=> i <= m_plain[v] \/ (v = u /\ i = m_plain[u] + 1)
    BY <1>2, <2>1
  <2>3. \A m : m \in M!PlainNodes' <=> m \in Users \X (1 .. MaxHeld) /\ m[2] <= m_plain'[m[1]]
    BY DEF M!PlainNodes
  <2>4. \A m : m \in M!PlainNodes <=> m \in Users \X (1 .. MaxHeld) /\ m[2] <= m_plain[m[1]]
    BY DEF M!PlainNodes
  <2>5. n \in Users \X (1 .. MaxHeld) /\ n \notin M!PlainNodes
    BY <1>2, <1>3, <2>4
  <2>6. ASSUME NEW m PROVE m \in M!PlainNodes' <=> m \in M!PlainNodes \/ m = n
    <3>1. CASE m \in Users \X (1 .. MaxHeld)
      <4>1. PICK v \in Users, i \in 1 .. MaxHeld : m = <<v, i>>
        BY <3>1
      <4>2. m = n <=> v = u /\ i = m_plain[u] + 1
        BY <4>1
      <4> HIDE DEF n
      <4> QED BY <2>2, <2>3, <2>4, <3>1, <4>1, <4>2
    <3>2. CASE m \notin Users \X (1 .. MaxHeld)
      <4> HIDE DEF n
      <4> QED BY <2>3, <2>4, <2>5, <3>2
    <3> QED BY <3>1, <3>2
  <2> HIDE DEF n
  <2> QED BY <2>5, <2>6
<1> HIDE DEF n
<1>5. IsFiniteSet(M!PlainNodes') /\ Cardinality(M!PlainNodes') = Cardinality(M!PlainNodes) + 1
      /\ Cardinality(M!PlainNodes) \in Nat
  BY <1>2, <1>4, FS_AddElement, FS_CardinalityType
<1>6. M!PlainCounted'
  BY <1>1, <1>2, <1>5, SameSize DEF M!PlainCounted
<1>7. m_plain' \in [Users -> 0 .. MaxHeld] /\ m_list' \in Nat /\ m_Free_Count' \in Nat /\ m_Total_Count' \in Nat
  BY <1>1, <1>2, <1>3
<1>8. M!TypeOK'
  BY <1>1, <1>7 DEF M!PoolInvariant, M!TypeOK, M!alignedVars
<1>9. M!PagesReturned'
  BY <1>1 DEF M!PagesReturned
<1> QED BY <1>1, <1>6, <1>8, <1>9, AlignedKept DEF M!PoolInvariant

\* A node of the other pool is freed: it is kept, up to the limit.
LEMMA FreePlainKeeps ==
    ASSUME M!MemoryPoolAssumption, M!PoolInvariant, NEW u \in Users, M!FreePlain(u) PROVE M!PoolInvariant'
<1>1. /\ m_up /\ m_plain[u] > 0 /\ m_plain' = [m_plain EXCEPT ![u] = @ - 1]
      /\ IF m_Free_Count >= Free_Max THEN m_Total_Count' = m_Total_Count - 1 /\ UNCHANGED <<m_list, m_Free_Count>>
         ELSE m_list' = m_list + 1 /\ m_Free_Count' = m_Free_Count + 1 /\ UNCHANGED m_Total_Count
      /\ UNCHANGED <<M!alignedVars, m_returned, m_up>>
  BY DEF M!FreePlain, M!Full
<1>2. /\ m_plain \in [Users -> 0 .. MaxHeld] /\ m_list \in Nat /\ m_Free_Count \in Nat /\ m_Total_Count \in Nat
      /\ MaxHeld \in Nat /\ Free_Max \in Nat
      /\ m_Free_Count = m_list /\ m_list <= Free_Max
      /\ IsFiniteSet(M!PlainNodes) /\ m_Total_Count = m_list + Cardinality(M!PlainNodes)
  BY <1>1, SameSize DEF M!PoolInvariant, M!TypeOK, M!PlainCounted, M!MemoryPoolAssumption
<1> DEFINE n == <<u, m_plain[u]>>
<1>3. m_plain[u] \in 1 .. MaxHeld /\ m_plain[u] - 1 \in 0 .. MaxHeld
  BY <1>1, <1>2
<1>4. M!PlainNodes' = M!PlainNodes \ {n} /\ n \in M!PlainNodes
  <2>1. \A v \in Users : m_plain'[v] = IF v = u THEN m_plain[u] - 1 ELSE m_plain[v]
    BY <1>1, <1>2
  <2>2. ASSUME NEW v \in Users, NEW i \in 1 .. MaxHeld
        PROVE  i <= m_plain'[v] <=> i <= m_plain[v] /\ ~ (v = u /\ i = m_plain[u])
    BY <1>2, <2>1
  <2>3. \A m : m \in M!PlainNodes' <=> m \in Users \X (1 .. MaxHeld) /\ m[2] <= m_plain'[m[1]]
    BY DEF M!PlainNodes
  <2>4. \A m : m \in M!PlainNodes <=> m \in Users \X (1 .. MaxHeld) /\ m[2] <= m_plain[m[1]]
    BY DEF M!PlainNodes
  <2>5. n \in Users \X (1 .. MaxHeld) /\ n \in M!PlainNodes
    BY <1>2, <1>3, <2>4
  <2>6. ASSUME NEW m PROVE m \in M!PlainNodes' <=> m \in M!PlainNodes /\ m # n
    <3>1. CASE m \in Users \X (1 .. MaxHeld)
      <4>1. PICK v \in Users, i \in 1 .. MaxHeld : m = <<v, i>>
        BY <3>1
      <4>2. m = n <=> v = u /\ i = m_plain[u]
        BY <4>1
      <4> HIDE DEF n
      <4> QED BY <2>2, <2>3, <2>4, <3>1, <4>1, <4>2
    <3>2. CASE m \notin Users \X (1 .. MaxHeld)
      <4> HIDE DEF n
      <4> QED BY <2>3, <2>4, <3>2
    <3> QED BY <3>1, <3>2
  <2> HIDE DEF n
  <2> QED BY <2>5, <2>6
<1> HIDE DEF n
<1>5. IsFiniteSet(M!PlainNodes') /\ Cardinality(M!PlainNodes') = Cardinality(M!PlainNodes) - 1
      /\ Cardinality(M!PlainNodes) \in Nat /\ Cardinality(M!PlainNodes') \in Nat
  BY <1>2, <1>4, FS_RemoveElement, FS_CardinalityType
<1>6. M!PlainCounted'
  BY <1>1, <1>2, <1>5, SameSize DEF M!PlainCounted
<1>7. m_plain' \in [Users -> 0 .. MaxHeld] /\ m_list' \in Nat /\ m_Free_Count' \in Nat /\ m_Total_Count' \in Nat
  BY <1>1, <1>2, <1>3, <1>5
<1>8. M!TypeOK'
  BY <1>1, <1>7 DEF M!PoolInvariant, M!TypeOK, M!alignedVars
<1>9. M!PagesReturned'
  BY <1>1 DEF M!PagesReturned
<1> QED BY <1>1, <1>6, <1>8, <1>9, AlignedKept DEF M!PoolInvariant

\* All nodes are free: a page without the node at address 0 counts all of its nodes.
LEMMA PageCounts ==
    ASSUME M!MemoryPoolAssumption, M!PoolInvariant, m_forgotten = {}, \A u \in Users : m_held[u] = {},
           NEW p \in m_pages, p # 0
    PROVE  m_mpn_Free[p] = PerPage
<1>1. p \in Pages /\ p \in Nat /\ m_pages \in SUBSET Pages
  BY BlocksAre DEF M!PoolInvariant, M!TypeOK
<1>2. M!FreeBlocks = M!NodesOfPages \ {0}
  <2>1. \A u \in Users : M!HeldBy(u) = {}
    BY DEF M!HeldBy
  <2>2. UNION {M!HeldBy(u) : u \in Users} = {}
    BY <2>1
  <2> QED BY <2>2 DEF M!PoolInvariant, M!Owners
<1>3. \A b : b \in M!NodesOfPages <=> b \in Nat /\ \E q \in m_pages : M!InPage(q, b)
  BY <1>1, NodesOfPagesAre DEF M!NodesOfPages
<1>4. \A b \in M!FreeBlocks : m_mfn_Addr[b] = b /\ b \in Nat
  <2>1. M!FreeBlocks \subseteq M!Blocks
    BY <1>1, <1>2, <1>3, BlocksAre
  <2> QED BY <2>1, BlocksAre DEF M!PoolInvariant, M!AddressesSaid
<1> DEFINE base == p * PerPage
<1>5. base \in Nat /\ (p + 1) * PerPage = base + PerPage /\ PerPage \in Nat \ {0} /\ base # 0
  <2>1. base \in Nat /\ (p + 1) * PerPage = base + PerPage /\ PerPage \in Nat \ {0}
    BY <1>1, PageBase
  <2>2. p >= 1
    BY <1>1
  <2>3. base >= PerPage
    <3>1. 1 * PerPage <= p * PerPage
      BY <2>1, <2>2, <1>1, SMTT(30)
    <3> QED BY <3>1, <2>1
  <2> QED BY <2>1, <2>3
<1>6. \A b : M!InPage(p, b) <=> base <= b /\ b < base + PerPage
  BY <1>5 DEF M!InPage
<1> HIDE DEF base
<1>7. \A b : b \in M!Counted(p) <=> b \in Nat /\ M!InPage(p, b) /\ b # 0
  BY <1>1, <1>2, <1>3, <1>4 DEF M!Counted
<1>8. M!Counted(p) = base .. (base + PerPage - 1)
  <2>1. SUFFICES ASSUME NEW b PROVE b \in M!Counted(p) <=> b \in base .. (base + PerPage - 1)
    OBVIOUS
  <2>2. b \in base .. (base + PerPage - 1) <=> b \in Nat /\ base <= b /\ b < base + PerPage /\ b # 0
    BY <1>5
  <2> QED BY <1>6, <1>7, <2>2
<1>9. Cardinality(M!Counted(p)) = PerPage
  BY <1>5, <1>8, FS_Interval
<1> QED BY <1>9, SameSize DEF M!PoolInvariant, M!CountsRight

\* The cleanup gives back the pages whose nodes are all free.
LEMMA CleanupKeeps ==
    ASSUME M!MemoryPoolAssumption, M!PoolInvariant, M!Cleanup PROVE M!PoolInvariant'
<1>1. /\ m_up /\ \A u \in Users : m_held[u] = {}
      /\ m_up' = FALSE /\ m_returned' = {p \in m_pages : m_mpn_Free[p] = PerPage}
      /\ m_list' = 0 /\ m_Free_Count' = 0 /\ m_Total_Count' = m_Total_Count - m_list
      /\ UNCHANGED <<M!alignedVars, m_plain>>
  BY DEF M!Cleanup
<1>2. UNCHANGED <<m_free, m_mfn_Addr, m_pages, m_mpn_Free, m_held, m_forgotten>>
  BY <1>1 DEF M!alignedVars
<1>3. M!PagesReturned'
  <2>1. SUFFICES ASSUME m_forgotten = {}, NEW p \in m_pages
        PROVE  m_mpn_Free[p] = PerPage \/ \E i \in 1 .. PerPage : M!NodesOf(p)[i] = 0
    BY <1>1, <1>2 DEF M!PagesReturned
  <2>2. CASE p = 0
    <3>1. PerPage \in 1 .. PerPage /\ 0 \in Nat
      BY DEF M!MemoryPoolAssumption
    <3> QED BY <2>2, <3>1, NodesOfPage
  <2>3. CASE p # 0
    BY <1>1, <2>1, <2>3, PageCounts
  <2> QED BY <2>2, <2>3
<1>4. m_list \in Nat /\ m_Total_Count \in Nat /\ m_Total_Count - m_list \in Nat
  <2>1. Cardinality(M!PlainNodes) \in Nat /\ m_Total_Count = m_list + Cardinality(M!PlainNodes) /\ m_list \in Nat
    BY <1>1, FS_CardinalityType, SameSize DEF M!PoolInvariant, M!PlainCounted, M!TypeOK
  <2> QED BY <2>1
<1>5. M!TypeOK'
  <2>1. /\ m_free' \in Seq(M!Blocks) /\ m_mfn_Addr' \in [M!Blocks -> M!Blocks \cup {0}] /\ m_pages' \subseteq Pages
        /\ m_mpn_Free' \in [Pages -> Nat] /\ m_forgotten' \subseteq M!Blocks
        /\ m_held' \in [Users -> SUBSET [block : M!Blocks, addr : M!Blocks \cup {0}]]
    BY <1>2 DEF M!PoolInvariant, M!TypeOK
  <2>2. m_plain' \in [Users -> 0 .. MaxHeld] /\ m_returned' \subseteq m_pages' /\ m_up' \in BOOLEAN
    BY <1>1, <1>2 DEF M!PoolInvariant, M!TypeOK
  <2>3. {m_list', m_Free_Count', m_Total_Count'} \subseteq Nat
    BY <1>1, <1>4
  <2> QED BY <2>1, <2>2, <2>3 DEF M!TypeOK
<1>6. M!PlainCounted'
  BY <1>1 DEF M!PlainCounted, M!MemoryPoolAssumption
<1> QED BY <1>1, <1>3, <1>5, <1>6, AlignedKept DEF M!PoolInvariant

-----------------------------------------------------------------------------

\* The pools begin empty.
LEMMA PoolInit == ASSUME M!MemoryPoolAssumption, M!Init PROVE M!PoolInvariant
<1>1. M!TypeOK
  BY DEF M!Init, M!TypeOK, M!MemoryPoolAssumption
<1>2. M!NoneTwice /\ M!AddressTrue /\ M!PagesReturned
  BY DEF M!Init, M!NoneTwice, M!AddressTrue, M!PagesReturned
<1>3. M!FreeBlocks = {} /\ M!NodesOfPages = {} /\ \A u \in Users : M!HeldBy(u) = {}
  BY DEF M!Init, M!FreeBlocks, M!NodesOfPages, M!HeldBy
<1>4. UNION {M!HeldBy(u) : u \in Users} = {}
  BY <1>3
<1>5. M!Owners
  BY <1>3, <1>4 DEF M!Owners
<1>6. M!AddressesSaid
  BY DEF M!Init, M!AddressesSaid
<1>7. M!CountsRight
  BY DEF M!Init, M!CountsRight
<1>8. M!PlainCounted
  <2>1. M!PlainNodes = {}
    BY DEF M!Init, M!PlainNodes
  <2> QED BY <2>1, FS_EmptySet, SameSize DEF M!Init, M!PlainCounted, M!MemoryPoolAssumption
<1> QED BY <1>1, <1>2, <1>5, <1>6, <1>7, <1>8 DEF M!PoolInvariant

\* Every step keeps the invariant.
LEMMA PoolNext ==
    ASSUME M!MemoryPoolAssumption, M!PoolInvariant, M!Next \/ UNCHANGED M!vars PROVE M!PoolInvariant'
<1>1. CASE M!Next
  BY <1>1, AllocKeeps, FreeKeeps, AllocPlainKeeps, FreePlainKeeps, CleanupKeeps DEF M!Next
<1>2. CASE UNCHANGED M!vars
  <2>1. UNCHANGED M!alignedVars /\ UNCHANGED <<m_plain, m_list, m_Free_Count, m_Total_Count, m_returned, m_up>>
    BY <1>2 DEF M!vars, M!plainVars
  <2>2. M!TypeOK' /\ M!PlainCounted' /\ M!PagesReturned'
    BY <2>1 DEF M!alignedVars, M!PoolInvariant, M!TypeOK, M!PlainCounted, M!PlainNodes, M!PagesReturned
  <2> QED BY <2>1, <2>2, AlignedKept DEF M!PoolInvariant
<1> QED BY <1>1, <1>2

\* What the invariant says of the nodes, the counters and the pages.
LEMMA PoolGood == ASSUME M!MemoryPoolAssumption, M!PoolInvariant PROVE M!PoolIsSound
<1>1. M!OneOwner
  <2>1. M!FreeBlocks = Elements(m_free) /\ Once(m_free) /\ m_free \in Seq(M!Blocks)
    BY DEF M!FreeBlocks, Elements, Once, M!PoolInvariant, M!NoneTwice, M!TypeOK
  <2>2. Len(m_free) = Cardinality(M!FreeBlocks)
    BY <2>1, ListCount
  <2>3. /\ \A u \in Users : M!HeldBy(u) \cap M!FreeBlocks = {}
        /\ \A u, v \in Users : u # v => M!HeldBy(u) \cap M!HeldBy(v) = {}
    BY DEF M!PoolInvariant, M!Owners
  <2>4. M!FreeBlocks \cup UNION {M!HeldBy(u) : u \in Users} = M!NodesOfPages \ {0}
    BY DEF M!PoolInvariant, M!Owners
  <2>5. M!FreeBlocks \cup UNION {M!HeldBy(u) : u \in Users}
          = (UNION {{M!NodesOf(p)[i] : i \in 1 .. PerPage} : p \in m_pages}) \ {0}
    BY <2>4, Zenon DEF M!NodesOfPages
  <2> QED BY <2>2, <2>3, <2>5, Zenon, SameSize DEF M!OneOwner
<1>2. M!CountersExact
  <2>1. m_up => Cardinality(M!PlainNodes) \in Nat /\ m_Total_Count = m_list + Cardinality(M!PlainNodes) /\ m_list \in Nat
    BY FS_CardinalityType, SameSize DEF M!PoolInvariant, M!PlainCounted, M!TypeOK
  <2> QED BY <2>1 DEF M!CountersExact, M!PoolInvariant, M!PlainCounted
<1> QED BY <1>1, <1>2 DEF M!PoolIsSound, M!PoolInvariant

-----------------------------------------------------------------------------
(* The theorems: what a step of the whole is to each module, and what follows. *)

\* A step of the whole is one of each module, or leaves what the module models alone.
LEMMA OneModuleSteps ==
    ASSUME MCNext \/ UNCHANGED allVars
    PROVE  /\ C!Next \/ UNCHANGED C!vars
           /\ S!Next \/ UNCHANGED S!vars
           /\ R!Next \/ UNCHANGED R!vars
           /\ M!Next \/ UNCHANGED M!vars
           /\ which' = which
<1>1. UNCHANGED c_vars => UNCHANGED C!vars
  BY DEF c_vars, C!vars, C!driverVars, C!chipVars
<1>2. UNCHANGED s_vars => UNCHANGED S!vars
  BY DEF s_vars, S!vars, S!taskVars, S!chipVars
<1>3. UNCHANGED r_vars => UNCHANGED R!vars
  BY DEF r_vars, R!vars, R!fixed, R!search, R!chip, R!config
<1>4. UNCHANGED m_vars => UNCHANGED M!vars
  BY DEF m_vars, M!vars, M!alignedVars, M!plainVars
<1> QED BY <1>1, <1>2, <1>3, <1>4 DEF MCNext, allVars

\* Commands and slots: whoever waits for a command gets the answer to that command
\* (XHCI_Cmd_Wait()), however late the controller is with others and whether functions go during
\* waits or not, if when it was sent no earlier command was still to be answered, and no Disable
\* Slot is sent in the middle of the wait; after a restart nothing is said of the command ring.
THEOREM OwnAnswerAlways == MCSpec => []OwnAnswer
<1> DEFINE Inv == C!CommandsInvariant /\ S!AloneAnswered
<1>0. C!CommandRingAssumption /\ S!SlotsAssumption
  BY ComponentAssumptions
<1>1. MCInit => Inv
  <2>1. S!Init => S!AloneAnswered
    BY DEF S!Init, S!AloneAnswered
  <2> QED BY <1>0, <2>1, CommandsInit DEF MCInit
<1>2. Inv /\ [MCNext]_allVars => Inv'
  BY <1>0, OneModuleSteps, CommandsStep, AloneNext
<1>3. Inv => OwnAnswer
  <2>1. C!CommandsInvariant => C!AnswersAgree
    BY DEF C!CommandsInvariant, C!CommandsExact, C!AnswerComes, C!OneAnswer, C!OwnAnswer, C!AnswersAgree
  <2>2. S!AloneAnswered => S!OwnAnswer
    BY DEF S!AloneAnswered, S!OwnAnswer, S!CompletionFits, S!Awaited
  <2> QED BY <1>0, <2>1, <2>2 DEF OwnAnswer
<1> QED BY <1>1, <1>2, <1>3, PTL DEF MCSpec

\* Every event is read once and in order, every command is run once and in order, also those
\* whose wait was given up, and none is waited for that the controller does not see, on rings of
\* any size and on any lap, until the chip is restarted.
THEOREM RingsExactAlways == MCSpec => RingsExact
<1> DEFINE Events == c_read' # c_read => c_restarted \/ (c_read' = c_read + 1 /\ c_read' <= c_made)
           Runs == c_ran' # c_ran => c_restarted \/ (c_ran' = c_ran + 1 /\ c_ran' <= c_sent)
           Waits == C!GiveUp => c_restarted \/ ~ C!Stuck
<1>0. C!CommandRingAssumption
  BY ComponentAssumptions
<1>1. MCInit => C!CommandsInvariant
  BY <1>0, CommandsInit DEF MCInit
<1>2. C!CommandsInvariant /\ [MCNext]_allVars => C!CommandsInvariant'
  BY <1>0, OneModuleSteps, CommandsStep
<1>3. C!CommandsInvariant /\ [MCNext]_allVars => [Events]_(C!vars) /\ [Runs]_(C!vars) /\ [Waits]_(C!vars)
  BY <1>0, OneModuleSteps, ExactStep, GivenUpExact, CommandTypes DEF C!CommandsInvariant
<1>4. MCSpec => [][Events]_(C!vars) /\ [][Runs]_(C!vars) /\ [][Waits]_(C!vars)
  BY <1>1, <1>2, <1>3, PTL DEF MCSpec
<1> QED BY <1>4 DEF RingsExact, C!RingsExact, C!EventsOnce, C!CommandsOnce, C!Answered

\* The driver, the controller and the functions agree about the slots: no slot is used by two
\* or after it was freed, none is lost, and a device has the slot it answers in, for any number
\* of slots and addresses, until a function goes while the HCD task waits for a command.
THEOREM SlotsAgreeAlways == MCSpec => []SlotsAgree
<1> DEFINE Inv == s_overlapped \in BOOLEAN /\ (s_overlapped \/ S!SlotsInvariant)
<1>0. S!SlotsAssumption
  BY ComponentAssumptions
<1>1. MCInit => Inv
  BY <1>0, SlotsInit DEF MCInit, S!Init
<1>2. Inv /\ [MCNext]_allVars => Inv'
  BY <1>0, OneModuleSteps, SlotsNext, OverlapStays
<1>3. Inv => SlotsAgree
  BY <1>0, SlotsGood DEF SlotsAgree, S!SlotsAgree
<1> QED BY <1>1, <1>2, <1>3, PTL DEF MCSpec

\* A reset leaves the device's configuration as it was or says that it did not, and frees every
\* bridge it took, whichever of the resets the chip obeys and however many bridges there are.
THEOREM ResetIsSoundAlways == MCSpec => []ResetIsSound
<1>0. R!XHCIResetAssumption
  BY ComponentAssumptions
<1>1. MCInit => R!ResetInvariant
  BY <1>0, ResetInit DEF MCInit
<1>2. R!ResetInvariant /\ [MCNext]_allVars => R!ResetInvariant'
  BY <1>0, OneModuleSteps, ResetNext
<1>3. R!ResetInvariant => ResetIsSound
  BY ResetGood DEF ResetIsSound
<1> QED BY <1>1, <1>2, <1>3, PTL DEF MCSpec

\* Each node of the pools has one owner, who knows its address unless it was freed with address
\* 0, the counters are exact and the cleanup gives the pages back, for any number of owners, pages
\* and nodes in a page.
THEOREM PoolIsSoundAlways == MCSpec => []PoolIsSound
<1>0. M!MemoryPoolAssumption
  BY ComponentAssumptions
<1>1. MCInit => M!PoolInvariant
  BY <1>0, PoolInit DEF MCInit
<1>2. M!PoolInvariant /\ [MCNext]_allVars => M!PoolInvariant'
  BY <1>0, OneModuleSteps, PoolNext
<1>3. M!PoolInvariant => PoolIsSound
  BY <1>0, PoolGood DEF PoolIsSound
<1> QED BY <1>1, <1>2, <1>3, PTL DEF MCSpec

=============================================================================
