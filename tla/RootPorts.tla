------------------------------- MODULE RootPorts -------------------------------
(***************************************************************************)
(* A port of a root hub: the hub's driver sends hub requests, the HCD task    *)
(* answers them from Stack/RootHUB, which calls the Port_*() functions of the *)
(* host driver, and these read and write one hardware register whose bits     *)
(* mean something else in every controller: some are set by writing them,     *)
(* some are cleared by writing a one, and in OHCI writing back what was read  *)
(* disables the port.  The hardware changes the register at any time, also    *)
(* between a read and the write that follows it.                              *)
(*                                                                         *)
(* The bits have OHCI's names in all three: CCS connected, PES enabled, PSS   *)
(* suspended, PRS being reset, PPS powered, LSDA low speed, PO owned by the   *)
(* companion (EHCI); the change bits CSC, PEC, PSSC, OCC and PRSC.            *)
(***************************************************************************)
EXTENDS Naturals, FiniteSets

CONSTANTS
    MaxEvents,   \* how often a device comes or goes, or an error occurs
    MaxOthers,   \* requests of others than the hub's driver
    Polls,       \* how often the driver looks for the end of a reset (20 in the code)
    Retries      \* how often it resets a port for a device (5)

RootPortsAssumption ==
    {MaxEvents, MaxOthers} \subseteq Nat /\ {Polls, Retries} \subseteq Nat \ {0}

Kinds     == {"EHCI", "OHCI", "XHCI"}
StateBits == {"CCS", "PES", "PSS", "PRS", "PPS", "LSDA", "PO"}
ChgBits   == {"CSC", "PEC", "PSSC", "OCC", "PRSC"}
Speeds    == {"none", "low", "full", "high"}

VARIABLES
    kind,     \* the host driver
    st, chg,  \* the register: state bits and change bits
    dev,      \* the speed of the device in the port
    flag,     \* PortResetChange[]: EHCI and xHCI remember a reset that is done
    cached,   \* PortSpeed[]: xHCI remembers the speed it had then
    configNr, \* hn_HUB_ConfigNr
    fn,       \* the Port_*() function the HCD task is in
    by,       \* whose request that is
    ones,     \* the bits it is about to write as one
    stage,    \* how far a reset is
    pc,       \* where the hub's driver is
    seen,     \* stat.wPortStatus and wPortChange
    tries, retry,   \* its loop counters
    late,     \* history: it has given up looking for the end of a reset
    events, others

regVars == <<st, chg, dev>>
hcdVars == <<flag, cached, fn, by, ones, stage>>
hubVars == <<pc, seen, tries, retry, late>>
vars == <<kind, regVars, hcdVars, hubVars, configNr, events, others>>

-----------------------------------------------------------------------------
(* The Port_*() functions: what they write when they have read v. *)

EHCI_PS_CLEAR == {"OCC", "PEC", "CSC"}
EHCI_Port_Clr_Connect_Chg(v) == (v \ EHCI_PS_CLEAR) \cup {"CSC"}
EHCI_Port_Set_Power(v)       == (v \ EHCI_PS_CLEAR) \cup {"PPS"}
EHCI_Port_Disown(v)          == (v \ EHCI_PS_CLEAR) \cup {"PO"}
EHCI_Reset_Start(v)          == (v \ (EHCI_PS_CLEAR \cup {"PES"})) \cup {"PRS"}
EHCI_Reset_End(v)            == v \ {"PRS"}
EHCI_Port_Set_Reset(v) ==
    IF "LSDA" \in v THEN EHCI_Port_Disown(v) ELSE EHCI_Reset_Start(v)

\* A function of OHCI that finds the bit as it should be writes nothing.
OHCI_Port_Clr_Connect_Chg(v)     == {"CSC"}
OHCI_Port_Clr_Enable_Chg(v)      == {"PEC"}
OHCI_Port_Clr_Suspend_Chg(v)     == {"PSSC"}
OHCI_Port_Clr_OverCurrent_Chg(v) == {"OCC"}
OHCI_Port_Clr_Reset_Chg(v)       == {"PRSC"}
OHCI_Port_Set_Reset(v)           == {"PRS"}
OHCI_Port_Clr_Enable(v)  == IF "PES" \in v THEN v \ {"PES"} ELSE {}
OHCI_Port_Set_Enable(v)  == IF "PES" \in v THEN {} ELSE v \cup {"PES"}
OHCI_Port_Clr_Suspend(v) == IF "PSS" \in v THEN v \ {"PSS"} ELSE {}
OHCI_Port_Set_Suspend(v) == IF "PSS" \in v THEN {} ELSE v \cup {"PSS"}
OHCI_Port_Clr_Power(v)   == IF "PPS" \in v THEN v \ {"PPS"} ELSE {}
OHCI_Port_Set_Power(v)   == IF "PPS" \in v THEN {} ELSE v \cup {"PPS"}
OHCI_Port_Clr_Indicator(v) == {}
OHCI_Port_Set_Indicator(v) == {}

XHCI_PS_WRITE_STRIP_MASK == {"CSC", "PEC", "OCC", "PRSC", "PES", "PRS"}
XHCI_Port_Clr_Connect_Chg(v) == (v \ XHCI_PS_WRITE_STRIP_MASK) \cup {"CSC"}
XHCI_Port_Set_Power(v)       == (v \ XHCI_PS_WRITE_STRIP_MASK) \cup {"PPS"}
XHCI_Reset_Start(v)          == (v \ XHCI_PS_WRITE_STRIP_MASK) \cup {"PRS"}
XHCI_Clear_PRC(v)            == (v \ XHCI_PS_WRITE_STRIP_MASK) \cup {"PRSC"}

\* The tables of the host drivers: the functions they have.
EHCIFunctions(v) ==
    [ Port_Clr_Connection_Chg |-> EHCI_Port_Clr_Connect_Chg(v), Port_Clr_Reset_Chg |-> {},
      Port_Get_Status |-> {}, Port_Set_Power |-> EHCI_Port_Set_Power(v),
      Port_Set_Reset |-> EHCI_Port_Set_Reset(v) ]
XHCIFunctions(v) ==
    [ Port_Clr_Connection_Chg |-> XHCI_Port_Clr_Connect_Chg(v), Port_Clr_Reset_Chg |-> {},
      Port_Get_Status |-> XHCI_Clear_PRC(v), Port_Set_Power |-> XHCI_Port_Set_Power(v),
      Port_Set_Reset |-> XHCI_Reset_Start(v) ]
OHCIFunctions(v) ==
    [ Port_Clr_Enable |-> OHCI_Port_Clr_Enable(v), Port_Clr_Suspend |-> OHCI_Port_Clr_Suspend(v),
      Port_Clr_Power |-> OHCI_Port_Clr_Power(v), Port_Clr_Indicator |-> OHCI_Port_Clr_Indicator(v),
      Port_Clr_Enable_Chg |-> OHCI_Port_Clr_Enable_Chg(v),
      Port_Clr_Suspend_Chg |-> OHCI_Port_Clr_Suspend_Chg(v),
      Port_Clr_OverCurrent_Chg |-> OHCI_Port_Clr_OverCurrent_Chg(v),
      Port_Clr_Connection_Chg |-> OHCI_Port_Clr_Connect_Chg(v),
      Port_Clr_Reset_Chg |-> OHCI_Port_Clr_Reset_Chg(v), Port_Get_Status |-> {},
      Port_Set_Enable |-> OHCI_Port_Set_Enable(v), Port_Set_Suspend |-> OHCI_Port_Set_Suspend(v),
      Port_Set_Reset |-> OHCI_Port_Set_Reset(v), Port_Set_Power |-> OHCI_Port_Set_Power(v),
      Port_Set_Indicator |-> OHCI_Port_Set_Indicator(v) ]

Functions(v) == [EHCI |-> EHCIFunctions(v), OHCI |-> OHCIFunctions(v), XHCI |-> XHCIFunctions(v)][kind]
HasFunction(f) == f \in DOMAIN Functions({})

-----------------------------------------------------------------------------
(* What the port functions report, in the terms of a hub. *)

EHCI_Port_Get_Status(v) ==
    IF "PO" \in v THEN {"PPS"}
    ELSE (v \cap {"CSC", "PEC", "OCC", "CCS", "PES", "PSS", "PRS", "PPS", "LSDA"})
         \cup IF flag THEN {"PRSC"} ELSE {}
OHCI_Port_Get_Status(v) == v
XHCI_Port_Get_Status(v) ==
    (v \cap {"CSC", "PEC", "OCC", "CCS", "PES", "PRS", "PPS", "LSDA"})
    \cup IF flag THEN {"PRSC"} ELSE {}

Port_Get_Status(v) ==
    [ EHCI |-> EHCI_Port_Get_Status(v), OHCI |-> OHCI_Port_Get_Status(v),
      XHCI |-> XHCI_Port_Get_Status(v) ][kind]

\* The changes that the root hub's interrupt endpoint reports.
Reported == Port_Get_Status(st \cup chg) \cap ChgBits

-----------------------------------------------------------------------------
(* The register. *)

Init ==
    /\ kind \in Kinds
    /\ st = {} /\ chg = {} /\ dev = "none" /\ flag = FALSE /\ cached = "none" /\ configNr = 0
    /\ fn = "none" /\ by = "hub" /\ ones = {} /\ stage = "write"
    /\ pc = "device" /\ seen = {} /\ tries = 0 /\ retry = 0 /\ late = FALSE
    /\ events = 0 /\ others = 0

\* EHCI: PE can only be cleared, the reset bit ends the reset when it is taken away, which
\* enables the port if the device is of high speed and the reset bit goes at all.
EHCI_Write(w) ==
    LET rw   == {"PSS", "PPS", "PO"}
        kept == (st \ rw) \cup (rw \cap w)
        gone == IF "PO" \in w THEN {"CCS", "PES"} ELSE {}
    IN  /\ chg' \in {chg \ w, (chg \ w) \cup IF "PO" \in w \ st THEN {"CSC"} ELSE {}}
        /\ dev' = dev
        /\ \/ /\ "PRS" \in w
              /\ st' = (kept \ ({"PES"} \cup gone)) \cup {"PRS"}
           \/ /\ "PRS" \in st \ w
              /\ st' \in {kept, (kept \ {"PRS"}) \cup IF dev = "high" /\ gone = {} THEN {"PES"} ELSE {}}
           \/ /\ "PRS" \notin st \cup w
              /\ st' = kept \ (gone \cup IF "PES" \in w THEN {} ELSE {"PES"})

\* OHCI: writing nothing changes nothing.  A one in CCS disables, in LSDA switches off, which
\* the device does not survive; what is told both to be set and to be cleared may do either.
\* Suspending is taken to be immediate.
OneOf(set, clear, is) ==
    IF set /\ clear THEN BOOLEAN ELSE {IF set THEN TRUE ELSE IF clear THEN FALSE ELSE is}
OHCI_Write(w) ==
    \E enabled \in OneOf("PES" \in w /\ "CCS" \in st, "CCS" \in w, "PES" \in st),
       power \in OneOf("PPS" \in w, "LSDA" \in w, "PPS" \in st) :
         /\ chg' = chg \ w
         /\ st' = IF ~power THEN {}
                  ELSE (st \ {"PES"}) \cup {"PPS"} \cup (IF enabled THEN {"PES"} ELSE {})
                       \cup IF "CCS" \in st THEN w \cap {"PSS", "PRS"} ELSE {}
         /\ dev' = IF power THEN dev ELSE "none"

\* xHCI: a one in PES disables the port.
XHCI_Write(w) ==
    /\ chg' = chg \ w /\ dev' = dev
    /\ st' = (st \ ({"PPS"} \cup IF w \cap {"PES", "PRS"} # {} THEN {"PES"} ELSE {}))
             \cup (w \cap {"PPS"}) \cup IF "CCS" \in st THEN w \cap {"PRS"} ELSE {}

HardwareWrite(w) ==
    \/ kind = "EHCI" /\ EHCI_Write(w)
    \/ kind = "OHCI" /\ OHCI_Write(w)
    \/ kind = "XHCI" /\ XHCI_Write(w)

SpeedBit(s) == IF s = "low" THEN {"LSDA"} ELSE {}

\* The hardware: a device comes or goes, the port is disabled by an error, too much current.
Connect ==
    /\ events < MaxEvents /\ events' = events + 1
    /\ dev = "none" /\ "PPS" \in st
    /\ dev' \in Speeds \ (IF kind = "OHCI" THEN {"none", "high"} ELSE {"none"})
    /\ st' = st \cup {"CCS"} \cup SpeedBit(dev') /\ chg' = chg \cup {"CSC"}
    /\ UNCHANGED <<kind, hcdVars, hubVars, configNr, others>>

Disconnect ==
    /\ events < MaxEvents /\ events' = events + 1
    /\ dev # "none" /\ dev' = "none"
    /\ st' = st \ ({"CCS", "PES", "PSS", "LSDA", "PO"} \cup IF kind = "EHCI" THEN {} ELSE {"PRS"})
    /\ chg' = chg \cup {"CSC"} \cup IF kind = "OHCI" /\ "PES" \in st THEN {"PEC"} ELSE {}
    /\ UNCHANGED <<kind, hcdVars, hubVars, configNr, others>>

PortError ==
    /\ events < MaxEvents /\ events' = events + 1
    /\ \/ "PES" \in st /\ st' = st \ {"PES"} /\ chg' = chg \cup {"PEC"}
       \/ "PPS" \in st /\ st' = st /\ chg' = chg \cup {"OCC"} /\ chg' # chg
    /\ UNCHANGED <<kind, dev, hcdVars, hubVars, configNr, others>>

\* OHCI and xHCI end a reset by themselves.
ResetDone ==
    /\ kind # "EHCI" /\ "PRS" \in st
    /\ st' = (st \ {"PRS"}) \cup {"PES"} /\ chg' = chg \cup {"PRSC"}
    /\ UNCHANGED <<kind, dev, hcdVars, hubVars, configNr, events, others>>

-----------------------------------------------------------------------------
(* The hub's driver: what it does with an answer. *)

Hub(p) == pc' = p /\ UNCHANGED <<seen, tries, retry, late>>

\* HUB__Port_Function_Add() resets the port again, or gives up.
Again ==
    /\ IF retry + 1 < Retries THEN pc' = "reset" /\ retry' = retry + 1 ELSE pc' = "wait" /\ retry' = 0
    /\ tries' = 0 /\ seen' = {} /\ late' = late

\* HUB__Port_Chg() clears a connection change only; the others are marked "todo".
Port_Chg(status) ==
    /\ IF "CSC" \in status THEN pc' = "clear" /\ seen' = status ELSE pc' = "wait" /\ seen' = {}
    /\ UNCHANGED <<tries, retry, late>>

Function_Add(status) ==
    Hub(IF "PES" \in status THEN "disable" ELSE IF "CCS" \in status THEN "reset" ELSE "wait")

Poll(status) ==
    IF "PRSC" \in status \/ tries + 1 = Polls
    THEN /\ pc' = "clrreset" /\ late' = (late \/ "PRSC" \notin status)
         /\ tries' = 0 /\ UNCHANGED <<seen, retry>>
    ELSE pc' = "poll" /\ tries' = tries + 1 /\ UNCHANGED <<seen, retry, late>>

SetupOrder == [device |-> "configuration", configuration |-> "config", config |-> "hub", hub |-> "power"]
HubGets(err, status) ==
    \/ pc \in DOMAIN SetupOrder /\ Hub(IF err = "NoError" THEN SetupOrder[pc] ELSE "stopped")
    \/ pc = "power"    /\ Hub("wait")
    \/ pc = "status"   /\ Port_Chg(status)
    \/ pc = "clear"    /\ IF err = "NoError" /\ "CCS" \in seen THEN Hub("add") ELSE
                          pc' = "wait" /\ seen' = {} /\ UNCHANGED <<tries, retry, late>>
    \/ pc = "add"      /\ Function_Add(status)
    \/ pc = "disable"  /\ IF err # "NoError" THEN Hub("wait") ELSE Hub("reset")
    \/ pc = "reset"    /\ IF err = "NoError" THEN Hub("poll") ELSE Again
    \/ pc = "poll"     /\ Poll(status)
    \/ pc = "clrreset" /\ IF err = "NoError" THEN Hub("look") ELSE Again
    \/ pc = "look"     /\ IF "CCS" \in status THEN Hub("add3") ELSE Again

\* The requests that the driver sends to the port: a feature to set or clear, or its status.
HubRequest ==
    [ power |-> <<"Set", "PORT_POWER">>, status |-> <<"Get", "PORT_STATUS">>,
      clear |-> <<"Clear", "PORT_CLR_CONNECTION">>, add |-> <<"Get", "PORT_STATUS">>,
      disable |-> <<"Clear", "PORT_ENABLE">>, reset |-> <<"Set", "PORT_RESET">>,
      poll |-> <<"Get", "PORT_STATUS">>, clrreset |-> <<"Clear", "PORT_CLR_RESET">>,
      look |-> <<"Get", "PORT_STATUS">> ]

\* Function_Add3() finds out whether the device works (module Hub).
Added ==
    /\ fn = "none" /\ pc = "add3"
    /\ \/ pc' = "wait" /\ retry' = 0 /\ seen' = {} /\ tries' = 0 /\ late' = late
       \/ Again
    /\ UNCHANGED <<kind, regVars, hcdVars, configNr, events, others>>

\* RootHUB_Handle_Chg() answers the interrupt request when a port reports a change.
Interrupt_Read ==
    /\ fn = "none" /\ pc = "wait" /\ Reported # {}
    /\ Hub("status")
    /\ UNCHANGED <<kind, regVars, hcdVars, configNr, events, others>>

-----------------------------------------------------------------------------
(* Stack/RootHUB: which function a request is for. *)

Set_Feature ==
    [ PORT_ENABLE |-> "Port_Set_Enable", PORT_SUSPEND |-> "Port_Set_Suspend",
      PORT_RESET |-> "Port_Set_Reset", PORT_POWER |-> "Port_Set_Power" ]
Clr_Feature ==
    [ PORT_CLR_CONNECTION |-> "Port_Clr_Connection_Chg", PORT_CLR_ENABLE |-> "Port_Clr_Enable_Chg",
      PORT_CLR_SUSPEND |-> "Port_Clr_Suspend_Chg", PORT_CLR_OVER_CURRENT |-> "Port_Clr_OverCurrent_Chg",
      PORT_CLR_RESET |-> "Port_Clr_Reset_Chg" ]
Get_Status == [ PORT_STATUS |-> "Port_Get_Status" ]

Requests == {<<"Set", f>> : f \in DOMAIN Set_Feature} \cup {<<"Clear", f>> : f \in DOMAIN Clr_Feature}
            \cup {<<"Get", "PORT_STATUS">>, <<"Clear", "PORT_ENABLE">>}
FunctionOf(r) ==
    LET table == [Set |-> Set_Feature, Clear |-> Clr_Feature, Get |-> Get_Status][r[1]]
    IN  IF r[2] \in DOMAIN table THEN table[r[2]] ELSE "none"

\* HCD_REPLY(): the hub's driver goes on; what others were answered does not matter here.
Reply(who, err, status) ==
    /\ fn' = "none" /\ by' = "hub" /\ ones' = {} /\ stage' = "write"
    /\ IF who = "hub" THEN HubGets(err, status) ELSE UNCHANGED hubVars

\* A request to a port.  EHCI and OHCI refuse a port that they do not have.  What touches no
\* register answers at once, and so does the status, for which xHCI clears PRC on the way; every
\* other function has read the register and goes on to write it.
AtOnce(f) == f = "Port_Get_Status" \/ (f = "Port_Clr_Reset_Chg" /\ kind # "OHCI")
\* Variant: PortResetChange[] is not reset.
KeepResetFlag(f) == FALSE
ClearResetFlag(f) == f = "Port_Clr_Reset_Chg" /\ kind # "OHCI"
Serve(who, r, inRange) ==
    LET f == FunctionOf(r)
        v == st \cup chg
    IN  /\ fn = "none"
        /\ UNCHANGED <<kind, cached, configNr, events>>
        /\ \/ /\ ~HasFunction(f) /\ Reply(who, "Stall", {}) /\ UNCHANGED <<regVars, flag>>
           \/ /\ HasFunction(f) /\ ~inRange /\ Reply(who, "HostError", {}) /\ UNCHANGED <<regVars, flag>>
           \/ /\ HasFunction(f) /\ inRange /\ AtOnce(f)
              /\ Reply(who, IF ClearResetFlag(f) /\ kind = "EHCI" /\ ~flag THEN "Stall" ELSE "NoError",
                       Port_Get_Status(v))
              /\ flag' = (flag /\ ~ClearResetFlag(f))
              /\ IF kind = "XHCI" /\ ~ClearResetFlag(f) /\ "PRSC" \in chg
                 THEN HardwareWrite(XHCI_Clear_PRC(v)) ELSE UNCHANGED regVars
           \/ /\ HasFunction(f) /\ inRange /\ ~AtOnce(f)
              /\ fn' = f /\ by' = who /\ ones' = Functions(v)[f] /\ stage' = "write"
              /\ UNCHANGED <<regVars, hubVars, flag>>

Hub_Request == pc \in DOMAIN HubRequest /\ Serve("hub", HubRequest[pc], TRUE) /\ UNCHANGED others
Other_Request ==
    /\ others < MaxOthers /\ others' = others + 1
    /\ \E r \in Requests : \E inRange \in BOOLEAN :
         (inRange \/ kind # "XHCI") /\ Serve("other", r, inRange)

\* Requests to the hub itself, before its ports are used: the descriptors, of which a read gets
\* what it has room for, and the configuration.
DescLength == [device |-> 18, configuration |-> 25, hub |-> 8]
Get_Descriptor(d, length) == IF DescLength[d] < length THEN DescLength[d] ELSE length
HUB_Cfg_Nr == 1
Set_Config(value, index, length) ==
    IF <<value, index, length>> = <<HUB_Cfg_Nr, 0, 0>> THEN "NoError" ELSE "Stall"

Control_Read ==
    /\ fn = "none" /\ pc \in DOMAIN DescLength
    /\ HubGets(IF Get_Descriptor(pc, 255) = DescLength[pc] THEN "NoError" ELSE "Short", {})
    /\ UNCHANGED <<kind, regVars, hcdVars, configNr, events, others>>
Control_Write(value) ==
    LET err == Set_Config(value, 0, 0)
    IN  /\ fn = "none" /\ pc = "config"
        /\ configNr' = IF err = "NoError" THEN value ELSE configNr
        /\ HubGets(err, {})
        /\ UNCHANGED <<kind, regVars, hcdVars, events, others>>

-----------------------------------------------------------------------------
(* The functions go on. *)

Write == fn # "none" /\ stage = "write" /\ HardwareWrite(ones)

\* A function that is done when it has written.
PortWrite ==
    /\ Write
    /\ ~(fn = "Port_Set_Reset" /\ kind # "OHCI")
    /\ Reply(by, "NoError", {})
    /\ UNCHANGED <<kind, flag, cached, configNr, events, others>>

Stage(s) == stage' = s /\ UNCHANGED <<fn, by, ones>>

\* Low speed: the port was given to the companion controller.
Disowned ==
    /\ Write /\ kind = "EHCI" /\ fn = "Port_Set_Reset" /\ "LSDA" \in ones
    /\ Reply(by, "OwnershipChange", {})
    /\ UNCHANGED <<kind, flag, cached, configNr, events, others>>

ResetStarted ==
    /\ Write /\ kind # "OHCI" /\ fn = "Port_Set_Reset" /\ ~(kind = "EHCI" /\ "LSDA" \in ones)
    /\ Stage("wait")
    /\ UNCHANGED <<kind, flag, cached, configNr, hubVars, events, others>>

\* EHCI: after 100 ms the register is read and written back, without masking the change bits.
EHCI_ResetRead ==
    /\ kind = "EHCI" /\ stage = "wait"
    /\ ones' = EHCI_Reset_End(st \cup chg) /\ stage' = "release" /\ UNCHANGED <<fn, by>>
    /\ UNCHANGED <<kind, regVars, flag, cached, configNr, hubVars, events, others>>
EHCI_ResetWrite ==
    /\ kind = "EHCI" /\ stage = "release"
    /\ HardwareWrite(ones) /\ stage' = "settle" /\ ones' = {} /\ UNCHANGED <<fn, by>>
    /\ UNCHANGED <<kind, flag, cached, configNr, hubVars, events, others>>

EHCI_Enabled == "PES" \in st

\* 10 ms later: a port that is not enabled has a device of full speed.
EHCI_ResetCheck ==
    /\ kind = "EHCI" /\ stage = "settle"
    /\ UNCHANGED <<kind, regVars, cached, configNr, events, others>>
    /\ \/ "PRS" \in st /\ Reply(by, "Timeout", {}) /\ flag' = flag
       \/ "PRS" \notin st /\ EHCI_Enabled /\ flag' = TRUE /\ Reply(by, "NoError", {})
       \/ /\ "PRS" \notin st /\ ~EHCI_Enabled /\ flag' = flag
          /\ ones' = EHCI_Port_Disown(st \cup chg) /\ stage' = "disown" /\ UNCHANGED <<fn, by, hubVars>>
EHCI_ResetDisown ==
    /\ kind = "EHCI" /\ stage = "disown"
    /\ HardwareWrite(ones) /\ Reply(by, "OwnershipChange", {})
    /\ UNCHANGED <<kind, flag, cached, configNr, events, others>>

\* xHCI: PRC is waited for; what the port was then decides.  A failure returns FALSE, which is
\* USB3Err_NoError.
XHCI_ResetWait ==
    /\ kind = "XHCI" /\ stage = "wait"
    /\ UNCHANGED <<kind, regVars, configNr, events, others>>
    /\ \/ /\ "PRSC" \notin chg /\ Reply(by, "NoError", {}) /\ UNCHANGED <<flag, cached>>
       \/ /\ "PRSC" \in chg
          /\ ones' = XHCI_Clear_PRC(st \cup chg) /\ stage' = "clear"
          /\ cached' = IF "PES" \in st THEN dev ELSE cached
          /\ UNCHANGED <<fn, by, flag, hubVars>>
XHCI_ResetClear ==
    /\ kind = "XHCI" /\ stage = "clear"
    /\ HardwareWrite(ones) /\ flag' = TRUE /\ Reply(by, "NoError", {})
    /\ UNCHANGED <<kind, cached, configNr, events, others>>

Port_Set_Reset ==
    \/ Disowned \/ ResetStarted \/ EHCI_ResetRead \/ EHCI_ResetWrite \/ EHCI_ResetCheck \/ EHCI_ResetDisown
    \/ XHCI_ResetWait \/ XHCI_ResetClear

HCDTask  == PortWrite \/ Port_Set_Reset \/ Interrupt_Read
HubTask  == Hub_Request \/ Added \/ Control_Read \/ Control_Write(HUB_Cfg_Nr)
Hardware == Connect \/ Disconnect \/ PortError \/ ResetDone
Next == HCDTask \/ HubTask \/ Hardware \/ Other_Request

\* The tasks run; nothing is assumed of the hardware.
Spec == Init /\ [][Next]_vars /\ WF_vars(HCDTask \/ HubTask)

-----------------------------------------------------------------------------
(* What is expected of it. *)

TypeOK ==
    /\ kind \in Kinds /\ st \subseteq StateBits /\ chg \subseteq ChgBits /\ dev \in Speeds
    /\ flag \in BOOLEAN /\ cached \in Speeds /\ configNr \in {0, HUB_Cfg_Nr}
    /\ fn \in DOMAIN OHCIFunctions({}) \cup {"none"} /\ by \in {"hub", "other"}
    /\ ones \subseteq StateBits \cup ChgBits
    /\ stage \in {"write", "wait", "release", "settle", "disown", "clear"}
    /\ pc \in DOMAIN HubRequest \cup DOMAIN SetupOrder \cup {"wait", "add3"}
    /\ seen \subseteq StateBits \cup ChgBits /\ tries \in 0..(Polls - 1) /\ retry \in 0..(Retries - 1)
    /\ late \in BOOLEAN /\ events \in 0..MaxEvents /\ others \in 0..MaxOthers

\* The writes that do more than they are asked to: the end of EHCI's reset writes the change
\* bits back that it has read, and OHCI's functions that set a bit the whole register.
Careless ==
    \/ kind = "EHCI" /\ stage = "release"
    \/ kind = "OHCI" /\ fn \in {"Port_Set_Enable", "Port_Set_Suspend"}
    \/ kind = "OHCI" /\ fn = "Port_Set_Power" /\ ones # {}

\* The change bit that a function is there to clear.  PRC is xHCI's own business.
ClearedBy(f) ==
    (CASE f = "Port_Clr_Connection_Chg" -> {"CSC"} [] f = "Port_Clr_Enable_Chg" -> {"PEC"}
       [] f = "Port_Clr_Suspend_Chg" -> {"PSSC"} [] f = "Port_Clr_OverCurrent_Chg" -> {"OCC"}
       [] f = "Port_Clr_Reset_Chg" -> {"PRSC"} [] OTHER -> {})
    \cup IF kind = "XHCI" THEN {"PRSC"} ELSE {}

\* A request changes what it names and nothing else, whatever the hardware does between the read
\* and the write: a change that was not asked to be cleared stays, also one that came meanwhile,
\* only a reset disables a port, and none switches it off (Careless excepted).
WritesAreExact ==
    [][ (HCDTask \/ Hub_Request \/ Other_Request) /\ ~Careless =>
        /\ chg \ chg' \subseteq ClearedBy(fn)
        /\ "PES" \in st \ st' => fn = "Port_Set_Reset"
        /\ "PPS" \in st => "PPS" \in st' ]_vars

\* A device is addressed only after this attempt has reset its port: the port is enabled, and
\* xHCI knows the device's speed, or it has changed since.  A reset change that nobody took must
\* not pass for the one of the next reset, which it does when the driver gave up waiting once:
\* no function clears the change of the reset before it starts one.
AddedAfterReset ==
    pc = "add3" /\ ~late /\ others = 0 =>
        \/ "PES" \in st /\ (kind = "XHCI" => cached = dev)
        \/ chg \cap {"CSC", "PEC"} # {}

\* Connections alone never keep the root hub's interrupt request and its driver busy for ever:
\* in the end there is nothing to report, or something that the driver does not clear.
Resting   == pc = "wait" /\ Reported = {}
Unhandled == Reported \cap {"PEC", "PSSC", "OCC", "PRSC"} # {}
Rests     == <>[]Resting \/ <>[]Unhandled

\* The register is written with care, and a reset is one before a device is addressed.
PortIsSound == WritesAreExact /\ [][AddedAfterReset']_vars

-----------------------------------------------------------------------------
(* Why it is so.                                                              *)

\* A function that goes on is one that the host driver has and that takes more than one step,
\* of a request of the hub's driver the one that this waits for.
FunctionFits ==
    /\ fn # "none" => /\ fn \in {FunctionOf(r) : r \in Requests} /\ HasFunction(fn) /\ ~AtOnce(fn)
                      /\ by = "hub" => pc \in DOMAIN HubRequest /\ fn = FunctionOf(HubRequest[pc])
    /\ stage # "write" =>
          /\ fn = "Port_Set_Reset"
          /\ \/ kind = "EHCI" /\ stage \in {"wait", "release", "settle", "disown"}
             \/ kind = "XHCI" /\ stage \in {"wait", "clear"}
    /\ others = 0 => by = "hub"

RegisterFits ==
    /\ "PSSC" \notin chg /\ (kind = "EHCI" => "PRSC" \notin chg)
    /\ kind = "EHCI" /\ "PES" \in st => st \cap {"PRS", "PO"} = {}
    /\ kind = "OHCI" /\ "PPS" \notin st => st = {}

\* A write of function f sets no change bit that f is not there to clear, and does not disable the
\* port or switch it off, whatever has happened since the register was read.
WriteFits(f, w) ==
    /\ w \cap ChgBits \subseteq ClearedBy(f)
    /\ kind # "OHCI" /\ "PPS" \in st => "PPS" \in w
    /\ kind = "OHCI" => w \cap {"CCS", "LSDA"} = {}
    /\ kind = "EHCI" /\ f # "Port_Set_Reset" /\ "PES" \in st => "PES" \in w /\ w \cap {"PRS", "PO"} = {}
    /\ kind = "XHCI" /\ f # "Port_Set_Reset" => w \cap {"PES", "PRS"} = {}
OnesFit == fn # "none" /\ stage \in {"write", "disown", "clear"} /\ ~Careless => WriteFits(fn, ones)

\* The port is as its last reset left it, or has a change to report.
AsReset == ("PES" \in st /\ (kind = "XHCI" => cached = dev)) \/ chg \cap {"CSC", "PEC"} # {}

\* The end of a reset that is seen is that of the reset the hub's driver waits for.
ThisReset ==
    /\ pc \in {"clrreset", "look", "add3"} => AsReset
    /\ flag => kind # "OHCI" /\ pc \in {"poll", "clrreset"} /\ AsReset
    /\ kind = "OHCI" /\ "PRSC" \in chg => pc \in {"poll", "clrreset"} /\ AsReset
    /\ kind = "OHCI" /\ "PRS" \in st => pc = "poll"
    /\ kind = "OHCI" /\ "PRS" \in ones => fn = "Port_Set_Reset"
    /\ kind = "OHCI" /\ fn = "Port_Clr_Reset_Chg" => "PRSC" \in ones
    /\ "PRS" \in st => "PRSC" \notin chg
    /\ kind = "XHCI" /\ ("PRS" \in st \/ "PRSC" \in chg) =>
          (fn = "Port_Set_Reset" /\ stage \in {"wait", "clear"}) \/ (pc = "poll" /\ ~flag)
    /\ kind = "XHCI" /\ stage = "wait" /\ "PRSC" \in chg => "PES" \in st \/ chg \cap {"CSC", "PEC"} # {}
    /\ kind = "XHCI" /\ stage = "clear" => /\ "PRSC" \in chg /\ AsReset
                                           /\ "PRSC" \in ones /\ ones \cap {"PES", "PRS"} = {}

PortsInvariant ==
    TypeOK /\ FunctionFits /\ RegisterFits /\ OnesFit /\ (others = 0 /\ ~late => ThisReset)

=============================================================================
