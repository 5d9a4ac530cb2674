------------------------------ MODULE XHCIReset ------------------------------
(***************************************************************************)
(* Drivers/XHCI/Chip_1_Reset.c: a reset of the xHCI controller that escalates. *)
(* The controller is halted and told to reset (HCRST); while the bit stays set *)
(* the driver switches bus mastering and memory decoding off and on, sends the *)
(* device through D3, resets the function, the bus behind its bridge and the   *)
(* link.  The PCI resets wipe the base addresses and the command register;     *)
(* a device that does not decode its address reads as all ones.                *)
(***************************************************************************)
EXTENDS Naturals

CONSTANTS
    MaxIdx,    \* bridges that are looked at (32)
    MaxBridges \* bound: bridges there are

XHCIResetAssumption == MaxIdx \in Nat /\ MaxBridges \in Nat

Tiers == 0 .. 5   \* HCRST, bus master toggle, power cycle, FLR, SBR, link

VARIABLES
    pc, tier,
    caps,     \* what the device can do: "pm", "flr", "brexp" (the bridge has a PCIe capability)
    bridge,   \* the bridge whose secondary bus is the device's; 0 if there is none
    bridges,  \* how many bridges there are
    idx,      \* the one that is looked at
    owned,    \* bridges that FindDeviceTags() gave and FreeDevice() has not taken back
    run, hch, hce, cnr, hcrst,  \* the bits of USBCMD and USBSTS
    bars, decode,    \* the base addresses are there, memory decoding is on
    saved,    \* the base addresses as they were saved
    held,     \* what holds the device: nothing, "d3", "reset" (its bus) or "down" (its link)
    blind     \* history: a register was written while the device did not decode it

chip   == <<run, hch, hce, cnr, hcrst>>
config == <<bars, decode, held>>
search == <<idx, owned>>
fixed  == <<caps, bridge, bridges>>
vars   == <<pc, tier, fixed, search, chip, config, saved, blind>>

Init ==
    /\ pc = "begin" /\ tier = 0
    /\ caps \in SUBSET {"pm", "flr", "brexp"}
    /\ bridges \in 0 .. MaxBridges /\ bridge \in 0 .. bridges /\ idx = 1 /\ owned = {}
    /\ run \in BOOLEAN /\ hch = ~run /\ hce \in BOOLEAN /\ cnr \in BOOLEAN /\ hcrst = FALSE
    /\ bars = TRUE /\ decode = TRUE /\ saved = FALSE /\ held = "nothing" /\ blind = FALSE

Visible == bars /\ decode /\ held = "nothing"
\* A register bit as the driver reads it.
Read(bit) == IF Visible THEN bit ELSE TRUE

Ended == pc \in {"TRUE", "FALSE"}

-----------------------------------------------------------------------------
(* XHCI_Chip_Reset() up to the first HCRST. *)

Begin ==
    /\ pc = "begin"
    /\ pc' = IF Read(hce) THEN "FALSE" ELSE IF Read(cnr) THEN "grace" ELSE "halt"
    /\ UNCHANGED <<tier, fixed, search, chip, config, saved, blind>>

\* CNR: at most 2000 ms; a reset is tried all the same.
Grace ==
    /\ pc = "grace" /\ pc' = "halt"
    /\ UNCHANGED <<tier, fixed, search, chip, config, saved, blind>>

\* Stop it, and wait for at most 200 ms.
Halt ==
    /\ pc = "halt"
    /\ \/ ~run /\ pc' = "hcrst" /\ UNCHANGED run
       \/ run /\ run' = FALSE /\ pc' = "halted"
    /\ blind' = (blind \/ (run /\ ~Visible))
    /\ UNCHANGED <<tier, fixed, search, hch, hce, cnr, hcrst, config, saved>>
Halted ==
    /\ pc = "halted" /\ pc' = IF Read(hch) THEN "hcrst" ELSE "FALSE"
    /\ UNCHANGED <<tier, fixed, search, chip, config, saved, blind>>

\* USBCMD is set to zero, and to HCRST.
HCRST ==
    /\ pc = "hcrst" /\ pc' = "wait"
    /\ IF Visible THEN run' = FALSE /\ hcrst' = TRUE /\ cnr' = TRUE ELSE UNCHANGED <<run, hcrst, cnr>>
    /\ blind' = (blind \/ ~Visible)
    /\ UNCHANGED <<tier, fixed, search, hch, hce, config, saved>>

\* _hcrst_wait(): at most 200 ms.  While the bit is set the next reset is tried.
Next_Tier ==
    /\ idx' = 1
    /\ IF tier = 5 THEN pc' = "FALSE" /\ UNCHANGED tier ELSE pc' = "pci" /\ tier' = tier + 1
_hcrst_wait ==
    /\ pc = "wait"
    /\ IF Read(hcrst) THEN Next_Tier ELSE pc' = "ready" /\ UNCHANGED <<tier, idx>>
    /\ UNCHANGED <<fixed, owned, chip, config, saved, blind>>

\* Then CNR must be clear after at most 5000 ms.
NowReady == ~Read(cnr)
Ready ==
    /\ pc = "ready"
    /\ \/ NowReady /\ pc' = "zero"
       \/ Read(cnr) /\ pc' = "FALSE"
    /\ UNCHANGED <<tier, fixed, search, chip, config, saved, blind>>
_zero_64b_regs ==
    /\ pc = "zero" /\ pc' = "TRUE" /\ blind' = (blind \/ ~Visible)
    /\ UNCHANGED <<tier, fixed, search, chip, config, saved>>

-----------------------------------------------------------------------------
(* The resets of the PCI device.  A reset wipes base addresses and command. *)

\* A device that cannot: the next reset, without another look at the register.
Skip == pc = "pci" /\ Next_Tier
Wiped == bars' = FALSE /\ decode' = FALSE

_pci_bus_master_toggle ==
    /\ tier = 1
    /\ \/ pc = "pci" /\ pc' = "off" /\ decode' = FALSE
       \/ pc = "off" /\ pc' = "hcrst" /\ decode' = TRUE
    /\ UNCHANGED <<tier, fixed, search, chip, bars, held, saved, blind>>

\* Back in D0 the device may have forgotten its base addresses; only the command is written.
_pci_power_cycle ==
    /\ tier = 2
    /\ \/ /\ pc = "pci" /\ "pm" \notin caps /\ pc' = "hcrst" /\ UNCHANGED config
       \/ /\ pc = "pci" /\ "pm" \in caps /\ pc' = "off" /\ held' = "d3" /\ UNCHANGED <<bars, decode>>
       \/ /\ pc = "off" /\ pc' = "on" /\ held' = "nothing"
          /\ Wiped \/ UNCHANGED <<bars, decode>>
       \/ /\ pc = "on" /\ pc' = "hcrst" /\ decode' = TRUE /\ UNCHANGED <<bars, held>>
    /\ UNCHANGED <<tier, fixed, search, chip, saved, blind>>

\* What the other resets have in common: save, reset, wait, let go, wait, restore.
Restore == bars' = saved /\ decode' = TRUE
Save(what) ==
    /\ saved' = bars /\ Wiped /\ held' = what /\ pc' = "off" /\ UNCHANGED <<tier, idx>>
    /\ \/ UNCHANGED <<cnr, hcrst>>
       \/ hcrst' = FALSE /\ cnr' = TRUE
\* Variant: the line is not released.
KeepHolding == UNCHANGED held
Release == held' = "nothing"
LetGo == pc = "off" /\ pc' = "on" /\ Release /\ UNCHANGED <<tier, idx, bars, decode, saved, cnr, hcrst>>
\* The bit is read again: HCRST is written only if it is still set.
Back == pc = "on" /\ Restore /\ pc' = "again" /\ UNCHANGED <<tier, idx, held, saved, cnr, hcrst>>
Again == pc = "again" /\ pc' = (IF Read(hcrst) THEN "hcrst" ELSE "ready")
         /\ UNCHANGED <<tier, idx, bars, decode, held, saved, cnr, hcrst>>

_pci_flr ==
    /\ tier = 3
    /\ \/ Skip /\ "flr" \notin caps /\ UNCHANGED <<config, saved, cnr, hcrst>>
       \/ pc = "pci" /\ "flr" \in caps /\ Save("nothing")
       \/ LetGo \/ Back \/ Again
    /\ UNCHANGED <<fixed, owned, run, hch, hce, blind>>

\* The search for the bridge.  The devices that are not the one are given back at once.
Look(i) == owned' = IF i = bridge THEN owned \cup {i} ELSE owned
FindBridge ==
    /\ pc = "pci" /\ tier \in {4, 5} /\ bridge \notin owned
    /\ IF idx <= MaxIdx /\ idx <= bridges
       THEN Look(idx) /\ idx' = idx + 1 /\ UNCHANGED <<pc, tier>>
       ELSE Skip /\ UNCHANGED owned
    /\ UNCHANGED <<fixed, chip, config, saved, blind>>

FreeBridge == owned' = owned \ {bridge}
_pci_sbr ==
    /\ tier = 4
    /\ \/ pc = "pci" /\ bridge \in owned /\ Save("reset") /\ UNCHANGED owned
       \/ LetGo /\ UNCHANGED owned
       \/ Back /\ FreeBridge
       \/ Again /\ UNCHANGED owned
    /\ UNCHANGED <<fixed, run, hch, hce, blind>>
_pci_link_disable_enable ==
    /\ tier = 5
    /\ \/ Skip /\ bridge \in owned /\ "brexp" \notin caps /\ FreeBridge /\ UNCHANGED <<config, saved, cnr, hcrst>>
       \/ pc = "pci" /\ bridge \in owned /\ "brexp" \in caps /\ Save("down") /\ UNCHANGED owned
       \/ LetGo /\ UNCHANGED owned
       \/ Back /\ FreeBridge
       \/ Again /\ UNCHANGED owned
    /\ UNCHANGED <<fixed, run, hch, hce, blind>>

-----------------------------------------------------------------------------

\* The chip halts, resets itself and gets ready when it likes, or never.
Chip ==
    /\ ~Ended
    /\ \/ ~run /\ ~hch /\ hch' = TRUE /\ UNCHANGED <<cnr, hcrst>>
       \/ hcrst /\ hcrst' = FALSE /\ hch' = TRUE /\ UNCHANGED cnr
       \/ cnr /\ ~hcrst /\ cnr' = FALSE /\ UNCHANGED <<hch, hcrst>>
    /\ UNCHANGED <<pc, tier, fixed, search, run, hce, config, saved, blind>>

XHCI_Chip_Reset ==
    \/ Begin \/ Grace \/ Halt \/ Halted \/ HCRST \/ _hcrst_wait \/ Ready \/ _zero_64b_regs
    \/ _pci_bus_master_toggle \/ _pci_power_cycle \/ _pci_flr \/ FindBridge \/ _pci_sbr
    \/ _pci_link_disable_enable

Next == XHCI_Chip_Reset \/ Chip
Spec == Init /\ [][Next]_vars

-----------------------------------------------------------------------------
(* Properties. *)

TypeOK ==
    /\ pc \in {"begin", "grace", "halt", "halted", "hcrst", "wait", "ready", "zero", "pci", "off", "on",
               "again", "TRUE", "FALSE"}
    /\ tier \in Tiers /\ idx \in 1 .. MaxBridges + 1 /\ owned \subseteq 1 .. MaxBridges
    /\ {run, hch, hce, cnr, hcrst, bars, decode, saved, blind} \subseteq BOOLEAN
    /\ held \in {"nothing", "d3", "reset", "down"}

\* TRUE is answered only for a controller that is there, halted and ready.
ResetIsTrue == pc = "TRUE" => Visible /\ ~run /\ hch /\ ~hcrst /\ ~cnr
\* Whatever was tried, the device has its base addresses again at the end, unless it lost
\* them on the way through D3 (they are not saved there, and later resets save the loss).
ConfigKept == Ended => decode /\ held = "nothing" /\ (bars \/ (tier >= 2 /\ "pm" \in caps))
\* Registers are written only while the device decodes them, with the same exception.
NoBlindWrite == blind => ~bars /\ "pm" \in caps
\* Every bridge that was found was given back.
BridgesFreed == Ended => owned = {}

\* A reset leaves the device as it was, and the answer is true.
ResetIsSound == TypeOK /\ ResetIsTrue /\ ConfigKept /\ NoBlindWrite /\ BridgesFreed

-----------------------------------------------------------------------------
(* Why it is so: where in the reset the driver is says what the device may be like. *)

\* The way through D3 is the only one on which the base addresses get lost.
MayBeLost == tier >= 2 /\ "pm" \in caps

ConfigByPC ==
    /\ pc \notin {"off", "on"} => decode /\ held = "nothing" /\ (bars \/ MayBeLost)
    /\ pc \in {"off", "on"} /\ tier = 1 => pc = "off" /\ held = "nothing" /\ (bars \/ MayBeLost)
    /\ pc \in {"off", "on"} /\ tier = 2 => "pm" \in caps /\ (pc = "on" => held = "nothing")
    /\ pc \in {"off", "on"} /\ tier > 2 =>
          ~ bars /\ ~ decode /\ (saved \/ MayBeLost) /\ (pc = "on" => held = "nothing")

\* Before it is stopped a controller that runs or has halted; then one that is halted; and
\* in the end one whose reset is over.
ChipByPC ==
    /\ pc \in {"begin", "grace", "halt"} => run \/ hch
    /\ pc = "halted" => ~ run
    /\ pc \notin {"begin", "grace", "halt", "halted", "FALSE"} => ~ run /\ hch
    /\ pc \in {"ready", "zero", "TRUE"} => ~ hcrst
    /\ pc \in {"zero", "TRUE"} => Visible /\ ~ cnr

\* The tier at which a step can be.
TierByPC ==
    /\ pc \in {"begin", "grace", "halt", "halted"} => tier = 0
    /\ pc \in {"pci", "off"} => tier >= 1
    /\ pc = "on" => tier >= 2
    /\ pc = "again" => tier >= 3

\* The bridge is the driver's from the search to the restoring.
BridgeByPC ==
    /\ bridges \in 0 .. MaxBridges /\ bridge \in 0 .. bridges
    /\ owned \subseteq {bridge} /\ 0 \notin owned
    /\ owned # {} => pc \in {"pci", "off", "on"} /\ tier \in {4, 5}

\* What was written blindly was written after the base addresses were lost for good.
BlindForGood == blind => ~ bars /\ "pm" \in caps /\ (tier > 2 /\ pc \in {"off", "on"} => ~ saved)

ResetInvariant == TypeOK /\ ConfigByPC /\ ChipByPC /\ TierByPC /\ BridgeByPC /\ BlindForGood

=============================================================================
