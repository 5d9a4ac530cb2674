----------------------------- MODULE HostSchedule -----------------------------
(***************************************************************************)
(* The schedules of the EHCI and OHCI drivers: lists of queue heads (EHCI) or *)
(* endpoint descriptors (OHCI), linked by the HCD task while the controller   *)
(* walks them.  The controller keeps the address of the next element when it  *)
(* has fetched one, so an element that was unlinked may still be visited: the *)
(* memory may be freed only when the controller has let go of it.  EHCI asks   *)
(* with a door bell (and stops waiting after 100 ms), stops the periodic       *)
(* schedule, OHCI waits for the list-filled flag and for 3 ms.                 *)
(*                                                                         *)
(* Interrupt requests hang below a slot of a binary tree; BandWidth[] counts   *)
(* the endpoints of each slot.  A restart of the chip (EHCI, after a host      *)
(* system error) drops all of it.                                             *)
(***************************************************************************)
EXTENDS Integers, FiniteSets

CONSTANTS
    Reqs,        \* requests; each is of an endpoint of its own
    Ctrl, Bulk,  \* the heads of the asynchronous lists (EHCI has only the first)
    NIL,
    Levels,      \* the slot tree has levels 0 .. Levels (7 in EHCI, 5 in OHCI)
    MaxPerSlot,  \* 16 in the code
    MaxRestarts, \* bound: chip restarts
    TypeSets     \* bound: the types of the endpoints in use, a set for each behaviour

ASSUME HostScheduleAssumption ==
    /\ IsFiniteSet(Reqs) /\ Cardinality(Reqs) \in Nat
    /\ TypeSets \subseteq SUBSET {"control", "bulk", "interrupt"}
    /\ Levels \in Nat /\ MaxPerSlot \in Nat \ {0} /\ MaxRestarts \in Nat

Slots == 0 .. (2 ^ (Levels + 1) - 2)
Parent(pos) == ((pos + 1) \div 2) - 1
Heads == {Ctrl, Bulk}
Nodes == Reqs \cup Heads \cup Slots
Lists == {"ctrl", "bulk", "periodic"}
Types == {"control", "bulk", "interrupt"}
NoShape == [typ |-> "control", interval |-> 1]
Idle == [pc |-> "idle", r |-> NIL, adding |-> FALSE]

VARIABLES
    kind,      \* "EHCI" or "OHCI"
    used,      \* the types of the endpoints that are there
    shape,     \* the type and the interval of a request's endpoint
    stat,      \* free, linked or leaving
    todo,      \* the requests with transfer descriptors that are not done
    next,      \* the links, as the processor and the controller see them
    op,        \* what the HCD task does
    sig,       \* its signals IAA and delay
    timer, bell,
    cur, nxt,  \* per list: the element the controller is at, and the link it read there
    periodic,  \* EHCI: the periodic schedule is enabled
    filled,    \* OHCI: the list-filled flags
    slot,      \* Start_Slot of the linked interrupt requests
    BandWidth,
    lost,      \* history: what restarts left in BandWidth
    unsafe,    \* history: freed without knowing that the controller let go
    unanswered,\* history: a door bell was given up
    restart, restarts, halted

swVars == <<shape, stat, next, op, slot, BandWidth>>
hwVars == <<todo, cur, nxt, filled, bell>>
waitVars == <<sig, timer, periodic>>
historyVars == <<lost, unsafe, unanswered>>
chipVars == <<restart, restarts, halted>>
vars == <<kind, used, swVars, hwVars, waitVars, historyVars, chipVars>>

-----------------------------------------------------------------------------
(* The slot tree. *)

LevelOf(s) == CHOOSE l \in 0 .. Levels : 2 ^ l - 1 <= s /\ s < 2 ^ (l + 1) - 1
\* The slots from s up to the root.
Path ==
    [s \in Slots |->
        LET up[l \in 0 .. Levels] ==
                IF l = 0 THEN {s} ELSE LET below == up[l - 1] IN below \cup {Parent(p) : p \in below \ {0}}
        IN  up[Levels]]
Leaves == {s \in Slots : LevelOf(s) = Levels}

\* The sum of f over a set of slots.
Load(S, f) ==
    LET sum[n \in 0 .. Cardinality(Slots)] ==
            IF n = 0 THEN 0 ELSE sum[n - 1] + IF n - 1 \in S THEN f[n - 1] ELSE 0
    IN  sum[Cardinality(Slots)]

\* The level of an interval, and the first of its slots with the least load on its path.
Level(interval) == CHOOSE l \in 0 .. Levels :
    /\ 2 ^ l <= interval \/ l = 0
    /\ \A m \in 0 .. Levels : m > l => 2 ^ m > interval
Slot_Find(interval) ==
    LET candidates == {s \in Slots : LevelOf(s) = Level(interval)}
        cost(s)    == Load(Path[s], BandWidth)
    IN  CHOOSE s \in candidates :
            \A t \in candidates : cost(s) < cost(t) \/ (cost(s) = cost(t) /\ s <= t)
Slot_Take(s) == BandWidth' = [p \in Slots |-> BandWidth[p] + IF p \in Path[s] THEN 1 ELSE 0]
\* Variant: the slots above it are not freed.
Slot_FreeOne(s) == BandWidth' = [BandWidth EXCEPT ![s] = @ - 1]
Slot_Free(s) == BandWidth' = [p \in Slots |-> BandWidth[p] - IF p \in Path[s] THEN 1 ELSE 0]

Enough_Bandwidth == \A p \in Slots : BandWidth[p] < MaxPerSlot

-----------------------------------------------------------------------------
(* The lists. *)

\* Everything that is reached from n, n included.
ReachIn(link, n) ==
    LET hop[k \in 0 .. Cardinality(Nodes)] ==
            IF k = 0 THEN {n} ELSE LET before == hop[k - 1] IN before \cup {link[m] : m \in before \ {NIL}}
    IN  hop[Cardinality(Nodes)] \ {NIL}
Reach(n) == ReachIn(next, n)

ListOfType(t) ==
    IF t = "interrupt" THEN "periodic" ELSE IF kind = "OHCI" /\ t = "bulk" THEN "bulk" ELSE "ctrl"
ListOf(r) == ListOfType(shape[r].typ)
HeadOf(l) == IF l = "bulk" THEN Bulk ELSE Ctrl
StartOf(r) == IF ListOf(r) = "periodic" THEN slot[r] ELSE HeadOf(ListOf(r))

\* What the controller has an address of.
Held == {cur[l] : l \in Lists} \cup {nxt[l] : l \in Lists}

\* The empty lists: the slots lead to the root of the tree, EHCI's head to itself.
EmptyLinks ==
    [n \in Nodes |-> IF n \in Slots THEN IF n = 0 THEN NIL ELSE Parent(n)
                     ELSE IF n = Ctrl /\ kind = "EHCI" THEN Ctrl ELSE NIL]
NotVisiting == [l \in Lists |-> NIL]

Init ==
    /\ kind \in {"EHCI", "OHCI"} /\ used \in TypeSets
    /\ shape = [r \in Reqs |-> NoShape] /\ stat = [r \in Reqs |-> "free"] /\ todo = {}
    /\ next = EmptyLinks /\ op = Idle /\ sig = {} /\ timer = "off" /\ bell = FALSE
    /\ cur = NotVisiting /\ nxt = NotVisiting /\ periodic = TRUE
    /\ filled = [l \in Lists |-> FALSE]
    /\ slot = [r \in Reqs |-> NIL] /\ BandWidth = [s \in Slots |-> 0]
    /\ lost = [s \in Slots |-> 0] /\ unsafe = {} /\ unanswered = FALSE
    /\ restart = FALSE /\ restarts = 0 /\ halted = FALSE

-----------------------------------------------------------------------------
(* The controller. *)

\* It goes to element n of list l, and reads the link and some of the work there.
Visit(l, n) ==
    /\ cur' = [cur EXCEPT ![l] = n]
    /\ nxt' = [nxt EXCEPT ![l] = IF n = NIL THEN NIL ELSE next[n]]
    /\ todo' \in {todo, todo \ IF kind = "OHCI" /\ l # "periodic" THEN {n} ELSE {}}
    /\ filled' = [filled EXCEPT ![l] = (kind = "OHCI" /\ l # "periodic")
                                       /\ (n \in todo \/ (@ /\ cur[l] # NIL))]
    /\ UNCHANGED bell

\* A list that nobody uses has its head only; it is not walked here.
Enabled(l) ==
    /\ ~halted /\ l \in {ListOfType(t) : t \in used}
    /\ l = "periodic" => periodic
    /\ (kind = "OHCI" /\ l # "periodic") => filled[l]

\* It begins a list: the periodic one at the slot of this frame.
Begin(l) ==
    /\ cur[l] = NIL /\ Enabled(l)
    /\ \E n \in IF l = "periodic" THEN Leaves ELSE {HeadOf(l)} : Visit(l, n)
Walk(l) == ~halted /\ cur[l] # NIL /\ Visit(l, nxt[l])

\* EHCI: the answer to the door bell.  Nothing of the list that is not linked is kept.
BellAnswer ==
    /\ bell /\ ~halted
    /\ LET c == IF cur["ctrl"] \in Reach(Ctrl) THEN cur["ctrl"] ELSE Ctrl
       IN  cur' = [cur EXCEPT !["ctrl"] = c] /\ nxt' = [nxt EXCEPT !["ctrl"] = next[c]]
    /\ bell' = FALSE /\ sig' = sig \cup {"IAA"}
    /\ UNCHANGED <<kind, used, swVars, todo, filled, timer, periodic, historyVars, chipVars>>

\* EHCI: a host system error halts it and asks for a restart.
HostSystemError ==
    /\ kind = "EHCI" /\ ~halted /\ restarts < MaxRestarts
    /\ halted' = TRUE /\ restart' = TRUE /\ restarts' = restarts + 1
    /\ UNCHANGED <<kind, used, swVars, hwVars, waitVars, historyVars>>

Controller ==
    \/ /\ \E l \in Lists : Begin(l) \/ Walk(l)
       /\ UNCHANGED <<kind, used, swVars, waitVars, historyVars, chipVars>>
    \/ BellAnswer
    \/ HostSystemError

-----------------------------------------------------------------------------
(* The pieces of the HCD task's work. *)

At(pc) == op.pc = pc
Go(pc) == op' = [op EXCEPT !.pc = pc]

\* The link writes.  New elements come before EHCI's head, at the end of OHCI's lists,
\* and after the head of the slot; the rest of the list is not touched.
After(r) ==
    IF ListOf(r) = "periodic" THEN slot[r]
    ELSE CHOOSE n \in Reach(StartOf(r)) : next[n] \in {NIL, Ctrl}
Insert(r) ==
    /\ next' = [next EXCEPT ![r] = next[After(r)], ![After(r)] = r]
    /\ stat' = [stat EXCEPT ![r] = "linked"]
Before(r) == CHOOSE n \in Reach(StartOf(r)) : next[n] = r
Unlink(r) ==
    /\ next' = [next EXCEPT ![Before(r)] = next[r]]
    /\ stat' = [stat EXCEPT ![r] = "leaving"]

\* The request is free again: its memory goes back to the pool.
\* "known" says whether the driver made sure that the controller has left it.
Done(known) ==
    LET r == op.r
    IN  /\ op' = Idle
        /\ IF op.adding THEN UNCHANGED <<shape, stat, next, slot, todo, unsafe>>
           ELSE /\ stat' = [stat EXCEPT ![r] = "free"] /\ next' = [next EXCEPT ![r] = NIL]
                /\ shape' = [shape EXCEPT ![r] = NoShape] /\ slot' = [slot EXCEPT ![r] = NIL]
                /\ todo' = todo \ {r}
                /\ unsafe' = IF known THEN unsafe ELSE unsafe \cup {r}

-----------------------------------------------------------------------------
(* A request is built and goes to the hardware; it is taken away when it is   *)
(* done, was aborted or timed out.                                            *)

\* Variant: the signals of an earlier door bell are still there.
Door_Bell_InitNothing == sig' = sig
Door_Bell_Init == sig' = sig \ {"IAA", "delay"}

FirstStep(r, adding, s) ==
    LET l == IF s.typ = "interrupt" THEN "periodic" ELSE "async"
    IN  /\ op' = [pc |-> IF kind = "EHCI" THEN IF l = "async" THEN "link" ELSE "stop"
                         ELSE IF l = "async" THEN "empty" ELSE "link",
                  r |-> r, adding |-> adding]
        /\ IF kind = "EHCI" /\ l = "async" THEN Door_Bell_Init ELSE UNCHANGED sig

Add_Request(r, s) ==
    /\ At("idle") /\ ~restart /\ stat[r] = "free"
    /\ s.typ # "interrupt" => s.interval = 1
    /\ (kind = "EHCI" /\ s.typ = "interrupt") => Enough_Bandwidth
    /\ FirstStep(r, TRUE, s)
    /\ shape' = [shape EXCEPT ![r] = s] /\ todo' = todo \cup {r}
    /\ unsafe' = unsafe \ ({r} \ Held)
    /\ IF s.typ = "interrupt"
       THEN slot' = [slot EXCEPT ![r] = Slot_Find(s.interval)] /\ Slot_Take(Slot_Find(s.interval))
       ELSE UNCHANGED <<slot, BandWidth>>
    /\ UNCHANGED <<kind, used, stat, next, cur, nxt, filled, bell, timer, periodic, lost, unanswered, chipVars>>

Transfer_Remove(r) ==
    /\ At("idle") /\ ~restart /\ stat[r] = "linked"
    /\ FirstStep(r, FALSE, shape[r])
    /\ IF shape[r].typ = "interrupt" THEN Slot_Free(slot[r]) ELSE UNCHANGED BandWidth
    /\ UNCHANGED <<kind, used, shape, stat, next, slot, hwVars, timer, periodic, historyVars, chipVars>>

\* EHCI_Periodic_Stop(): it waits until the schedule has stopped, at most for ten seconds.
Periodic_Stop ==
    /\ At("stop") /\ periodic' = FALSE /\ Go("stopped")
    /\ UNCHANGED <<kind, used, shape, stat, next, slot, BandWidth, hwVars, sig, timer, historyVars, chipVars>>

\* OHCI: before a list is changed it must not be about to begin.
FlagClear ==
    /\ At("empty") /\ ~filled[ListOf(op.r)] /\ Go("link")
    /\ UNCHANGED <<kind, used, shape, stat, next, slot, BandWidth, hwVars, waitVars, historyVars, chipVars>>

LinkStep ==
    /\ IF op.adding THEN Insert(op.r) ELSE Unlink(op.r)
    /\ UNCHANGED <<kind, used, shape, BandWidth, slot, hwVars, historyVars, chipVars>>

\* Variant: no timer.
NoTimer == UNCHANGED timer
StartTimer == timer' = "on"

\* EHCI: the links, and then the door bell, with a timer of 100 ms.
EHCI_Async ==
    \/ At("link") /\ kind = "EHCI" /\ Go("ring") /\ LinkStep /\ UNCHANGED waitVars
    \/ /\ At("ring") /\ Go("bell") /\ bell' = TRUE /\ StartTimer
       /\ UNCHANGED <<kind, used, shape, stat, next, slot, BandWidth, todo, cur, nxt, filled, sig, periodic,
                      historyVars, chipVars>>
DoorBellAnswered == At("bell") /\ sig \cap {"IAA", "delay"} # {}
\* IO_STOP() of the timer leaves its signal behind.
Door_Bell_Wait ==
    /\ DoorBellAnswered
    /\ Done("IAA" \in sig /\ ~unanswered)
    /\ unanswered' = (unanswered \/ "IAA" \notin sig)
    /\ sig' = sig \cup {"delay"} /\ timer' = "off"
    /\ UNCHANGED <<kind, used, BandWidth, cur, nxt, filled, bell, periodic, lost, chipVars>>

\* EHCI: the links while the periodic schedule is stopped, and Periodic_Start().
Stopped == cur["periodic"] = NIL
EHCI_Interrupt ==
    \/ /\ At("stopped") /\ (Stopped \/ halted)
       /\ Go("start") /\ LinkStep /\ UNCHANGED waitVars
    \/ /\ At("start") /\ Done(~halted /\ Stopped) /\ periodic' = TRUE
       /\ UNCHANGED <<kind, used, BandWidth, cur, nxt, filled, bell, sig, timer, lost, unanswered, chipVars>>

\* OHCI: the links; the asynchronous lists are said to be filled.  If the descriptors are
\* not all done it waits for 3 ms, which is longer than a frame.
OHCI_Flag(l) == filled' = IF l = "periodic" THEN filled ELSE [filled EXCEPT ![l] = TRUE]
Waits(r) == ~op.adding /\ (ListOf(r) = "periodic" \/ r \in todo)
OHCI_Links ==
    \/ At("link") /\ kind = "OHCI" /\ Go("flag") /\ LinkStep /\ UNCHANGED waitVars
    \/ /\ At("flag") /\ OHCI_Flag(ListOf(op.r))
       /\ IF Waits(op.r) THEN Go("wait") /\ UNCHANGED <<shape, stat, next, slot, todo, unsafe>>
          ELSE Done(FALSE)
       /\ UNCHANGED <<kind, used, BandWidth, cur, nxt, bell, waitVars, lost, unanswered, chipVars>>
    \/ /\ At("wait") /\ (ListOf(op.r) = "periodic" => op.r \notin {cur["periodic"], nxt["periodic"]})
       /\ Done(ListOf(op.r) = "periodic")
       /\ UNCHANGED <<kind, used, BandWidth, cur, nxt, filled, bell, waitVars, lost, unanswered, chipVars>>

TimerExpires ==
    /\ timer = "on" /\ timer' = "off" /\ sig' = sig \cup {"delay"}
    /\ UNCHANGED <<kind, used, swVars, hwVars, periodic, historyVars, chipVars>>

\* The restart: the chip is stopped, the transfers are freed and answered without
\* Slot_Free(), the lists are made anew.  If Chip_Reset() fails nothing else happens.
RestartChip ==
    /\ At("idle") /\ restart /\ restart' = FALSE
    /\ \/ /\ halted' = FALSE /\ next' = EmptyLinks /\ cur' = NotVisiting /\ nxt' = NotVisiting
          /\ stat' = [r \in Reqs |-> "free"] /\ shape' = [r \in Reqs |-> NoShape]
          /\ todo' = {} /\ slot' = [r \in Reqs |-> NIL] /\ bell' = FALSE /\ periodic' = TRUE
          /\ lost' = BandWidth /\ unsafe' = {} /\ unanswered' = FALSE
          /\ UNCHANGED <<filled, op, BandWidth>>
       \/ UNCHANGED <<halted, swVars, hwVars, periodic, historyVars>>
    /\ UNCHANGED <<kind, used, sig, timer, restarts>>

HCDTask ==
    \/ \E r \in Reqs : \/ \E t \in used, i \in 1 .. 2 ^ Levels :
                               Add_Request(r, [typ |-> t, interval |-> i])
                       \/ Transfer_Remove(r)
    \/ RestartChip
HCDWork ==
    \/ Periodic_Stop \/ FlagClear \/ EHCI_Async \/ Door_Bell_Wait \/ EHCI_Interrupt \/ OHCI_Links

Next == Controller \/ HCDTask \/ HCDWork \/ TimerExpires

Walks(l) == Walk(l) /\ UNCHANGED <<kind, used, swVars, waitVars, historyVars, chipVars>>

\* The controller walks its lists, time passes, the HCD task goes on.  Nothing says that a
\* door bell is answered.
Fairness ==
    /\ WF_vars(HCDWork) /\ WF_vars(TimerExpires) /\ WF_vars(RestartChip)
    /\ \A l \in Lists : WF_vars(Walks(l))
Spec == Init /\ [][Next]_vars /\ Fairness

-----------------------------------------------------------------------------
(* Properties. *)

TypeOK ==
    /\ kind \in {"EHCI", "OHCI"} /\ used \in TypeSets
    /\ shape \in [Reqs -> [typ : Types, interval : Nat]]
    /\ stat \in [Reqs -> {"free", "linked", "leaving"}] /\ todo \subseteq Reqs
    /\ next \in [Nodes -> Nodes \cup {NIL}]
    /\ op \in [pc : {"idle", "empty", "stop", "stopped", "link", "ring", "bell", "start", "flag", "wait"},
               r : Reqs \cup {NIL}, adding : BOOLEAN]
    /\ sig \subseteq {"IAA", "delay"} /\ timer \in {"on", "off"}
    /\ {bell, periodic, unanswered, restart, halted} \subseteq BOOLEAN
    /\ cur \in [Lists -> Nodes \cup {NIL}] /\ nxt \in [Lists -> Nodes \cup {NIL}]
    /\ filled \in [Lists -> BOOLEAN] /\ slot \in [Reqs -> Slots \cup {NIL}]
    /\ BandWidth \in [Slots -> Nat] /\ lost \in [Slots -> Nat]
    /\ unsafe \subseteq Reqs /\ restarts \in 0 .. MaxRestarts

\* The memory of a request goes back to the pool only when the controller has let go of it,
\* unless the door bell was given up (EHCI) or never asked (OHCI's asynchronous lists).
HeldNotFreed == \A r \in Reqs : (stat[r] = "free" /\ r \in Held) => (r \in unsafe \/ halted)
\* The searches through the lists always end at the request: it is on the list of its type and
\* on no other, and an interrupt request is met in every frame that passes its slot.
Scheduled ==
    /\ \A r \in Reqs : stat[r] = "linked" =>
          /\ r \in Reach(StartOf(r))
          /\ ListOf(r) = "periodic" => \A f \in Leaves : slot[r] \in Path[f] <=> r \in Reach(f)
    /\ \A h \in Heads \cup Slots : \A r \in Reach(h) \cap Reqs : stat[r] = "linked"
\* BandWidth[] counts the interrupt endpoints whose requests use a slot or one below it, and
\* those that a restart forgot.
Users(p) == {r \in Reqs : slot[r] # NIL /\ p \in Path[slot[r]] /\ (op.r = r => op.adding)}
BandwidthExact == \A p \in Slots : BandWidth[p] = Cardinality(Users(p)) + lost[p]
\* An EHCI slot never has more endpoints than the limit.
BandwidthLimit == kind = "EHCI" => \A p \in Slots : BandWidth[p] <= MaxPerSlot
\* The HCD task never hangs in the EHCI driver.
Returns == []<>(kind = "EHCI" => At("idle"))

\* The lists, the slots and the bandwidth agree with the requests that are linked.
ListsAgree == TypeOK /\ Scheduled /\ BandwidthExact /\ BandwidthLimit

=============================================================================
