--------------------------------- MODULE MCHub ---------------------------------
(* The instance of Hub that TLC checks: the root hub and a hub on the bus, with *)
(* one port each.                                                               *)
EXTENDS Hub

CONSTANTS
    ext,
    Bounds    \* bound: the plug-ins and the failures that one behaviour may have

MCHubOf  == [p \in 1 .. 2 |-> IF p = 1 THEN root ELSE ext]
MCBounds == {[plugs |-> 2, faults |-> 0], [plugs |-> 1, faults |-> 2]}

Bounded == \E b \in Bounds : plugs' <= b.plugs /\ faults' <= b.faults
MCNext  == Next /\ Bounded
MCSpec  == Init /\ [][MCNext]_vars /\ Fairness
================================================================================
