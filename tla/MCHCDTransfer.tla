--------------------------- MODULE MCHCDTransfer ---------------------------
(* Instances of HCDTransfer for TLC: one function with a control endpoint and  *)
(* a bulk endpoint.                                                            *)
EXTENDS HCDTransfer, TLC

CONSTANTS c1, b1, b2, b3, ctl, blk

\* c1 clears the halt of the bulk endpoint; b1 and b2 transfer on it.
MCEpOf == [r \in Req |-> IF r = c1 THEN ctl ELSE blk]
MCClearEP == [r \in Req |-> IF r = c1 THEN blk ELSE NoEP]

\* b1 and b2 may change places where both have a time-out; for safety only.
Sym == Permutations({b1, b2})
=============================================================================
