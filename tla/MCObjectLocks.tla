---------------------------- MODULE MCObjectLocks ----------------------------
(* The instance of ObjectLocks that TLC checks: two drivers, one of which uses *)
(* its interface's endpoint, the other the control endpoint.                    *)
EXTENDS ObjectLocks

CONSTANTS d1, d2

MCDriver      == {d1, d2}
MCOfInterface == {d1}
MCSent        == {<<init, "cep">>, <<d1, "ep">>, <<d2, "cep">>}
=============================================================================
