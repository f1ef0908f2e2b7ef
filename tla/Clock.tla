-------------------------------- MODULE Clock --------------------------------
(* The wall clock (qid_core::util::now_seconds) that the login and worker    *)
(* modules read: it never runs backwards and moves at any moment.            *)
EXTENDS Naturals

CONSTANT MaxTime    \* bound: the last second explored

ASSUME ClockAssumption == MaxTime \in Nat

VARIABLE now

Tick == now < MaxTime /\ now' = now + 1
=============================================================================
