--------------------------------- MODULE Clock ---------------------------------
(* The monotonic clock the in-memory stores of the ladoo crate read. *)
EXTENDS Naturals

CONSTANT MaxTime    \* bound: ticks

ASSUME ClockAssumption == MaxTime \in Nat

VARIABLE now
=============================================================================
