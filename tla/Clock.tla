--------------------------------- MODULE Clock ---------------------------------
(* The clock of the process, in units of which a life time is a few.        *)
EXTENDS Integers

CONSTANT MaxTime   \* bound on the clock

ASSUME TimeAssumption == MaxTime \in Nat

VARIABLE now

Times == 0..MaxTime

Advance == now < MaxTime /\ now' = now + 1
=============================================================================
