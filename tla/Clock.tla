-------------------------------- MODULE Clock --------------------------------
(***************************************************************************)
(* The clock that services and aggregates read, new Date(), and what is     *)
(* undefined or NULL.                                                       *)
(***************************************************************************)
EXTENDS Naturals

CONSTANTS
    Null,     \* no value, no row, no object
    MaxTime   \* bound of the model: the clock stops here

ASSUME ClockAssumption == MaxTime \in Nat

VARIABLE now

ClockInit == now = 0

Tick == now < MaxTime /\ now' = now + 1
=============================================================================
