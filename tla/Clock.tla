-------------------------------- MODULE Clock --------------------------------
(***************************************************************************)
(* block.timestamp, the only clock the contracts have: whole seconds that  *)
(* never run backwards.                                                    *)
(***************************************************************************)
EXTENDS Naturals

CONSTANT MaxTime   \* bound: the last block time explored

ASSUME ClockAssumption == MaxTime \in Nat

VARIABLE now

Passes == now < MaxTime /\ now' = now + 1
=============================================================================
