------------------------------ MODULE MCBridge ------------------------------
(* Bridge with interchangeable values, as in MCCoordinator.                  *)
EXTENDS Bridge, TLC

CONSTANTS on, off

OnOff == {on, off}

Symmetry == Permutations(OnOff)
=============================================================================
