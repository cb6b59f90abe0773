--------------------------- MODULE MCCoordinator ---------------------------
(* Coordinator with interchangeable switches and values: no action and no    *)
(* property tells them apart, so their permutations are symmetries.          *)
EXTENDS Coordinator, FiniteSets, TLC

CONSTANTS charging, balancing, on, off

SwitchField == {charging, balancing}

OnOff == {on, off}

Symmetry == Permutations(SwitchField) \union Permutations(OnOff)
=============================================================================
