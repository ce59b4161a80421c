---------------------------- MODULE MCLowerSwitch ----------------------------
(* All switches over three bits with two destinations and a default. *)
EXTENDS LowerSwitch, TLC
CONSTANTS x, y, d
ThreeBlocks == {x, y, d}
Either == BOOLEAN
XY == Permutations({x, y})
==============================================================================
