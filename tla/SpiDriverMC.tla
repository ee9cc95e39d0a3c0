---------------------------- MODULE SpiDriverMC ----------------------------
(***************************************************************************)
(* SpiDriver on a small pool, for TLC: the second client reserves one      *)
(* element and may take two.                                               *)
(***************************************************************************)
EXTENDS SpiDriver

MCShapes == {<<1, 3>>, <<3, 1>>}

MCOtherSetups == {[reserve |-> 1, max |-> 2]}
=============================================================================
