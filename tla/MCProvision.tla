---------------------------- MODULE MCProvision ----------------------------
(* A control-plane that may be there already and a node that is new; some  *)
(* steps of both tables, in and out of order.                              *)
EXTENDS Provision

CONSTANTS m, w
MCNode == {m, w}
MCClusters == {{m}, {m, w}}
MCExisting == {m}
MCSelections == {<<4>>, <<5, 9>>, <<10, 5>>}
=============================================================================
