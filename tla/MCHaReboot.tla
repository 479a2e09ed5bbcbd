----------------------------- MODULE MCHaReboot -----------------------------
(* Two control-planes, or three in an order that makes the third one the    *)
(* management node of an install and a backup of an expansion.              *)
EXTENDS HaReboot

CONSTANTS a, b, c
MCNode == {a, b, c}
MCAddr == [n \in MCNode |-> CASE n = a -> 1 [] n = b -> 3 [] n = c -> 2]
MCName == [n \in MCNode |-> n]
MCConfigs == {<<a, b>>, <<c, b, a>>}
=============================================================================
