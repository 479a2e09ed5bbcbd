------------------------------ MODULE MCHaSync ------------------------------
(* Three control-planes, also workers: every order of all three, both      *)
(* orders of two, and one of those two alone.                              *)
EXTENDS HaSync

CONSTANTS a, b, c
MCNode == {a, b, c}
MCAddr == [n \in MCNode |-> CASE n = a -> 1 [] n = b -> 3 [] n = c -> 2]
MCName == [n \in MCNode |-> n]
MCAll == {<<a, b, c>>, <<a, c, b>>, <<b, a, c>>, <<b, c, a>>, <<c, a, b>>, <<c, b, a>>}
MCConfigs == {<<a>>, <<a, b>>, <<b, a>>} \cup MCAll
=============================================================================
