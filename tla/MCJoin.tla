------------------------------- MODULE MCJoin -------------------------------
(* One existing control-plane that is also a worker, two new control-      *)
(* planes of which one is a worker and precedes it in the list, two new    *)
(* workers.                                                                *)
EXTENDS Join

CONSTANTS m, k, j, w, v
MCNode == {m, k, j, w, v}
MCControl == {m, k, j}
MCWorker == {m, k, w, v}
MCAddr == [n \in MCNode |-> CASE n = m -> 1 [] n = k -> 2 [] n = j -> 3 [] n = w -> 4 [] n = v -> 5]
MCName == [n \in MCNode |-> n]
MCConfigs == {<<m>>, <<k, m, j, w, v>>}
MCSmallConfigs == {<<m>>, <<k, m, w>>}
=============================================================================
