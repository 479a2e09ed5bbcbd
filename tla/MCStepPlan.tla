----------------------------- MODULE MCStepPlan -----------------------------
(* Selections of up to four numbers; 0 and 11 are not steps of an expansion.*)
(* Those of at most one are launched with every settings that differ from   *)
(* the example in at most two places, the longer ones with the example.     *)
EXTENDS Launch

MCNumbers == {0, 1, 2, 3, 9, 11}
MaxVaried == 1
Variations == UNION {{<<f, v>> : v \in Values[f]} : f \in DOMAIN Values}
Varied == {[Example EXCEPT ![a[1]] = a[2], ![b[1]] = b[2]] : a, b \in Variations}
MCOffered(selected) == IF selected <= MaxVaried THEN Varied ELSE {Example}
=============================================================================
