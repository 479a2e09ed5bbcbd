---------------------------- MODULE MCHostsFile -----------------------------
(* A fresh file, and one with a name at an old address, a shared line, and  *)
(* both names in comments.                                                  *)
EXTENDS HostsFile, TLC
CONSTANTS n1, n2, a1, a2, a0

MCHosts == (n1 :> a1) @@ (n2 :> a2)
L(a, ns, h) == [addr |-> a, names |-> ns, hidden |-> h]
MCFirstFiles ==
  { << L(a0, {}, {}) >>,
    << L("#", {}, {n2}), L(a0, {n1}, {n2}) >>,
    << L(a0, {n1, n2}, {}), L(a2, {n2}, {}) >> }
=============================================================================
