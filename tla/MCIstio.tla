------------------------------ MODULE MCIstio -------------------------------
(* Three runs: one that fails, its retry, and a reinstallation.            *)
EXTENDS Istio
=============================================================================
