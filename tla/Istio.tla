------------------------------- MODULE Istio --------------------------------
(***************************************************************************)
(* The steps of a run that wait for the cluster network and install Istio  *)
(* (app/engine/engine.go: installCalico, join's last part, installIstio,   *)
(* ensureIstioReady) with the scripts they start on the management node.   *)
(*                                                                         *)
(* A command of the engine goes over the connection of the management      *)
(* node.  When it times out or the run is cancelled, bounded closes that   *)
(* connection and nothing reopens it within the run; the remote script     *)
(* goes on.                                                                *)
(*                                                                         *)
(* Left out: versions, archives, manifests and the staging of the scripts  *)
(* (they fail or not), and whether a workload is healthy at the end: a     *)
(* rollout or an endpoint query answers yes or no.  Assumed: the operator  *)
(* starts the next run when no script is left on the host (README.MD:113). *)
(***************************************************************************)
EXTENDS Integers, FiniteSets

CONSTANT MaxRuns    \* bound on the number of runs

ASSUME IstioAssumption == MaxRuns \in Nat

VARIABLES
  pc,         \* what the engine does or waits for
  goal,       \* the step of the run: "calico", "join" or "istio"
  check,      \* which of the three network checks
  round,      \* ensureIstioReady: recoveries begun
  call,       \* a command of the engine is under way
  expired,    \* the deadline of waitForIstiodEndpoints has passed
  conn,       \* the connection to the management node
  cancelled,  \* e.ctx has ended
  script,     \* the step the script on the host is at
  mode,       \* its variable mode, the storage it found or chose
  loki,       \* storage of the StatefulSet loki
  class,      \* there is a default StorageClass
  applied,    \* what this run's scripts have applied
  seen,       \* what was seen ready since the last change of istiod
  runs        \* number of runs started

engine == <<pc, goal, check, round>>
comm   == <<call, expired, conn>>
storage == <<mode, loki, class>>
vars == <<engine, comm, cancelled, script, storage, applied, seen, runs>>

Queries == {"net", "istiod", "endpoints", "gateway"}
Commands == Queries \cup {"install", "restart"}
Idle == pc \in {"idle", "done"}

(* istio/install.sh in its order, and calico/install.sh.                   *)
Following == [calico |-> "none", istioctl |-> "addons", addons |-> "lokiRead",
              lokiRead |-> "lokiClass", lokiClass |-> "lokiApply", lokiApply |-> "rest",
              rest |-> "none"]
IstioParts == {"istioctl", "addons", "lokiApply", "rest"}
Evidence == {"istiod", "endpoints", "gateway"}

Flags == {call, expired, cancelled, class} \subseteq BOOLEAN
TypeOK ==
  /\ pc \in Commands \cup {"idle", "done"} /\ goal \in {"calico", "join", "istio"}
  /\ check \in 1..3 /\ round \in 0..2
  /\ Flags /\ conn \in {"open", "lost"}
  /\ script \in {"none"} \cup DOMAIN Following
  /\ mode \in {"none", "persistent", "ephemeral"} /\ loki \in {"none", "persistent", "ephemeral"}
  /\ applied \subseteq DOMAIN Following /\ seen \subseteq Evidence
  /\ runs \in 0..MaxRuns
  /\ goal = "join" => pc \in {"net", "idle", "done"}

Init ==
  /\ pc = "idle" /\ goal = "istio" /\ check = 1 /\ round = 0
  /\ call = FALSE /\ expired = FALSE /\ conn = "open" /\ cancelled = FALSE
  /\ script = "none" /\ mode = "none" /\ loki = "none" /\ class \in BOOLEAN
  /\ applied = {} /\ seen = {} /\ runs = 0

-----------------------------------------------------------------------------
(* A run that reaches one of the steps; connect has opened a connection.   *)
Begin(g) ==
  /\ Idle /\ runs < MaxRuns /\ script = "none"
  /\ goal' = g /\ pc' = IF g = "calico" THEN "install" ELSE "net"
  /\ check' = 1 /\ round' = 0
  /\ call' = FALSE /\ expired' = FALSE /\ conn' = "open" /\ cancelled' = FALSE
  /\ applied' = {} /\ seen' = {} /\ runs' = runs + 1
  /\ UNCHANGED <<script, storage>>

Cancel ==
  /\ ~Idle /\ ~cancelled /\ cancelled' = TRUE
  /\ UNCHANGED <<engine, comm, script, storage, applied, seen, runs>>

-----------------------------------------------------------------------------
(* How the engine goes on.                                                 *)

(* After the last check: Istio's installer, the next step or the end.      *)
NetReady ==
  \/ goal = "istio" /\ pc' = "install" /\ UNCHANGED goal
  \/ goal = "calico" /\ goal' = "istio" /\ UNCHANGED pc
  \/ goal # "istio" /\ pc' = "done" /\ UNCHANGED goal

(* Mutant: one check too many.                                             *)
NetPassedOffByOne ==
  /\ pc = "net" /\ UNCHANGED round
  /\ check' = IF check > 3 THEN 1 ELSE check + 1
  /\ IF check <= 3 THEN UNCHANGED <<pc, goal>> ELSE NetReady

(* waitForClusterNetworkReady: calico-node, the nodes, CoreDNS.            *)
NetPassed ==
  /\ pc = "net" /\ UNCHANGED round
  /\ check' = IF check = 3 THEN 1 ELSE check + 1
  /\ IF check < 3 THEN UNCHANGED <<pc, goal>> ELSE NetReady

(* Mutant: after the gateway's recovery istiod is not waited for again.    *)
PassedShort ==
  \/ NetPassed
  \/ /\ pc # "net" /\ UNCHANGED <<goal, check, round>>
     /\ pc' = CASE pc = "istiod" -> "endpoints" [] pc = "endpoints" -> "gateway"
                [] pc = "gateway" -> "done" [] pc = "restart" -> IF round = 2 THEN "gateway" ELSE "istiod"

(* ensureIstioReady: istiod, its endpoints, the gateway; from the          *)
(* beginning after each restart.                                           *)
Passed ==
  \/ NetPassed
  \/ /\ pc # "net" /\ UNCHANGED <<goal, check, round>>
     /\ pc' = CASE pc = "istiod" -> "endpoints" [] pc = "endpoints" -> "gateway"
                [] pc = "gateway" -> "done" [] pc = "restart" -> "istiod"

(* istiod is restarted when it fails the first time, and when the gateway  *)
(* fails; any other error ends the run.                                    *)
Failed ==
  /\ UNCHANGED <<goal, check>>
  /\ IF pc \in {"istiod", "endpoints"} /\ round = 0 THEN pc' = "restart" /\ round' = 1
     ELSE IF pc = "gateway" /\ round < 2 THEN pc' = "restart" /\ round' = 2
     ELSE pc' = "idle" /\ UNCHANGED round

-----------------------------------------------------------------------------
(* Commands of the engine.                                                 *)
Usable == conn = "open" /\ ~cancelled

(* A script is transferred and started; StageFails when it cannot be.      *)
Send ==
  /\ pc \in Commands /\ ~call /\ Usable /\ (pc = "endpoints" => ~expired)
  /\ call' = TRUE
  /\ script' = IF pc # "install" THEN script ELSE IF goal = "calico" THEN "calico" ELSE "istioctl"
  /\ UNCHANGED <<engine, expired, conn, cancelled, storage, applied, seen, runs>>

StageFails ==
  /\ pc = "install" /\ ~call /\ Failed
  /\ UNCHANGED <<comm, cancelled, script, storage, applied, seen, runs>>

(* A command over a lost connection, or after the end of its context,      *)
(* fails at once.                                                          *)
Refused ==
  /\ pc \in Commands \ {"endpoints"} /\ ~call /\ ~Usable /\ Failed
  /\ UNCHANGED <<comm, cancelled, script, storage, applied, seen, runs>>

Answered ==
  /\ pc \in Queries \cup {"restart"} /\ call /\ Passed
  /\ call' = FALSE /\ expired' = FALSE
  /\ seen' = IF pc = "restart" THEN {} ELSE seen \cup ({pc} \cap Evidence)
  /\ UNCHANGED <<conn, cancelled, script, storage, applied, runs>>

AnsweredError ==
  /\ pc \in (Queries \cup {"restart"}) \ {"endpoints"} /\ call /\ Failed
  /\ call' = FALSE
  /\ UNCHANGED <<expired, conn, cancelled, script, storage, applied, seen, runs>>

(* waitForIstiodEndpoints: no address yet, or an error: another poll, over *)
(* a lost connection too, until the deadline.                              *)
NoEndpoints ==
  /\ pc = "endpoints" /\ call /\ call' = FALSE
  /\ UNCHANGED <<engine, expired, conn, cancelled, script, storage, applied, seen, runs>>

(* Mutant: every poll has a deadline of its own.                           *)
ExpirePerPoll ==
  /\ pc = "endpoints" /\ ~expired /\ call /\ expired' = TRUE
  /\ UNCHANGED <<engine, call, conn, cancelled, script, storage, applied, seen, runs>>

Expire ==
  /\ pc = "endpoints" /\ ~expired /\ expired' = TRUE
  /\ UNCHANGED <<engine, call, conn, cancelled, script, storage, applied, seen, runs>>

PollsEnd ==
  /\ pc = "endpoints" /\ ~call /\ (expired \/ cancelled) /\ Failed
  /\ expired' = FALSE
  /\ UNCHANGED <<call, conn, cancelled, script, storage, applied, seen, runs>>

(* bounded, on a command's timeout, the deadline of the polls or a         *)
(* cancellation: it closes the connection.  A poll is then repeated until  *)
(* the deadline; anything else has failed.                                 *)
GiveUp ==
  /\ call /\ call' = FALSE /\ conn' = "lost"
  /\ IF pc = "endpoints" /\ ~expired THEN UNCHANGED <<engine, expired>> ELSE Failed /\ expired' = FALSE
  /\ UNCHANGED <<cancelled, script, storage, applied, seen, runs>>

-----------------------------------------------------------------------------
(* The scripts.  What the engine does with the end of a script it waits    *)
(* for: installIstio looks at its context first, then at the error.        *)

(* Mutant: an installer error is left to the readiness checks.             *)
ScriptReturnsHidden(ok) ==
  /\ script' = "none"
  /\ IF call THEN /\ call' = FALSE /\ UNCHANGED <<goal, check, round>>
                  /\ pc' = IF cancelled THEN "idle" ELSE IF goal = "calico" THEN "net" ELSE "istiod"
             ELSE UNCHANGED <<engine, call>>

ScriptReturns(ok) ==
  /\ script' = "none"
  /\ IF call THEN /\ call' = FALSE /\ UNCHANGED <<goal, check, round>>
                  /\ pc' = IF cancelled \/ ~ok THEN "idle"
                           ELSE IF goal = "calico" THEN "net" ELSE "istiod"
             ELSE UNCHANGED <<engine, call>>

(* The next step of the script, or its end.                                *)
ScriptGoesOn ==
  IF Following[script] = "none" THEN ScriptReturns(TRUE)
  ELSE script' = Following[script] /\ UNCHANGED <<engine, call>>

Apply ==
  /\ script \in {"calico", "istioctl", "addons", "rest"}
  /\ applied' = applied \cup {script}
  /\ seen' = IF script = "istioctl" THEN {} ELSE seen
  /\ ScriptGoesOn
  /\ UNCHANGED <<expired, conn, cancelled, storage, runs>>

(* Mutant: the storage is chosen as for a new deployment.                  *)
LokiReadNothing ==
  /\ script = "lokiRead" /\ mode' = "none" /\ ScriptGoesOn
  /\ UNCHANGED <<expired, conn, cancelled, loki, class, applied, seen, runs>>

(* loki-storage.sh: an existing StatefulSet keeps its storage; otherwise   *)
(* the default StorageClass decides.                                       *)
LokiRead ==
  /\ script = "lokiRead" /\ mode' = loki /\ ScriptGoesOn
  /\ UNCHANGED <<expired, conn, cancelled, loki, class, applied, seen, runs>>

LokiClass ==
  /\ script = "lokiClass"
  /\ mode' = IF mode # "none" THEN mode ELSE IF class THEN "persistent" ELSE "ephemeral"
  /\ ScriptGoesOn
  /\ UNCHANGED <<expired, conn, cancelled, loki, class, applied, seen, runs>>

(* The API server refuses another volumeClaimTemplates.                    *)
LokiApply ==
  /\ script = "lokiApply" /\ loki \in {"none", mode}
  /\ loki' = mode /\ applied' = applied \cup {script} /\ ScriptGoesOn
  /\ UNCHANGED <<expired, conn, cancelled, mode, class, seen, runs>>

ScriptFails ==
  /\ script # "none" /\ ScriptReturns(FALSE)
  /\ UNCHANGED <<expired, conn, cancelled, storage, applied, seen, runs>>

(* The operator: storage comes and goes; Istio is removed between runs.    *)
SetClass ==
  /\ class' = ~class
  /\ UNCHANGED <<engine, comm, cancelled, script, mode, loki, applied, seen, runs>>

Uninstall ==
  /\ Idle /\ script = "none" /\ loki # "none" /\ loki' = "none"
  /\ UNCHANGED <<engine, comm, cancelled, script, mode, class, applied, seen, runs>>

Engine == Send \/ Refused \/ PollsEnd \/ GiveUp
Next ==
  \/ Engine \/ Expire \/ Cancel \/ StageFails \/ Answered \/ AnsweredError \/ NoEndpoints
  \/ Apply \/ LokiRead \/ LokiClass \/ LokiApply \/ ScriptFails \/ SetClass \/ Uninstall
  \/ \E g \in {"calico", "join", "istio"} : Begin(g)

(* Every command has a deadline, and so have the polls.  Neither scripts   *)
(* nor the cluster are relied on.                                          *)
Fairness == WF_vars(Engine) /\ WF_vars(Expire)
Spec == Init /\ [][Next]_vars /\ Fairness

-----------------------------------------------------------------------------
(* docs/online-containerd-plan.md:86-88, "Any installer error now          *)
(* terminates the step, including timeout; readiness recovery only runs    *)
(* after script success": istiod is neither waited for nor restarted while *)
(* an installer, of this run or an earlier one, is at work, nor after one  *)
(* that did not apply everything.                                          *)
RecoveryAfterInstall ==
  pc \in {"istiod", "endpoints", "gateway", "restart"} => script = "none" /\ IstioParts \subseteq applied

(* A run that succeeds has applied all of Istio itself, and has seen       *)
(* istiod, its endpoints and the gateway ready after the last restart of   *)
(* istiod, whichever of the recoveries it went through.                    *)
SuccessVerified ==
  [][pc' = "done" /\ ~Idle /\ goal = "istio" => IstioParts \subseteq applied' /\ seen' = Evidence]_vars

(* README.MD:121-122, "Existing Loki deployments retain their storage      *)
(* type": no script asks for another one - the API server would refuse -   *)
(* although StorageClasses come and go between and during the runs, and    *)
(* earlier runs ended anywhere.                                            *)
LokiRetained == script = "lokiApply" /\ loki # "none" => mode = loki

(* Why these hold: the inductive invariant of their proofs.                *)

(* A script of this run is awaited, or the run is over.                    *)
Awaited ==
  /\ call => ~Idle /\ conn = "open"
  /\ script # "none" => Idle \/ (pc = "install" /\ call)
  /\ pc = "install" /\ call => script # "none" /\ goal # "join"
  /\ script # "none" => (script = "calico" <=> goal = "calico") /\ goal # "join"

(* What a script has applied where it stands.                              *)
Progress ==
  /\ script \in {"addons", "lokiRead", "lokiClass", "lokiApply", "rest"} => "istioctl" \in applied
  /\ script \in {"lokiRead", "lokiClass", "lokiApply", "rest"} => "addons" \in applied
  /\ script = "rest" => "lokiApply" \in applied
  /\ pc \in {"istiod", "endpoints", "gateway", "restart"} => goal = "istio"

(* What has been seen where ensureIstioReady stands.                       *)
Observed ==
  /\ pc \in {"endpoints", "gateway"} => "istiod" \in seen
  /\ pc = "gateway" => "endpoints" \in seen

ModeFound == script \in {"lokiClass", "lokiApply"} /\ loki # "none" => mode = loki

IInv == TypeOK /\ Awaited /\ Progress /\ Observed /\ ModeFound /\ RecoveryAfterInstall

-----------------------------------------------------------------------------
(* A run ends although neither a script nor the API server ever answers    *)
(* and istiod never has an endpoint.                                       *)
RunEnds == ~Idle ~> Idle

(* engine.go:240, "istiod is not ready, restarting it", and node.go:230,   *)
(* "reconnect before retrying": the recovery of a run that was not         *)
(* cancelled has a connection over which it can restart istiod.            *)
RecoveryReachesHost == pc = "restart" /\ ~cancelled => conn = "open"
=============================================================================
