----------------------------- MODULE Provision -----------------------------
(***************************************************************************)
(* Runs that provision hosts: the step plan of a run (StepPlan) and the    *)
(* steps that Engine runs on all new nodes in parallel - init, containerd, *)
(* kubeadm, Kubernetes images - with the guards and the effects of their   *)
(* install scripts, up to the join that uses what they leave behind.       *)
(*                                                                         *)
(* A script changes a host in two effects: the component is first taken    *)
(* out of the state it was in (files replaced, service stopped) and is     *)
(* "half" there, which may or may not do for what builds on it; then it is *)
(* ready.  A script can fail before each, and it goes on when the tool     *)
(* stops waiting for it.  A join is half done once there is a kubelet.conf *)
(* and ready once the node is registered.                                  *)
(*                                                                         *)
(* Left out: versions and downloads (a script fails or not), the steps     *)
(* that install no part of a node, which nodes join in parallel (Join).    *)
(* Assumed of the operator: the next run starts when no script is left.    *)
(***************************************************************************)
EXTENDS StepPlan, FiniteSets

CONSTANTS Node,
          Clusters,    \* the node sets that may be listed
          Existing,    \* nodes of a cluster that may already be there
          Selections,  \* values of --step
          MaxRuns      \* bound on the number of runs

ASSUME ProvisionAssumption ==
  /\ Clusters \subseteq SUBSET Node /\ Existing \subseteq Node
  /\ Selections \subseteq Seq(Int) /\ MaxRuns \in Nat

VARIABLES
  host,       \* what is on each host: parts of a node, and aliases in /etc/hosts
  script,     \* the install script that runs on it
  mode, cfg,  \* "install" or "update", e.nodes
  plan,       \* numbers of the steps left, the current one first
  pc,         \* "idle", "next" (between steps), "step", "done"
  new,        \* nodes with IsNew
  task,       \* the goroutine of the current step for each node
  discovered, \* check new has succeeded in this run
  whole,      \* the run, with those it resumes, executes all steps
  subject,    \* the nodes that these runs found new
  runs        \* number of runs started

engine == <<mode, cfg, plan, pc, new, task, discovered>>
ghost  == <<whole, subject, runs>>
vars   == <<host, script, engine, ghost>>

Parts == {"init", "containerd", "kubeadm", "images", "join"}
Host == [part : [Parts -> {"none", "half", "ready"}], names : SUBSET Node]
Bare == [part |-> [p \in Parts |-> "none"], names |-> {}]
Complete == [part |-> [p \in Parts |-> "ready"], names |-> Node]

Has(n, p) == host[n].part[p] = "ready"
MayHave(n, p) == host[n].part[p] # "none"
Joined(n) == MayHave(n, "join")                \* /etc/kubernetes/kubelet.conf
Idle == pc \in {"idle", "done"}
Step == Table(mode)[Head(plan)]
NoTasks == [n \in Node |-> "none"]

TypeOK ==
  /\ host \in [Node -> Host] /\ script \in [Node -> {"none", "running", "half"}]
  /\ mode \in {"install", "update"} /\ cfg \in Clusters
  /\ Elems(plan) \subseteq DOMAIN Table(mode)
  /\ pc \in {"idle", "next", "step", "done"} /\ (pc = "step" => plan # <<>>)
  /\ new \subseteq cfg
  /\ task \in [Node -> {"none", "queued", "wait", "hosts", "ok", "failed"}]
  /\ discovered \in BOOLEAN /\ whole \in BOOLEAN /\ subject \subseteq Node
  /\ runs \in 0..MaxRuns

Init ==
  /\ \E old \in {{}, Existing} : host = [n \in Node |-> IF n \in old THEN Complete ELSE Bare]
  /\ script = NoTasks /\ task = NoTasks
  /\ mode = "install" /\ cfg \in Clusters /\ plan = <<>> /\ pc = "idle" /\ new = {}
  /\ discovered = FALSE /\ whole = FALSE /\ subject = {} /\ runs = 0

-----------------------------------------------------------------------------
(* The install scripts.                                                    *)

(* Mutant: containerd and kubeadm are installed on any host.               *)
AcceptsJoined(p, n) ==
  CASE p = "init" -> ~Joined(n) /\ ~Has(n, "containerd")
    [] p = "images" -> MayHave(n, "kubeadm") /\ MayHave(n, "containerd")
    [] p = "join" -> ~Joined(n) /\ \A q \in {"init", "containerd", "kubeadm"} : MayHave(n, q)
    [] OTHER -> TRUE

(* What a script - for a join, kubeadm's preflight - wants of its host.    *)
Accepts(p, n) ==
  CASE p = "init" -> ~Joined(n) /\ ~Has(n, "containerd")
    [] p \in {"containerd", "kubeadm"} -> ~Joined(n)
    [] p = "images" -> MayHave(n, "kubeadm") /\ MayHave(n, "containerd")
    [] p = "join" -> ~Joined(n) /\ \A q \in {"init", "containerd", "kubeadm"} : MayHave(n, q)

(* Images that are present stay; the rest is taken down and put up again.  *)
Change(n) ==
  /\ script[n] = "running"
  /\ host' = IF Step = "images" /\ Has(n, "images")
               THEN host ELSE [host EXCEPT ![n].part[Step] = "half"]
  /\ script' = [script EXCEPT ![n] = "half"]
  /\ UNCHANGED <<engine, ghost>>

Ends(n, result) ==
  /\ script' = [script EXCEPT ![n] = "none"]
  /\ task' = [task EXCEPT ![n] = IF @ # "wait" THEN @
                                 ELSE IF result = "ok" /\ Step = "init" THEN "hosts" ELSE result]
  /\ UNCHANGED <<mode, cfg, plan, pc, new, discovered, ghost>>

ScriptEnds(n) ==
  /\ script[n] = "half" /\ Ends(n, "ok")
  /\ host' = [host EXCEPT ![n].part[Step] = "ready"]

ScriptFails(n) ==
  /\ script[n] # "none" /\ Ends(n, "failed")
  /\ \/ UNCHANGED host
     \/ /\ Step = "join" /\ script[n] = "half"      \* after the registration
        /\ host' = [host EXCEPT ![n].part[Step] = "ready"]

(* The operator clears a host whose join failed half way.                  *)
Reset(n) ==
  /\ Idle /\ script[n] = "none" /\ host[n].part["join"] = "half"
  /\ host' = [host EXCEPT ![n].part["join"] = "none"]
  /\ UNCHANGED <<script, engine, ghost>>

-----------------------------------------------------------------------------
(* The beginning and the end of a run.                                     *)
Begin(m, c, numbers, isWhole, nodes) ==
  /\ Idle /\ runs < MaxRuns /\ \A n \in Node : script[n] = "none"
  /\ numbers # <<>>
  /\ mode' = m /\ cfg' = c /\ new' = c /\ plan' = numbers /\ pc' = "next"
  /\ task' = NoTasks /\ discovered' = FALSE
  /\ whole' = isWhole /\ subject' = nodes /\ runs' = runs + 1
  /\ UNCHANGED <<host, script>>

(* All steps, or those that --step selects.                                *)
StartAll(m, c) == Begin(m, c, All(m), TRUE, IF m = "install" THEN c ELSE {})
StartSome(m, c, sel) == Begin(m, c, Plan(m, sel), FALSE, {})

(* The step that failed and all after it, with the same node list.         *)
Resume ==
  /\ pc = "idle" /\ plan # <<>> /\ whole
  /\ Begin(mode, cfg, Plan(mode, plan), TRUE, subject)

(* An error or the operator's ^C: the current step is not done.            *)
Stop ==
  /\ pc' = "idle" /\ task' = NoTasks
  /\ UNCHANGED <<host, script, mode, cfg, plan, new, discovered, ghost>>

Cancel == ~Idle /\ plan # <<>> /\ Stop

Finish ==
  /\ pc = "next" /\ plan = <<>>
  /\ pc' = "done"
  /\ UNCHANGED <<host, script, mode, cfg, plan, new, task, discovered, ghost>>

-----------------------------------------------------------------------------
(* Step.install.                                                           *)
EnterStep ==
  /\ pc = "next" /\ plan # <<>>
  /\ pc' = "step"
  /\ task' = [n \in Node |-> IF Step \in Parts /\ n \in new THEN "queued" ELSE "none"]
  /\ UNCHANGED <<host, script, mode, cfg, plan, new, discovered, ghost>>

StepDone == plan' = Tail(plan) /\ pc' = "next" /\ task' = NoTasks

(* Mutant: discovery looks at every node there is.                         *)
CheckNewAll ==
  /\ pc = "step" /\ Step = "check"
  /\ \E n \in cfg \cap Existing : Has(n, "join")
  /\ new' = {n \in Node : ~Has(n, "join")} /\ discovered' = TRUE
  /\ subject' = IF whole THEN subject \cup new' ELSE subject
  /\ StepDone
  /\ UNCHANGED <<host, script, mode, cfg, whole, runs>>

(* checkNew needs a registered control-plane, and may refuse the cluster.  *)
CheckNew ==
  /\ pc = "step" /\ Step = "check"
  /\ \E n \in cfg \cap Existing : Has(n, "join")
  /\ new' = {n \in cfg : ~Has(n, "join")} /\ discovered' = TRUE
  /\ subject' = IF whole THEN subject \cup new' ELSE subject
  /\ StepDone
  /\ UNCHANGED <<host, script, mode, cfg, whole, runs>>

PlainStep ==
  /\ pc = "step" /\ Step \in {"connect", "plain"}
  /\ StepDone
  /\ UNCHANGED <<host, script, mode, cfg, new, discovered, ghost>>

StepFails == pc = "step" /\ Step \notin Parts /\ Stop

(* One goroutine per new node; the join takes them one after the other.    *)
RunScript(n) ==
  /\ pc = "step" /\ task[n] = "queued"
  /\ Step = "join" => \A m \in Node : task[m] \notin {"wait", "failed"}
  /\ \/ /\ Accepts(Step, n)
        /\ script' = [script EXCEPT ![n] = "running"]
        /\ task' = [task EXCEPT ![n] = "wait"]
     \/ task' = [task EXCEPT ![n] = "failed"] /\ UNCHANGED script
  /\ UNCHANGED <<host, mode, cfg, plan, pc, new, discovered, ghost>>

(* init goes on with one /etc/hosts entry per configured node, in the      *)
(* order in which Go happens to iterate over the map.                      *)
AddHost(n, m) ==
  /\ pc = "step" /\ task[n] = "hosts" /\ m \in cfg \ host[n].names
  /\ host' = [host EXCEPT ![n].names = @ \cup {m}]
  /\ UNCHANGED <<script, engine, ghost>>

HostsDone(n) ==
  /\ pc = "step" /\ task[n] = "hosts"
  /\ \/ cfg \subseteq host[n].names /\ task' = [task EXCEPT ![n] = "ok"]
     \/ task' = [task EXCEPT ![n] = "failed"]
  /\ UNCHANGED <<host, script, mode, cfg, plan, pc, new, discovered, ghost>>

(* The command timeout: the tool no longer waits for the script.           *)
TimesOut(n) ==
  /\ task[n] = "wait"
  /\ task' = [task EXCEPT ![n] = "failed"]
  /\ UNCHANGED <<host, script, mode, cfg, plan, pc, new, discovered, ghost>>

Returned ==
  \/ \A n \in Node : task[n] \in {"none", "ok", "failed"}
  \/ Step = "join" /\ \E n \in Node : task[n] = "failed"

(* Mutant: the error of a goroutine is lost, at least of one whose script  *)
(* has ended.                                                              *)
StepReturnsNil ==
  /\ pc = "step" /\ Step \in Parts /\ Returned /\ \A n \in Node : script[n] = "none"
  /\ StepDone /\ UNCHANGED <<host, script, mode, cfg, new, discovered, ghost>>

(* eg.Wait: the step ends when every goroutine has, with an error if one   *)
(* of them failed.                                                         *)
StepReturns ==
  /\ pc = "step" /\ Step \in Parts /\ Returned
  /\ IF \E n \in Node : task[n] = "failed"
       THEN Stop
       ELSE StepDone /\ UNCHANGED <<host, script, mode, cfg, new, discovered, ghost>>

Next ==
  \/ \E m \in {"install", "update"}, c \in Clusters :
       StartAll(m, c) \/ \E sel \in Selections : StartSome(m, c, sel)
  \/ Resume \/ Cancel \/ Finish
  \/ EnterStep \/ CheckNew \/ PlainStep \/ StepFails \/ StepReturns
  \/ \E n \in Node :
       \/ Change(n) \/ ScriptEnds(n) \/ ScriptFails(n) \/ Reset(n)
       \/ RunScript(n) \/ HostsDone(n) \/ TimesOut(n) \/ \E m \in Node : AddHost(n, m)

Spec == Init /\ [][Next]_vars

-----------------------------------------------------------------------------
(* README.MD:82-83: scripts do not overwrite nodes that have already       *)
(* joined a cluster - under any mode, selection, retry, and with scripts   *)
(* that outlive the run that started them.                                 *)
JoinedUntouched ==
  [][ \A n \in Node : Has(n, "join") =>
        \A p \in {"init", "containerd", "kubeadm"} : host'[n].part[p] = host[n].part[p] ]_vars

(* "Given an incompatible existing cluster, when expanding, then           *)
(* validation fails before initialization or runtime changes on any node": *)
(* an expansion changes no host before check new has succeeded in this     *)
(* run, whatever steps are selected.                                       *)
DiscoveryFirst ==
  [][ host' # host => mode = "install" \/ discovered \/ \A n \in Node : task[n] = "none" ]_vars

(* A run of all steps, in one piece or resumed from the step that failed,  *)
(* succeeds only when every node it set out to provision is complete and   *)
(* knows all others by name.                                               *)
SuccessIsProvisioned ==
  pc = "done" /\ whole => \A n \in subject : /\ \A p \in Parts : Has(n, p)
                                             /\ cfg \subseteq host[n].names

-----------------------------------------------------------------------------
(* Why JoinedUntouched holds: a script that runs belongs to the step of    *)
(* the run, which does not go on before it has ended, and one that takes a *)
(* component down was started on a host that has not joined.               *)
Guarded ==
  /\ \A n \in Node : script[n] # "none" =>
       /\ Step \in Parts /\ pc \in {"idle", "step"}
       /\ pc = "step" => task[n] \in {"wait", "failed"}
       /\ Step \in {"init", "containerd", "kubeadm"} => ~Joined(n)
  /\ \A n \in Node : task[n] # "none" => pc = "step" /\ Step \in Parts

IInv ==
  /\ host \in [Node -> Host] /\ script \in [Node -> {"none", "running", "half"}]
  /\ task \in [Node -> {"none", "queued", "wait", "hosts", "ok", "failed"}]
  /\ Guarded

(* Why DiscoveryFirst holds: whatever is selected or resumed, an expansion *)
(* that has not checked its nodes has the check before any later step.     *)
Checking(numbers) ==
  \A i \in DOMAIN numbers : numbers[i] > 2 => \E j \in 1..(i - 1) : numbers[j] = 2
Rising(numbers) == \A i, j \in DOMAIN numbers : i < j => numbers[i] < numbers[j]
Planned ==
  /\ plan \in Seq(Int) /\ (pc = "done" => plan = <<>>)
  /\ \A n \in Node : script[n] # "none" => plan # <<>>
  /\ mode = "update" /\ ~discovered => Checking(plan)
  /\ whole => Rising(plan)

(* Why SuccessIsProvisioned holds.  What a task has reported is on its     *)
(* host; what is not left to do is on every host that these runs found     *)
(* new.  An expansion finds nodes again in each run that resumes it: none  *)
(* is new that was not before some step was done, and what has joined      *)
(* needs none of the steps that are left.                                  *)
InPlan(p) == \E i \in DOMAIN plan : Table(mode)[plan[i]] = p
Finished(n, p) == Has(n, p) /\ (p = "init" => cfg \subseteq host[n].names)

Reported ==
  /\ \A n \in Node : script[n] = "running" /\ Step = "join" => ~Joined(n)
  /\ \A n \in Node : /\ task[n] = "hosts" => Step = "init" /\ Has(n, "init")
                     /\ task[n] = "ok" => Finished(n, Step)
  /\ pc = "step" /\ Step \in Parts => \A n \in new : task[n] # "none"

Provisioned ==
  whole =>
    /\ subject \subseteq cfg
    /\ \A p \in Parts : InPlan(p) \/ \A n \in subject : Finished(n, p)
    /\ mode = "install" => subject \subseteq new
    /\ mode = "update" =>
         /\ discovered => new \subseteq subject /\ \A n \in cfg \ new : Has(n, "join")
         /\ \A p \in Parts : InPlan(p) \/ \A n \in cfg \ subject : Has(n, "join")
         /\ \A n \in subject : Has(n, "join") => \A p \in Parts \ {"join"} : ~InPlan(p)

PInv == TypeOK /\ Planned
WInv == Reported /\ Provisioned
=============================================================================
