-------------------------------- MODULE Join --------------------------------
(***************************************************************************)
(* Nodes become members of the cluster: start k8s (install step 10), check *)
(* new and join node (update steps 2 and 9), with the kubeadm process each *)
(* of them starts on a remote host (app/engine/cluster.go, discovery.go).  *)
(*                                                                         *)
(* A kubeadm process is a process of its own: it goes on when the tool     *)
(* gives up waiting, and the kubelet it configures registers the node in   *)
(* its own time - kubeadm waits for that only on a control-plane, which it *)
(* has to label.                                                           *)
(*                                                                         *)
(* Left out: version checks, tokens and certificate keys, the other steps. *)
(* Assumed of the operator: install is used only where nothing is          *)
(* registered, and the next run starts when no kubeadm process is left     *)
(* ("Inspect a failed node before retrying", README.MD:112-113).           *)
(***************************************************************************)
EXTENDS Topology

CONSTANTS Configs,   \* the node lists the operator may use
          MaxRuns    \* bound on the number of runs

ASSUME JoinAssumption == (\A c \in Configs : ValidConfig(c)) /\ MaxRuns \in Nat

VARIABLES
  kubelet,     \* hosts with /etc/kubernetes/kubelet.conf
  registered,  \* nodes in the Kubernetes API, each under its own host name
  labelled,    \* those with the control-plane label
  tainted,     \* those with the control-plane taint
  kubectl,     \* hosts where config.sh has put a kubeconfig
  kubeadm,     \* progress of the kubeadm process of each host
  pc, cfg,     \* the step of the run, e.nodes
  mode,        \* "install" or "update"
  master,      \* e.master
  new,         \* nodes with IsNew
  left,        \* what the current loop has not finished
  cur,         \* the node waitForNodeRegistered and its callers work on
  call,        \* the Run that waits for kubeadm on each host
  orphan,      \* hosts whose kubeadm the tool stopped waiting for
  why,         \* how the last run ended
  runs         \* number of runs started

hosts  == <<kubelet, registered, labelled, tainted, kubectl, kubeadm>>
engine == <<pc, cfg, mode, master, new, left, cur, call>>
ghost  == <<orphan, why, runs>>
vars   == <<hosts, engine, ghost>>

Idle == pc \in {"idle", "done"}
(* Mutant: nodes that have joined are not left out.                        *)
AllControls == Controls(cfg) \ {master}

NewControls == (new \ {master}) \cap Control
NewWorkers == new \ (Control \cup {master})
Running == {n \in Node : kubeadm[n] # "none"}
Waiting == {n \in Node : call[n] = "wait"}

TypeOK ==
  /\ kubelet \subseteq Node /\ registered \subseteq Node
  /\ labelled \subseteq Control /\ tainted \subseteq labelled /\ kubectl \subseteq Node
  /\ kubeadm \in [Node -> {"none", "started", "kubelet", "etcd", "marked"}]
  /\ pc \in {"idle", "discover", "init", "prepare", "controls", "control", "get", "byIP",
             "kubectl", "taint", "workers", "workersWait", "poll", "ready", "done"}
  /\ cfg \in Configs /\ master \in Controls(cfg)
  /\ mode \in {"install", "update"}
  /\ new \subseteq Node /\ left \subseteq new /\ cur \in Node
  /\ pc = "discover" => left = {}
  /\ call \in [Node -> {"none", "wait", "ok", "err"}]
  /\ orphan \subseteq Node
  /\ why \in {"ok", "error", "mismatch", "timeout", "cancel"}
  /\ runs \in 0..MaxRuns

Init ==
  /\ kubelet = {} /\ registered = {} /\ labelled = {} /\ tainted = {} /\ kubectl = {}
  /\ kubeadm = [n \in Node |-> "none"] /\ call = [n \in Node |-> "none"]
  /\ pc = "idle" /\ cfg \in Configs /\ master = FirstControl(cfg) /\ cur = master
  /\ mode = "install" /\ new = {} /\ left = {} /\ orphan = {} /\ why = "ok" /\ runs = 0

-----------------------------------------------------------------------------
(* The remote side: kubeadm init and join.                                 *)

(* Preflight, then the kubelet configuration.                              *)
Bootstrap(n) ==
  /\ kubeadm[n] = "started" /\ n \notin kubelet
  /\ kubeadm' = [kubeadm EXCEPT ![n] = "kubelet"] /\ kubelet' = kubelet \cup {n}
  /\ UNCHANGED <<registered, labelled, tainted, kubectl, engine, ghost>>

(* The kubelet registers its node, with or without a process that waits.   *)
Register(n) ==
  /\ n \in kubelet \ registered
  /\ registered' = registered \cup {n}
  /\ UNCHANGED <<kubelet, labelled, tainted, kubectl, kubeadm, engine, ghost>>

(* A control-plane becomes a member of etcd, then gets label and taint.    *)
EtcdAdd(n) ==
  /\ n \in Control /\ kubeadm[n] = "kubelet"
  /\ kubeadm' = [kubeadm EXCEPT ![n] = "etcd"]
  /\ UNCHANGED <<kubelet, registered, labelled, tainted, kubectl, engine, ghost>>

Mark(n) ==
  /\ n \in Control \cap registered /\ kubeadm[n] = "etcd"
  /\ kubeadm' = [kubeadm EXCEPT ![n] = "marked"]
  /\ labelled' = labelled \cup {n} /\ tainted' = tainted \cup {n}
  /\ UNCHANGED <<kubelet, registered, kubectl, engine, ghost>>

(* The process ends, at its end or with an error anywhere before.          *)
Exit(n) ==
  /\ kubeadm[n] # "none"
  /\ LET finished == kubeadm[n] = IF n \in Control THEN "marked" ELSE "kubelet"
     IN  call' = [call EXCEPT ![n] = IF @ # "wait" THEN @ ELSE IF finished THEN "ok" ELSE "err"]
  /\ kubeadm' = [kubeadm EXCEPT ![n] = "none"]
  /\ orphan' = orphan \ {n}
  /\ UNCHANGED <<kubelet, registered, labelled, tainted, kubectl, pc, cfg, mode, master,
                 new, left, cur, why, runs>>

(* After a failed run the operator may reset a host it left half joined.   *)
Reset(n) ==
  /\ pc = "idle" /\ n \in kubelet /\ kubeadm[n] = "none"
  /\ n \notin registered \/ n \in Control \ (labelled \cap kubectl)
  /\ kubelet' = kubelet \ {n} /\ registered' = registered \ {n}
  /\ labelled' = labelled \ {n} /\ tainted' = tainted \ {n} /\ kubectl' = kubectl \ {n}
  /\ UNCHANGED <<kubeadm, engine, ghost>>

-----------------------------------------------------------------------------
(* The beginning and the end of a run.                                     *)
Start(c) ==
  /\ Idle /\ runs < MaxRuns /\ Running = {}
  /\ cfg' = c /\ master' = FirstControl(c) /\ cur' = FirstControl(c)
  /\ new' = Nodes(c)
  /\ IF registered = {} THEN mode' = "install" /\ pc' = "init"
                        ELSE mode' = "update" /\ pc' = "discover"
  /\ left' = {} /\ why' = "ok" /\ runs' = runs + 1
  /\ UNCHANGED <<hosts, call, orphan>>

End(reason) ==
  /\ pc' = "idle" /\ why' = reason
  /\ left' = {} /\ call' = [n \in Node |-> "none"]
  /\ orphan' = IF reason = "cancel" THEN orphan \cup Waiting ELSE orphan
  /\ UNCHANGED <<hosts, cfg, mode, master, new, cur, runs>>

(* The operator's ^C, or the tool dies.                                    *)
Cancel == ~Idle /\ End("cancel")

(* A remote command of a step that waits for nothing else fails.           *)
Fail == pc \in {"discover", "prepare", "kubectl", "taint", "ready"} /\ End("error")

-----------------------------------------------------------------------------
(* checkNew adopts a candidate whose kubectl answers and which is itself a *)
(* registered control-plane; it refuses a list that misses a registered    *)
(* control-plane or gives a registered node another role.                  *)
Discover(m) ==
  /\ pc = "discover"
  /\ m \in Controls(cfg) \cap kubectl \cap registered \cap labelled
  /\ labelled \subseteq Controls(cfg)
  /\ \A n \in Nodes(cfg) \cap registered : n \in labelled <=> n \in Control
  /\ master' = m /\ new' = Nodes(cfg) \ registered
  /\ pc' = "prepare"
  /\ UNCHANGED <<hosts, cfg, mode, left, cur, call, ghost>>

(* startK8s runs kubeadm init on the management node.                      *)
InitMaster ==
  /\ pc = "init" /\ call[master] = "none"
  /\ call' = [call EXCEPT ![master] = "wait"]
  /\ kubeadm' = [kubeadm EXCEPT ![master] = "started"]
  /\ UNCHANGED <<kubelet, registered, labelled, tainted, kubectl, pc, cfg, mode, master,
                 new, left, cur, ghost>>

(* The head of joinNodes: nothing to join, or certificates and a token.    *)
Prepare ==
  /\ pc = "prepare"
  /\ IF new \ {master} = {} THEN pc' = "ready" /\ left' = {}
                            ELSE pc' = "controls" /\ left' = NewControls
  /\ UNCHANGED <<hosts, cfg, mode, master, new, cur, call, ghost>>

(* Mutant: control-planes join in parallel.                                *)
JoinControlsAtOnce(n) ==
  /\ pc = "controls" /\ n \in left
  /\ call' = [x \in Node |-> IF x \in left THEN "wait" ELSE call[x]]
  /\ kubeadm' = [x \in Node |-> IF x \in left THEN "started" ELSE kubeadm[x]]
  /\ cur' = n /\ pc' = "control"
  /\ UNCHANGED <<kubelet, registered, labelled, tainted, kubectl, cfg, mode, master,
                 new, left, ghost>>

(* Control-planes join one by one, in configuration order.                 *)
JoinControl(n) ==
  /\ pc = "controls" /\ n \in left /\ \A m \in left : Pos(cfg, n) <= Pos(cfg, m)
  /\ call' = [call EXCEPT ![n] = "wait"]
  /\ kubeadm' = [kubeadm EXCEPT ![n] = "started"]
  /\ cur' = n /\ pc' = "control"
  /\ UNCHANGED <<kubelet, registered, labelled, tainted, kubectl, cfg, mode, master,
                 new, left, ghost>>

(* Mutant: the error of a control-plane's join is dropped.                 *)
ControlReturnsUnchecked ==
  /\ pc \in {"init", "control"} /\ call[cur] \in {"ok", "err"}
  /\ pc' = IF pc = "init" THEN "kubectl" ELSE "get"
  /\ call' = [call EXCEPT ![cur] = "none"]
  /\ UNCHANGED <<hosts, cfg, mode, master, new, left, cur, ghost>>

(* Run returns for kubeadm init or a control-plane's join.                 *)
ControlReturns ==
  /\ pc \in {"init", "control"}
  /\ \/ call[cur] = "err" /\ End("error")
     \/ /\ call[cur] = "ok"
        /\ pc' = IF pc = "init" THEN "kubectl" ELSE "get"
        /\ call' = [call EXCEPT ![cur] = "none"]
        /\ UNCHANGED <<hosts, cfg, mode, master, new, left, cur, ghost>>

ControlsDone ==
  /\ pc = "controls" /\ left = {}
  /\ pc' = "workers"
  /\ UNCHANGED <<hosts, cfg, mode, master, new, left, cur, call, ghost>>

(* configureKubectl comes before the wait for registration on the node     *)
(* that was initialized and after it on one that joined.                   *)
ConfigureKubectl ==
  /\ pc = "kubectl"
  /\ kubectl' = kubectl \cup {cur}
  /\ pc' = IF cur = master THEN "get" ELSE "taint"
  /\ UNCHANGED <<kubelet, registered, labelled, tainted, kubeadm, cfg, mode, master, new,
                 left, cur, call, ghost>>

(* A control-plane that is also a worker loses the taint.                  *)
RemoveTaint ==
  /\ pc = "taint"
  /\ tainted' = IF cur \in Worker THEN tainted \ {cur} ELSE tainted
  /\ left' = left \ {cur}
  /\ pc' = IF cur = master THEN "prepare" ELSE "controls"
  /\ UNCHANGED <<kubelet, registered, labelled, kubectl, kubeadm, cfg, mode, master, new,
                 cur, call, ghost>>

-----------------------------------------------------------------------------
(* waitForNodeRegistered(cur): ask for the node by name; if it is not      *)
(* there, or kubectl fails, ask whether its address is registered under    *)
(* any name; if kubectl fails there too, or nothing is registered, pause.  *)
AfterPoll ==
  IF cur \in Control THEN pc' = (IF cur = master THEN "taint" ELSE "kubectl") /\ UNCHANGED left
                     ELSE pc' = "poll" /\ left' = left \ {cur}

PollGet ==
  /\ pc = "get"
  /\ \/ cur \in registered /\ AfterPoll
     \/ pc' = "byIP" /\ UNCHANGED left
  /\ UNCHANGED <<hosts, cfg, mode, master, new, cur, call, ghost>>

PollByIP ==
  /\ pc = "byIP"
  /\ \/ cur \in registered /\ End("mismatch")
     \/ pc' = "get" /\ UNCHANGED <<hosts, cfg, mode, master, new, left, cur, call, ghost>>

(* Mutant: the poll waits as long as the run lives.                        *)
PollForever == FALSE

PollTimeout == pc \in {"get", "byIP"} /\ End("timeout")

-----------------------------------------------------------------------------
(* Workers join in parallel; eg.Wait waits for all of them, and only then  *)
(* does an error end the run.                                              *)
JoinWorkers ==
  /\ pc = "workers"
  /\ call' = [n \in Node |-> IF n \in NewWorkers THEN "wait" ELSE "none"]
  /\ kubeadm' = [n \in Node |-> IF n \in NewWorkers THEN "started" ELSE kubeadm[n]]
  /\ pc' = "workersWait"
  /\ UNCHANGED <<kubelet, registered, labelled, tainted, kubectl, cfg, mode, master, new,
                 left, cur, ghost>>

(* Mutant: the first error ends the run.                                   *)
WorkersReturnAtFirstError ==
  /\ pc = "workersWait"
  /\ IF \E n \in Node : call[n] = "err"
       THEN End("error")
       ELSE /\ Waiting = {}
            /\ pc' = "poll" /\ left' = NewWorkers
            /\ call' = [n \in Node |-> "none"]
            /\ UNCHANGED <<hosts, cfg, mode, master, new, cur, ghost>>

WorkersReturn ==
  /\ pc = "workersWait" /\ Waiting = {}
  /\ IF \E n \in Node : call[n] = "err"
       THEN End("error")
       ELSE /\ pc' = "poll" /\ left' = NewWorkers
            /\ call' = [n \in Node |-> "none"]
            /\ UNCHANGED <<hosts, cfg, mode, master, new, cur, ghost>>

PollWorker(n) ==
  /\ pc = "poll" /\ n \in left /\ \A m \in left : Pos(cfg, n) <= Pos(cfg, m)
  /\ cur' = n /\ pc' = "get"
  /\ UNCHANGED <<hosts, cfg, mode, master, new, left, call, ghost>>

PollDone ==
  /\ pc = "poll" /\ left = {}
  /\ pc' = "ready"
  /\ UNCHANGED <<hosts, cfg, mode, master, new, left, cur, call, ghost>>

(* The command timeout: Run closes its connection and returns.             *)
CallTimeout(n) ==
  /\ call[n] = "wait"
  /\ call' = [call EXCEPT ![n] = "err"] /\ orphan' = orphan \cup {n}
  /\ UNCHANGED <<hosts, pc, cfg, mode, master, new, left, cur, why, runs>>

(* join waits for the network before it succeeds (or fails).               *)
Succeed ==
  /\ pc = "ready" /\ pc' = "done"
  /\ UNCHANGED <<hosts, cfg, mode, master, new, left, cur, call, ghost>>

EngineStep ==
  \/ InitMaster \/ Prepare \/ ControlReturns \/ ControlsDone \/ ConfigureKubectl
  \/ RemoveTaint \/ PollGet \/ PollByIP \/ JoinWorkers \/ WorkersReturn \/ PollDone
  \/ Succeed
  \/ \E n \in Node : Discover(n) \/ JoinControl(n) \/ PollWorker(n)

Kubeadm == \E n \in Node : Bootstrap(n) \/ Register(n) \/ EtcdAdd(n) \/ Mark(n) \/ Exit(n)

Next ==
  \/ \E c \in Configs : Start(c)
  \/ EngineStep \/ Kubeadm \/ Fail \/ Cancel \/ PollTimeout
  \/ \E n \in Node : CallTimeout(n) \/ Reset(n)

(* Every command of the tool is bounded by a timeout.                      *)
Fairness == /\ WF_vars(EngineStep) /\ WF_vars(Fail) /\ WF_vars(PollTimeout)
            /\ \A n \in Node : WF_vars(CallTimeout(n))
Spec == Init /\ [][Next]_vars /\ Fairness

-----------------------------------------------------------------------------
(* cluster.go:216: control-planes join one by one, because etcd's members  *)
(* must not be changed concurrently - whatever failed, timed out or was    *)
(* cancelled before.                                                       *)
EtcdSerial == Cardinality(Running \cap Control) <= 1

(* A run that ends in success has made every listed node a member with its *)
(* role, and each control-plane it joined manageable and, if it is a       *)
(* worker, schedulable.                                                    *)
Complete(n) == n \in kubectl /\ (n \in Worker => n \notin tainted)
SuccessIsJoined ==
  pc = "done" => /\ Nodes(cfg) \subseteq registered
                 /\ Controls(cfg) \subseteq labelled
                 /\ \A n \in NewControls : Complete(n)

(* A run that ends by itself - not cancelled - leaves no kubeadm behind    *)
(* but one that exceeded its own command timeout: an error on one worker   *)
(* does not abandon the others.                                            *)
NoAbandonedJoin == Idle => Running \subseteq orphan

(* Every run ends, though a kubelet may never register its node and a      *)
(* kubeadm may never end.                                                  *)
RunEnds == ~Idle ~> Idle

(* cluster.go:131: the error says the node was registered under a name     *)
(* other than the expected one.                                            *)
MismatchIsReal == why = "mismatch" => cur \notin registered

(* README.MD:90: a run that failed is resumed with "--update --step 9,10": *)
(* when that succeeds, what the failed run left undone on a control-plane  *)
(* is done.                                                                *)
ResumeComplete == pc = "done" => \A n \in Controls(cfg) : Complete(n)

-----------------------------------------------------------------------------
(* Why EtcdSerial and NoAbandonedJoin hold: the step of the run bounds the *)
(* kubeadm processes there can be, and the tool waits for each of them     *)
(* unless it has given it up.                                              *)
Serial ==
  /\ pc \in {"init", "control"} => Running \cap Control \subseteq {cur}
  /\ pc \in {"init", "control"} /\ call[cur] \in {"none", "ok"} => cur \notin Running
  /\ pc \notin {"idle", "init", "control"} => Running \cap Control = {}
  /\ \E n \in Node : Running \cap Control \subseteq {n}
  /\ pc = "init" => cur = master

Awaited ==
  /\ Running \subseteq orphan \cup Waiting
  /\ pc \in {"init", "control"} => Waiting \subseteq {cur}
  /\ pc \notin {"init", "control", "workersWait"} => Waiting = {}

IInv == TypeOK /\ Serial /\ Awaited

(* Why SuccessIsJoined holds.  A process ends well only when it has marked *)
(* its node, and what is not new was found to be a member.                 *)
Members ==
  /\ labelled \subseteq registered
  /\ \A n \in Control : kubeadm[n] = "marked" => n \in labelled
  /\ \A n \in Node : call[n] # "none" => pc = "workersWait" \/ (pc \in {"init", "control"} /\ n = cur)
  /\ pc \in {"init", "control"} /\ call[cur] = "ok" => cur \in labelled
  /\ pc \notin {"idle", "discover"} =>
       /\ new \subseteq Nodes(cfg) /\ Nodes(cfg) \ new \subseteq registered
       /\ Controls(cfg) \ new \subseteq labelled
  /\ pc \notin {"idle", "discover", "init"} => master \in labelled

(* Whom the engine works on.                                               *)
Polling == pc \in {"get", "byIP", "kubectl", "taint"}
Turn ==
  /\ pc \in {"controls", "control"} => left \subseteq NewControls
  /\ pc = "control" => cur \in left
  /\ Polling /\ cur \in Control \ {master} => left \subseteq NewControls /\ cur \in left \cap labelled
  /\ Polling /\ cur \notin Control => left \subseteq NewWorkers /\ cur \in left
  /\ pc \in {"kubectl", "taint"} => cur \in Control
  /\ pc = "taint" => cur = master \/ cur \in kubectl
  /\ pc = "poll" => left \subseteq NewWorkers
  /\ pc \in {"workers", "workersWait", "ready", "done"} => left = {}

(* What has had its turn has joined.                                       *)
HadTurn ==
  /\ pc \in {"controls", "control", "workers", "workersWait", "poll", "ready", "done"}
       \/ (Polling /\ cur # master) => \A n \in NewControls \ left : n \in labelled /\ Complete(n)
  /\ pc \in {"poll", "ready", "done"} \/ (Polling /\ cur \notin Control) => NewWorkers \ left \subseteq registered

MInv == IInv /\ Members /\ Turn /\ HadTurn
=============================================================================
