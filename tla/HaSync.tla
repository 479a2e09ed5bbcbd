------------------------------- MODULE HaSync -------------------------------
(***************************************************************************)
(* Runs of k8s-tool that touch the HA pair of the control-plane nodes, the *)
(* HAProxy and Keepalived services (app/engine/ha.go with the two install  *)
(* scripts), one run after the other on the same hosts:                    *)
(*                                                                         *)
(*   install   steps 8 haproxy, 9 keepalived, 10 start k8s                 *)
(*   update    steps 9 join node, 10 synchronize HA (or step 10 alone)     *)
(*                                                                         *)
(* A run can end between any two steps: an error, the operator's ^C or a   *)
(* crash leave on the hosts what was done so far, and the next run starts  *)
(* from there.  A Keepalived process sends its adverts to the peers of the *)
(* configuration it was started with.                                      *)
(*                                                                         *)
(* Left out: the other steps (they change neither service), the text of    *)
(* the files, the join protocol itself (module Join).  Assumed of the      *)
(* operator: a failed install is retried with the same node list, and an   *)
(* expansion lists every node HA was configured on before.  Assumed of the *)
(* hosts: a script that was started has ended before the next run, and     *)
(* nobody else starts Keepalived while one instance is up.                 *)
(***************************************************************************)
EXTENDS Topology

CONSTANTS Configs,   \* the node lists the operator may use
          MaxRuns    \* bound on the number of runs

ASSUME ConfigsAssumption == /\ \A c \in Configs : ValidConfig(c)
                            /\ MaxRuns \in Nat

VARIABLES
  member,    \* control-planes registered in Kubernetes
  kaFile,    \* /etc/keepalived/keepalived.conf of each control-plane
  kaConf,    \* the configuration its Keepalived was started with
  kaUp,      \* where Keepalived runs
  pxConf,    \* the backends in its HAProxy configuration
  pxUp,      \* where HAProxy runs
  mode,      \* "install" or "update"
  pc,        \* the step of the run
  cfg,       \* e.nodes of the run
  master,    \* e.master
  fresh,     \* control-planes with IsNew
  live,      \* syncHA's list of active nodes
  todo,      \* the nodes the current loop has not finished
  at,        \* progress of the script of the node whose turn it is
  resume,    \* where an install that failed is resumed
  served,    \* nodes that served the VIP when the run began
  runs       \* number of runs started

hosts  == <<member, kaFile, kaConf, kaUp, pxConf, pxUp>>
engine == <<mode, pc, cfg, master, fresh, live, todo, at>>
vars   == <<hosts, engine, resume, served, runs>>

NoConf == [peers |-> {}, prio |-> 0]   \* no file, or no process
Conf == [peers : SUBSET Control, prio : 0..100]
Full(n) == [peers |-> Peers(cfg, n), prio |-> Priority(cfg, master, n)]
HaNodes == Controls(cfg)
Configured == {n \in Control : kaFile[n] # NoConf}
Idle == pc \in {"idle", "done"}

(* Keepalived answers for the VIP while the HAProxy it tracks runs; every  *)
(* kubectl and kubeadm call goes through the VIP.                          *)
Eligible == kaUp \cap pxUp
VipHeld == Eligible # {}

TypeOK ==
  /\ member \subseteq Control /\ kaUp \subseteq Control /\ pxUp \subseteq Control
  /\ kaFile \in [Control -> Conf] /\ kaConf \in [Control -> Conf]
  /\ pxConf \in [Control -> SUBSET Control]
  /\ mode \in {"install", "update"}
  /\ pc \in {"idle", "proxy", "vrrp", "done"} \cup
            (IF mode = "install" THEN {"startK8s", "backups"} ELSE {"join", "probe"})
  /\ cfg \in Configs /\ master \in Controls(cfg)
  /\ fresh \subseteq Control /\ live \subseteq Control /\ todo \subseteq Control
  /\ at \in {"next", "written", "stopped", "started"}
  /\ resume \in {"proxy", "vrrp", "startK8s"}
  /\ served \subseteq Control
  /\ runs \in 0..MaxRuns

Init ==
  /\ member = {} /\ kaUp = {} /\ pxUp = {}
  /\ kaFile = [n \in Control |-> NoConf] /\ kaConf = [n \in Control |-> NoConf]
  /\ pxConf = [n \in Control |-> {}]
  /\ mode = "install" /\ pc = "idle" /\ at = "next"
  /\ cfg \in Configs /\ master = FirstControl(cfg)
  /\ fresh = {} /\ live = {} /\ todo = {} /\ served = {}
  /\ resume = "proxy" /\ runs = 0

-----------------------------------------------------------------------------
(* The beginning and the end of a run.                                     *)

(* A first install, or its retry from the step that failed.                *)
StartInstall ==
  /\ Idle /\ member = {} /\ runs < MaxRuns
  /\ mode' = "install" /\ pc' = resume
  /\ master' = FirstControl(cfg)
  /\ fresh' = Controls(cfg)
  /\ live' = {} /\ at' = "next"
  /\ todo' = IF resume = "startK8s" THEN {} ELSE Controls(cfg)
  /\ served' = {} /\ runs' = runs + 1
  /\ UNCHANGED <<hosts, cfg, resume>>

(* An expansion.  checkNew adopts a registered control-plane of the list   *)
(* as management node - the first whose kubectl answers - and refuses a    *)
(* list that misses a registered control-plane.                            *)
StartUpdate(c, m) ==
  /\ Idle /\ runs < MaxRuns
  /\ VipHeld /\ m \in member \cap Controls(c)
  /\ member \subseteq Controls(c) /\ Configured \subseteq Controls(c)
  /\ mode' = "update" /\ cfg' = c /\ master' = m
  /\ fresh' = Controls(c) \ member
  /\ \/ pc' = "join" /\ todo' = {}
     \/ pc' = "probe" /\ todo' = Controls(c)
  /\ live' = {} /\ at' = "next"
  /\ served' = kaUp \cap pxUp /\ runs' = runs + 1
  /\ UNCHANGED <<hosts, resume>>

(* Mutant: any step is taken for a step of the install.                    *)
AbortResumesAnywhere ==
  /\ ~Idle
  /\ pc' = "idle" /\ fresh' = {} /\ live' = {} /\ todo' = {} /\ at' = "next"
  /\ resume' = pc /\ served' = {}
  /\ UNCHANGED <<hosts, mode, cfg, master, runs>>

(* An error, a cancellation or a crash: nothing is rolled back.            *)
Abort ==
  /\ ~Idle
  /\ pc' = "idle" /\ fresh' = {} /\ live' = {} /\ todo' = {} /\ at' = "next"
  /\ resume' = IF mode = "install" /\ pc # "backups" THEN pc ELSE resume
  /\ served' = {}
  /\ UNCHANGED <<hosts, mode, cfg, master, runs>>

-----------------------------------------------------------------------------
(* Membership: kubeadm init on the management node, then one join after    *)
(* the other.                                                              *)
JoinOne(n) ==
  /\ pc \in {"startK8s", "join"}
  /\ VipHeld /\ n \in HaNodes \ member
  /\ n # master => master \in member
  /\ \A m \in HaNodes \ (member \cup {n, master}) : n # master => Pos(cfg, n) < Pos(cfg, m)
  /\ member' = member \cup {n}
  /\ UNCHANGED <<kaFile, kaConf, kaUp, pxConf, pxUp, engine, resume, served, runs>>

JoinDone ==
  /\ pc \in {"startK8s", "join"} /\ HaNodes \subseteq member
  /\ IF pc = "join" THEN pc' = "probe" /\ todo' = HaNodes
                    ELSE pc' = "backups" /\ todo' = Backups(cfg, master)
  /\ UNCHANGED <<hosts, mode, cfg, master, fresh, live, at, resume, served, runs>>

-----------------------------------------------------------------------------
(* Mutant: the second loop of syncHA runs over haNodes() as the first.     *)
SoonerAsListed(m, n) == HaBefore(cfg, master, fresh, m, n)

(* The loops over haNodes().  syncHA reconfigures Keepalived on the active *)
(* nodes before the inactive ones; every other loop keeps haNodes' order.  *)
Sooner(m, n) ==
  IF mode = "update" /\ pc = "vrrp" /\ (m \in live) # (n \in live)
    THEN m \in live
    ELSE HaBefore(cfg, master, fresh, m, n)

TurnOf(n) == n \in todo /\ \A m \in todo \ {n} : Sooner(n, m)

(* The end of a loop; a synchronization with no active node is refused.    *)
NextStep ==
  /\ pc \in {"probe", "proxy", "vrrp", "backups"} /\ todo = {}
  /\ pc = "probe" => live # {}
  /\ pc' = CASE pc = "probe" -> "proxy"
             [] pc = "proxy" -> "vrrp"
             [] pc = "vrrp" -> IF mode = "install" THEN "startK8s" ELSE "done"
             [] pc = "backups" -> "done"
  /\ todo' = IF pc \in {"probe", "proxy"} THEN HaNodes ELSE {}
  /\ UNCHANGED <<hosts, mode, cfg, master, fresh, live, at, resume, served, runs>>

(* syncHA asks systemd on every node before it changes any.                *)
ProbeOne(n) ==
  /\ pc = "probe" /\ TurnOf(n)
  /\ live' = IF n \in kaUp THEN live \cup {n} ELSE live
  /\ todo' = todo \ {n}
  /\ UNCHANGED <<hosts, mode, pc, cfg, master, fresh, at, resume, served, runs>>

(* haproxy/install.sh: a new file, then a restart with it.                 *)
ProxyStop(n) ==
  /\ pc = "proxy" /\ TurnOf(n) /\ at = "next"
  /\ pxConf' = [pxConf EXCEPT ![n] = HaNodes]
  /\ pxUp' = pxUp \ {n} /\ at' = "stopped"
  /\ UNCHANGED <<member, kaFile, kaConf, kaUp, mode, pc, cfg, master,
                 fresh, live, todo, resume, served, runs>>

ProxyStart(n) ==
  /\ pc = "proxy" /\ TurnOf(n) /\ at = "stopped"
  /\ pxUp' = pxUp \cup {n}
  /\ todo' = todo \ {n} /\ at' = "next"
  /\ UNCHANGED <<member, kaFile, kaConf, kaUp, pxConf, mode, pc, cfg, master,
                 fresh, live, resume, served, runs>>

(* Mutant: an expansion restarts the nodes where Keepalived is down with   *)
(* the file they have.                                                     *)
KaWriteActiveOnly(n) ==
  /\ pc = "vrrp" /\ TurnOf(n) /\ at = "next"
  /\ IF mode = "update" /\ n \notin live \cup fresh THEN UNCHANGED kaFile
     ELSE kaFile' = [kaFile EXCEPT ![n] = Full(n)]
  /\ at' = "written"
  /\ UNCHANGED <<member, kaConf, kaUp, pxConf, pxUp, mode, pc, cfg, master,
                 fresh, live, todo, resume, served, runs>>

(* keepalived/install.sh: replace the file, then restart the service.      *)
KaWrite(n) ==
  /\ pc = "vrrp" /\ TurnOf(n) /\ at = "next"
  /\ kaFile' = [kaFile EXCEPT ![n] = Full(n)] /\ at' = "written"
  /\ UNCHANGED <<member, kaConf, kaUp, pxConf, pxUp, mode, pc, cfg, master,
                 fresh, live, todo, resume, served, runs>>

KaStop(n) ==
  /\ pc = "vrrp" /\ TurnOf(n) /\ at = "written"
  /\ kaUp' = kaUp \ {n} /\ kaConf' = [kaConf EXCEPT ![n] = NoConf]
  /\ at' = "stopped"
  /\ UNCHANGED <<member, kaFile, pxConf, pxUp, mode, pc, cfg, master,
                 fresh, live, todo, resume, served, runs>>

(* Mutants: stopBackup always, or never, set.                              *)
StopsBackupAlways(n) == n # master
StopsBackupNever(n) == FALSE

(* configureKeepalived's stopBackup: an install stops all but the master.  *)
StopsBackup(n) == mode = "install" /\ n # master

KaStart(n) ==
  /\ pc = "vrrp" /\ TurnOf(n) /\ at = "stopped"
  /\ kaUp' = kaUp \cup {n} /\ kaConf' = [kaConf EXCEPT ![n] = kaFile[n]]
  /\ IF StopsBackup(n) THEN at' = "started" /\ UNCHANGED todo
                       ELSE at' = "next" /\ todo' = todo \ {n}
  /\ UNCHANGED <<member, kaFile, pxConf, pxUp, mode, pc, cfg, master,
                 fresh, live, resume, served, runs>>

StopBackup(n) ==
  /\ pc = "vrrp" /\ TurnOf(n) /\ at = "started"
  /\ kaUp' = kaUp \ {n} /\ kaConf' = [kaConf EXCEPT ![n] = NoConf]
  /\ todo' = todo \ {n} /\ at' = "next"
  /\ UNCHANGED <<member, kaFile, pxConf, pxUp, mode, pc, cfg, master,
                 fresh, live, resume, served, runs>>

(* startKeepalivedBackups, at the end of "start k8s"; starting a service   *)
(* that runs changes nothing.                                              *)
StartBackup(n) ==
  /\ pc = "backups" /\ TurnOf(n)
  /\ kaUp' = kaUp \cup {n}
  /\ kaConf' = IF n \in kaUp THEN kaConf ELSE [kaConf EXCEPT ![n] = kaFile[n]]
  /\ todo' = todo \ {n}
  /\ UNCHANGED <<member, kaFile, pxConf, pxUp, mode, pc, cfg, master,
                 fresh, live, at, resume, served, runs>>

-----------------------------------------------------------------------------
(* The hosts of a cluster: Keepalived dies on its own (between runs, or in *)
(* an expansion before the node is reconfigured), and when no node can     *)
(* hold the VIP the operator restores it on one, with the files there are. *)
LosePeer(n) ==
  /\ n \in kaUp /\ member # {}
  /\ \/ Idle
     \/ mode = "update" /\ pc \in {"join", "probe", "proxy"}
     \/ mode = "update" /\ pc = "vrrp" /\ n \in todo
  /\ kaUp' = kaUp \ {n} /\ kaConf' = [kaConf EXCEPT ![n] = NoConf]
  /\ served' = served \ {n}
  /\ UNCHANGED <<member, kaFile, pxConf, pxUp, engine, resume, runs>>

Restore(n) ==
  /\ Idle /\ member # {} /\ ~VipHeld /\ n \in Configured
  /\ \/ n \in kaUp /\ UNCHANGED <<kaUp, kaConf>>
     \/ kaUp = {} /\ kaUp' = {n} /\ kaConf' = [kaConf EXCEPT ![n] = kaFile[n]]
  /\ pxUp' = pxUp \cup {n}
  /\ UNCHANGED <<member, kaFile, pxConf, engine, resume, served, runs>>

EngineStep ==
  \/ JoinDone \/ NextStep
  \/ \E n \in Control : \/ JoinOne(n) \/ ProbeOne(n) \/ ProxyStop(n) \/ ProxyStart(n)
                        \/ KaWrite(n) \/ KaStop(n) \/ KaStart(n) \/ StopBackup(n)
                        \/ StartBackup(n)

Next ==
  \/ StartInstall \/ Abort
  \/ \E c \in Configs, m \in Control : StartUpdate(c, m)
  \/ EngineStep
  \/ \E n \in Control : LosePeer(n) \/ Restore(n)

Spec == Init /\ [][Next]_vars
-----------------------------------------------------------------------------
(* Properties.                                                             *)

(* A node that could hold the VIP yields to one it hears and that beats it.*)
Beats(a, b) == \/ kaConf[a].prio > kaConf[b].prio
               \/ kaConf[a].prio = kaConf[b].prio /\ AddrOf[a] > AddrOf[b]
Defers(b, a) == b \in kaConf[a].peers /\ Beats(a, b)

(* ha.go:121-122 and the acceptance criteria of docs/optimization-plan.md: *)
(* at no moment of an install, an expansion, a retry or the time between   *)
(* runs can two nodes hold the VIP: of any two that could, one hears the   *)
(* other and yields.                                                       *)
NoSplitBrain ==
  \A a, b \in Eligible : a # b => Defers(a, b) \/ Defers(b, a)

(* ha.go:24: "Configure one node at a time; existing HA services remain    *)
(* available on peers": of the nodes that served when an expansion began,  *)
(* the tool has at most one down, also across its two loops.               *)
AtMostOneDown == Cardinality(served \ Eligible) <= 1

(* A run that ends in success leaves the complete inventory: every         *)
(* control-plane is a member and serves, runs with all others as peers and *)
(* all as backends, one of them - the management node - as MASTER and no   *)
(* two with the same priority, whatever failed runs came before.           *)
SuccessIsComplete ==
  [][ pc' = "done" /\ pc # "done" =>
      /\ HaNodes' = Eligible'
      /\ \A n \in HaNodes' : /\ kaConf'[n].peers = HaNodes' \ {n}
                             /\ pxConf'[n] = HaNodes'
                             /\ kaConf'[n].prio = 100 <=> n = master'
      /\ \A m, n \in HaNodes' : kaConf'[m].prio = kaConf'[n].prio => m = n ]_vars

(* While the management node is initialized and the others join through    *)
(* the VIP, no other node may take the VIP (installKeepalived's            *)
(* stopBackup), also when the install is a retry.                          *)
VipStaysOnMaster == pc = "startK8s" => kaUp \subseteq {master}

-----------------------------------------------------------------------------
(* Why NoSplitBrain holds: the inductive invariant of its proof.           *)

(* The nodes that run know each other.                                     *)
Peered == \A m, n \in kaUp : m # n => n \in kaConf[m].peers

(* Only nodes of the list were ever configured, so any two of them have    *)
(* different addresses.                                                    *)
Listed == kaUp \subseteq Configured /\ Configured \subseteq HaNodes

(* Until the cluster exists every file and process has the full list.      *)
InstallFull ==
  member = {} \/ (mode = "install" /\ ~Idle) =>
    /\ \A n \in Configured : kaFile[n].peers = Peers(cfg, n)
    /\ \A n \in kaUp : kaConf[n].peers = Peers(cfg, n)

(* Which files have been written where the run stands.                     *)
Written ==
  /\ (pc \in {"startK8s", "backups"} \/ (resume = "startK8s" /\ member = {})) => HaNodes \subseteq Configured
  /\ pc = "vrrp" => HaNodes \ todo \subseteq Configured
  /\ pc = "vrrp" /\ at # "next" => \A n \in todo : TurnOf(n) => kaFile[n] = Full(n)

(* An expansion has a cluster to expand; the lists hold listed nodes.      *)
Phases ==
  /\ mode = "update" /\ ~Idle => member # {}
  /\ at # "next" => pc \in {"proxy", "vrrp"} /\ todo # {}
  /\ todo \subseteq HaNodes /\ live \subseteq HaNodes
  /\ pc = "join" => live = {}

(* An expansion: what runs was seen active, everything that runs knows the *)
(* nodes seen active, and what runs after its turn knows the full list.    *)
Refreshed ==
  mode = "update" /\ pc \in {"probe", "proxy", "vrrp"} =>
    /\ IF pc = "probe" THEN kaUp \ todo \subseteq live
       ELSE IF pc = "proxy" THEN kaUp \subseteq live
       ELSE kaUp \cap todo \subseteq live
    /\ \A m \in kaUp, n \in live : m # n => n \in kaConf[m].peers
    /\ pc = "vrrp" => \A n \in kaUp \ todo : kaConf[n].peers = Peers(cfg, n)

IInv == TypeOK /\ Peered /\ Listed /\ InstallFull /\ Written /\ Phases /\ Refreshed

(* Why VipStaysOnMaster holds: backups that had their turn in the loop of  *)
(* an install are stopped, and an install that is resumed after the loop   *)
(* has the same management node.                                           *)
Quiet ==
  /\ mode = "install" => master = FirstControl(cfg)
  /\ mode = "install" /\ pc = "vrrp" => kaUp \ todo \subseteq {master}
  /\ pc = "startK8s" \/ (resume = "startK8s" /\ member = {}) => kaUp \subseteq {master}
  /\ resume = "startK8s" /\ member = {} => pc \in {"idle", "startK8s"}
  /\ pc \in {"backups", "done"} \/ mode = "update" => member # {}

(* Why AtMostOneDown holds: a node that served is down only in its turn.   *)
InTurn ==
  /\ mode = "install" => served = {}
  /\ at = "started" => mode = "install"
  /\ \A n \in served : /\ n \in kaUp \/ (pc = "vrrp" /\ at = "stopped" /\ TurnOf(n))
                       /\ n \in pxUp \/ (pc = "proxy" /\ at = "stopped" /\ TurnOf(n))

(* Why SuccessIsComplete holds: what has had its turn is as it should be,  *)
(* and an install is resumed where all is done that the earlier steps do.  *)
ProxyDone(n) == n \in pxUp /\ pxConf[n] = HaNodes
Serves(n) == n \in kaUp /\ kaConf[n] = Full(n)
AtTurn ==
  /\ at = "started" => mode = "install" /\ ~TurnOf(master)
  /\ pc = "proxy" /\ at = "stopped" => \A n \in todo : TurnOf(n) => pxConf[n] = HaNodes
HadTurn ==
  /\ mode = "install" /\ pc \in {"proxy", "vrrp"} => member = {}
  /\ mode = "install" /\ pc = "proxy" => resume = "proxy"
  /\ pc = "proxy" => \A n \in HaNodes \ todo : ProxyDone(n)
  /\ pc \in {"vrrp", "startK8s", "backups", "done"} \/ (resume # "proxy" /\ member = {}) =>
       \A n \in HaNodes : ProxyDone(n)
  /\ pc = "vrrp" => \A n \in HaNodes \ todo :
       kaFile[n] = Full(n) /\ (mode = "update" \/ n = master => Serves(n))
  /\ pc \in {"startK8s", "backups"} \/ (resume = "startK8s" /\ member = {}) =>
       Serves(master) /\ \A n \in HaNodes : kaFile[n] = Full(n)
  /\ pc = "backups" => /\ HaNodes \ todo \subseteq kaUp
                       /\ \A n \in kaUp : kaConf[n] = Full(n)
=============================================================================
