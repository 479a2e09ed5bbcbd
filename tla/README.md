# Formal verification of k8s-tool

k8s-tool installs and expands Kubernetes clusters over SSH: a Go program that
runs, step by step and partly in parallel, shell scripts and `kubeadm` on a list
of hosts. Nothing is rolled back. What makes the tool correct is therefore the
state that any sequence of runs - complete, failed, timed out, cancelled,
resumed, with another node list - leaves on the hosts, and that is what these
specifications are about.

Paths below are relative to `src/`. Everything is translated from the code; the
docs are used only for what the tool promises.

## 1. Inventory

| Component | Code | State | Operations | What is hard |
|---|---|---|---|---|
| Topology and HA arithmetic | `app/engine/topology.go`, `ha.go` | the node list, roles, `e.master` | `AddNode`, `check`, `haNodes`, priorities, peers | the same list must give consistent orders, priorities and peers on every node |
| HA pair (HAProxy, Keepalived) | `ha.go`, `haproxy/install.sh`, `keepalived/install.sh` | files and processes of the control-planes | `installHa`, `installKeepalived`, `startKeepalivedBackups`, `syncHA` | a process uses the configuration it was started with; runs stop half way; the order of restarts |
| Cluster membership | `cluster.go`, `discovery.go` | kubelets, API objects, etcd members, kubeconfigs; `IsNew` | `startK8s`, `joinNodes`, `waitForNodeRegistered`, `checkNew` | remote kubeadm outlives its caller; registration is asynchronous; serial and parallel phases |
| SSH connections | `app/node/node.go`, `workflow.go` (`connect`, `closeAll`) | sockets, `n.sshcli`, contexts, goroutines, buffers | `ConnectContext`, `bounded`, `Close` | races between handshakes, watchers, timeouts, cancellation and siblings |
| Step plan | `step.go`, `workflow.go` | step tables, `--step` | `Install`, `Update`, `parseStepNums`, `prependMissingSteps` | any selection in any order |
| Provisioning of hosts | `engine.go` (`init` ... `pullKubernetesImages`), the `install.sh` of init, containerd, kubeadm, images | what is installed on each host | one script per new node, in parallel | one node of several fails; scripts outlive a timeout; retries meet guards |
| Network and Istio readiness | `engine.go`, istio and calico scripts | rollouts | `waitForClusterNetworkReady`, `ensureIstioReady` | recovery over a transport that a timeout has closed |
| Hosts file | `node.go` (`hostsCommand`) | `/etc/hosts` | add, remove, replace | aliases, comments, non-atomic write |
| AWS VIP | `keepalived/aws-vip.sh` | address assignment in EC2 | `notify_master` | callbacks that finish out of order |
| Configuration, CLI | `main.go`, `app/config`, options | flags, YAML | `Load`, `check`, the scripts' own guards | three readings of the same settings, in two languages; what only a script refuses is refused late |
| Resources, charts, image scripts | `app/resources`, `scripts` | embedded data | copying | nothing concurrent |

Interactions: the step plan calls the other parts one after the other.
Provisioning leaves on each host what the join builds on. The HA pair carries
the virtual IP through which every `kubectl` and `kubeadm` of a join goes, and
an expansion synchronizes it after the join. Every remote operation goes through
`bounded`, so a timeout is always "the tool stops waiting and disconnects, the
remote process goes on". `IsNew`, set by `checkNew`, decides which nodes are
provisioned and joined; `e.master` decides whom `kubectl` is asked on and who is
VRRP master. The settings reach the scripts as arguments, which each script checks
once more.

What makes each component correct:

- HA: never two holders of the VIP; an expansion takes down one node at a time;
  during an install the VIP stays where the cluster is initialized; success
  leaves the complete inventory on every control-plane.
- Membership: etcd changes one member at a time; success means joined; nothing
  is left running unasked; every run ends.
- SSH: no leak, no dead connection handed out, no buffer shared with a running
  operation; cancellation and failure are not held up by a silent server.
- Plan and provisioning: discovery before change; a joined host is not
  overwritten; success means provisioned, also when pieced together from
  several runs.
- Istio: no recovery over an installer; success was seen after the last restart;
  an existing Loki keeps its storage; every run ends.
- Hosts file: an edit does what its name says to a file it did not write, or
  leaves it alone; the names are listed when init succeeds, after a cut write too.
- Settings: what can be refused is refused before a host is changed; what the
  documentation allows is not refused (exceptions: `Unread`, and section 4).

PROJECT.json lists the hazards, each at its line and with its properties.

## 2. Modules

    Topology <--- HaSync <--- HaReboot <--- HaProofs, MCHaReboot
       ^            '-------- MCHaSync
       '--------- Join <--- JoinProofs, MCJoin

    Subsequences <--- StepPlan <--- SequenceProofs <--- LaunchProofs
       ^                 ^--------- Launch <------------' , MCStepPlan
       |                 '--------- Provision <--- ProvisionProofs, MCProvision
       '--------- HostsFile <--- HostsFileProofs, MCHostsFile

    Sessions <--- SshNode <--- SshNodeProofs, MCSshNode      (refinement)
    Istio <--- IstioProofs, MCIstio

`ProvisionProofs` and `HostsFileProofs` also use the lemmas of `SequenceProofs`.

### Topology
The pure functions over the node list. A configuration is the sequence
`e.nodes`; `ValidConfig` is what `AddNode` and `check` let through of addresses,
names and roles; `HaBefore` is the order of `haNodes`, `Priority` the loop of
`configureKeepalived` with its clamp, `Peers` its peer list. `AddrOf` maps to
numbers because VRRP breaks ties by comparing addresses.

### HaSync
Several runs of the steps that touch HAProxy and Keepalived. `kaFile` is the
file on disk, `kaConf` what the running process was started with: they differ
between `KaWrite` and the restart (`KaStop`, `KaStart`) and after every run that
stops there. `pc` is the step; `todo` the nodes the current loop has not done;
`TurnOf` whose turn it is, by `Sooner`, the order of that loop - in the second
loop of `syncHA` active nodes first. `ProbeOne` records `live` early; `LosePeer`
makes it stale. `Abort` ends a run between any two actions; `StartInstall`
retries from the failed step, `StartUpdate` expands with any valid list and any
management node discovery may pick. `JoinOne` is the join as this component sees
it (it needs the VIP).

Assumed: a failed install is retried with the same list; an expansion lists
every node HA was configured on; a script started has ended before the next run;
no one else starts Keepalived while an instance is up; hosts do not reboot
(module HaReboot drops that).

### HaReboot
`HaSync` on hosts that reboot at any moment, also under a running script. Both
scripts `systemctl enable` their service, so a host comes up with whatever file it
has: a backup that an install stopped runs again, and what starts has the peers of
its file and not those it ran with. `gone` are the hosts to which the run has lost
its connection; it fails when their turn comes.

### Join
kubeadm processes (`kubeadm[n]`) next to the engine that waits for them
(`call[n]`). `CallTimeout` ends the waiting and not the process (`orphan`). The
kubelet registers (`Register`) whenever it likes once configured. `PollGet` and
`PollByIP` are the two queries of one poll, separate steps because they are
separate remote commands, each of which may also fail. Certificates, tokens and
version checks are left out. Assumed: the next run starts when no kubeadm is
left ("Inspect a failed node before retrying"), and install is used where
nothing is registered.

### SshNode
`ConnectContext` of each node as a goroutine under connect's errgroup, its
handshake, its `AfterFunc` watcher, and `bounded` with the goroutine of its
operation. The server may answer, refuse or never answer.

### Subsequences
`Pick(s, I)`: the elements of `s` at the indices in `I`, in their order. Two loops
of the code build a sequence by keeping some elements of another one: the duplicates
that `prependMissingSteps` drops and the lines that awk prints. `Pick` says so with a
function and no recursion, because of a recursive definition (`SelectSeq` is one) the
prover knows nothing.

### Sessions
What the steps rely on of all that, without sockets, goroutines and contexts: a
session per node; none is used before all are open; it carries one command at a
time, breaks only under a command that is given up, and all end together when no
command is under way. `SshNode` implements it: `SessionOf` maps the state of a
node's goroutines to its session, `ImplementsSessions` is `Sessions!Spec` under
that mapping.

### StepPlan, Provision
`StepPlan` has the two step tables and what `--step` makes of them; a step is a
number and the kind of its work. `Provision` runs such plans. `host` holds the
state of each part of a node ("none", "half", "ready") and the aliases in
`/etc/hosts`; `script` is the install script that runs on a host and goes on
when its task gives up (`TimesOut`) or the run is cancelled. `Accepts` is the
guards the scripts start with. A "half" part may or may not do for what builds
on it. `whole` and `subject` are history: whether this run and those it resumes
make a complete one, and the nodes these found new. Assumed: the next run starts
when no script is left; nodes of an existing cluster are control-planes with a
working kubectl.

### Launch
From the command line to the scripts' arguments. A setting is the kind of its text
(`Values`): the kinds some check tells apart, and no text. `Loaded`, `NodeBuilt`
and `Checked` are what `config.Load`, the options and `Engine.check` accept before
connecting; `Connects` is `ConnectContext`; `InitAccepts` ... `NfsAccepts` are the
guards of the scripts, each over the arguments that `engine.go`, `ha.go` and
`cluster.go` give it, and the sudo user's name, which `init/install.sh` looks at when
it has already changed the host. `Launch` computes the plan; `Step` runs one step or stops at
a guard. Every failure other than a refused setting is left out.

### Istio
`installCalico`, the end of a join, `installIstio` and `ensureIstioReady`, with the
script on the management node as a process of its own. A command of the engine
goes over one connection; `GiveUp` is `bounded` closing it, after which every later
command of the run is `Refused`. `Passed` and `Failed` are the control flow of the
readiness checks with their two recoveries; `NoEndpoints` and `Expire` the endpoint
polls and their deadline. `LokiRead` to `LokiApply` are `loki-storage.sh`, between
which storage classes come and go (`SetClass`). Assumed: the next run starts when
no script is left.

### HostsFile
`hostsCommand`'s shell pipeline in its parts - awk to a temporary file, then the
`cat` that truncates first - on a file of lines with aliases and comments, and the
loop of the init step. Each part may fail; a `cat` may be cut short after any line or
within one (`CutShort`), where a cut word may read as another node's name; the caller
may give up while the command goes on. The init step may be run again after any of
this: the guards of `init/install.sh` look for a runtime and a kubelet, which only
later steps install, so it accepts the host and the loop edits a torn file. `first` is
the file the first of these runs found, `cut` whether a `cat` was cut since. Assumed:
no command of an earlier run is at work when the next begins.

## 3. Runs and bounds

| Run | Properties | Bounds |
|---|---|---|
| `ha_sync` | TypeOK, NoSplitBrain, AtMostOneDown, VipStaysOnMaster, IInv, SuccessIsComplete | three control-planes, every order of three, both orders of two, one alone; three runs |
| `ha_reboot` | RTypeOK, RebootSafe | two control-planes, or three in another order; three runs, two reboots |
| `join` | TypeOK, EtcdSerial, SuccessIsJoined, NoAbandonedJoin, MInv, RunEnds | from one node to five: one existing and two new control-planes (one also a worker, listed before the existing one), two new workers; three runs |
| `join_registration_race` | MismatchIsReal, refuted | one existing, one new control-plane, one worker |
| `join_resume` | ResumeComplete, refuted | as above |
| `ssh_node` | TypeOK, NoLeak, ConnectedIsOpen, NoBufferRace, CancelEnds, FailureEndsConnect, ImplementsSessions | two nodes, one command each after connecting |
| `step_plan` | PlanSound, RefusedEarly, DocumentedRuns | every selection of up to four of six numbers, two of them invalid; every settings that differ from the example in at most two places, for selections of at most one number |
| `empty_timezone` | EmptyTimezoneKept, refuted | as above |
| `provision` | TypeOK, SuccessIsProvisioned, IInv, JoinedUntouched, DiscoveryFirst | a possibly existing and a new node, complete runs and three selections, three runs |
| `istio` | TypeOK, RecoveryAfterInstall, LokiRetained, SuccessVerified, RunEnds | three runs |
| `istio_recovery` | RecoveryReachesHost, refuted | one run |
| `hosts_file` | TypeOK, EditCorrect, AllOrNothing, NamesListed | two names, three addresses, three first files, two edits before the init step, two runs of it |

Why the bounds are enough: three runs are an install, a failed change of it and
the retry of that; a third control-plane gives pairs of which one is the
management node, one active, one new, and priorities that differ without it. Two
reboots restart both nodes of a pair. Two workers and two new control-planes are
the least with a parallel and a serial loop. One connecting node and one sibling
show every influence between nodes, as they share nothing but the errgroup's
context. A selection of four numbers has duplicates, required steps in every
position and all relative orders of two other steps. Two variations of the settings
reach every conjunct of every guard alone and most in pairs; `NothingElseStopsLate`,
`DocumentedRunsEnd` and `PlansAreSound` prove the three properties for the rest. Three
runs of Istio are one that is cut anywhere, its retry, and a reinstallation. The first
files have a name at a stale address, a shared line and names in comments; two runs of
the init step are one that fails or is cut and its retry.

The bounds are `MaxRuns`, `MaxReboots`, `MaxCmds`, `MaxSelected`, `MaxVaried`,
`MaxEdits` and `MaxLoops`; systems that reach one stop, and so do complete runs, hence
`CHECK_DEADLOCK FALSE`.

What the properties say:

- `NoSplitBrain`: of any two nodes that could hold the VIP one hears the other
  and yields - at every moment, not just after success.
- `AtMostOneDown`: of the nodes that served when an expansion began, the tool
  has at most one down.
- `VipStaysOnMaster`: while the cluster is initialized no backup runs, also in a
  retry that starts among running backups.
- `SuccessIsComplete`: every control-plane serves with all others as peers and
  backends; one MASTER; distinct priorities.
- `EtcdSerial`, `NoAbandonedJoin`, `SuccessIsJoined`, `RunEnds`: see section 1.
- `NoLeak`, `ConnectedIsOpen`, `NoBufferRace`, `CancelEnds`,
  `FailureEndsConnect`: see section 1.
- `PlanSound`: the plan agrees with a reference that says what it must contain
  and what precedes what, and not how it is built.
- `JoinedUntouched`, `DiscoveryFirst`, `SuccessIsProvisioned`: see section 1.
- `RebootSafe`: through an install and its retries, and after any run that
  succeeded, the *files* are as safe as the processes. It is restricted to these on
  purpose: in the Keepalived loop of an expansion an existing control-plane where
  Keepalived was inactive, and which still has its old file, may reboot after a new
  node was started; then neither hears the other until the loop has reached it.
- `ImplementsSessions`: see Sessions.
- `RefusedEarly`: a script refuses only settings on a list of what no Go check
  reads (`Unread`); for every other setting the Go checks imply the scripts'.
- `DocumentedRuns`: settings the tool's README allows are refused for nothing but three
  kinds of them (`RefusedAnyway`, see section 4); and with one of these three no run of
  all steps comes to its end, so the list is no longer than it has to be.
- `RecoveryAfterInstall`, `SuccessVerified`, `LokiRetained`: see section 1; the
  interesting runs are those that follow a script cut half way.
- `EditCorrect` compares with a reference on names and addresses that knows neither
  awk's order of rules nor its output; `AllOrNothing` excepts only the cut `cat`.
- `NamesListed`: what the init step makes of that exception when it is run again, and of
  failures and timeouts: every name is listed, in whatever order the map iterates. Names
  is all that is made up for: the other lines a cut `cat` lost stay lost, and a line cut
  within a name may give a node another one's address, which the loop takes for good.

Every property is broken by a plausible bug: the definitions marked "Mutant" are
such bugs, and PROJECT.json names the property that notices each.

### Fairness
`Join` assumes weak fairness of the engine's own steps and of the timeouts of
its commands and polls: every `Run` and every poll has a deadline
(`node.go:402-425`, `cluster.go:116-144`). It assumes nothing of kubeadm, the
kubelet or the operator. `SshNode` assumes that goroutines are scheduled and
that a passed deadline of the socket ends the handshake; it assumes neither that
a server answers nor that a timeout passes - so `CancelEnds` cannot be due to
one. `Istio` assumes weak fairness of the engine's own steps, of the command timeout
(`GiveUp`) and of the deadline of the polls, as `Join` does, and nothing of the
scripts or the API server. The other specifications claim no liveness and have no
fairness.

## 4. Findings

- `join_registration_race`: `waitForNodeRegistered` asks by name and then by
  address. Any answer to the second query is reported as "node registered as %q,
  expected %q", although the node may have registered under the expected name
  between the queries, or the first query may simply have failed. A good join is
  then aborted with the advice to reset the node.
- `join_resume`: a control-plane whose run failed after registration is not new
  for the next one. `--update --step 9,10` succeeds and leaves it without
  kubeconfig, or tainted though it is a worker.
- `istio_recovery`: when the rollout query of istiod timed out, `bounded` has closed
  the only connection; the restart that `ensureIstioReady` announces then fails at
  once. The recovery works after a query that failed and not after one that hung.
- `empty_timezone`: an empty time zone, documented as "preserves the existing
  timezone", is refused by the chrony script when a time server is set; TLC's trace is
  an install of all steps that stops there after init has changed every new host.

`DocumentedRuns` states this pair and two more documented settings that a script
refuses late, as what holds of the code: a sudo user whose name has a character like the
dot of john.doe (README.MD:39 asks for "a sudo-capable user", `Username` decodes any name,
and `init/install.sh:19` fails with "Invalid sudo user" after lines 15-17 have installed
packages and set the time zone); and an AWS region with more than one word in the middle
like us-gov-west-1 (README.MD:93 and 155 say "an AWS region", no Go check reads it, and
`keepalived/install.sh:10` fails with "Invalid AWS region" in step 9 of an install).

## 5. Proofs

TLAPS checks the following for every value of the constants that satisfies the
assumptions named in the modules: `NodeAssumption` (finitely many nodes with numeric
addresses), `ConfigsAssumption` and `JoinAssumption` (the lists are accepted ones),
`ProvisionAssumption` and `HostsAssumption` (constants of the right kind; the configured names
have distinct addresses, as `check` demands), `LaunchAssumption`
(settings are kinds of text); bounds are naturals. Every invariant and action property
that a run checks is a theorem.

- `HaProofs`, in three parts. The lists (`Topology`): every accepted list has a
  management node and it is a control-plane; priorities lie in 1..100; they are
  distinct up to 100 control-planes (the boundary that the clamp at 1 sets and no run
  reaches).

  The protocol (`HaSync`): `TypeCorrect`, `Inv`, `NoTwoMasters`, `VipOnMaster`, `OneDown`,
  `SuccessLeavesAll`. The invariant: processes that run know each other (`Peered`) -
  not inductive by itself, since a start needs to know that the new process will
  know those that run *and* that those know it. `Listed` confines all of this to
  configured nodes of the list, where addresses differ; `InstallFull` gives a first
  install the full list in every file; `Written` says whose file is ready when a
  loop starts processes; `Refreshed` is the argument for `syncHA`: whatever runs was
  seen active, all that runs knows all that were seen active, and those after their
  turn know everyone, so when the first inactive node is started - only after all
  active ones had their turn - all running peers know it. `Quiet` (backups are
  stopped after their turn, and a retry has the same management node) gives
  `VipStaysOnMaster`; `InTurn` (who served is down only in its turn, and a turn is
  one node's) gives `AtMostOneDown`; `HadTurn` and `AtTurn` (what had its turn is as
  it should be, and an install is resumed only where the earlier steps are done)
  give `SuccessIsComplete`, for lists of at most 100 control-planes - beyond that the
  clamp makes priorities equal and the property is false.

  Reboots (`HaReboot`): `RTypeCorrect`, `RInv`, `RebootsAreSafe`. What a reboot starts
  is a file, so the invariant needs the full list in every file and process
  (`Restored`) wherever `RebootSafe` speaks.
- `JoinProofs`: `TypeCorrect`, `Inv`, `EtcdChangesAreSerial`, `NothingAbandoned`,
  `MembershipInv`, `SuccessMeansJoined`. The step of the run bounds the kubeadm
  processes there can be on control-planes (`Serial`), and each process is awaited or
  given up (`Awaited`). The delicate case is a timeout: the engine must not reach
  another step than the end of the run while the timed-out kubeadm goes on - which
  also is what keeps a late `Mark` from tainting a node whose taint was removed.
  `Members`, `Turn` and `HadTurn` say who is a member where the run stands.
- `SequenceProofs`: what `Pick` returns, and `PlanIsSound`: for every selection
  that is accepted, of any length, order and repetition, the plan has exactly the
  selected and the required steps, each once, the required ones before what needs
  them. The argument: the plan is a selection of distinct positions in the required
  steps followed by the selected ones, so two steps are in the order of the first
  place where each occurs.
- `LaunchProofs`: `Inv`, `NothingElseStopsLate`, `PlansAreSound`, `DocumentedRunsEnd`:
  `RefusedEarly`, `PlanSound` and `DocumentedRuns` for every offer of settings and
  every selection, not only the variations of the example. That a run with a setting of
  `RefusedAnyway` does not come to its end needs `Executed`: each step of the plan was
  accepted by its script or is still to do.
- `ProvisionProofs`: `TypeCorrect`, `Inv`, `NeverOverwritten`, `ExpansionChecksFirst`,
  `CompleteRunsProvision`. A script that runs belongs to the current step, because a
  step returns only when every script has ended or been given up, and the latter ends
  the run with an error; and one that takes a component down was started on a host
  that had not joined - which stays so, as only a script of another step could join
  it. `DiscoveryFirst` needs `PInv`: until check new has succeeded in an expansion,
  it stands before every later step in what is left of the plan, and what is left of
  all steps is ascending (`Planned`). `SuccessIsProvisioned` needs `WInv` besides:
  what a task reported is on its host (`Reported`), and through all runs that resume
  one another every step that is not left in the plan has been done on every node
  these runs found new (`Provisioned`). The delicate part is an expansion that is
  resumed: it finds the new nodes afresh, so the invariant also says that none is new
  now that was not new before some step was done, and that a node which joined
  meanwhile has nothing left but the join itself.
- `SshNodeProofs`: `TypeCorrect`, `Inv`, `NothingLeaks`, `StaysOpen`, `NoRace`,
  `SessionsImplemented`. `Handover` says who owns a socket before it is stored, and
  that a watcher that fired did so because the context had ended - which is what
  `ConnectContext`'s check after the handshake relies on; `Calling` gives each
  operation a caller and each caller a connection; `Phases` the steps only connected
  nodes. The refinement is proved action by action; the invariant is needed because
  `Sessions` lets no command start before every session is open.
- `IstioProofs`: `TypeCorrect`, `Inv`, `NoRecoveryOverFailure`, `StorageIsRetained`,
  `SuccessIsVerified`. `Awaited`: a script that runs is awaited by its step or the
  run is over; `Progress`: a script that stands at a part has applied those before;
  `Observed`: what ensureIstioReady has seen where it stands; `ModeFound`: a storage
  that exists is the one the script found, as no two scripts run at a time.
- `HostsFileProofs`: `TypeCorrect`, `AwkFacts`, `Inv`, `EditsAreCorrect`, `OldOrNew`,
  `LoopListsNames`, for every file, name and address. `AwkFacts` is about one edit of
  one file. `InFlight` says what the temporary file and the target hold at each point
  of the pipeline, so that only a cut `cat` can leave something else than the old
  or the new file; `Looping`, that each run of the loop has listed the names it left
  behind, whatever file it began with (`Listed`), and that while no `cat` was cut every
  name has its first addresses or the ones it is to have, over all runs (`Sound`) - an
  edit of one name adds a line of its own and takes none from another.

Only model-checked: liveness (`RunEnds` of `Join` and `Istio`, `CancelEnds`,
`FailureEndsConnect`), which needs reasoning about fairness and enabledness that the
prover does not support; and, being false, the four properties of section 4.

## 6. Not modelled

- AWS VIP (`aws-vip.sh`): one idempotent EC2 request per `notify_master`, which names
  neither the VRRP state nor the address it replaces. What two nodes' requests lead
  to is decided by EC2's ordering alone: a model would be one of EC2.
- Embedded resources, charts, image scripts, Helm, NFS and application installation:
  sequential input and output (the settings they refuse are in `Launch`).
- The contents of file transfers (`Stage`, `copyDir`), and a script rewritten by a
  retry while a bash that was given up still reads it: the modules assume, as the
  README of the tool asks, that no script is left when the next run starts.
- Defaults that only name a constant, YAML decoding, `--steps`.
- Of the modelled parts, text (files, commands, JSON), versions, credentials and
  downloads are reduced to "succeeds or fails".

## 7. What could follow

1. An abstract membership service that `Join` implements, as `SshNode` implements
   `Sessions`.
2. `Provision` with node lists that change between runs, where a list gains a fresh
   host after a failure.
3. `Join` started again while a timed-out kubeadm is left, contrary to the tool's
   README, to show what exactly the inspection protects.
4. One composition of `Provision`, `Join` and `HaSync` over the hosts they share;
   today each assumes of the others what their invariants say.
