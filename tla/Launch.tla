------------------------------- MODULE Launch -------------------------------
(***************************************************************************)
(* From the command line and config.yaml to the arguments of the install   *)
(* scripts.  The settings are read three times: by the Go code before it   *)
(* connects (main.go, config.Load, the options of node and engine,         *)
(* Engine.check), by ConnectContext, and by the guards that each script    *)
(* starts with - which repeat some checks, in another language, and make   *)
(* others that Go does not.  What a guard refuses is refused late, on      *)
(* hosts that earlier steps have changed.                                  *)
(*                                                                         *)
(* A setting is the kind of its text.  The list has a good control-plane,  *)
(* which comes first, and the node of these settings, which is new;        *)
(* Topology has what relates the nodes of a list.  Left out: every failure *)
(* but a refused setting.                                                  *)
(***************************************************************************)
EXTENDS StepPlan

CONSTANTS Numbers,     \* what may be typed for --step
          MaxSelected, \* bound on its length
          Offered(_)   \* the settings launched with a selection of that length

VARIABLES mode,     \* --update or not
          sel,      \* --step
          settings, \* the configuration of this invocation
          pc,       \* "typing", "run", "refused" (before connecting), "stopped", "done"
          plan      \* the steps to do
vars == <<mode, sel, settings, pc, plan>>

(* The kinds of text to tell apart; "mapped" is ::ffff:192.168.0.1, the    *)
(* time server "node" is the address of the node of these settings.  A     *)
(* "partition" is a region of AWS like us-gov-west-1 ("other" is none at   *)
(* all), and a "dotted" user one like john.doe, with what Linux and SSH    *)
(* allow in a name and init/install.sh does not.                           *)
Values == [
  keys |-> {"known", "unknown"}, timeouts |-> {"positive", "zero"},
  kubernetes |-> {"exact", "other"}, istio |-> {"bundled", "exact", "other"},
  cri |-> {"run", "var", "other"}, vip |-> {"v4", "mapped", "v6", "text"},
  region |-> {"", "region", "partition", "other"}, registry |-> {"host", "", "other"},
  namespace |-> {"name", "", "other"}, ntpServer |-> {"", "host", "node", "other"},
  ntpAllow |-> {"", "net", "other"}, timezone |-> {"zone", "", "other"},
  nfsServer |-> {"", "host", "other"}, nfsPath |-> {"", "absolute", "other"},
  insecure |-> {"no", "yes"}, flag |-> {"unset", "no", "yes"}, knownHosts |-> {"file", "missing"},
  address |-> {"v4", "mapped", "v6", "text"}, hostname |-> {"name", "other"},
  roles |-> SUBSET {"etcd", "controlplane", "worker", "other"},
  username |-> {"name", "dotted", "", "other"}, password |-> {"base64", "other"},
  keyPath |-> {"", "key", "missing"}, pin |-> {"", "SHA256", "other"} ]

Typed(s) == \A f \in DOMAIN Values : s[f] \in Values[f]

ASSUME LaunchAssumption ==
  /\ Numbers \subseteq Int /\ MaxSelected \in Nat
  /\ \A k \in 0..MaxSelected : \A s \in Offered(k) : Typed(s)

(* README.MD's example.                                                    *)
Example == [
  keys |-> "known", timeouts |-> "positive", kubernetes |-> "exact", istio |-> "bundled",
  cri |-> "run", vip |-> "v4", region |-> "", registry |-> "host", namespace |-> "name",
  ntpServer |-> "", ntpAllow |-> "", timezone |-> "zone", nfsServer |-> "", nfsPath |-> "",
  insecure |-> "no", flag |-> "unset", knownHosts |-> "file", address |-> "v4",
  hostname |-> "name", roles |-> {"etcd", "controlplane", "worker"}, username |-> "name",
  password |-> "base64", keyPath |-> "", pin |-> "" ]

Init ==
  /\ mode \in {"install", "update"} /\ sel = <<>> /\ settings = Example
  /\ pc = "typing" /\ plan = <<>>

Type(k) ==
  /\ pc = "typing" /\ Len(sel) < MaxSelected /\ sel' = Append(sel, k)
  /\ UNCHANGED <<mode, settings, pc, plan>>

-----------------------------------------------------------------------------
(* Before connecting.                                                      *)

(* Mutant: the Kubernetes version is not checked.                          *)
LoadedUnchecked(s) ==
  /\ s.keys = "known" /\ s.timeouts = "positive" /\ s.istio # "other"
  /\ s.cri # "other" /\ s.address # "text" /\ s.hostname = "name"

Loaded(s) ==
  /\ s.keys = "known" /\ s.timeouts = "positive" /\ s.kubernetes = "exact" /\ s.istio # "other"
  /\ s.cri # "other" /\ s.address # "text" /\ s.hostname = "name"

(* An explicit flag overrides the file, false too.                         *)
SkipHostKeyCheck(s) == IF s.flag # "unset" THEN s.flag = "yes" ELSE s.insecure = "yes"

PinAccepted(s) == SkipHostKeyCheck(s) \/ s.pin # "other"
NodeBuilt(s) == "other" \notin s.roles /\ s.username # "other" /\ s.password # "other" /\ PinAccepted(s)

IsControl(s) == "controlplane" \in s.roles

(* Mutant: every time server needs the networks it may serve.              *)
CheckedAllow(s) ==
  /\ s.vip \in {"v4", "mapped"} /\ s.registry # "" /\ s.address \in {"v4", "mapped"}
  /\ "etcd" \in s.roles <=> IsControl(s)
  /\ IsControl(s) \/ "worker" \in s.roles
  /\ s.ntpServer # "" => s.ntpAllow # ""

Checked(s) ==
  /\ s.vip \in {"v4", "mapped"} /\ s.registry # "" /\ s.address \in {"v4", "mapped"}
  /\ "etcd" \in s.roles <=> IsControl(s)
  /\ IsControl(s) \/ "worker" \in s.roles
  /\ s.ntpServer = "node" => s.ntpAllow # ""

(* The steps to do, and what lets them begin.                              *)
Todo == IF sel = <<>> THEN All(mode) ELSE Plan(mode, sel)
Good(s) == Loaded(s) /\ NodeBuilt(s) /\ Checked(s) /\ Todo # <<>>

Launch(s) ==
  /\ pc = "typing" /\ settings' = s
  /\ pc' = IF Good(s) THEN "run" ELSE "refused"
  /\ plan' = IF Good(s) THEN Todo ELSE <<>>
  /\ UNCHANGED <<mode, sel>>

-----------------------------------------------------------------------------
(* The steps, for what they read of the settings.                          *)
Scripts ==
  IF mode = "install"
    THEN <<"connect", "init", "chrony", "containerd", "kubeadm", "images", "helm",
           "haproxy", "keepalived", "start", "calico", "nfs", "istio", "app">>
    ELSE <<"connect", "check new", "init", "chrony", "containerd", "kubeadm", "images",
           "nfs-utils", "join", "synchronize">>

Connects(s) == s.keyPath # "missing" /\ (SkipHostKeyCheck(s) \/ s.pin # "" \/ s.knownHosts = "file")

(* The user's name is looked at last, when the packages are installed and  *)
(* the time zone is set; root, the default, has no $SUDO_USER.             *)
ZoneAccepted(s) == s.timezone # "other"
InitAccepts(s) == s.hostname = "name" /\ ZoneAccepted(s) /\ s.username # "dotted"

ChronyAccepts(s) ==
  s.ntpServer # "" =>
    /\ s.ntpServer # "other" /\ (s.ntpServer = "node" => s.address = "v4")
    /\ s.ntpAllow # "other" /\ s.timezone = "zone"
HaproxyAccepts(s) == IsControl(s) => s.hostname = "name" /\ s.address = "v4"
KeepalivedAccepts(s) ==
  s.vip = "v4" /\ s.region \in {"", "region"} /\ (IsControl(s) => s.address = "v4")
StartAccepts(s) ==
  s.vip = "v4" /\ s.kubernetes = "exact" /\ s.cri # "other" /\ s.registry = "host"
NfsAccepts(s) ==
  s.nfsServer # "" => s.nfsServer = "host" /\ s.nfsPath = "absolute" /\ s.namespace = "name"

Accepts(script, s) ==
  CASE script = "connect" -> Connects(s)
    [] script = "init" -> InitAccepts(s)
    [] script = "chrony" -> ChronyAccepts(s)
    [] script \in {"kubeadm", "images"} -> s.kubernetes = "exact"
    [] script = "haproxy" -> HaproxyAccepts(s)
    [] script = "keepalived" -> KeepalivedAccepts(s)
    [] script = "synchronize" -> HaproxyAccepts(s) /\ KeepalivedAccepts(s)
    [] script = "start" -> StartAccepts(s)
    [] script = "nfs" -> NfsAccepts(s)
    [] script = "istio" -> s.istio = "bundled"
    [] OTHER -> TRUE   \* reads no setting

Step ==
  /\ pc = "run"
  /\ IF ~Accepts(Scripts[Head(plan)], settings) THEN pc' = "stopped" /\ UNCHANGED plan
     ELSE plan' = Tail(plan) /\ pc' = IF Tail(plan) = <<>> THEN "done" ELSE "run"
  /\ UNCHANGED <<mode, sel, settings>>

Next == Step \/ (\E k \in Numbers : Type(k)) \/ (\E s \in Offered(Len(sel)) : Launch(s))
Spec == Init /\ [][Next]_vars

-----------------------------------------------------------------------------
(* What no Go check reads, or Go takes for another kind of text than the   *)
(* scripts do.                                                             *)
Unread(s) ==
  \/ s.vip = "mapped" \/ s.address = "mapped" \/ s.region \in {"partition", "other"}
  \/ s.registry = "other" \/ s.istio = "exact" \/ s.timezone = "other" \/ s.username = "dotted"
  \/ s.ntpServer # "" /\ (s.ntpServer = "other" \/ s.ntpAllow = "other" \/ s.timezone = "")
  \/ s.nfsServer # "" /\ (s.nfsServer = "other" \/ s.nfsPath # "absolute" \/ s.namespace # "name")

(* Roles, addresses, host names, versions, the CRI socket and the rest of  *)
(* the credentials: what of them passes the Go checks is accepted by every *)
(* script of any selection.  Only the listed settings can stop a run on    *)
(* hosts it has changed.                                                   *)
RefusedEarly == pc = "stopped" /\ Scripts[Head(plan)] # "connect" => Unread(settings)

(* prependMissingSteps and its callers agree with the reference on every   *)
(* selection, and refuse one with a number outside the table.              *)
PlanSound ==
  IF sel # <<>> /\ Elems(sel) \subseteq 1..(IF mode = "install" THEN 14 ELSE 10)
    THEN PlanMeets(mode, sel, Plan(mode, sel))
    ELSE Plan(mode, sel) = <<>>

(* README.MD:144-191: the example and what its comments allow to leave     *)
(* empty, to set or to override - any region of AWS and any user with root *)
(* access or sudo (README.MD:39) among it.                                 *)
Documented(s) ==
  /\ \A f \in {"keys", "timeouts", "kubernetes", "istio", "vip", "registry", "namespace", "address",
               "hostname"} : s[f] = Example[f]
  /\ s.cri # "other" /\ "other" \notin {s.region, s.timezone, s.ntpServer, s.ntpAllow, s.username, s.password}
  /\ s.ntpServer = "node" => s.ntpAllow = "net"
  /\ s.nfsServer \in {"", "host"} /\ (s.nfsServer = "host" => s.nfsPath = "absolute")
  /\ s.keyPath # "missing"
  /\ s.flag = "yes" \/ (s.flag = "unset" /\ s.insecure = "yes") \/ s.pin = "SHA256"
       \/ (s.pin = "" /\ s.knownHosts = "file")
  /\ s.roles \in {{"etcd", "controlplane"}, {"worker"}, {"etcd", "controlplane", "worker"}}

Stops == pc \in {"refused", "stopped"} /\ (sel = <<>> \/ Accepted(mode, sel))

(* The documented settings that a script refuses.                          *)
RefusedAnyway(s) ==
  s.username = "dotted" \/ s.region = "partition" \/ (s.ntpServer # "" /\ s.timezone = "")

(* A documented configuration, whatever it leaves empty, is refused for    *)
(* nothing but one of these three - and with any of the three no run of    *)
(* all steps comes to its end.                                             *)
DocumentedRuns ==
  Documented(settings) =>
    /\ Stops => RefusedAnyway(settings)
    /\ pc = "done" /\ sel = <<>> => ~RefusedAnyway(settings)

(* README.MD:172, of ntp.timezone: "empty preserves the existing timezone".*)
(* Yet a run of all steps is stopped for it once init has changed the host.*)
EmptyTimezoneKept ==
  pc = "stopped" /\ sel = <<>> /\ Scripts[Head(plan)] = "chrony" =>
    ~(Documented(settings) /\ settings.timezone = "")

(* Why these hold: the inductive invariant of their proofs.                *)
Passed(s) == Typed(s) /\ Loaded(s) /\ Checked(s)
Executed ==
  \A i \in DOMAIN Todo :
    Accepts(Scripts[Todo[i]], settings) \/ \E j \in DOMAIN plan : plan[j] = Todo[i]
IInv ==
  /\ sel \in Seq(Numbers) /\ Len(sel) <= MaxSelected
  /\ pc \in {"run", "stopped"} => Passed(settings)
  /\ pc = "stopped" => ~Accepts(Scripts[Head(plan)], settings)
  /\ pc = "refused" => Typed(settings) /\ ~Good(settings)
  /\ pc = "run" => plan # <<>>
  /\ pc = "done" => plan = <<>>
  /\ pc \in {"run", "stopped", "done"} => plan \in Seq(Int) /\ Executed
=============================================================================
