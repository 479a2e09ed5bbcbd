------------------------------ MODULE HaReboot ------------------------------
(***************************************************************************)
(* HaSync on hosts that reboot, also under a running script.  The install  *)
(* scripts enable both services, and the packages already do: what has a   *)
(* file starts with the host, the backups that an install stopped too, and *)
(* with the file, not with what it ran with before.  The run has lost its  *)
(* connection to the host and fails when its turn comes.                   *)
(***************************************************************************)
EXTENDS HaSync

CONSTANT MaxReboots   \* bound

ASSUME RebootAssumption == MaxReboots \in Nat

VARIABLES gone,       \* hosts to which the run has lost its connection
          reboots
rvars == <<vars, gone, reboots>>

RInit == Init /\ gone = {} /\ reboots = 0

Reboot(n) ==
  /\ reboots < MaxReboots /\ reboots' = reboots + 1
  /\ IF kaFile[n] = NoConf THEN UNCHANGED <<kaUp, kaConf>>
     ELSE kaUp' = kaUp \cup {n} /\ kaConf' = [kaConf EXCEPT ![n] = kaFile[n]]
  /\ pxUp' = IF pxConf[n] = {} THEN pxUp ELSE pxUp \cup {n}
  /\ gone' = IF Idle THEN gone ELSE gone \cup {n}
  /\ served' = served \ {n}
  /\ UNCHANGED <<member, kaFile, pxConf, engine, resume, runs>>

RunStep ==
  \/ JoinDone \/ NextStep
  \/ \E n \in Control \ gone :
       \/ JoinOne(n) \/ ProbeOne(n) \/ ProxyStop(n) \/ ProxyStart(n) \/ KaWrite(n) \/ KaStop(n)
       \/ KaStart(n) \/ StopBackup(n) \/ StartBackup(n)

RNext ==
  \/ StartInstall /\ gone' = {} /\ UNCHANGED reboots
  \/ Abort /\ gone' = {} /\ UNCHANGED reboots
  \/ \E c \in Configs, m \in Control : StartUpdate(c, m) /\ gone' = {} /\ UNCHANGED reboots
  \/ RunStep /\ UNCHANGED <<gone, reboots>>
  \/ \E n \in Control : (LosePeer(n) \/ Restore(n)) /\ UNCHANGED <<gone, reboots>>
  \/ \E n \in Control : Reboot(n)

RSpec == RInit /\ [][RNext]_rvars

-----------------------------------------------------------------------------
RTypeOK == TypeOK /\ gone \subseteq Control /\ reboots \in 0..MaxReboots

(* The files a run leaves behind are as safe as its processes: through an  *)
(* install and its retries, and after any run that succeeded, hosts that   *)
(* reboot in whatever order never give the VIP two holders.  A run cut in  *)
(* the Keepalived loop of an expansion does not promise that.              *)
RebootSafe == mode = "install" \/ pc = "done" => NoSplitBrain

-----------------------------------------------------------------------------
(* Why RebootSafe holds: the inductive invariant of its proof.             *)

(* Every file and process has the full list ...                            *)
Restartable(n) ==
  /\ n \in Configured => kaFile[n].peers = Peers(cfg, n)
  /\ n \in kaUp => kaConf[n].peers = Peers(cfg, n)

(* ... in an install and after success; in the Keepalived loop of an       *)
(* expansion on the nodes that had their turn.                             *)
Restored ==
  /\ mode = "install" \/ pc = "done" => \A n \in Control : Restartable(n)
  /\ mode = "update" /\ pc = "vrrp" => \A n \in HaNodes \ todo : Restartable(n)

RIInv == /\ RTypeOK /\ Listed /\ Written /\ Phases /\ Restored
         /\ member = {} => mode = "install"
=============================================================================
