------------------------------ MODULE HaProofs ------------------------------
(***************************************************************************)
(* What Topology derives from a node list, and NoSplitBrain,               *)
(* VipStaysOnMaster, AtMostOneDown, SuccessIsComplete (HaSync) and         *)
(* RebootSafe (HaReboot) for every set of nodes, every node list and any   *)
(* number of runs and of reboots.                                          *)
(***************************************************************************)
EXTENDS HaReboot, FiniteSetTheorems, WellFoundedInduction, TLAPS

(* The node lists.                                                         *)

(* A listed node has exactly one position.                                 *)
LEMMA PosType ==
  ASSUME NEW c, ValidConfig(c), NEW n \in Nodes(c)
  PROVE  Pos(c, n) \in DOMAIN c /\ Pos(c, n) \in Nat /\ c[Pos(c, n)] = n
<1>1. \E i \in DOMAIN c : c[i] = n
  BY DEF Nodes
<1>2. Pos(c, n) \in DOMAIN c /\ c[Pos(c, n)] = n
  BY <1>1 DEF Pos
<1>3. DOMAIN c \subseteq Nat
  BY DEF ValidConfig
<1> QED
  BY <1>2, <1>3

LEMMA PosInjective ==
  ASSUME NEW c, ValidConfig(c), NEW m \in Nodes(c), NEW n \in Nodes(c),
         Pos(c, m) = Pos(c, n)
  PROVE  m = n
BY PosType

(* Two listed nodes have different addresses.                              *)
LEMMA AddrInjective ==
  ASSUME NEW c, ValidConfig(c), NEW m \in Nodes(c), NEW n \in Nodes(c),
         AddrOf[m] = AddrOf[n]
  PROVE  m = n
<1>1. PICK i \in DOMAIN c, j \in DOMAIN c : c[i] = m /\ c[j] = n
  BY DEF Nodes
<1> QED
  BY <1>1 DEF ValidConfig, Distinct

LEMMA NodesFinite ==
  ASSUME NEW c, ValidConfig(c)
  PROVE  /\ Nodes(c) \subseteq Node /\ Controls(c) \subseteq Control
         /\ IsFiniteSet(Controls(c))
<1>1. Nodes(c) \subseteq Node
  BY DEF Nodes, ValidConfig
<1>2. Controls(c) \subseteq Node /\ Controls(c) \subseteq Control
  BY <1>1 DEF Controls
<1> QED
  BY <1>1, <1>2, FS_Subset, NodeAssumption

(* The management node AddNode picks is a control-plane of the list.       *)
THEOREM FirstControlIsControl ==
  ASSUME NEW c, ValidConfig(c)
  PROVE  FirstControl(c) \in Controls(c)
<1> DEFINE P == {Pos(c, n) : n \in Controls(c)}
<1>1. P \subseteq Nat /\ P # {}
  BY PosType DEF Controls, ValidConfig, RolesAccepted
<1>2. PICK x \in P : \A y \in P : ~ (<<y, x>> \in OpToRel(<, Nat))
  BY <1>1, WFMin, NatLessThanWellFounded
<1>3. \A y \in P : x <= y
  <2>1. OpToRel(<, Nat) = {ss \in Nat \X Nat : ss[1] < ss[2]}
    BY DEF OpToRel
  <2>2. \A y \in P : <<y, x>> \in Nat \X Nat
    BY <1>1
  <2>3. \A y \in P : ~(y < x)
    BY <1>2, <2>1, <2>2
  <2> QED
    BY <1>1, <2>3
<1>4. PICK n \in Controls(c) : x = Pos(c, n)
  OBVIOUS
<1>5. \A m \in Controls(c) : Pos(c, n) <= Pos(c, m)
  BY <1>3, <1>4
<1> QED
  BY <1>4, <1>5 DEF FirstControl

LEMMA AheadFinite ==
  ASSUME NEW c, ValidConfig(c), NEW lead, NEW n
  PROVE  IsFiniteSet(Ahead(c, lead, n)) /\ Cardinality(Ahead(c, lead, n)) \in Nat
<1>1. Ahead(c, lead, n) \in SUBSET Controls(c)
  BY DEF Ahead, Backups
<1> QED
  BY <1>1, NodesFinite, FS_Subset, FS_CardinalityType

(* A VRRP priority keepalived/install.sh accepts (1 to 254).               *)
THEOREM PriorityType ==
  ASSUME NEW c, ValidConfig(c), NEW lead, NEW n
  PROVE  Priority(c, lead, n) \in 1..100
BY AheadFinite DEF Priority

(* With at most 100 control-planes no two get the same priority, so one    *)
(* advert decides between any two of them.                                 *)
THEOREM PriorityDistinct ==
  ASSUME NEW c, ValidConfig(c), NEW lead \in Controls(c),
         Cardinality(Controls(c)) <= 100,
         NEW m \in Controls(c), NEW n \in Controls(c),
         Priority(c, lead, m) = Priority(c, lead, n)
  PROVE  m = n
<1>1. IsFiniteSet(Controls(c))
  BY NodesFinite
<1>2. IsFiniteSet(Backups(c, lead)) /\ Cardinality(Backups(c, lead)) = Cardinality(Controls(c)) - 1
  BY <1>1, FS_RemoveElement DEF Backups
<1>3. Cardinality(Controls(c)) \in Nat
  BY <1>1, FS_CardinalityType
<1>4. ASSUME NEW k \in Backups(c, lead)
      PROVE  /\ Ahead(c, lead, k) \subseteq Backups(c, lead) \ {k}
             /\ IsFiniteSet(Ahead(c, lead, k))
             /\ Cardinality(Ahead(c, lead, k)) \in 0..98
  <2>1. Pos(c, k) \in Nat
    BY PosType DEF Backups, Controls
  <2>2. Ahead(c, lead, k) \subseteq Backups(c, lead) \ {k}
    BY <2>1 DEF Ahead
  <2>3. /\ IsFiniteSet(Backups(c, lead) \ {k})
        /\ Cardinality(Backups(c, lead) \ {k}) = Cardinality(Backups(c, lead)) - 1
    BY <1>2, FS_RemoveElement
  <2>4. IsFiniteSet(Ahead(c, lead, k)) /\ Cardinality(Ahead(c, lead, k)) <= Cardinality(Backups(c, lead) \ {k})
    BY <2>2, <2>3, FS_Subset
  <2>5. Cardinality(Ahead(c, lead, k)) \in Nat
    BY <2>4, FS_CardinalityType
  <2> QED
    BY <1>2, <1>3, <2>2, <2>3, <2>4, <2>5
<1>5. ASSUME NEW k \in Backups(c, lead)
      PROVE  Priority(c, lead, k) = 99 - Cardinality(Ahead(c, lead, k))
  <2>1. k # lead
    BY DEF Backups
  <2>2. Cardinality(Ahead(c, lead, k)) < 99
    BY <1>4
  <2> QED
    BY <2>1, <2>2 DEF Priority
<1>6. ASSUME NEW k \in Backups(c, lead), NEW l \in Backups(c, lead),
             Pos(c, k) < Pos(c, l)
      PROVE  Cardinality(Ahead(c, lead, k)) < Cardinality(Ahead(c, lead, l))
  <2>1. Pos(c, k) \in Nat /\ Pos(c, l) \in Nat
    BY PosType DEF Backups, Controls
  <2>2. \A x \in Backups(c, lead) : Pos(c, x) \in Nat
    BY PosType DEF Backups, Controls
  <2>3. Ahead(c, lead, k) \subseteq Ahead(c, lead, l) /\ k \in Ahead(c, lead, l) /\ k \notin Ahead(c, lead, k)
    BY <1>6, <2>1, <2>2 DEF Ahead
  <2>4. /\ Cardinality(Ahead(c, lead, k)) <= Cardinality(Ahead(c, lead, l))
        /\ Cardinality(Ahead(c, lead, l)) = Cardinality(Ahead(c, lead, k)) => Ahead(c, lead, l) = Ahead(c, lead, k)
    BY <1>4, <2>3, FS_Subset
  <2> QED
    BY <1>4, <2>3, <2>4
<1>7. CASE m = lead \/ n = lead
  <2>1. Priority(c, lead, lead) = 100
    BY DEF Priority
  <2>2. \A k \in Backups(c, lead) : Priority(c, lead, k) # 100
    BY <1>4, <1>5
  <2> QED
    BY <1>7, <2>1, <2>2 DEF Backups
<1>8. CASE m # lead /\ n # lead
  <2>1. m \in Backups(c, lead) /\ n \in Backups(c, lead)
    BY <1>8 DEF Backups
  <2>2. Cardinality(Ahead(c, lead, m)) = Cardinality(Ahead(c, lead, n))
    BY <1>4, <1>5, <2>1
  <2>3. ~(Pos(c, m) < Pos(c, n)) /\ ~(Pos(c, n) < Pos(c, m))
    BY <1>4, <1>6, <2>1, <2>2
  <2>4. Pos(c, m) \in Nat /\ Pos(c, n) \in Nat
    BY PosType DEF Controls
  <2> QED
    BY <2>3, <2>4, PosInjective DEF Controls
<1> QED
  BY <1>7, <1>8

-----------------------------------------------------------------------------
(* The runs of HaSync.                                                     *)
USE DEF HaNodes, hosts, engine

LEMMA CfgFacts ==
  ASSUME TypeOK
  PROVE  /\ ValidConfig(cfg)
         /\ HaNodes \subseteq Control
         /\ HaNodes \subseteq Nodes(cfg)
         /\ \A n \in Control : /\ Full(n) \in Conf /\ Full(n) # NoConf
                               /\ Full(n).peers = Peers(cfg, n)
         /\ NoConf \in Conf
<1>1. ValidConfig(cfg)
  BY ConfigsAssumption DEF TypeOK
<1>2. HaNodes \subseteq Control /\ HaNodes \subseteq Nodes(cfg)
  BY DEF Controls
<1>3. \A n \in Control : Priority(cfg, master, n) \in 1..100
  BY <1>1, PriorityType
<1>4. \A n \in Control : Peers(cfg, n) \subseteq Control
  BY <1>2 DEF Peers
<1> QED
  BY <1>1, <1>2, <1>3, <1>4 DEF Full, Conf, NoConf

-----------------------------------------------------------------------------
LEMMA TypeInit == Init => TypeOK
<1> SUFFICES ASSUME Init PROVE TypeOK
  OBVIOUS
<1>1. master \in Controls(cfg)
  BY FirstControlIsControl, ConfigsAssumption DEF Init
<1>2. NoConf \in Conf
  BY DEF NoConf, Conf
<1> QED
  BY <1>1, <1>2, ConfigsAssumption DEF Init, TypeOK

LEMMA TypeStep == TypeOK /\ [Next]_vars => TypeOK'
<1> SUFFICES ASSUME TypeOK, [Next]_vars PROVE TypeOK'
  OBVIOUS
<1> USE CfgFacts, ConfigsAssumption DEF TypeOK, Idle
<1>1. CASE StartInstall
  <2>1. FirstControl(cfg) \in Controls(cfg)
    BY FirstControlIsControl
  <2> QED
    BY <1>1, <2>1 DEF StartInstall
<1>2. CASE Abort
  BY <1>2 DEF Abort
<1>3. ASSUME NEW c \in Configs, NEW m \in Control, StartUpdate(c, m) PROVE TypeOK'
  <2>1. Controls(c) \subseteq Control
    BY NodesFinite
  <2> QED
    BY <1>3, <2>1 DEF StartUpdate, Eligible
<1>4. CASE JoinDone
  BY <1>4 DEF JoinDone, Backups
<1>5. CASE NextStep
  BY <1>5 DEF NextStep
<1>6. ASSUME NEW n \in Control, JoinOne(n) PROVE TypeOK'
  BY <1>6 DEF JoinOne
<1>7. ASSUME NEW n \in Control, ProbeOne(n) PROVE TypeOK'
  BY <1>7 DEF ProbeOne
<1>8. ASSUME NEW n \in Control, ProxyStop(n) PROVE TypeOK'
  BY <1>8 DEF ProxyStop
<1>9. ASSUME NEW n \in Control, ProxyStart(n) PROVE TypeOK'
  BY <1>9 DEF ProxyStart
<1>10. ASSUME NEW n \in Control, KaWrite(n) PROVE TypeOK'
  BY <1>10 DEF KaWrite
<1>11. ASSUME NEW n \in Control, KaStop(n) PROVE TypeOK'
  BY <1>11 DEF KaStop
<1>12. ASSUME NEW n \in Control, KaStart(n) PROVE TypeOK'
  BY <1>12 DEF KaStart
<1>13. ASSUME NEW n \in Control, StopBackup(n) PROVE TypeOK'
  BY <1>13 DEF StopBackup
<1>14. ASSUME NEW n \in Control, StartBackup(n) PROVE TypeOK'
  BY <1>14 DEF StartBackup
<1>15. ASSUME NEW n \in Control, LosePeer(n) PROVE TypeOK'
  BY <1>15 DEF LosePeer
<1>16. ASSUME NEW n \in Control, Restore(n) PROVE TypeOK'
  BY <1>16 DEF Restore
<1>17. CASE UNCHANGED vars
  BY <1>17 DEF vars
<1> QED
  BY <1>1, <1>2, <1>3, <1>4, <1>5, <1>6, <1>7, <1>8, <1>9, <1>10, <1>11, <1>12,
     <1>13, <1>14, <1>15, <1>16, <1>17 DEF Next, EngineStep

(* Every reachable state is well typed.                                    *)
THEOREM TypeCorrect == Spec => []TypeOK
BY TypeInit, TypeStep, PTL DEF Spec

-----------------------------------------------------------------------------
LEMMA InvInit == Init => IInv
<1> SUFFICES ASSUME Init PROVE IInv
  OBVIOUS
<1>1. TypeOK
  BY TypeInit
<1>2. Configured = {}
  BY DEF Init, Configured
<1> QED
  BY <1>1, <1>2 DEF Init, IInv, Peered, Listed, InstallFull, Written, Phases, Refreshed, Idle

(* The steps that leave Keepalived and its files alone.                    *)
LEMMA FilesKept ==
  ASSUME IInv, UNCHANGED <<kaFile, kaConf, kaUp, cfg>>
  PROVE  Peered' /\ Listed' /\ Configured' = Configured
BY DEF IInv, Peered, Listed, Configured

LEMMA TurnKept ==
  ASSUME UNCHANGED <<mode, pc, cfg, master, fresh, live, todo>>
  PROVE  \A n \in Control : TurnOf(n)' = TurnOf(n) /\ Full(n)' = Full(n)
BY DEF TurnOf, Sooner, Full

(* It is never the turn of two nodes.                                      *)
LEMMA TurnUnique ==
  ASSUME TypeOK, Phases, NEW m \in Control, NEW n \in Control, TurnOf(m), TurnOf(n)
  PROVE  m = n
<1> SUFFICES ASSUME m # n PROVE FALSE
  OBVIOUS
<1>1. m \in Nodes(cfg) /\ n \in Nodes(cfg)
  BY CfgFacts DEF Phases, TurnOf
<1>2. Pos(cfg, m) \in Nat /\ Pos(cfg, n) \in Nat
  BY <1>1, CfgFacts, PosType
<1>3. Sooner(m, n) /\ Sooner(n, m)
  BY DEF TurnOf
<1> QED
  BY <1>2, <1>3 DEF Sooner, HaBefore

(* Keepalived is restarted where it was seen active, or when everything    *)
(* that runs already has the full list.                                    *)
LEMMA TurnAfterLive ==
  ASSUME IInv, NEW n \in Control, TurnOf(n), pc = "vrrp", mode = "update", n \notin live
  PROVE  kaUp \cap todo \subseteq {n}
<1> SUFFICES ASSUME NEW m \in kaUp \cap todo, m # n PROVE FALSE
  OBVIOUS
<1>1. m \in live
  BY DEF IInv, Refreshed
<1>2. Sooner(n, m)
  BY DEF TurnOf
<1> QED
  BY <1>1, <1>2 DEF Sooner

-----------------------------------------------------------------------------
LEMMA InvStep == IInv /\ [Next]_vars => IInv'
<1> SUFFICES ASSUME IInv, [Next]_vars PROVE IInv'
  OBVIOUS
<1>0. TypeOK /\ TypeOK'
  BY TypeStep DEF IInv
<1> USE <1>0, CfgFacts
<1>1. CASE StartInstall
  <2>1. Peered' /\ Listed' /\ Configured' = Configured
    BY <1>1, FilesKept DEF StartInstall
  <2>2. InstallFull'
    BY <1>1, <2>1 DEF StartInstall, IInv, InstallFull
  <2>3. Written'
    BY <1>1, <2>1 DEF StartInstall, IInv, Written, TypeOK
  <2>4. Phases' /\ Refreshed'
    BY <1>1 DEF StartInstall, Phases, Refreshed
  <2> QED
    BY <2>1, <2>2, <2>3, <2>4 DEF IInv
<1>2. CASE Abort
  <2>1. Peered' /\ Listed' /\ Configured' = Configured
    BY <1>2, FilesKept DEF Abort
  <2>2. InstallFull' /\ Written'
    BY <1>2, <2>1 DEF Abort, IInv, InstallFull, Written, Phases, Idle
  <2>3. Phases' /\ Refreshed'
    BY <1>2 DEF Abort, Phases, Refreshed, Idle
  <2> QED
    BY <2>1, <2>2, <2>3 DEF IInv
<1>3. ASSUME NEW c \in Configs, NEW m \in Control, StartUpdate(c, m) PROVE IInv'
  <2>1. Peered' /\ Listed'
    BY <1>3 DEF StartUpdate, IInv, Peered, Listed, Configured
  <2>2. InstallFull' /\ Written'
    BY <1>3 DEF StartUpdate, InstallFull, Written
  <2>3. Phases' /\ Refreshed'
    BY <1>3, <2>1 DEF StartUpdate, Phases, Refreshed, Listed
  <2> QED
    BY <2>1, <2>2, <2>3 DEF IInv
<1>4. CASE JoinDone
  <2>1. Peered' /\ Listed' /\ Configured' = Configured
    BY <1>4, FilesKept DEF JoinDone
  <2>2. InstallFull' /\ Written'
    <3>1. CASE pc = "join"
      BY <1>4, <2>1, <3>1 DEF JoinDone, IInv, InstallFull, Written, TypeOK, Idle
    <3>2. CASE pc = "startK8s"
      BY <1>4, <2>1, <3>2 DEF JoinDone, IInv, InstallFull, Written, TypeOK, Idle
    <3> QED
      BY <1>4, <3>1, <3>2 DEF JoinDone
  <2>3. Phases'
    BY <1>4 DEF JoinDone, IInv, Phases, Backups, Idle
  <2>4. Refreshed'
    BY <1>4 DEF JoinDone, IInv, Phases, Listed, Refreshed
  <2> QED
    BY <2>1, <2>2, <2>3, <2>4 DEF IInv
<1>5. CASE NextStep
  <2>1. Peered' /\ Listed' /\ Configured' = Configured
    BY <1>5, FilesKept DEF NextStep
  <2>2. InstallFull'
    BY <1>5, <2>1 DEF NextStep, IInv, InstallFull, Idle
  <2>3. Written'
    BY <1>5, <2>1 DEF NextStep, IInv, Written, Phases
  <2>4. Phases'
    BY <1>5 DEF NextStep, IInv, Phases, Idle
  <2>5. Refreshed'
    <3>1. kaUp \subseteq HaNodes
      BY DEF IInv, Listed
    <3>2. CASE pc = "probe"
      BY <1>5, <3>1, <3>2 DEF NextStep, IInv, Refreshed
    <3>3. CASE pc = "proxy"
      BY <1>5, <3>1, <3>3 DEF NextStep, IInv, Refreshed
    <3>4. CASE pc \in {"vrrp", "backups"}
      BY <1>5, <3>4 DEF NextStep, Refreshed
    <3> QED
      BY <1>5, <3>2, <3>3, <3>4 DEF NextStep
  <2> QED
    BY <2>1, <2>2, <2>3, <2>4, <2>5 DEF IInv
<1>6. ASSUME NEW n \in Control, JoinOne(n) PROVE IInv'
  <2>1. Peered' /\ Listed' /\ Configured' = Configured
    BY <1>6, FilesKept DEF JoinOne
  <2>2. InstallFull' /\ Written'
    BY <1>6, <2>1 DEF JoinOne, IInv, InstallFull, Written, Idle, Phases
  <2>3. Phases' /\ Refreshed'
    BY <1>6 DEF JoinOne, IInv, Phases, Refreshed, Idle
  <2> QED
    BY <2>1, <2>2, <2>3 DEF IInv
<1>7. ASSUME NEW n \in Control, ProbeOne(n) PROVE IInv'
  <2>1. Peered' /\ Listed' /\ Configured' = Configured
    BY <1>7, FilesKept DEF ProbeOne
  <2>2. InstallFull' /\ Written'
    BY <1>7, <2>1 DEF ProbeOne, IInv, InstallFull, Written, Idle
  <2>3. Phases'
    BY <1>7 DEF ProbeOne, IInv, Phases, TurnOf, Idle
  <2>4. Refreshed'
    BY <1>7 DEF ProbeOne, IInv, Peered, Refreshed, TurnOf
  <2> QED
    BY <2>1, <2>2, <2>3, <2>4 DEF IInv
<1>8. ASSUME NEW n \in Control, ProxyStop(n) PROVE IInv'
  <2>1. Peered' /\ Listed' /\ Configured' = Configured
    BY <1>8, FilesKept DEF ProxyStop
  <2>2. InstallFull' /\ Written'
    BY <1>8, <2>1 DEF ProxyStop, IInv, InstallFull, Written, Idle
  <2>3. Phases' /\ Refreshed'
    BY <1>8 DEF ProxyStop, IInv, Phases, Refreshed, TurnOf, Idle
  <2> QED
    BY <2>1, <2>2, <2>3 DEF IInv
<1>9. ASSUME NEW n \in Control, ProxyStart(n) PROVE IInv'
  <2>1. Peered' /\ Listed' /\ Configured' = Configured
    BY <1>9, FilesKept DEF ProxyStart
  <2>2. InstallFull' /\ Written'
    BY <1>9, <2>1 DEF ProxyStart, IInv, InstallFull, Written, Idle
  <2>3. Phases' /\ Refreshed'
    BY <1>9 DEF ProxyStart, IInv, Phases, Refreshed, Idle
  <2> QED
    BY <2>1, <2>2, <2>3 DEF IInv
<1>10. ASSUME NEW n \in Control, KaWrite(n) PROVE IInv'
  <2>1. n \in HaNodes /\ Configured' = Configured \cup {n}
    BY <1>10 DEF KaWrite, IInv, Phases, TurnOf, Configured, TypeOK
  <2>2. Peered' /\ Listed' /\ Refreshed'
    BY <1>10, <2>1 DEF KaWrite, IInv, Peered, Listed, Refreshed
  <2>3. InstallFull'
    BY <1>10, <2>1 DEF KaWrite, IInv, InstallFull, Phases, Idle, TypeOK
  <2>4. Written'
    <3>1. \A k \in todo' : TurnOf(k)' => kaFile'[k] = Full(k)'
      BY <1>10, TurnKept, TurnUnique DEF KaWrite, TypeOK, IInv
    <3> QED
      BY <1>10, <2>1, <3>1 DEF KaWrite, IInv, Written
  <2>5. Phases'
    BY <1>10 DEF KaWrite, IInv, Phases, TurnOf, Idle
  <2> QED
    BY <2>1, <2>2, <2>3, <2>4, <2>5 DEF IInv
<1>11. ASSUME NEW n \in Control, KaStop(n) PROVE IInv'
  <2>1. Peered' /\ Listed' /\ Configured' = Configured
    BY <1>11 DEF KaStop, IInv, Peered, Listed, Configured, TypeOK
  <2>2. InstallFull'
    BY <1>11, <2>1 DEF KaStop, IInv, InstallFull, Idle, TypeOK
  <2>3. Written'
    BY <1>11, <2>1, TurnKept DEF KaStop, IInv, Written, TypeOK
  <2>4. Phases' /\ Refreshed'
    BY <1>11 DEF KaStop, IInv, Phases, Refreshed, Idle, TypeOK
  <2> QED
    BY <2>1, <2>2, <2>3, <2>4 DEF IInv
<1>12. ASSUME NEW n \in Control, KaStart(n) PROVE IInv'
  <2>1. n \in HaNodes /\ n \in Configured /\ kaFile[n].peers = Peers(cfg, n)
    BY <1>12 DEF KaStart, IInv, Phases, Written, TurnOf, Configured
  <2>2. kaConf' = [kaConf EXCEPT ![n] = kaFile[n]] /\ kaUp' = kaUp \cup {n}
    BY <1>12 DEF KaStart
  <2>3. \A m \in kaUp : m # n => n \in kaConf[m].peers
    <3>1. CASE mode = "install"
      BY <1>12, <2>1, <3>1 DEF KaStart, IInv, InstallFull, Listed, Peers, Idle
    <3>2. CASE mode = "update" /\ n \in live
      BY <1>12, <3>2 DEF KaStart, IInv, Refreshed
    <3>3. CASE mode = "update" /\ n \notin live
      <4>1. kaUp \cap todo \subseteq {n}
        BY <1>12, <3>3, TurnAfterLive DEF KaStart
      <4> QED
        BY <1>12, <2>1, <3>3, <4>1 DEF KaStart, IInv, Refreshed, Listed, Peers
    <3> QED
      BY <3>1, <3>2, <3>3 DEF TypeOK
  <2>4. Peered'
    BY <2>1, <2>2, <2>3 DEF IInv, Peered, Listed, Peers, TypeOK
  <2>5. Listed' /\ Configured' = Configured
    BY <1>12, <2>1, <2>2 DEF KaStart, IInv, Listed, Configured
  <2>6. InstallFull'
    BY <1>12, <2>1, <2>2, <2>5 DEF KaStart, IInv, InstallFull, Idle, TypeOK
  <2>7. Written'
    <3>1. at' # "next" => \A k \in todo' : TurnOf(k)' => kaFile'[k] = Full(k)'
      BY <1>12, TurnKept DEF KaStart, IInv, Written, TypeOK
    <3> QED
      BY <1>12, <2>1, <2>5, <3>1 DEF KaStart, IInv, Written
  <2>8. Phases'
    BY <1>12 DEF KaStart, IInv, Phases, Idle, TurnOf
  <2>9. Refreshed'
    <3>1. \A m \in live : m # n => m \in Peers(cfg, n)
      BY DEF IInv, Phases, Peers
    <3> QED
      BY <1>12, <2>1, <2>2, <3>1 DEF KaStart, StopsBackup, IInv, Refreshed, TypeOK
  <2> QED
    BY <2>1, <2>2, <2>3, <2>4, <2>5, <2>6, <2>7, <2>8, <2>9 DEF IInv
<1>13. ASSUME NEW n \in Control, StopBackup(n) PROVE IInv'
  <2>1. n \in HaNodes /\ n \in Configured
    BY <1>13 DEF StopBackup, IInv, Phases, Written, TurnOf, Configured
  <2>2. Peered' /\ Listed' /\ Configured' = Configured
    BY <1>13 DEF StopBackup, IInv, Peered, Listed, Configured, TypeOK
  <2>3. InstallFull'
    BY <1>13, <2>2 DEF StopBackup, IInv, InstallFull, Idle, TypeOK
  <2>4. Written'
    BY <1>13, <2>1, <2>2 DEF StopBackup, IInv, Written
  <2>5. Phases' /\ Refreshed'
    BY <1>13 DEF StopBackup, IInv, Phases, Refreshed, Idle, TypeOK
  <2> QED
    BY <2>1, <2>2, <2>3, <2>4, <2>5 DEF IInv
<1>14. ASSUME NEW n \in Control, StartBackup(n) PROVE IInv'
  <2>1. n \in HaNodes /\ n \in Configured /\ mode = "install"
    BY <1>14 DEF StartBackup, IInv, Phases, Written, TurnOf, TypeOK
  <2>2. \A m \in kaUp' : kaConf'[m].peers = Peers(cfg, m)
    BY <1>14, <2>1 DEF StartBackup, IInv, InstallFull, Idle, Listed, TypeOK
  <2>3. Listed' /\ Configured' = Configured
    BY <1>14, <2>1 DEF StartBackup, IInv, Listed, Configured
  <2>4. Peered'
    BY <1>14, <2>2, <2>3 DEF StartBackup, Peered, Listed, Peers
  <2>5. InstallFull'
    BY <1>14, <2>1, <2>2, <2>3 DEF StartBackup, IInv, InstallFull, Idle
  <2>6. Written'
    BY <1>14, <2>3 DEF StartBackup, IInv, Written
  <2>7. Phases' /\ Refreshed'
    BY <1>14, <2>1 DEF StartBackup, IInv, Phases, Refreshed, Idle
  <2> QED
    BY <2>1, <2>2, <2>3, <2>4, <2>5, <2>6, <2>7 DEF IInv
<1>15. ASSUME NEW n \in Control, LosePeer(n) PROVE IInv'
  <2>1. Peered' /\ Listed' /\ Configured' = Configured
    BY <1>15 DEF LosePeer, IInv, Peered, Listed, Configured, TypeOK
  <2>2. InstallFull'
    BY <1>15, <2>1 DEF LosePeer, IInv, InstallFull, Idle, TypeOK
  <2>3. Written'
    BY <1>15, <2>1, TurnKept DEF LosePeer, IInv, Written, TypeOK
  <2>4. Phases' /\ Refreshed'
    BY <1>15 DEF LosePeer, IInv, Phases, Refreshed, Idle, TypeOK
  <2> QED
    BY <2>1, <2>2, <2>3, <2>4 DEF IInv
<1>16. ASSUME NEW n \in Control, Restore(n) PROVE IInv'
  <2>1. Peered' /\ Listed' /\ Configured' = Configured
    BY <1>16 DEF Restore, IInv, Peered, Listed, Configured, TypeOK
  <2>2. InstallFull' /\ Written'
    BY <1>16, <2>1 DEF Restore, IInv, InstallFull, Written, Idle
  <2>3. Phases' /\ Refreshed'
    BY <1>16 DEF Restore, IInv, Phases, Refreshed, Idle
  <2> QED
    BY <2>1, <2>2, <2>3 DEF IInv
<1>17. CASE UNCHANGED vars
  <2>1. Peered' /\ Listed' /\ Configured' = Configured
    BY <1>17, FilesKept DEF vars
  <2>2. InstallFull'
    BY <1>17, <2>1 DEF vars, IInv, InstallFull, Idle
  <2>3. Written'
    BY <1>17, <2>1, TurnKept DEF vars, IInv, Written, TypeOK
  <2>4. Phases' /\ Refreshed'
    BY <1>17 DEF vars, IInv, Phases, Refreshed, Idle
  <2> QED
    BY <2>1, <2>2, <2>3, <2>4 DEF IInv
<1> QED
  BY <1>1, <1>2, <1>3, <1>4, <1>5, <1>6, <1>7, <1>8, <1>9,
     <1>10, <1>11, <1>12, <1>13, <1>14, <1>15, <1>16, <1>17 DEF Next, EngineStep

-----------------------------------------------------------------------------
LEMMA InvImpliesNoSplitBrain == IInv => NoSplitBrain
<1> SUFFICES ASSUME IInv, NEW m \in Eligible, NEW n \in Eligible, m # n
             PROVE  Defers(m, n) \/ Defers(n, m)
  BY DEF NoSplitBrain
<1>1. m \in kaUp /\ n \in kaUp
  BY DEF Eligible
<1>2. n \in kaConf[m].peers /\ m \in kaConf[n].peers
  BY <1>1 DEF IInv, Peered
<1>3. m \in Nodes(cfg) /\ n \in Nodes(cfg)
  BY <1>1, CfgFacts DEF IInv, Listed
<1>4. AddrOf[m] # AddrOf[n] /\ AddrOf[m] \in Nat /\ AddrOf[n] \in Nat
  BY <1>3, CfgFacts, AddrInjective, NodesFinite, NodeAssumption DEF IInv
<1>5. kaConf[m].prio \in Int /\ kaConf[n].prio \in Int
  <2>1. kaConf[m] \in Conf /\ kaConf[n] \in Conf
    BY <1>1 DEF IInv, TypeOK
  <2> QED
    BY <2>1 DEF Conf
<1> QED
  BY <1>2, <1>4, <1>5 DEF Defers, Beats

(* The inductive invariant holds in every reachable state.                 *)
THEOREM Inv == Spec => []IInv
BY InvInit, InvStep, PTL DEF Spec

(* Never two VIP holders: for any node lists, any number of runs, and runs *)
(* that end anywhere.                                                      *)
THEOREM NoTwoMasters == Spec => []NoSplitBrain
BY Inv, InvImpliesNoSplitBrain, PTL

-----------------------------------------------------------------------------
(* The management node of an install keeps the VIP to itself.              *)
LEMMA QuietStep == IInv /\ Quiet /\ [Next]_vars => Quiet'
<1> SUFFICES ASSUME IInv, Quiet, [Next]_vars PROVE Quiet'
  OBVIOUS
<1>0. TypeOK /\ Phases /\ kaUp \subseteq HaNodes
  BY DEF IInv, Listed
<1> USE <1>0, CfgFacts DEF Quiet
<1>1. CASE StartInstall
  BY <1>1 DEF StartInstall, Idle, TypeOK
<1>2. CASE Abort
  BY <1>2 DEF Abort, Idle
<1>3. ASSUME NEW c \in Configs, NEW m \in Control, StartUpdate(c, m) PROVE Quiet'
  BY <1>3 DEF StartUpdate
<1>4. CASE JoinDone
  <2>1. HaNodes # {}
    BY DEF TypeOK
  <2> QED
    BY <1>4, <2>1 DEF JoinDone
<1>5. CASE NextStep
  <2>1. /\ todo = {} /\ pc \in {"probe", "proxy", "vrrp", "backups"} /\ mode \in {"install", "update"}
        /\ pc' = CASE pc = "probe" -> "proxy"
                   [] pc = "proxy" -> "vrrp"
                   [] pc = "vrrp" -> IF mode = "install" THEN "startK8s" ELSE "done"
                   [] pc = "backups" -> "done"
        /\ todo' = IF pc \in {"probe", "proxy"} THEN HaNodes ELSE {}
        /\ UNCHANGED <<member, kaUp, mode, cfg, master, resume>>
    BY <1>5 DEF NextStep, TypeOK
  <2>2. CASE pc \in {"probe", "proxy"}
    BY <2>1, <2>2
  <2>3. CASE pc = "vrrp"
    BY <2>1, <2>3
  <2>4. CASE pc = "backups"
    BY <2>1, <2>4
  <2> QED
    BY <2>1, <2>2, <2>3, <2>4
<1>6. ASSUME NEW n \in Control, JoinOne(n) PROVE Quiet'
  BY <1>6 DEF JoinOne
<1>7. ASSUME NEW n \in Control, ProbeOne(n) PROVE Quiet'
  BY <1>7 DEF ProbeOne
<1>8. ASSUME NEW n \in Control, ProxyStop(n) \/ ProxyStart(n) PROVE Quiet'
  BY <1>8 DEF ProxyStop, ProxyStart
<1>9. ASSUME NEW n \in Control, KaWrite(n) \/ KaStop(n) PROVE Quiet'
  BY <1>9 DEF KaWrite, KaStop
<1>10. ASSUME NEW n \in Control, KaStart(n) PROVE Quiet'
  BY <1>10 DEF KaStart, StopsBackup, TurnOf
<1>11. ASSUME NEW n \in Control, StopBackup(n) PROVE Quiet'
  BY <1>11 DEF StopBackup
<1>12. ASSUME NEW n \in Control, StartBackup(n) PROVE Quiet'
  BY <1>12 DEF StartBackup
<1>13. ASSUME NEW n \in Control, LosePeer(n) \/ Restore(n) PROVE Quiet'
  BY <1>13 DEF LosePeer, Restore, Idle
<1>14. CASE UNCHANGED vars
  BY <1>14 DEF vars
<1> QED
  BY <1>1, <1>2, <1>3, <1>4, <1>5, <1>6, <1>7, <1>8, <1>9, <1>10, <1>11, <1>12, <1>13, <1>14
     DEF Next, EngineStep

(* While the cluster is initialized only the management node can hold the  *)
(* VIP, in every install and every retry of one.                           *)
THEOREM VipOnMaster == Spec => []VipStaysOnMaster
<1>1. Init => Quiet
  BY DEF Init, Quiet
<1>2. Quiet => VipStaysOnMaster
  BY DEF Quiet, VipStaysOnMaster
<1> QED
  BY <1>1, <1>2, Inv, QuietStep, PTL DEF Spec

-----------------------------------------------------------------------------
(* An expansion takes down one node at a time.                             *)
LEMMA InTurnStep == IInv /\ InTurn /\ [Next]_vars => InTurn'
<1> SUFFICES ASSUME IInv, InTurn, [Next]_vars PROVE InTurn'
  OBVIOUS
<1>0. TypeOK /\ Phases
  BY DEF IInv
<1> USE <1>0, CfgFacts DEF InTurn
<1>1. CASE StartInstall
  BY <1>1 DEF StartInstall
<1>2. CASE Abort
  BY <1>2 DEF Abort
<1>3. ASSUME NEW c \in Configs, NEW m \in Control, StartUpdate(c, m) PROVE InTurn'
  BY <1>3 DEF StartUpdate
<1>4. CASE JoinDone
  BY <1>4 DEF JoinDone, Phases
<1>5. CASE NextStep
  BY <1>5 DEF NextStep, TurnOf
<1>6. ASSUME NEW n \in Control, JoinOne(n) PROVE InTurn'
  BY <1>6 DEF JoinOne
<1>7. ASSUME NEW n \in Control, ProbeOne(n) PROVE InTurn'
  BY <1>7 DEF ProbeOne
<1>8. ASSUME NEW n \in Control, ProxyStop(n) PROVE InTurn'
  BY <1>8, TurnKept DEF ProxyStop, TurnOf, TypeOK
<1>9. ASSUME NEW n \in Control, ProxyStart(n) PROVE InTurn'
  BY <1>9, TurnUnique DEF ProxyStart, TypeOK
<1>10. ASSUME NEW n \in Control, KaWrite(n) PROVE InTurn'
  BY <1>10 DEF KaWrite
<1>11. ASSUME NEW n \in Control, KaStop(n) PROVE InTurn'
  BY <1>11, TurnKept DEF KaStop, TypeOK
<1>12. ASSUME NEW n \in Control, KaStart(n) PROVE InTurn'
  BY <1>12, TurnUnique DEF KaStart, StopsBackup, TypeOK
<1>13. ASSUME NEW n \in Control, StopBackup(n) PROVE InTurn'
  BY <1>13 DEF StopBackup
<1>14. ASSUME NEW n \in Control, StartBackup(n) PROVE InTurn'
  BY <1>14 DEF StartBackup
<1>15. ASSUME NEW n \in Control, LosePeer(n) PROVE InTurn'
  BY <1>15, TurnKept DEF LosePeer, TypeOK
<1>16. ASSUME NEW n \in Control, Restore(n) PROVE InTurn'
  BY <1>16 DEF Restore, Idle
<1>17. CASE UNCHANGED vars
  BY <1>17, TurnKept DEF vars, TypeOK
<1> QED
  BY <1>1, <1>2, <1>3, <1>4, <1>5, <1>6, <1>7, <1>8, <1>9,
     <1>10, <1>11, <1>12, <1>13, <1>14, <1>15, <1>16, <1>17 DEF Next, EngineStep

(* Of the nodes that served when an expansion began one at most is down.   *)
THEOREM OneDown == Spec => []AtMostOneDown
<1>1. Init => InTurn
  BY DEF Init, InTurn
<1>2. IInv /\ InTurn => AtMostOneDown
  <2> SUFFICES ASSUME IInv, InTurn PROVE Cardinality(served \ Eligible) <= 1
    BY DEF AtMostOneDown
  <2>1. ASSUME NEW m \in served \ Eligible, NEW n \in served \ Eligible PROVE m = n
    BY TurnUnique DEF IInv, InTurn, Eligible, TypeOK
  <2>2. CASE served \ Eligible = {}
    BY <2>2, FS_EmptySet
  <2>3. CASE served \ Eligible # {}
    <3>1. PICK n \in served \ Eligible : served \ Eligible = {n}
      BY <2>1, <2>3
    <3>2. Cardinality({n}) = 1
      BY FS_Singleton
    <3> QED
      BY <3>1, <3>2
  <2> QED
    BY <2>2, <2>3
<1> QED
  BY <1>1, <1>2, Inv, InTurnStep, PTL DEF Spec

-----------------------------------------------------------------------------
(* What a run that succeeds leaves.                                        *)
LEMMA FullKept ==
  ASSUME UNCHANGED <<cfg, master>>
  PROVE  \A n \in Control : /\ Full(n)' = Full(n) /\ (ProxyDone(n)' <=> n \in pxUp' /\ pxConf'[n] = HaNodes)
                            /\ (Serves(n)' <=> n \in kaUp' /\ kaConf'[n] = Full(n))
BY DEF Full, ProxyDone, Serves

(* What the script of the node whose turn it is has done.                  *)
LEMMA AtTurnStep == IInv /\ AtTurn /\ [Next]_vars => AtTurn'
<1> SUFFICES ASSUME IInv, AtTurn, [Next]_vars PROVE AtTurn'
  OBVIOUS
<1>0. TypeOK /\ Phases /\ master \in Control /\ todo \subseteq Control
  BY CfgFacts DEF IInv, TypeOK
<1>1. ASSUME NEW n \in Control, KaStart(n) PROVE AtTurn'
  <2>1. mode = "install" /\ n # master => ~TurnOf(master)
    BY <1>0, <1>1, TurnUnique DEF KaStart
  <2>2. CASE StopsBackup(n)
    BY <1>1, <2>1, <2>2, TurnKept, <1>0 DEF KaStart, StopsBackup, AtTurn
  <2>3. CASE ~StopsBackup(n)
    BY <1>1, <2>3 DEF KaStart, AtTurn
  <2> QED
    BY <2>2, <2>3
<1>2. ASSUME NEW n \in Control, ProxyStop(n) PROVE AtTurn'
  <2>1. \A x \in todo : TurnOf(x) => x = n
    BY <1>0, <1>2, TurnUnique DEF ProxyStop
  <2>2. pxConf'[n] = HaNodes
    BY <1>2, <1>0 DEF ProxyStop, TypeOK
  <2>3. at' = "stopped" /\ UNCHANGED <<mode, pc, cfg, master, fresh, live, todo>>
    BY <1>2 DEF ProxyStop
  <2> QED
    BY <1>0, <2>1, <2>2, <2>3, TurnKept DEF AtTurn
<1>3. CASE UNCHANGED <<engine, pxConf>>
  <2>1. UNCHANGED <<mode, pc, cfg, master, fresh, live, todo, at, pxConf>>
    BY <1>3
  <2> QED
    BY <1>0, <2>1, TurnKept DEF AtTurn
<1>4. CASE pc' # "proxy" /\ at' # "started"
  BY <1>4 DEF AtTurn
<1>5. CASE at' \notin {"started", "stopped"}
  BY <1>5 DEF AtTurn
<1>6. \/ UNCHANGED <<engine, pxConf>> \/ (pc' # "proxy" /\ at' # "started") \/ at' \notin {"started", "stopped"}
      \/ \E n \in Control : KaStart(n) \/ ProxyStop(n)
  BY <1>0 DEF Next, EngineStep, vars, StartInstall, Abort, StartUpdate, JoinDone, NextStep, JoinOne, ProbeOne,
     ProxyStart, KaWrite, KaStop, StopBackup, StartBackup, LosePeer, Restore, Phases
<1> QED
  BY <1>1, <1>2, <1>3, <1>4, <1>5, <1>6

LEMMA HadTurnStep == IInv /\ Quiet /\ AtTurn /\ HadTurn /\ [Next]_vars => HadTurn'
<1> SUFFICES ASSUME IInv, Quiet, AtTurn, HadTurn, [Next]_vars PROVE HadTurn'
  OBVIOUS
<1>0. TypeOK /\ Phases /\ kaUp \subseteq HaNodes /\ (mode = "update" => member # {}) /\ master \in HaNodes
  BY DEF IInv, Listed, Quiet, TypeOK
<1>a. ASSUME UNCHANGED <<cfg, master, kaFile, kaConf, kaUp, pxConf, pxUp>>
      PROVE  \A n \in Control : (ProxyDone(n)' <=> ProxyDone(n)) /\ (Serves(n)' <=> Serves(n)) /\ Full(n)' = Full(n)
  BY <1>a DEF ProxyDone, Serves, Full
<1> USE <1>0, CfgFacts DEF HadTurn
<1>1. CASE StartInstall
  <2>1. UNCHANGED <<cfg, master, kaFile, kaConf, kaUp, pxConf, pxUp, member, resume>>
    BY <1>1 DEF StartInstall, Quiet, TypeOK
  <2>2. pc' = resume /\ member = {} /\ mode' = "install" /\ (resume # "startK8s" => todo' = HaNodes)
    BY <1>1 DEF StartInstall
  <2>3. resume \in {"proxy", "vrrp", "startK8s"}
    BY DEF TypeOK
  <2> QED
    BY <2>1, <2>2, <2>3, <1>a
<1>2. CASE Abort
  BY <1>2, <1>a DEF Abort, Idle, TypeOK, Quiet
<1>3. ASSUME NEW c \in Configs, NEW m \in Control, StartUpdate(c, m) PROVE HadTurn'
  BY <1>3 DEF StartUpdate
<1>4. CASE JoinDone
  <2>1. UNCHANGED <<cfg, master, kaFile, kaConf, kaUp, pxConf, pxUp, member, resume, mode>>
    BY <1>4 DEF JoinDone
  <2>2. CASE pc = "join"
    BY <1>4, <2>1, <2>2, <1>a DEF JoinDone, TypeOK
  <2>3. CASE pc = "startK8s"
    <3>1. kaUp \subseteq {master} /\ Serves(master) /\ mode = "install"
      BY <2>3 DEF Quiet, TypeOK
    <3>2. pc' = "backups" /\ todo' = HaNodes \ {master} /\ HaNodes' = HaNodes
      BY <1>4, <2>1, <2>3 DEF JoinDone, Backups
    <3> QED
      BY <2>1, <2>3, <3>1, <3>2, <1>a DEF Serves
  <2> QED
    BY <1>4, <2>2, <2>3 DEF JoinDone
<1>5. CASE NextStep
  <2>1. UNCHANGED <<cfg, master, kaFile, kaConf, kaUp, pxConf, pxUp, member, resume, mode>>
    BY <1>5 DEF NextStep
  <2>2. /\ todo = {} /\ pc \in {"probe", "proxy", "vrrp", "backups"} /\ HaNodes' = HaNodes
        /\ pc' = CASE pc = "probe" -> "proxy"
                   [] pc = "proxy" -> "vrrp"
                   [] pc = "vrrp" -> IF mode = "install" THEN "startK8s" ELSE "done"
                   [] pc = "backups" -> "done"
        /\ todo' = IF pc \in {"probe", "proxy"} THEN HaNodes ELSE {}
    BY <1>5 DEF NextStep
  <2>3. CASE pc = "probe"
    BY <2>1, <2>2, <2>3, <1>a DEF TypeOK
  <2>4. CASE pc = "proxy"
    BY <2>1, <2>2, <2>4, <1>a DEF TypeOK
  <2>5. CASE pc = "vrrp"
    <3>0. \A n \in HaNodes : /\ ProxyDone(n) /\ kaFile[n] = Full(n)
                             /\ mode = "update" \/ n = master => Serves(n)
      BY <2>2, <2>5
    <3>1. /\ \A n \in HaNodes : ProxyDone(n)' /\ kaFile'[n] = Full(n)'
          /\ mode = "install" => Serves(master)'
      BY <2>1, <3>0, <1>a DEF Serves, Full
    <3>2. pc' \in {"startK8s", "done"} /\ (pc' = "startK8s" => mode = "install") 
      BY <1>5, <2>2, <2>5 DEF NextStep
    <3>3. ~(resume = "startK8s" /\ member = {})
      BY <2>5 DEF Quiet
    <3> QED
      BY <2>1, <2>2, <3>1, <3>2, <3>3
  <2>6. CASE pc = "backups"
    BY <2>1, <2>2, <2>6, <1>a DEF TypeOK
  <2> QED
    BY <2>2, <2>3, <2>4, <2>5, <2>6
<1>6. ASSUME NEW n \in Control, JoinOne(n) PROVE HadTurn'
  BY <1>6, <1>a DEF JoinOne
<1>7. ASSUME NEW n \in Control, ProbeOne(n) PROVE HadTurn'
  BY <1>7, <1>a DEF ProbeOne
<1>8. ASSUME NEW n \in Control, ProxyStop(n) \/ ProxyStart(n) PROVE HadTurn'
  <2>1. /\ UNCHANGED <<cfg, master, kaFile, kaConf, kaUp, member, resume, mode, pc>>
        /\ pc = "proxy" /\ n \in todo /\ n \in HaNodes
    BY <1>8 DEF ProxyStop, ProxyStart, TurnOf, Phases
  <2>2. ~(resume # "proxy" /\ member = {})
    BY <2>1 DEF TypeOK
  <2>3. ASSUME NEW x \in HaNodes \ todo' PROVE ProxyDone(x)'
    <3>1. CASE ProxyStop(n)
      <4>1. x # n /\ ProxyDone(x)
        BY <2>1, <3>1 DEF ProxyStop
      <4> QED
        BY <3>1, <4>1 DEF ProxyStop, ProxyDone, TypeOK
    <3>2. CASE ProxyStart(n)
      <4>1. pxConf[x] = HaNodes
        BY <2>1, <3>2 DEF ProxyStart, ProxyDone, AtTurn
      <4>2. x \in pxUp'
        BY <2>1, <3>2 DEF ProxyStart, ProxyDone
      <4> QED
        BY <2>1, <3>2, <4>1, <4>2 DEF ProxyStart, ProxyDone
    <3> QED
      BY <1>8, <3>1, <3>2
  <2> QED
    BY <2>1, <2>2, <2>3
<1>9. ASSUME NEW n \in Control, KaWrite(n) PROVE HadTurn'
  BY <1>9, FullKept DEF KaWrite, ProxyDone, Serves, TurnOf, TypeOK, Quiet
<1>10. ASSUME NEW n \in Control, KaStop(n) PROVE HadTurn'
  BY <1>10, FullKept DEF KaStop, ProxyDone, Serves, TurnOf, TypeOK, Quiet
<1>11. ASSUME NEW n \in Control, KaStart(n) PROVE HadTurn'
  BY <1>11, FullKept DEF KaStart, StopsBackup, ProxyDone, Serves, TurnOf, TypeOK, Quiet, IInv, Written
<1>12. ASSUME NEW n \in Control, StopBackup(n) PROVE HadTurn'
  <2>1. /\ UNCHANGED <<cfg, master, kaFile, pxConf, pxUp, member, resume, mode, pc>>
        /\ pc = "vrrp" /\ n \in todo /\ at = "started" /\ at' = "next" /\ todo' = todo \ {n}
        /\ TurnOf(n)
    BY <1>12 DEF StopBackup, TurnOf
  <2>2. mode = "install" /\ n # master /\ ~(resume = "startK8s" /\ member = {})
    BY <2>1 DEF Quiet, AtTurn
  <2>3. kaFile[n] = Full(n)
    BY <2>1 DEF IInv, Written, Phases
  <2>4. Serves(master) => Serves(master)'
    BY <1>12, <2>1, <2>2 DEF StopBackup, Serves, Full, TypeOK
  <2>5. \A x \in Control : Full(x)' = Full(x) /\ (ProxyDone(x)' <=> ProxyDone(x))
    BY <2>1 DEF Full, ProxyDone
  <2> QED
    BY <2>1, <2>2, <2>3, <2>4, <2>5
<1>13. ASSUME NEW n \in Control, StartBackup(n) PROVE HadTurn'
  <2>1. /\ UNCHANGED <<cfg, master, kaFile, pxConf, pxUp, member, resume, mode, pc>>
        /\ pc = "backups" /\ n \in todo /\ n \in HaNodes /\ todo' = todo \ {n}
        /\ kaUp' = kaUp \cup {n}
    BY <1>13 DEF StartBackup, TurnOf, Phases
  <2>2. ~(resume = "startK8s" /\ member = {})
    BY <2>1 DEF Quiet
  <2>3. \A x \in kaUp' : kaConf'[x] = Full(x)
    BY <1>13, <2>1 DEF StartBackup, TypeOK
  <2>4. \A x \in Control : Full(x)' = Full(x) /\ (ProxyDone(x)' <=> ProxyDone(x))
    BY <2>1 DEF Full, ProxyDone
  <2>5. Serves(master) => Serves(master)'
    BY <2>1, <2>3, <2>4 DEF Serves
  <2> QED
    BY <2>1, <2>2, <2>3, <2>4, <2>5
<1>14. ASSUME NEW n \in Control, LosePeer(n) PROVE HadTurn'
  BY <1>14, FullKept DEF LosePeer, ProxyDone, Serves, TypeOK, Idle
<1>15. ASSUME NEW n \in Control, Restore(n) PROVE HadTurn'
  BY <1>15, FullKept DEF Restore, ProxyDone, Serves, TypeOK, Idle
<1>16. CASE UNCHANGED vars
  BY <1>16, <1>a DEF vars
<1> QED
  BY <1>1, <1>2, <1>3, <1>4, <1>5, <1>6, <1>7, <1>8, <1>9, <1>10, <1>11, <1>12, <1>13, <1>14,
     <1>15, <1>16 DEF Next, EngineStep

(* Success leaves the complete inventory, with one MASTER and distinct     *)
(* priorities: up to 100 control-planes, the limit of the clamp at 1.      *)
THEOREM SuccessLeavesAll ==
  (\A c \in Configs : Cardinality(Controls(c)) <= 100) => (Spec => SuccessIsComplete)
<1> SUFFICES ASSUME \A c \in Configs : Cardinality(Controls(c)) <= 100 PROVE Spec => SuccessIsComplete
  OBVIOUS
<1> DEFINE Done == /\ HaNodes' = Eligible'
                   /\ \A n \in HaNodes' : /\ kaConf'[n].peers = HaNodes' \ {n}
                                          /\ pxConf'[n] = HaNodes'
                                          /\ kaConf'[n].prio = 100 <=> n = master'
                   /\ \A m, n \in HaNodes' : kaConf'[m].prio = kaConf'[n].prio => m = n
<1>1. Init => Quiet /\ AtTurn /\ HadTurn
  BY DEF Init, Quiet, AtTurn, HadTurn
<1>2. IInv /\ HadTurn /\ [Next]_vars => [pc' = "done" /\ pc # "done" => Done]_vars
  <2> SUFFICES ASSUME IInv, HadTurn, [Next]_vars, pc' = "done", pc # "done" PROVE Done
    OBVIOUS
  <2>1. NextStep
    BY DEF Next, EngineStep, vars, StartInstall, Abort, StartUpdate, JoinDone, JoinOne, ProbeOne, ProxyStop,
           ProxyStart, KaWrite, KaStop, KaStart, StopBackup, StartBackup, LosePeer, Restore, IInv, TypeOK
  <2>2. /\ UNCHANGED <<cfg, master, kaConf, kaUp, pxConf, pxUp>> /\ todo = {}
        /\ pc = "backups" \/ (pc = "vrrp" /\ mode = "update")
    BY <2>1 DEF NextStep, IInv, TypeOK
  <2>3. HaNodes \subseteq Control /\ ValidConfig(cfg) /\ master \in HaNodes /\ cfg \in Configs
    BY CfgFacts DEF IInv, TypeOK
  <2>4. \A n \in HaNodes : ProxyDone(n) /\ n \in kaUp /\ kaConf[n] = Full(n)
    <3>1. \A n \in HaNodes : ProxyDone(n)
      BY <2>2 DEF HadTurn
    <3>2. CASE pc = "backups"
      BY <2>2, <3>1, <3>2 DEF HadTurn
    <3>3. CASE pc = "vrrp" /\ mode = "update"
      BY <2>2, <3>1, <3>3 DEF HadTurn, Serves
    <3> QED
      BY <2>2, <3>2, <3>3
  <2>5. Eligible = HaNodes
    BY <2>4 DEF Eligible, ProxyDone, IInv, Listed
  <2>6. \A n \in HaNodes : kaConf[n].peers = HaNodes \ {n} /\ kaConf[n].prio = Priority(cfg, master, n)
    <3> TAKE n \in HaNodes
    <3>1. kaConf[n] = Full(n)
      BY <2>4
    <3> QED
      BY <3>1 DEF Full, Peers
  <2>7. \A n \in HaNodes : Priority(cfg, master, n) = 100 <=> n = master
    <3> TAKE n \in HaNodes
    <3>1. CASE n # master
      <4>1. IsFiniteSet(HaNodes) /\ Ahead(cfg, master, n) \subseteq HaNodes
        BY <2>3, NodesFinite DEF Ahead, Backups
      <4>2. Cardinality(Ahead(cfg, master, n)) \in Nat
        BY <4>1, FS_Subset, FS_CardinalityType
      <4> QED
        BY <3>1, <4>2 DEF Priority
    <3> QED
      BY <3>1 DEF Priority
  <2>8. \A m, n \in HaNodes : kaConf[m].prio = kaConf[n].prio => m = n
    BY <2>3, <2>6, PriorityDistinct
  <2>9. Done <=> /\ HaNodes = Eligible
                 /\ \A n \in HaNodes : /\ kaConf[n].peers = HaNodes \ {n}
                                       /\ pxConf[n] = HaNodes
                                       /\ kaConf[n].prio = 100 <=> n = master
                 /\ \A m, n \in HaNodes : kaConf[m].prio = kaConf[n].prio => m = n
    BY <2>2 DEF Eligible
  <2> QED
    BY <2>4, <2>5, <2>6, <2>7, <2>8, <2>9 DEF ProxyDone
<1> QED
  BY <1>1, <1>2, Inv, QuietStep, AtTurnStep, HadTurnStep, PTL DEF Spec, SuccessIsComplete

-----------------------------------------------------------------------------
(* With reboots.                                                           *)

(* What the invariant says of the part that HaSync's actions change.       *)
Core == /\ TypeOK /\ Listed /\ Written /\ Phases /\ Restored
        /\ member = {} => mode = "install"

LEMMA RNextParts == RNext => [Next]_vars \/ \E n \in Control : Reboot(n)
BY DEF RNext, RunStep, Next, EngineStep

(* Steps that leave Keepalived, its files and the list alone, and neither  *)
(* begin to claim that every file is full.                                 *)
LEMMA RestoredKept ==
  ASSUME Restored, UNCHANGED <<kaFile, kaConf, kaUp, cfg>>,
         mode' = "install" \/ pc' = "done" => mode = "install" \/ pc = "done",
         mode' = "update" /\ pc' = "vrrp" =>
           mode = "update" /\ pc = "vrrp" /\ HaNodes \ todo' \subseteq HaNodes \ todo
  PROVE  Restored'
BY DEF Restored, Restartable, Configured

-----------------------------------------------------------------------------
LEMMA CoreInit == Init => Core
<1> SUFFICES ASSUME Init PROVE Core
  OBVIOUS
<1>1. TypeOK
  BY TypeInit
<1>2. Configured = {}
  BY DEF Init, Configured
<1> QED
  BY <1>1, <1>2 DEF Init, Core, Listed, Written, Phases, Restored, Restartable, Idle

LEMMA CoreStep == Core /\ [Next]_vars => Core'
<1> SUFFICES ASSUME Core, [Next]_vars PROVE Core'
  OBVIOUS
<1>0. TypeOK /\ TypeOK' /\ Listed /\ Written /\ Phases /\ Restored /\ (member = {} => mode = "install")
  BY TypeStep DEF Core
<1> USE <1>0, CfgFacts
<1>1. CASE StartInstall
  <2>1. Listed' /\ Configured' = Configured
    BY <1>1 DEF StartInstall, Listed, Configured
  <2>2. Written'
    BY <1>1, <2>1 DEF StartInstall, Written, TypeOK
  <2>3. Phases'
    BY <1>1 DEF StartInstall, Phases
  <2>4. Restored'
    BY <1>1, RestoredKept DEF StartInstall
  <2> QED
    BY <1>1, <2>1, <2>2, <2>3, <2>4 DEF Core, StartInstall
<1>2. CASE Abort
  <2>1. Listed' /\ Configured' = Configured
    BY <1>2 DEF Abort, Listed, Configured
  <2>2. Written'
    BY <1>2, <2>1 DEF Abort, Written, Phases, Idle
  <2>3. Phases'
    BY <1>2 DEF Abort, Phases, Idle
  <2>4. Restored'
    BY <1>2, RestoredKept DEF Abort, Idle
  <2> QED
    BY <1>2, <2>1, <2>2, <2>3, <2>4 DEF Core, Abort
<1>3. ASSUME NEW c \in Configs, NEW m \in Control, StartUpdate(c, m) PROVE Core'
  <2>1. Listed'
    BY <1>3 DEF StartUpdate, Listed, Configured
  <2>2. Written'
    BY <1>3 DEF StartUpdate, Written
  <2>3. Phases' /\ (member' # {})
    BY <1>3 DEF StartUpdate, Phases
  <2>4. Restored'
    BY <1>3 DEF StartUpdate, Restored
  <2> QED
    BY <2>1, <2>2, <2>3, <2>4 DEF Core
<1>4. CASE JoinDone
  <2>1. Listed' /\ Configured' = Configured
    BY <1>4 DEF JoinDone, Listed, Configured
  <2>2. Written'
    BY <1>4, <2>1 DEF JoinDone, Written
  <2>3. Phases'
    BY <1>4 DEF JoinDone, Phases, Backups, Idle
  <2>4. Restored'
    BY <1>4, RestoredKept DEF JoinDone
  <2> QED
    BY <1>4, <2>1, <2>2, <2>3, <2>4 DEF Core, JoinDone
<1>5. CASE NextStep
  <2>1. Listed' /\ Configured' = Configured
    BY <1>5 DEF NextStep, Listed, Configured
  <2>2. Written'
    BY <1>5, <2>1 DEF NextStep, Written, Phases
  <2>3. Phases'
    BY <1>5 DEF NextStep, Phases, Idle
  <2>4. Restored'
    <3>1. CASE mode = "update" /\ pc = "vrrp"
      <4>1. \A n \in Control : Restartable(n)
        BY <1>5, <3>1 DEF NextStep, Restored, Restartable, Listed
      <4> QED
        BY <1>5, <3>1, <4>1 DEF NextStep, Restored, Restartable, Configured
    <3>2. CASE mode = "update" /\ pc = "proxy"
      BY <1>5, <3>2 DEF NextStep, Restored
    <3>3. CASE mode = "install" \/ pc \notin {"vrrp", "proxy"}
      BY <1>5, <3>3, RestoredKept DEF NextStep, TypeOK
    <3> QED
      BY <3>1, <3>2, <3>3 DEF TypeOK
  <2> QED
    BY <1>5, <2>1, <2>2, <2>3, <2>4 DEF Core, NextStep
<1>6. ASSUME NEW n \in Control, JoinOne(n) PROVE Core'
  <2>1. Listed' /\ Configured' = Configured
    BY <1>6 DEF JoinOne, Listed, Configured
  <2>2. Written'
    BY <1>6, <2>1 DEF JoinOne, Written, Phases
  <2>3. Phases'
    BY <1>6 DEF JoinOne, Phases, Idle
  <2>4. Restored'
    BY <1>6, RestoredKept DEF JoinOne
  <2> QED
    BY <1>6, <2>1, <2>2, <2>3, <2>4 DEF Core, JoinOne
<1>7. ASSUME NEW n \in Control, ProbeOne(n) PROVE Core'
  <2>1. Listed' /\ Configured' = Configured
    BY <1>7 DEF ProbeOne, Listed, Configured
  <2>2. Written'
    BY <1>7, <2>1 DEF ProbeOne, Written
  <2>3. Phases'
    BY <1>7 DEF ProbeOne, Phases, TurnOf, Idle
  <2>4. Restored'
    BY <1>7, RestoredKept DEF ProbeOne
  <2> QED
    BY <1>7, <2>1, <2>2, <2>3, <2>4 DEF Core, ProbeOne
<1>8. ASSUME NEW n \in Control, ProxyStop(n) PROVE Core'
  <2>1. Listed' /\ Configured' = Configured
    BY <1>8 DEF ProxyStop, Listed, Configured
  <2>2. Written'
    BY <1>8, <2>1 DEF ProxyStop, Written
  <2>3. Phases'
    BY <1>8 DEF ProxyStop, Phases, TurnOf, Idle
  <2>4. Restored'
    BY <1>8, RestoredKept DEF ProxyStop
  <2> QED
    BY <1>8, <2>1, <2>2, <2>3, <2>4 DEF Core, ProxyStop
<1>9. ASSUME NEW n \in Control, ProxyStart(n) PROVE Core'
  <2>1. Listed' /\ Configured' = Configured
    BY <1>9 DEF ProxyStart, Listed, Configured
  <2>2. Written'
    BY <1>9, <2>1 DEF ProxyStart, Written
  <2>3. Phases'
    BY <1>9 DEF ProxyStart, Phases, Idle
  <2>4. Restored'
    BY <1>9, RestoredKept DEF ProxyStart
  <2> QED
    BY <1>9, <2>1, <2>2, <2>3, <2>4 DEF Core, ProxyStart
<1>10. ASSUME NEW n \in Control, KaWrite(n) PROVE Core'
  <2>1. /\ n \in HaNodes /\ n \in todo /\ Configured' = Configured \cup {n}
        /\ kaFile' = [kaFile EXCEPT ![n] = Full(n)]
    BY <1>10 DEF KaWrite, Phases, TurnOf, Configured, TypeOK
  <2>2. Listed'
    BY <1>10, <2>1 DEF KaWrite, Listed
  <2>3. Written'
    <3>1. \A k \in todo' : TurnOf(k)' => kaFile'[k] = Full(k)'
      BY <1>10, TurnKept, TurnUnique DEF KaWrite, TypeOK
    <3> QED
      BY <1>10, <2>1, <3>1 DEF KaWrite, Written
  <2>4. Phases'
    BY <1>10 DEF KaWrite, Phases, TurnOf, Idle
  <2>5. Restored'
    BY <1>10, <2>1 DEF KaWrite, Restored, Restartable, TypeOK
  <2> QED
    BY <1>10, <2>2, <2>3, <2>4, <2>5 DEF Core, KaWrite
<1>11. ASSUME NEW n \in Control, KaStop(n) PROVE Core'
  <2>1. Listed' /\ Configured' = Configured
    BY <1>11 DEF KaStop, Listed, Configured
  <2>2. Written'
    BY <1>11, <2>1, TurnKept DEF KaStop, Written, TypeOK
  <2>3. Phases'
    BY <1>11 DEF KaStop, Phases, Idle
  <2>4. Restored'
    BY <1>11, <2>1 DEF KaStop, Restored, Restartable, TypeOK
  <2> QED
    BY <1>11, <2>1, <2>2, <2>3, <2>4 DEF Core, KaStop
<1>12. ASSUME NEW n \in Control, KaStart(n) PROVE Core'
  <2>1. n \in HaNodes /\ n \in Configured /\ kaFile[n].peers = Peers(cfg, n)
    BY <1>12 DEF KaStart, Phases, Written, TurnOf, Configured
  <2>2. /\ kaConf' = [kaConf EXCEPT ![n] = kaFile[n]] /\ kaUp' = kaUp \cup {n}
        /\ UNCHANGED <<kaFile, cfg, mode, pc>> /\ todo \ {n} \subseteq todo'
    BY <1>12 DEF KaStart
  <2>3. Listed' /\ Configured' = Configured
    BY <1>12, <2>1, <2>2 DEF KaStart, Listed, Configured
  <2>4. Written'
    <3>1. at' # "next" => \A k \in todo' : TurnOf(k)' => kaFile'[k] = Full(k)'
      BY <1>12, TurnKept DEF KaStart, Written, TypeOK
    <3> QED
      BY <1>12, <2>1, <2>3, <3>1 DEF KaStart, Written
  <2>5. Phases'
    BY <1>12 DEF KaStart, Phases, Idle, TurnOf
  <2>6. Restored'
    BY <2>1, <2>2, <2>3 DEF Restored, Restartable, TypeOK
  <2> QED
    BY <1>12, <2>3, <2>4, <2>5, <2>6 DEF Core, KaStart
<1>13. ASSUME NEW n \in Control, StopBackup(n) PROVE Core'
  <2>1. n \in HaNodes /\ n \in Configured /\ kaFile[n].peers = Peers(cfg, n)
    BY <1>13 DEF StopBackup, Phases, Written, TurnOf, Configured
  <2>2. Listed' /\ Configured' = Configured
    BY <1>13 DEF StopBackup, Listed, Configured
  <2>3. Written'
    BY <1>13, <2>1, <2>2 DEF StopBackup, Written
  <2>4. Phases'
    BY <1>13 DEF StopBackup, Phases, Idle
  <2>5. Restored'
    BY <1>13, <2>1, <2>2 DEF StopBackup, Restored, Restartable, TypeOK
  <2> QED
    BY <1>13, <2>2, <2>3, <2>4, <2>5 DEF Core, StopBackup
<1>14. ASSUME NEW n \in Control, StartBackup(n) PROVE Core'
  <2>1. n \in HaNodes /\ n \in Configured /\ mode = "install"
    BY <1>14 DEF StartBackup, Phases, Written, TurnOf, TypeOK
  <2>2. Listed' /\ Configured' = Configured
    BY <1>14, <2>1 DEF StartBackup, Listed, Configured
  <2>3. Written'
    BY <1>14, <2>2 DEF StartBackup, Written
  <2>4. Phases'
    BY <1>14, <2>1 DEF StartBackup, Phases, Idle
  <2>5. Restored'
    BY <1>14, <2>1, <2>2 DEF StartBackup, Restored, Restartable, TypeOK
  <2> QED
    BY <1>14, <2>2, <2>3, <2>4, <2>5 DEF Core, StartBackup
<1>15. ASSUME NEW n \in Control, LosePeer(n) PROVE Core'
  <2>1. Listed' /\ Configured' = Configured
    BY <1>15 DEF LosePeer, Listed, Configured
  <2>2. Written'
    BY <1>15, <2>1, TurnKept DEF LosePeer, Written, TypeOK
  <2>3. Phases'
    BY <1>15 DEF LosePeer, Phases, Idle
  <2>4. Restored'
    BY <1>15, <2>1 DEF LosePeer, Restored, Restartable, TypeOK
  <2> QED
    BY <1>15, <2>1, <2>2, <2>3, <2>4 DEF Core, LosePeer
<1>16. ASSUME NEW n \in Control, Restore(n) PROVE Core'
  <2>1. Listed' /\ Configured' = Configured
    BY <1>16 DEF Restore, Listed, Configured
  <2>2. Written'
    BY <1>16, <2>1 DEF Restore, Written, Idle
  <2>3. Phases'
    BY <1>16 DEF Restore, Phases, Idle
  <2>4. Restored'
    BY <1>16, <2>1 DEF Restore, Restored, Restartable, TypeOK, Idle
  <2> QED
    BY <1>16, <2>1, <2>2, <2>3, <2>4 DEF Core, Restore
<1>17. CASE UNCHANGED vars
  <2>1. Listed' /\ Configured' = Configured
    BY <1>17 DEF vars, Listed, Configured
  <2>2. Written'
    BY <1>17, <2>1, TurnKept DEF vars, Written, TypeOK
  <2>3. Phases'
    BY <1>17 DEF vars, Phases, Idle
  <2>4. Restored'
    BY <1>17, RestoredKept DEF vars
  <2> QED
    BY <1>17, <2>1, <2>2, <2>3, <2>4 DEF Core, vars
<1> QED
  BY <1>1, <1>2, <1>3, <1>4, <1>5, <1>6, <1>7, <1>8, <1>9,
     <1>10, <1>11, <1>12, <1>13, <1>14, <1>15, <1>16, <1>17 DEF Next, EngineStep

(* A host starts with a file that was already accounted for.               *)
LEMMA CoreReboot ==
  ASSUME Core, NEW n \in Control, Reboot(n) PROVE Core'
<1> USE CfgFacts DEF Core, Reboot
<1>1. UNCHANGED <<member, kaFile, pxConf, engine, resume, runs>> /\ Configured' = Configured
  BY DEF Configured
<1>2. kaUp' \subseteq kaUp \cup {n} /\ (n \in kaUp' => n \in kaUp \cup Configured)
  BY DEF Configured
<1>3. TypeOK'
  BY <1>1 DEF TypeOK
<1>4. Listed'
  BY <1>1, <1>2 DEF Listed
<1>5. Written'
  BY <1>1, TurnKept DEF Written, TypeOK
<1>6. Phases'
  BY <1>1 DEF Phases, Idle
<1>7. \A k \in Control : Restartable(k) => Restartable(k)'
  BY <1>1 DEF Restartable, Configured, TypeOK
<1>8. Restored'
  BY <1>1, <1>7 DEF Restored
<1> QED
  BY <1>1, <1>3, <1>4, <1>5, <1>6, <1>8

-----------------------------------------------------------------------------
LEMMA RInvInit == RInit => RIInv
BY CoreInit, RebootAssumption DEF RInit, RIInv, RTypeOK, Core

LEMMA RInvStep == RIInv /\ [RNext]_rvars => RIInv'
<1> SUFFICES ASSUME RIInv, [RNext]_rvars PROVE RIInv'
  OBVIOUS
<1>1. Core
  BY DEF RIInv, RTypeOK, Core
<1>2. Core'
  BY <1>1, CoreStep, CoreReboot, RNextParts DEF rvars
<1>3. gone' \subseteq Control /\ reboots' \in 0..MaxReboots
  <2>1. gone \subseteq Control /\ reboots \in 0..MaxReboots
    BY DEF RIInv, RTypeOK
  <2>2. ASSUME NEW n \in Control, Reboot(n) PROVE gone' \subseteq Control /\ reboots' \in 0..MaxReboots
    BY <2>1, <2>2, RebootAssumption DEF Reboot
  <2> QED
    BY <2>1, <2>2 DEF RNext, rvars
<1> QED
  BY <1>2, <1>3 DEF RIInv, RTypeOK, Core

LEMMA RInvImplies == RIInv => RebootSafe
<1> SUFFICES ASSUME RIInv, mode = "install" \/ pc = "done",
                    NEW m \in Eligible, NEW n \in Eligible, m # n
             PROVE  Defers(m, n) \/ Defers(n, m)
  BY DEF RebootSafe, NoSplitBrain
<1>0. TypeOK
  BY DEF RIInv, RTypeOK
<1>1. m \in kaUp /\ n \in kaUp /\ m \in HaNodes /\ n \in HaNodes
  BY DEF Eligible, RIInv, Listed
<1>2. n \in kaConf[m].peers /\ m \in kaConf[n].peers
  BY <1>0, <1>1, CfgFacts DEF RIInv, Restored, Restartable, Peers
<1>3. m \in Nodes(cfg) /\ n \in Nodes(cfg)
  BY <1>0, <1>1, CfgFacts
<1>4. AddrOf[m] # AddrOf[n] /\ AddrOf[m] \in Nat /\ AddrOf[n] \in Nat
  BY <1>0, <1>3, CfgFacts, AddrInjective, NodesFinite, NodeAssumption
<1>5. kaConf[m].prio \in Int /\ kaConf[n].prio \in Int
  <2>1. kaConf[m] \in Conf /\ kaConf[n] \in Conf
    BY <1>0, <1>1 DEF TypeOK
  <2> QED
    BY <2>1 DEF Conf
<1> QED
  BY <1>2, <1>4, <1>5 DEF Defers, Beats

(* The inductive invariant holds in every reachable state.                 *)
THEOREM RInv == RSpec => []RIInv
BY RInvInit, RInvStep, PTL DEF RSpec

(* Reboots give the VIP no second holder, for any node list, any number of *)
(* runs, failures and reboots.                                             *)
THEOREM RebootsAreSafe == RSpec => []RebootSafe
BY RInv, RInvImplies, PTL

(* Type correctness.                                                       *)
THEOREM RTypeCorrect == RSpec => []RTypeOK
BY RInv, PTL DEF RIInv
=============================================================================
