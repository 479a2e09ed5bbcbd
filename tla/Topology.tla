------------------------------ MODULE Topology ------------------------------
(***************************************************************************)
(* The pure functions of app/engine over the configured node list: which   *)
(* lists AddNode and check accept, and what ha.go derives from an accepted *)
(* list: the order in which nodes are handled, their VRRP priorities and   *)
(* peers.                                                                  *)
(*                                                                         *)
(* A configuration is the sequence e.nodes.  What the code compares of a   *)
(* node is its address, its host name and its roles; addresses are numbers *)
(* because VRRP breaks ties by comparing them.                             *)
(***************************************************************************)
EXTENDS Integers, Sequences, FiniteSets

CONSTANTS Node,              \* the entries an operator may list under "nodes"
          Control, Etcd, Worker, \* their roles
          AddrOf, NameOf     \* their address and host name

ASSUME NodeAssumption ==
  /\ IsFiniteSet(Node)
  /\ Control \subseteq Node
  /\ Etcd \subseteq Node
  /\ Worker \subseteq Node
  /\ AddrOf \in [Node -> Nat]

Nodes(c) == {c[i] : i \in DOMAIN c}
Controls(c) == Nodes(c) \cap Control
Pos(c, n) == CHOOSE i \in DOMAIN c : c[i] = n

-----------------------------------------------------------------------------
(* AddNode refuses an entry whose address or host name is already taken.   *)
Distinct(c) ==
  \A i, j \in DOMAIN c :
    (AddrOf[c[i]] = AddrOf[c[j]] \/ NameOf[c[i]] = NameOf[c[j]]) => i = j

(* check, for the part of it that concerns roles.                          *)
RolesAccepted(c) ==
  /\ \A n \in Nodes(c) : (n \in Etcd <=> n \in Control) /\ n \in Control \cup Worker
  /\ Controls(c) # {}
  /\ Nodes(c) \cap Worker # {}

ValidConfig(c) == c \in Seq(Node) /\ Distinct(c) /\ RolesAccepted(c)

(* AddNode makes the first control-plane entry the management node.        *)
FirstControl(c) ==
  CHOOSE n \in Controls(c) : \A m \in Controls(c) : Pos(c, n) <= Pos(c, m)

-----------------------------------------------------------------------------
(* haNodes: new control-planes, then existing ones, the management node    *)
(* last; in configuration order within a group.                            *)
HaBefore(c, master, fresh, m, n) ==
  /\ m # master
  /\ \/ n = master
     \/ m \in fresh /\ n \notin fresh
     \/ (m \in fresh <=> n \in fresh) /\ Pos(c, m) < Pos(c, n)

Backups(c, master) == Controls(c) \ {master}

(* The priority loop of configureKeepalived: 100 for the management node,  *)
(* 99 counting down over the other control-planes, never below 1.          *)
Ahead(c, master, n) == {m \in Backups(c, master) : Pos(c, m) < Pos(c, n)}

(* Mutant: every backup gets 99.                                           *)
PriorityConstant(c, master, n) == IF n = master THEN 100 ELSE 99

Priority(c, master, n) ==
  IF n = master THEN 100
  ELSE IF Cardinality(Ahead(c, master, n)) < 99
    THEN 99 - Cardinality(Ahead(c, master, n))
    ELSE 1

Peers(c, n) == Controls(c) \ {n}
=============================================================================
