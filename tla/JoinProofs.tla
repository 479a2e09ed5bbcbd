----------------------------- MODULE JoinProofs -----------------------------
(***************************************************************************)
(* EtcdSerial, NoAbandonedJoin and SuccessIsJoined for every set of nodes, *)
(* every node list and any number of runs, failures, timeouts and          *)
(* cancellations.                                                          *)
(***************************************************************************)
EXTENDS Join, FiniteSetTheorems, WellFoundedInduction, TLAPS

USE DEF hosts, engine, ghost, Idle

LEMMA ListFacts ==
  ASSUME NEW c \in Configs
  PROVE  Nodes(c) \subseteq Node /\ FirstControl(c) \in Controls(c) /\ Controls(c) \subseteq Node
<1>1. ValidConfig(c) /\ DOMAIN c \subseteq Nat /\ Nodes(c) \subseteq Node
  BY JoinAssumption DEF ValidConfig, Nodes
<1>2. \A n \in Controls(c) : Pos(c, n) \in Nat
  <2> TAKE n \in Controls(c)
  <2>1. \E i \in DOMAIN c : c[i] = n
    BY DEF Controls, Nodes
  <2> QED
    BY <1>1, <2>1 DEF Pos
<1>3. FirstControl(c) \in Controls(c)
  <2> DEFINE P == {Pos(c, n) : n \in Controls(c)}
  <2>1. P \subseteq Nat /\ P # {}
    BY <1>1, <1>2 DEF ValidConfig, RolesAccepted
  <2>2. PICK x \in P : \A y \in P : ~ (<<y, x>> \in OpToRel(<, Nat))
    BY <2>1, WFMin, NatLessThanWellFounded
  <2>3. OpToRel(<, Nat) = {ss \in Nat \X Nat : ss[1] < ss[2]}
    BY DEF OpToRel
  <2>4. \A y \in P : <<y, x>> \in Nat \X Nat
    BY <2>1
  <2>5. \A y \in P : ~(y < x)
    BY <2>2, <2>3, <2>4
  <2>6. \A y \in P : x <= y
    BY <2>1, <2>5
  <2>7. PICK n \in Controls(c) : x = Pos(c, n)
    OBVIOUS
  <2> QED
    BY <2>6, <2>7 DEF FirstControl
<1> QED
  BY <1>1, <1>3 DEF Controls

LEMMA TypeInit == Init => TypeOK
BY ListFacts, JoinAssumption DEF Init, TypeOK

LEMMA TypeStep == TypeOK /\ [Next]_vars => TypeOK'
<1> SUFFICES ASSUME TypeOK, [Next]_vars PROVE TypeOK'
  OBVIOUS
<1> USE ListFacts, JoinAssumption, NodeAssumption DEF TypeOK
<1>1. ASSUME NEW c \in Configs, Start(c) PROVE TypeOK'
  BY <1>1 DEF Start
<1>2. CASE InitMaster
  BY <1>2 DEF InitMaster
<1>3. CASE Prepare
  BY <1>3 DEF Prepare, NewControls
<1>4. CASE ControlReturns
  BY <1>4 DEF ControlReturns, End
<1>5. CASE ControlsDone
  BY <1>5 DEF ControlsDone
<1>6. CASE ConfigureKubectl
  BY <1>6 DEF ConfigureKubectl
<1>7. CASE RemoveTaint
  BY <1>7 DEF RemoveTaint
<1>8. CASE PollGet
  BY <1>8 DEF PollGet, AfterPoll
<1>9. CASE PollByIP
  BY <1>9 DEF PollByIP, End
<1>10. CASE JoinWorkers
  BY <1>10 DEF JoinWorkers
<1>11. CASE WorkersReturn
  BY <1>11 DEF WorkersReturn, End, NewWorkers
<1>12. CASE PollDone
  BY <1>12 DEF PollDone
<1>13. CASE Succeed
  BY <1>13 DEF Succeed
<1>14. ASSUME NEW n \in Node, Discover(n) PROVE TypeOK'
  BY <1>14 DEF Discover
<1>15. ASSUME NEW n \in Node, JoinControl(n) PROVE TypeOK'
  BY <1>15 DEF JoinControl
<1>16. ASSUME NEW n \in Node, PollWorker(n) PROVE TypeOK'
  BY <1>16 DEF PollWorker
<1>17. ASSUME NEW n \in Node, Bootstrap(n) PROVE TypeOK'
  BY <1>17 DEF Bootstrap
<1>18. ASSUME NEW n \in Node, Register(n) PROVE TypeOK'
  BY <1>18 DEF Register
<1>19. ASSUME NEW n \in Node, EtcdAdd(n) PROVE TypeOK'
  BY <1>19 DEF EtcdAdd
<1>20. ASSUME NEW n \in Node, Mark(n) PROVE TypeOK'
  BY <1>20 DEF Mark
<1>21. ASSUME NEW n \in Node, Exit(n) PROVE TypeOK'
  BY <1>21 DEF Exit
<1>22. CASE Fail
  BY <1>22 DEF Fail, End
<1>23. CASE Cancel
  BY <1>23 DEF Cancel, End, Waiting
<1>24. CASE PollTimeout
  BY <1>24 DEF PollTimeout, End
<1>25. ASSUME NEW n \in Node, CallTimeout(n) PROVE TypeOK'
  BY <1>25 DEF CallTimeout
<1>26. ASSUME NEW n \in Node, Reset(n) PROVE TypeOK'
  BY <1>26 DEF Reset
<1>27. CASE UNCHANGED vars
  BY <1>27 DEF vars
<1> QED
  BY <1>1, <1>2, <1>3, <1>4, <1>5, <1>6, <1>7, <1>8, <1>9, <1>10, <1>11,
     <1>12, <1>13, <1>14, <1>15, <1>16, <1>17, <1>18, <1>19, <1>20, <1>21, <1>22,
     <1>23, <1>24, <1>25, <1>26, <1>27 DEF Next, EngineStep, Kubeadm

(* Every reachable state is well typed.                                    *)
THEOREM TypeCorrect == Spec => []TypeOK
BY TypeInit, TypeStep, PTL DEF Spec

-----------------------------------------------------------------------------
LEMMA InvInit == Init => IInv
<1> SUFFICES ASSUME Init PROVE IInv
  OBVIOUS
<1>1. TypeOK
  BY TypeInit
<1>2. Running = {} /\ Waiting = {}
  BY DEF Init, Running, Waiting
<1> QED
  BY <1>1, <1>2 DEF Init, IInv, Serial, Awaited, TypeOK

LEMMA InvStep == IInv /\ [Next]_vars => IInv'
<1> SUFFICES ASSUME IInv, [Next]_vars PROVE IInv'
  OBVIOUS
<1>0. TypeOK /\ TypeOK'
  BY TypeStep DEF IInv
<1> USE <1>0, NodeAssumption
<1>1. ASSUME NEW c \in Configs, Start(c) PROVE IInv'
  BY <1>1 DEF Start, IInv, Serial, Awaited, Running, Waiting, TypeOK
<1>2. CASE InitMaster
  BY <1>2 DEF InitMaster, IInv, Serial, Awaited, Running, Waiting, TypeOK
<1>3. CASE Prepare
  BY <1>3 DEF Prepare, IInv, Serial, Awaited, Running, Waiting, TypeOK
<1>4. CASE ControlReturns
  BY <1>4 DEF ControlReturns, End, IInv, Serial, Awaited, Running, Waiting, TypeOK
<1>5. CASE ControlsDone
  BY <1>5 DEF ControlsDone, IInv, Serial, Awaited, Running, Waiting, TypeOK
<1>6. CASE ConfigureKubectl
  BY <1>6 DEF ConfigureKubectl, IInv, Serial, Awaited, Running, Waiting, TypeOK
<1>7. CASE RemoveTaint
  BY <1>7 DEF RemoveTaint, IInv, Serial, Awaited, Running, Waiting, TypeOK
<1>8. CASE PollGet
  BY <1>8 DEF PollGet, AfterPoll, IInv, Serial, Awaited, Running, Waiting, TypeOK
<1>9. CASE PollByIP
  BY <1>9 DEF PollByIP, End, IInv, Serial, Awaited, Running, Waiting, TypeOK
<1>10. CASE JoinWorkers
  <2>1. NewWorkers \subseteq Node \ Control
    BY DEF NewWorkers, TypeOK
  <2>2. Running' = Running \cup NewWorkers /\ Waiting' = NewWorkers
    BY <1>10, <2>1 DEF JoinWorkers, Running, Waiting
  <2>3. Serial'
    BY <1>10, <2>1, <2>2 DEF JoinWorkers, IInv, Serial
  <2>4. Awaited'
    BY <1>10, <2>2 DEF JoinWorkers, IInv, Awaited
  <2> QED
    BY <2>3, <2>4 DEF IInv
<1>11. CASE WorkersReturn
  BY <1>11 DEF WorkersReturn, End, IInv, Serial, Awaited, Running, Waiting, TypeOK
<1>12. CASE PollDone
  BY <1>12 DEF PollDone, IInv, Serial, Awaited, Running, Waiting, TypeOK
<1>13. CASE Succeed
  BY <1>13 DEF Succeed, IInv, Serial, Awaited, Running, Waiting, TypeOK
<1>14. ASSUME NEW n \in Node, Discover(n) PROVE IInv'
  BY <1>14 DEF Discover, IInv, Serial, Awaited, Running, Waiting, TypeOK
<1>15. ASSUME NEW n \in Node, JoinControl(n) PROVE IInv'
  BY <1>15 DEF JoinControl, IInv, Serial, Awaited, Running, Waiting, TypeOK
<1>16. ASSUME NEW n \in Node, PollWorker(n) PROVE IInv'
  BY <1>16 DEF PollWorker, IInv, Serial, Awaited, Running, Waiting, TypeOK
<1>17. ASSUME NEW n \in Node, Bootstrap(n) PROVE IInv'
  BY <1>17 DEF Bootstrap, IInv, Serial, Awaited, Running, Waiting, TypeOK
<1>18. ASSUME NEW n \in Node, Register(n) PROVE IInv'
  BY <1>18 DEF Register, IInv, Serial, Awaited, Running, Waiting, TypeOK
<1>19. ASSUME NEW n \in Node, EtcdAdd(n) PROVE IInv'
  BY <1>19 DEF EtcdAdd, IInv, Serial, Awaited, Running, Waiting, TypeOK
<1>20. ASSUME NEW n \in Node, Mark(n) PROVE IInv'
  BY <1>20 DEF Mark, IInv, Serial, Awaited, Running, Waiting, TypeOK
<1>21. ASSUME NEW n \in Node, Exit(n) PROVE IInv'
  BY <1>21 DEF Exit, IInv, Serial, Awaited, Running, Waiting, TypeOK
<1>22. CASE Fail
  BY <1>22 DEF Fail, End, IInv, Serial, Awaited, Running, Waiting, TypeOK
<1>23. CASE Cancel
  BY <1>23 DEF Cancel, End, IInv, Serial, Awaited, Running, Waiting, TypeOK
<1>24. CASE PollTimeout
  BY <1>24 DEF PollTimeout, End, IInv, Serial, Awaited, Running, Waiting, TypeOK
<1>25. ASSUME NEW n \in Node, CallTimeout(n) PROVE IInv'
  BY <1>25 DEF CallTimeout, IInv, Serial, Awaited, Running, Waiting, TypeOK
<1>26. ASSUME NEW n \in Node, Reset(n) PROVE IInv'
  BY <1>26 DEF Reset, IInv, Serial, Awaited, Running, Waiting, TypeOK
<1>27. CASE UNCHANGED vars
  BY <1>27 DEF vars, IInv, Serial, Awaited, Running, Waiting, TypeOK
<1> QED
  BY <1>1, <1>2, <1>3, <1>4, <1>5, <1>6, <1>7, <1>8, <1>9, <1>10, <1>11,
     <1>12, <1>13, <1>14, <1>15, <1>16, <1>17, <1>18, <1>19, <1>20, <1>21, <1>22,
     <1>23, <1>24, <1>25, <1>26, <1>27 DEF Next, EngineStep, Kubeadm

-----------------------------------------------------------------------------
LEMMA InvImpliesEtcdSerial == IInv => EtcdSerial
<1> SUFFICES ASSUME IInv PROVE Cardinality(Running \cap Control) <= 1
  BY DEF EtcdSerial
<1>1. PICK n \in Node : Running \cap Control \subseteq {n}
  BY DEF IInv, Serial
<1>2. IsFiniteSet({n}) /\ Cardinality({n}) = 1
  BY FS_Singleton
<1> QED
  BY <1>1, <1>2, FS_Subset

LEMMA InvImpliesNoAbandonedJoin == IInv => NoAbandonedJoin
BY DEF IInv, Awaited, NoAbandonedJoin, Idle

(* The inductive invariant holds in every reachable state.                 *)
THEOREM Inv == Spec => []IInv
BY InvInit, InvStep, PTL DEF Spec

(* etcd's members are never changed concurrently.                          *)
THEOREM EtcdChangesAreSerial == Spec => []EtcdSerial
BY Inv, InvImpliesEtcdSerial, PTL

(* No failing run leaves a kubeadm behind that it did not wait for.        *)
THEOREM NothingAbandoned == Spec => []NoAbandonedJoin
BY Inv, InvImpliesNoAbandonedJoin, PTL
-----------------------------------------------------------------------------
(* Who has joined where the run stands.                                    *)
LEMMA MInvInit == Init => MInv
<1> SUFFICES ASSUME Init PROVE Members /\ Turn /\ HadTurn
  BY InvInit DEF MInv
<1> QED
  BY NodeAssumption DEF Init, Members, Turn, HadTurn, Polling

LEMMA MInvStep == MInv /\ [Next]_vars => MInv'
<1> SUFFICES ASSUME MInv, [Next]_vars PROVE (Members /\ Turn /\ HadTurn)'
  BY InvStep DEF MInv
<1>0. TypeOK /\ TypeOK' /\ Serial /\ Serial'
  BY InvStep DEF MInv, IInv
<1> USE <1>0, ListFacts, NodeAssumption DEF MInv, Members, Turn, HadTurn, Polling, Complete, NewControls, NewWorkers, Controls
<1>1. ASSUME NEW c \in Configs, Start(c) PROVE (Members /\ Turn /\ HadTurn)'
  BY <1>1 DEF Start, TypeOK
<1>2. CASE InitMaster
  BY <1>2 DEF InitMaster, TypeOK, Serial
<1>3. CASE Prepare
  BY <1>3 DEF Prepare, TypeOK
<1>4. CASE ControlReturns
  BY <1>4 DEF ControlReturns, End, TypeOK, Serial
<1>5. CASE ControlsDone
  BY <1>5 DEF ControlsDone, TypeOK
<1>6. CASE ConfigureKubectl
  BY <1>6 DEF ConfigureKubectl, TypeOK
<1>7. CASE RemoveTaint
  BY <1>7 DEF RemoveTaint, TypeOK
<1>8. CASE PollGet
  BY <1>8 DEF PollGet, AfterPoll, TypeOK
<1>9. CASE PollByIP
  BY <1>9 DEF PollByIP, End, TypeOK
<1>10. CASE JoinWorkers
  BY <1>10 DEF JoinWorkers, TypeOK
<1>11. CASE WorkersReturn
  BY <1>11 DEF WorkersReturn, End, TypeOK
<1>12. CASE PollDone
  BY <1>12 DEF PollDone, TypeOK
<1>13. CASE Succeed
  BY <1>13 DEF Succeed, TypeOK
<1>14. ASSUME NEW n \in Node, Discover(n) PROVE (Members /\ Turn /\ HadTurn)'
  BY <1>14 DEF Discover, TypeOK
<1>15. ASSUME NEW n \in Node, JoinControl(n) PROVE (Members /\ Turn /\ HadTurn)'
  BY <1>15 DEF JoinControl, TypeOK
<1>16. ASSUME NEW n \in Node, PollWorker(n) PROVE (Members /\ Turn /\ HadTurn)'
  BY <1>16 DEF PollWorker, TypeOK
<1>17. ASSUME NEW n \in Node, Bootstrap(n) PROVE (Members /\ Turn /\ HadTurn)'
  BY <1>17 DEF Bootstrap, TypeOK
<1>18. ASSUME NEW n \in Node, Register(n) PROVE (Members /\ Turn /\ HadTurn)'
  BY <1>18 DEF Register, TypeOK
<1>19. ASSUME NEW n \in Node, EtcdAdd(n) PROVE (Members /\ Turn /\ HadTurn)'
  BY <1>19 DEF EtcdAdd, TypeOK
<1>20. ASSUME NEW n \in Node, Mark(n) PROVE (Members /\ Turn /\ HadTurn)'
  BY <1>20 DEF Mark, TypeOK, Serial, Running
<1>21. ASSUME NEW n \in Node, Exit(n) PROVE (Members /\ Turn /\ HadTurn)'
  BY <1>21 DEF Exit, TypeOK, Serial, Running
<1>22. CASE Fail
  BY <1>22 DEF Fail, End, TypeOK
<1>23. CASE Cancel
  BY <1>23 DEF Cancel, End, TypeOK
<1>24. CASE PollTimeout
  BY <1>24 DEF PollTimeout, End, TypeOK
<1>25. ASSUME NEW n \in Node, CallTimeout(n) PROVE (Members /\ Turn /\ HadTurn)'
  BY <1>25 DEF CallTimeout, TypeOK
<1>26. ASSUME NEW n \in Node, Reset(n) PROVE (Members /\ Turn /\ HadTurn)'
  BY <1>26 DEF Reset, TypeOK
<1>27. CASE UNCHANGED vars
  BY <1>27 DEF vars, TypeOK
<1> QED
  BY <1>1, <1>2, <1>3, <1>4, <1>5, <1>6, <1>7, <1>8, <1>9, <1>10, <1>11,
     <1>12, <1>13, <1>14, <1>15, <1>16, <1>17, <1>18, <1>19, <1>20, <1>21, <1>22,
     <1>23, <1>24, <1>25, <1>26, <1>27 DEF Next, EngineStep, Kubeadm

LEMMA MInvImpliesSuccessIsJoined == MInv => SuccessIsJoined
<1> SUFFICES ASSUME MInv, pc = "done"
             PROVE  /\ Nodes(cfg) \subseteq registered
                    /\ Controls(cfg) \subseteq labelled
                    /\ \A n \in NewControls : Complete(n)
  BY DEF SuccessIsJoined
<1>1. /\ new \subseteq Nodes(cfg) /\ Nodes(cfg) \ new \subseteq registered
      /\ Controls(cfg) \ new \subseteq labelled
      /\ master \in labelled /\ labelled \subseteq registered
  BY DEF MInv, Members
<1>2. /\ \A n \in NewControls : n \in labelled /\ Complete(n)
      /\ NewWorkers \subseteq registered
  BY DEF MInv, Turn, HadTurn
<1>3. new \subseteq NewControls \cup NewWorkers \cup {master}
  BY DEF NewControls, NewWorkers
<1>4. Controls(cfg) \cap new \subseteq NewControls \cup {master}
  BY DEF NewControls, Controls
<1> QED
  BY <1>1, <1>2, <1>3, <1>4

(* The inductive invariant with who has joined where the run stands.       *)
THEOREM MembershipInv == Spec => []MInv
BY MInvInit, MInvStep, PTL DEF Spec

(* A run that succeeds has joined every node of the list.                  *)
THEOREM SuccessMeansJoined == Spec => []SuccessIsJoined
BY MembershipInv, MInvImpliesSuccessIsJoined, PTL
=============================================================================
