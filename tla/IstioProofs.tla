---------------------------- MODULE IstioProofs -----------------------------
(***************************************************************************)
(* Istio is only looked at, and istiod only restarted, after an installer  *)
(* that applied everything; a run that succeeds has verified what it       *)
(* leaves; Loki keeps its storage.  For every number of runs.              *)
(***************************************************************************)
EXTENDS Istio, TLAPS

(* The flags stay Boolean.                                                 *)
LEMMA FlagsInv == (Init => Flags) /\ (Flags /\ [Next]_vars => Flags')
<1>1. Init => Flags
  BY Zenon DEF Init, Flags
<1>2. ASSUME Flags, [Next]_vars PROVE Flags'
  <2> USE <1>2
  <2>1. call' \in BOOLEAN /\ expired' \in BOOLEAN
    BY ZenonT(30) DEF Flags, Next, Engine, vars, engine, comm, storage, Begin, Send, Refused, PollsEnd, GiveUp,
       Expire, Cancel, StageFails, Answered, AnsweredError, NoEndpoints, Apply, LokiRead, LokiClass,
       LokiApply, ScriptFails, ScriptGoesOn, ScriptReturns, SetClass, Uninstall
  <2>2. cancelled' \in BOOLEAN /\ class' \in BOOLEAN
    BY ZenonT(30) DEF Flags, Next, Engine, vars, engine, comm, storage, Begin, Send, Refused, PollsEnd, GiveUp,
       Expire, Cancel, StageFails, Answered, AnsweredError, NoEndpoints, Apply, LokiRead, LokiClass,
       LokiApply, ScriptFails, SetClass, Uninstall
  <2> QED
    BY <2>1, <2>2, Zenon DEF Flags
<1> QED
  BY <1>1, <1>2

(* The initial states satisfy the invariant.                               *)
LEMMA InitInv == Init => IInv
<1>1. Init => Flags
  BY FlagsInv
<1> QED
  BY <1>1, IstioAssumption
  DEF Init, IInv, TypeOK, Awaited, Progress, Observed, ModeFound, RecoveryAfterInstall, Idle,
      Commands, Queries

(* A step of the engine, of the scripts or of the operator preserves it.   *)
LEMMA StepInv == IInv /\ [Next]_vars => IInv'
<1> SUFFICES ASSUME IInv, [Next]_vars PROVE IInv'
  OBVIOUS
<1> USE IstioAssumption
<1> USE DEF IInv, TypeOK, Awaited, Progress, Observed, ModeFound, RecoveryAfterInstall, Idle,
            Commands, Queries, Evidence, IstioParts
<1>f. Flags /\ Flags'
  BY FlagsInv
<1>0. DOMAIN Following = {"calico", "istioctl", "addons", "lokiRead", "lokiClass", "lokiApply", "rest"}
  BY DEF Following
<1>1. ASSUME NEW g \in {"calico", "join", "istio"}, Begin(g) PROVE IInv'
  BY <1>0, <1>f, <1>1 DEF Begin, storage
<1>2. CASE Send
  BY <1>0, <1>f, <1>2 DEF Send, Usable, engine, storage
<1>3. CASE Refused
  BY <1>0, <1>f, <1>3 DEF Refused, Failed, comm, storage
<1>4. CASE PollsEnd
  BY <1>0, <1>f, <1>4 DEF PollsEnd, Failed, storage
<1>5. CASE GiveUp
  BY <1>0, <1>f, <1>5 DEF GiveUp, Failed, engine, storage
<1>6. CASE Expire
  BY <1>0, <1>f, <1>6 DEF Expire, engine, storage
<1>7. CASE Cancel
  BY <1>0, <1>f, <1>7 DEF Cancel, engine, comm, storage
<1>8. CASE StageFails
  BY <1>0, <1>f, <1>8 DEF StageFails, Failed, comm, storage
<1>9. CASE Answered
  <2>1. call /\ script = "none" /\ pc # "install" /\ call' = FALSE /\ UNCHANGED <<script, conn, mode, loki, applied, runs>>
    BY <1>9 DEF Answered, storage
  <2>2. CASE NetPassed
    BY <1>0, <1>f, <1>9, <2>1, <2>2 DEF Answered, NetPassed, NetReady
  <2>3. CASE ~NetPassed
    BY <1>0, <1>f, <1>9, <2>1, <2>3 DEF Answered, Passed
  <2> QED
    BY <2>2, <2>3
<1>10. CASE AnsweredError
  BY <1>0, <1>f, <1>10 DEF AnsweredError, Failed, storage
<1>11. CASE NoEndpoints
  BY <1>0, <1>f, <1>11 DEF NoEndpoints, engine, storage
<1>12. CASE Apply
  <2>1. UNCHANGED <<expired, conn, cancelled, mode, loki, class, runs>>
    BY <1>12 DEF Apply, storage
  <2>2. applied' \subseteq DOMAIN Following /\ seen' \subseteq Evidence
    BY <1>0, <1>12 DEF Apply
  <2>0. /\ Following["calico"] = "none" /\ Following["rest"] = "none"
        /\ Following["istioctl"] = "addons" /\ Following["addons"] = "lokiRead"
    BY DEF Following
  <2>3. CASE script \in {"calico", "rest"}
    <3>1. ScriptReturns(TRUE)
      BY <1>12, <2>0, <2>3 DEF Apply, ScriptGoesOn
    <3> QED
      BY <1>f, <1>12, <2>1, <2>2, <2>3, <3>1 DEF Apply, ScriptReturns, engine
  <2>4. CASE script \in {"istioctl", "addons"}
    <3>1. /\ script' = IF script = "istioctl" THEN "addons" ELSE "lokiRead"
          /\ UNCHANGED <<engine, call>>
      BY <1>12, <2>0, <2>4 DEF Apply, ScriptGoesOn
    <3> QED
      BY <1>0, <1>f, <1>12, <2>1, <2>2, <2>4, <3>1 DEF Apply, engine
  <2> QED
    BY <1>12, <2>3, <2>4 DEF Apply
<1>13. CASE LokiRead
  BY <1>0, <1>f, <1>13 DEF LokiRead, ScriptGoesOn, ScriptReturns, Following, engine
<1>14. CASE LokiClass
  BY <1>0, <1>f, <1>14 DEF LokiClass, ScriptGoesOn, ScriptReturns, Following, engine
<1>15. CASE LokiApply
  BY <1>0, <1>f, <1>15 DEF LokiApply, ScriptGoesOn, ScriptReturns, Following, engine
<1>16. CASE ScriptFails
  BY <1>0, <1>f, <1>16 DEF ScriptFails, ScriptReturns, engine, storage
<1>17. CASE SetClass
  BY <1>0, <1>f, <1>17 DEF SetClass, engine, comm
<1>18. CASE Uninstall
  BY <1>0, <1>f, <1>18 DEF Uninstall, engine, comm
<1>19. CASE UNCHANGED vars
  BY <1>0, <1>f, <1>19 DEF vars, engine, comm, storage
<1> QED
  BY <1>1, <1>2, <1>3, <1>4, <1>5, <1>6, <1>7, <1>8, <1>9, <1>10, <1>11, <1>12, <1>13, <1>14,
     <1>15, <1>16, <1>17, <1>18, <1>19 DEF Next, Engine

(* Every reachable state satisfies the invariant.                          *)
THEOREM Inv == Spec => []IInv
  BY InitInv, StepInv, PTL DEF Spec

(* Type correctness of the readiness steps.                                *)
THEOREM TypeCorrect == Spec => []TypeOK
<1>1. IInv => TypeOK
  BY DEF IInv
<1> QED
  BY <1>1, Inv, PTL

(* docs/online-containerd-plan.md: recovery runs after script success      *)
(* only, never beside an installer and never over a failed one.            *)
THEOREM NoRecoveryOverFailure == Spec => []RecoveryAfterInstall
<1>1. IInv => RecoveryAfterInstall
  BY DEF IInv
<1> QED
  BY <1>1, Inv, PTL

(* An existing Loki keeps its storage type through every sequence of runs. *)
THEOREM StorageIsRetained == Spec => []LokiRetained
<1>1. IInv => LokiRetained
  BY DEF IInv, ModeFound, LokiRetained
<1> QED
  BY <1>1, Inv, PTL

(* A run that succeeds has applied Istio and seen it ready since istiod    *)
(* was last restarted.                                                     *)
THEOREM SuccessIsVerified == Spec => SuccessVerified
<1> DEFINE Verified == pc' = "done" /\ ~Idle /\ goal = "istio" => IstioParts \subseteq applied' /\ seen' = Evidence
<1>1. ASSUME IInv, [Next]_vars PROVE Verified
  <2> SUFFICES ASSUME pc' = "done", ~Idle, goal = "istio" PROVE IstioParts \subseteq applied' /\ seen' = Evidence
    OBVIOUS
  <2>1. Answered
    BY <1>1 DEF Next, Engine, vars, engine, comm, storage, Idle, Begin, Send, Refused, PollsEnd, GiveUp,
       Expire, Cancel, StageFails, Failed, AnsweredError, NoEndpoints, Apply, LokiRead, LokiClass,
       LokiApply, ScriptFails, ScriptGoesOn, ScriptReturns, SetClass, Uninstall
  <2>2. pc = "gateway" /\ UNCHANGED applied /\ seen' = seen \cup {"gateway"}
    BY <2>1, <1>1 DEF Answered, Passed, NetPassed, NetReady, Queries, Evidence, IInv, TypeOK
  <2> QED
    BY <2>2, <1>1 DEF IInv, TypeOK, Observed, RecoveryAfterInstall, Evidence
<1>2. IInv /\ [Next]_vars => [Verified]_vars
  BY <1>1
<1> QED
  BY <1>2, Inv, PTL DEF Spec, SuccessVerified
=============================================================================
