-------------------------- MODULE ProvisionProofs --------------------------
(***************************************************************************)
(* TypeOK, JoinedUntouched, DiscoveryFirst and SuccessIsProvisioned for    *)
(* every set of nodes, every cluster, every selection of steps and any     *)
(* number of runs, failures and resumed runs.                              *)
(***************************************************************************)
EXTENDS Provision, SequenceProofs

(* A host with one more part at some level is a host.                      *)
LEMMA PartType ==
  ASSUME NEW hs \in [Node -> Host], NEW n \in Node, NEW p \in Parts,
         NEW level \in {"none", "half", "ready"}
  PROVE  [hs EXCEPT ![n].part[p] = level] \in [Node -> Host]
BY DEF Host

(* The invariant is about the hosts, their scripts and their tasks.        *)
LEMMA InitInv == Init => IInv
BY DEF Init, IInv, Guarded, Host, Bare, Complete, Parts, NoTasks

(* A script that ends frees its host and reports to its task.              *)
LEMMA EndsInv ==
  ASSUME IInv, NEW n \in Node, NEW result \in {"ok", "failed"}, Ends(n, result),
         script[n] # "none", host' \in [Node -> Host],
         \A m \in Node : m # n => host'[m] = host[m]
  PROVE  IInv'
<1>1. Step' = Step /\ pc' = pc
  BY DEF Ends, Step
<1>2. /\ script' \in [Node -> {"none", "running", "half"}]
      /\ task' \in [Node -> {"none", "queued", "wait", "hosts", "ok", "failed"}]
  BY DEF Ends, IInv
<1>3. ASSUME NEW m \in Node, script'[m] # "none"
      PROVE  /\ Step' \in Parts /\ pc' \in {"idle", "step"}
             /\ pc' = "step" => task'[m] \in {"wait", "failed"}
             /\ Step' \in {"init", "containerd", "kubeadm"} => ~Joined(m)'
  <2>1. m # n /\ script[m] # "none" /\ task'[m] = task[m]
    BY <1>3 DEF Ends, IInv
  <2>2. Joined(m)' = Joined(m)
    BY <2>1 DEF Joined, MayHave
  <2>. QED  BY <1>1, <2>1, <2>2 DEF IInv, Guarded
<1>4. ASSUME NEW m \in Node, task'[m] # "none"
      PROVE  pc' = "step" /\ Step' \in Parts
  <2>1. task[m] # "none"
    BY <1>4 DEF Ends, IInv
  <2>. QED  BY <1>1, <2>1 DEF IInv, Guarded
<1>. QED  BY <1>2, <1>3, <1>4 DEF IInv, Guarded

(* Every step keeps the invariant.                                         *)
LEMMA NextInv == IInv /\ [Next]_vars => IInv'
<1> SUFFICES ASSUME IInv, [Next]_vars PROVE IInv'
  OBVIOUS
<1>0. CASE UNCHANGED vars
  BY <1>0 DEF vars, engine, ghost, IInv, Guarded, Step, Joined, MayHave
<1>1. ASSUME NEW m, NEW c, NEW numbers, NEW w, NEW s, Begin(m, c, numbers, w, s) PROVE IInv'
  BY <1>1 DEF Begin, NoTasks, IInv, Guarded
<1>2. CASE Stop
  BY <1>2 DEF Stop, NoTasks, IInv, Guarded, Step, Joined, MayHave
<1>3. CASE Finish
  BY <1>3 DEF Finish, IInv, Guarded, Step, Joined, MayHave
<1>4. CASE EnterStep
  BY <1>4 DEF EnterStep, IInv, Guarded, Step, Joined, MayHave
<1>5. CASE CheckNew
  BY <1>5 DEF CheckNew, StepDone, NoTasks, IInv, Guarded, Parts
<1>6. CASE PlainStep
  BY <1>6 DEF PlainStep, StepDone, NoTasks, IInv, Guarded, Parts
<1>7. CASE StepReturns
  <2>1. CASE \E n \in Node : task[n] = "failed"
    BY <1>2, <1>7, <2>1 DEF StepReturns
  <2>2. CASE ~ \E n \in Node : task[n] = "failed"
    <3>1. \A n \in Node : script[n] = "none"
      BY <1>7, <2>2 DEF StepReturns, Returned, IInv, Guarded
    <3>. QED  BY <1>7, <2>2, <3>1 DEF StepReturns, StepDone, NoTasks, IInv, Guarded
  <2>. QED  BY <2>1, <2>2
<1>8. ASSUME NEW n \in Node, Change(n) PROVE IInv'
  <2>1. Step \in Parts /\ Step' = Step /\ (Step \in {"init", "containerd", "kubeadm"} => ~Joined(n))
    BY <1>8 DEF Change, engine, Step, IInv, Guarded
  <2>2. host' \in [Node -> Host] /\ \A m \in Node : m # n => host'[m] = host[m]
    BY <1>8, <2>1, PartType DEF Change, IInv
  <2>3. Step # "join" => \A m \in Node : Joined(m)' = Joined(m)
    BY <1>8, <2>1, <2>2 DEF Change, Joined, MayHave, IInv, Host, Parts
  <2>4. \A m \in Node : script'[m] # "none" => script[m] # "none"
    BY <1>8 DEF Change, IInv
  <2>. QED  BY <1>8, <2>1, <2>2, <2>3, <2>4 DEF Change, engine, IInv, Guarded
<1>9. ASSUME NEW n \in Node, ScriptEnds(n) PROVE IInv'
  <2>1. Step \in Parts
    BY <1>9 DEF ScriptEnds, IInv, Guarded
  <2>2. host' \in [Node -> Host] /\ \A m \in Node : m # n => host'[m] = host[m]
    BY <1>9, <2>1, PartType DEF ScriptEnds, IInv
  <2>. QED  BY <1>9, <2>2, EndsInv DEF ScriptEnds
<1>10. ASSUME NEW n \in Node, ScriptFails(n) PROVE IInv'
  <2>1. host' \in [Node -> Host] /\ \A m \in Node : m # n => host'[m] = host[m]
    <3>1. CASE UNCHANGED host
      BY <3>1 DEF IInv
    <3>2. CASE Step = "join" /\ host' = [host EXCEPT ![n].part[Step] = "ready"]
      <4>1. Step \in Parts
        BY <3>2 DEF Parts
      <4>. QED  BY <3>2, <4>1, PartType DEF IInv
    <3>. QED  BY <1>10, <3>1, <3>2 DEF ScriptFails
  <2>2. Ends(n, "failed") /\ script[n] # "none"
    BY <1>10 DEF ScriptFails
  <2>. QED  BY <2>1, <2>2, EndsInv
<1>11. ASSUME NEW n \in Node, Reset(n) PROVE IInv'
  <2>1. host' \in [Node -> Host] /\ Step' = Step
    BY <1>11, PartType DEF Reset, IInv, Parts, engine, Step
  <2>2. \A m \in Node : Joined(m)' => Joined(m)
    BY <1>11 DEF Reset, Joined, MayHave, IInv, Host, Parts
  <2>. QED  BY <1>11, <2>1, <2>2 DEF Reset, engine, IInv, Guarded
<1>12. ASSUME NEW n \in Node, RunScript(n) PROVE IInv'
  <2>1. Step' = Step /\ pc' = pc /\ pc = "step" /\ Step \in Parts /\ host' = host
    BY <1>12 DEF RunScript, Step, IInv, Guarded
  <2>2. \A m \in Node : Joined(m)' = Joined(m)
    BY <2>1 DEF Joined, MayHave
  <2>3. script[n] = "none"
    BY <1>12 DEF RunScript, IInv, Guarded
  <2>4. CASE Accepts(Step, n) /\ script' = [script EXCEPT ![n] = "running"]
             /\ task' = [task EXCEPT ![n] = "wait"]
    <3>1. Step \in {"init", "containerd", "kubeadm"} => ~Joined(n)
      BY <2>4 DEF Accepts
    <3>. QED  BY <2>1, <2>2, <2>4, <3>1 DEF IInv, Guarded
  <2>5. CASE task' = [task EXCEPT ![n] = "failed"] /\ UNCHANGED script
    BY <2>1, <2>2, <2>5 DEF IInv, Guarded
  <2>. QED  BY <1>12, <2>4, <2>5 DEF RunScript
<1>13. ASSUME NEW n \in Node, NEW m \in Node, AddHost(n, m) PROVE IInv'
  <2>1. host' \in [Node -> Host] /\ Step' = Step /\ UNCHANGED <<script, task, pc>>
    BY <1>13 DEF AddHost, IInv, Host, engine, Step
  <2>2. \A x \in Node : Joined(x)' = Joined(x)
    BY <1>13 DEF AddHost, Joined, MayHave, IInv, Host
  <2>. QED  BY <2>1, <2>2 DEF IInv, Guarded
<1>14. ASSUME NEW n \in Node, HostsDone(n) PROVE IInv'
  <2>1. script[n] = "none"
    BY <1>14 DEF HostsDone, IInv, Guarded
  <2>. QED  BY <1>14, <2>1 DEF HostsDone, IInv, Guarded, Step, Joined, MayHave
<1>15. ASSUME NEW n \in Node, TimesOut(n) PROVE IInv'
  BY <1>15 DEF TimesOut, IInv, Guarded, Step, Joined, MayHave
<1>. QED
  BY <1>0, <1>1, <1>2, <1>3, <1>4, <1>5, <1>6, <1>7, <1>8, <1>9, <1>10, <1>11, <1>12, <1>13,
     <1>14, <1>15 DEF Next, StartAll, StartSome, Resume, Cancel, StepFails

(* A running script belongs to the step of the run and was accepted by its *)
(* host.                                                                   *)
THEOREM Inv == Spec => []IInv
BY InitInv, NextInv, PTL DEF Spec

(* What a step changes on a host that has joined is no part of its         *)
(* runtime, tools or settings.                                             *)
LEMMA NextUntouched ==
  ASSUME IInv, [Next]_vars, NEW n \in Node, Has(n, "join"),
         NEW p \in {"init", "containerd", "kubeadm"}
  PROVE  host'[n].part[p] = host[n].part[p]
<1>1. Joined(n)
  BY DEF Has, Joined, MayHave
<1>2. CASE host' = host
  BY <1>2
<1>3. ASSUME NEW m \in Node, NEW level,
             host' = [host EXCEPT ![m].part[Step] = level], script[m] # "none"
      PROVE  host'[n].part[p] = host[n].part[p]
  <2>1. CASE m = n
    <3>1. Step # p
      BY <1>1, <1>3, <2>1 DEF IInv, Guarded
    <3>. QED  BY <1>3, <2>1, <3>1 DEF IInv, Host
  <2>2. CASE m # n
    BY <1>3, <2>2 DEF IInv
  <2>. QED  BY <2>1, <2>2
<1>4. ASSUME NEW m \in Node, Change(m) PROVE host'[n].part[p] = host[n].part[p]
  BY <1>2, <1>3, <1>4 DEF Change
<1>5. ASSUME NEW m \in Node, ScriptEnds(m) PROVE host'[n].part[p] = host[n].part[p]
  BY <1>3, <1>5 DEF ScriptEnds
<1>6. ASSUME NEW m \in Node, Reset(m) PROVE host'[n].part[p] = host[n].part[p]
  BY <1>6 DEF Reset, IInv, Host, Parts
<1>8. ASSUME NEW m \in Node, ScriptFails(m) PROVE host'[n].part[p] = host[n].part[p]
  BY <1>2, <1>3, <1>8 DEF ScriptFails
<1>7. ASSUME NEW m \in Node, NEW x \in Node, AddHost(m, x) PROVE host'[n].part[p] = host[n].part[p]
  BY <1>7 DEF AddHost, IInv, Host
<1>. QED
  BY <1>2, <1>4, <1>5, <1>6, <1>7, <1>8
  DEF Next, StartAll, StartSome, Resume, Begin, Cancel, Stop, Finish, EnterStep, CheckNew,
      PlainStep, StepFails, StepReturns, StepDone, RunScript, HostsDone, TimesOut,
      vars

(* Scripts never overwrite a node that has joined a cluster, whatever is   *)
(* selected, retried, cancelled or left running.                           *)
THEOREM NeverOverwritten == Spec => JoinedUntouched
<1>1. IInv /\ [Next]_vars =>
        [ \A n \in Node : Has(n, "join") =>
            \A p \in {"init", "containerd", "kubeadm"} : host'[n].part[p] = host[n].part[p] ]_vars
  BY NextUntouched
<1>. QED  BY <1>1, Inv, PTL DEF Spec, JoinedUntouched
-----------------------------------------------------------------------------
(* Every plan a run may begin with is of its table, and one of an          *)
(* expansion has the check before any later step.                          *)
Fits(m, numbers) ==
  /\ numbers \in Seq(Int) /\ Elems(numbers) \subseteq DOMAIN Table(m)
  /\ m = "update" => Checking(numbers)

LEMMA AllFits ==
  ASSUME NEW m
  PROVE  Fits(m, All(m)) /\ Rising(All(m))
<1>1. PICK n \in {10, 14} : DOMAIN Table(m) = 1..n
  BY Tables
<1>2. All(m) = [k \in 1..n |-> k]
  BY <1>1 DEF All
<1>3. All(m) \in Seq(Int) /\ DOMAIN All(m) = 1..n /\ \A k \in 1..n : All(m)[k] = k
  BY <1>2
<1>4. \A i \in DOMAIN All(m) : All(m)[i] > 2 => \E j \in 1..(i - 1) : All(m)[j] = 2
  <2> SUFFICES ASSUME NEW i \in 1..n, i > 2 PROVE 2 \in 1..(i - 1) /\ All(m)[2] = 2
    BY <1>3
  <2> QED
    BY <1>3
<1> QED
  BY <1>1, <1>3, <1>4 DEF Fits, Checking, Rising, Elems

LEMMA PlanFits ==
  ASSUME NEW m, NEW s \in Seq(Int), Plan(m, s) # <<>>
  PROVE  Fits(m, Plan(m, s)) /\ (Rising(s) => Rising(Plan(m, s)))
<1> DEFINE out == Plan(m, s)
<1>1. Accepted(m, s)
  BY DEF Plan
<1>2. /\ out \in Seq(Int) /\ Elems(out) = Elems(s) \cup Elems(Required(m, s))
      /\ 1 \in DOMAIN out /\ out[1] = 1
      /\ m = "update" /\ (\E k \in Elems(s) : k > 2) => 2 \in DOMAIN out /\ out[2] = 2
  BY <1>1, PlanFacts
<1>3. Elems(Required(m, s)) \subseteq {1, 2}
  BY DEF Required, Elems
<1>4. {1, 2} \subseteq DOMAIN Table(m) /\ Elems(s) \subseteq DOMAIN Table(m)
  BY <1>1, Tables DEF Accepted
<1> HIDE DEF out
<1>5. ASSUME m = "update", NEW i \in DOMAIN out, out[i] > 2
      PROVE  \E j \in 1..(i - 1) : out[j] = 2
  <2>1. out[i] \in Elems(s)
    <3>1. out[i] \in Elems(out)
      BY DEF Elems
    <3>2. out[i] \notin {1, 2}
      BY <1>2, <1>5
    <3> QED
      BY <1>2, <1>3, <3>1, <3>2
  <2>2. 2 \in DOMAIN out /\ out[2] = 2
    BY <1>2, <1>5, <2>1
  <2>3. i \in Nat /\ i # 1 /\ i # 2 /\ i # 0
    BY <1>2, <1>5, <2>2
  <2>4. 2 \in 1..(i - 1)
    BY <2>3
  <2> QED
    BY <2>2, <2>4
<1>6. Rising(s) => Rising(out)
  BY <1>1, PlanRises DEF Rising, out
<1> QED
  BY <1>2, <1>3, <1>4, <1>5, <1>6 DEF Fits, Checking, out

-----------------------------------------------------------------------------
(* The plan of a run.                                                      *)
LEMMA InitPlanned == Init => PInv
<1> SUFFICES ASSUME Init PROVE PInv
  OBVIOUS
<1>1. plan = <<>> /\ plan \in Seq(Int) /\ Elems(plan) = {}
  BY DEF Init, Elems
<1>2. /\ host \in [Node -> Host] /\ script \in [Node -> {"none", "running", "half"}]
      /\ task \in [Node -> {"none", "queued", "wait", "hosts", "ok", "failed"}]
  BY InitInv DEF IInv
<1>3. /\ mode = "install" /\ cfg \in Clusters /\ pc = "idle" /\ new = {}
      /\ discovered = FALSE /\ whole = FALSE /\ subject = {} /\ runs = 0
  BY DEF Init
<1>4. runs \in 0..MaxRuns
  BY <1>3, ProvisionAssumption
<1>5. TypeOK
  BY <1>1, <1>2, <1>3, <1>4 DEF TypeOK
<1>6. Planned
  BY <1>1 DEF Init, Planned, NoTasks
<1> QED
  BY <1>5, <1>6 DEF PInv

(* A run begins with a plan that fits.                                     *)
LEMMA BeginPlanned ==
  ASSUME PInv, NEW m \in {"install", "update"}, NEW c \in Clusters, NEW numbers, Fits(m, numbers),
         NEW w \in BOOLEAN, w => Rising(numbers), NEW s \in SUBSET Node, Begin(m, c, numbers, w, s)
  PROVE  PInv'
<1>1. /\ mode' = m /\ cfg' = c /\ new' = c /\ plan' = numbers /\ pc' = "next"
      /\ task' = NoTasks /\ discovered' = FALSE /\ whole' = w /\ subject' = s
      /\ runs' = runs + 1 /\ runs < MaxRuns /\ host' = host /\ script' = script
      /\ \A n \in Node : script[n] = "none"
  BY DEF Begin
<1>2. runs' \in 0..MaxRuns
  BY <1>1, ProvisionAssumption DEF PInv, TypeOK
<1>3. TypeOK'
  BY <1>1, <1>2 DEF PInv, TypeOK, Fits, NoTasks
<1>4. Planned'
  BY <1>1 DEF Fits, Planned
<1> QED
  BY <1>3, <1>4 DEF PInv

(* A step that is done leaves the rest of the plan; an expansion has done  *)
(* the check then, unless it is still to come.                             *)
LEMMA StepDonePlanned ==
  ASSUME PInv, IInv, pc = "step", StepDone, \A n \in Node : script[n] = "none",
         mode' = mode, cfg' = cfg, whole' = whole, runs' = runs, host' = host, script' = script,
         new' \subseteq cfg, subject' \subseteq Node, discovered' \in BOOLEAN,
         discovered => discovered',
         Step = "check" => discovered'
  PROVE  PInv'
<1>1. plan \in Seq(Int) /\ plan # <<>> /\ plan' = Tail(plan) /\ pc' = "next" /\ task' = NoTasks
  BY DEF PInv, TypeOK, Planned, StepDone
<1>2. TypeOK'
  BY <1>1, TailFacts DEF PInv, TypeOK, NoTasks
<1>3. mode' = "update" /\ ~discovered' => Checking(plan')
  <2> SUFFICES ASSUME mode = "update", ~discovered', NEW i \in DOMAIN Tail(plan), Tail(plan)[i] > 2
               PROVE  \E j \in 1..(i - 1) : Tail(plan)[j] = 2
    BY <1>1 DEF Checking
  <2>1. i + 1 \in DOMAIN plan /\ Tail(plan)[i] = plan[i + 1] /\ i \in Nat
    BY <1>1, TailFacts
  <2>2. PICK j \in 1..i : plan[j] = 2
    <3>1. plan[i + 1] > 2 /\ Checking(plan)
      BY <2>1 DEF PInv, Planned
    <3>2. \E j \in 1..((i + 1) - 1) : plan[j] = 2
      BY <2>1, <3>1 DEF Checking
    <3> QED
      BY <2>1, <3>2
  <2>3. j # 1
    <3>1. Head(plan) # 2
      BY DEF Step, Table, UpdateSteps
    <3> QED
      BY <1>1, <2>2, <3>1, TailFacts
  <2>4. j \in DOMAIN plan
    BY <1>1, <2>1, <2>2
  <2>5. \A k \in DOMAIN plan : k # 1 => k - 1 \in DOMAIN Tail(plan) /\ Tail(plan)[k - 1] = plan[k]
    BY <1>1, TailFacts
  <2>6. Tail(plan)[j - 1] = 2
    BY <2>2, <2>3, <2>4, <2>5
  <2>7. j - 1 \in 1..(i - 1)
    BY <2>1, <2>2, <2>3
  <2> QED
    BY <2>6, <2>7
<1>4. whole' => Rising(plan')
  <2>1. ASSUME Rising(plan) PROVE Rising(Tail(plan))
    BY <1>1, <2>1, TailFacts DEF Rising
  <2> QED
    BY <1>1, <2>1 DEF PInv, Planned
<1> QED
  BY <1>1, <1>2, <1>3, <1>4 DEF PInv, Planned

(* Everything else leaves the plan and what was found alone.               *)
LEMMA FramePlanned ==
  ASSUME PInv, IInv', plan' = plan, mode' = mode, cfg' = cfg, new' = new, whole' = whole,
         discovered' = discovered, subject' = subject, runs' = runs,
         pc' \in {"idle", "next", "step", "done"},
         pc' = "step" => plan # <<>>, pc' = "done" => plan = <<>>,
         \A n \in Node : script'[n] # "none" => plan # <<>>
  PROVE  PInv'
<1>1. TypeOK'
  BY DEF PInv, TypeOK, IInv
<1>2. Planned'
  BY DEF PInv, Planned
<1> QED
  BY <1>1, <1>2 DEF PInv

LEMMA NextPlanned == PInv /\ IInv /\ [Next]_vars => PInv'
<1> SUFFICES ASSUME PInv, IInv, [Next]_vars PROVE PInv'
  OBVIOUS
<1>0. IInv'
  BY NextInv
<1>a. /\ pc \in {"idle", "next", "step", "done"} /\ (pc = "step" => plan # <<>>)
      /\ (pc = "done" => plan = <<>>) /\ \A n \in Node : script[n] # "none" => plan # <<>>
  BY DEF PInv, TypeOK, Planned
<1>1. CASE UNCHANGED vars
  BY <1>0, <1>a, <1>1, FramePlanned DEF vars, engine, ghost
<1>2. ASSUME NEW m \in {"install", "update"}, NEW c \in Clusters, StartAll(m, c) PROVE PInv'
  <2>1. Fits(m, All(m)) /\ Rising(All(m))
    BY AllFits
  <2>2. c \in SUBSET Node
    BY ProvisionAssumption
  <2>3. CASE m = "install"
    BY <1>2, <2>1, <2>2, <2>3, BeginPlanned DEF StartAll
  <2>4. CASE m # "install"
    <3>1. Begin(m, c, All(m), TRUE, {}) /\ {} \in SUBSET Node
      BY <1>2, <2>4 DEF StartAll
    <3> QED
      BY <2>1, <3>1, BeginPlanned
  <2> QED
    BY <2>3, <2>4
<1>3. ASSUME NEW m \in {"install", "update"}, NEW c \in Clusters, NEW sel \in Selections,
             StartSome(m, c, sel)
      PROVE  PInv'
  <2>1. sel \in Seq(Int)
    BY ProvisionAssumption
  <2>2. Begin(m, c, Plan(m, sel), FALSE, {})
    BY <1>3 DEF StartSome
  <2>3. Fits(m, Plan(m, sel))
    BY <2>1, <2>2, PlanFits DEF Begin
  <2>4. {} \in SUBSET Node
    OBVIOUS
  <2> QED
    BY <2>2, <2>3, <2>4, BeginPlanned
<1>4. CASE Resume
  <2>1. /\ mode \in {"install", "update"} /\ cfg \in Clusters /\ subject \in SUBSET Node
        /\ plan \in Seq(Int) /\ whole /\ Rising(plan)
    BY <1>4 DEF Resume, PInv, TypeOK, Planned
  <2>2. Begin(mode, cfg, Plan(mode, plan), TRUE, subject)
    BY <1>4 DEF Resume
  <2>3. Fits(mode, Plan(mode, plan)) /\ Rising(Plan(mode, plan))
    BY <2>1, <2>2, PlanFits DEF Begin
  <2> QED
    BY <2>1, <2>2, <2>3, BeginPlanned
<1>5. CASE Stop
  BY <1>0, <1>a, <1>5, FramePlanned DEF Stop, ghost
<1>6. CASE Finish
  BY <1>0, <1>a, <1>6, FramePlanned DEF Finish, ghost
<1>7. CASE EnterStep
  BY <1>0, <1>a, <1>7, FramePlanned DEF EnterStep, ghost
<1>8. CASE CheckNew
  <2>1. \A n \in Node : script[n] = "none"
    BY <1>8 DEF CheckNew, IInv, Guarded, Parts
  <2>2. subject \subseteq Node /\ cfg \subseteq Node
    BY ProvisionAssumption DEF PInv, TypeOK
  <2>3. new' \subseteq cfg /\ subject' \subseteq Node
    BY <1>8, <2>2 DEF CheckNew
  <2> QED
    BY <1>8, <2>1, <2>3, StepDonePlanned DEF CheckNew
<1>9. CASE PlainStep
  <2>1. \A n \in Node : script[n] = "none"
    BY <1>9 DEF PlainStep, IInv, Guarded, Parts
  <2>2. new \subseteq cfg /\ subject \subseteq Node /\ discovered \in BOOLEAN
    BY DEF PInv, TypeOK
  <2> QED
    BY <1>9, <2>1, <2>2, StepDonePlanned DEF PlainStep, ghost
<1>10. CASE StepReturns
  <2>1. CASE \E n \in Node : task[n] = "failed"
    BY <1>5, <1>10, <2>1 DEF StepReturns
  <2>2. CASE ~ \E n \in Node : task[n] = "failed"
    <3>1. \A n \in Node : script[n] = "none"
      BY <1>10, <2>2 DEF StepReturns, Returned, IInv, Guarded
    <3>2. new \subseteq cfg /\ subject \subseteq Node /\ discovered \in BOOLEAN
      BY DEF PInv, TypeOK
    <3>3. Step # "check"
      BY <1>10 DEF StepReturns, Parts
    <3> QED
      BY <1>10, <2>2, <3>1, <3>2, <3>3, StepDonePlanned DEF StepReturns, ghost
  <2> QED
    BY <2>1, <2>2
<1>11. ASSUME NEW n \in Node, Change(n) PROVE PInv'
  <2>1. \A x \in Node : script'[x] # "none" => script[x] # "none"
    BY <1>11 DEF Change, IInv
  <2> QED
    BY <1>0, <1>a, <1>11, <2>1, FramePlanned DEF Change, engine, ghost
<1>12. ASSUME NEW n \in Node, ScriptEnds(n) \/ ScriptFails(n) PROVE PInv'
  <2>1. \A x \in Node : script'[x] # "none" => script[x] # "none"
    BY <1>12 DEF ScriptEnds, ScriptFails, Ends, IInv
  <2> QED
    BY <1>0, <1>a, <1>12, <2>1, FramePlanned DEF ScriptEnds, ScriptFails, Ends, ghost
<1>13. ASSUME NEW n \in Node, Reset(n) PROVE PInv'
  BY <1>0, <1>a, <1>13, FramePlanned DEF Reset, engine, ghost
<1>14. ASSUME NEW n \in Node, RunScript(n) PROVE PInv'
  <2>1. plan # <<>>
    BY <1>a, <1>14 DEF RunScript
  <2> QED
    BY <1>0, <1>a, <1>14, <2>1, FramePlanned DEF RunScript, ghost
<1>15. ASSUME NEW n \in Node, HostsDone(n) \/ TimesOut(n) PROVE PInv'
  BY <1>0, <1>a, <1>15, FramePlanned DEF HostsDone, TimesOut, ghost
<1>16. ASSUME NEW n \in Node, NEW m \in Node, AddHost(n, m) PROVE PInv'
  BY <1>0, <1>a, <1>16, FramePlanned DEF AddHost, engine, ghost
<1> QED
  BY <1>1, <1>2, <1>3, <1>4, <1>5, <1>6, <1>7, <1>8, <1>9, <1>10, <1>11, <1>12, <1>13, <1>14,
     <1>15, <1>16 DEF Next, Cancel, StepFails

(* Plans are of the table of their mode, with discovery where it belongs.  *)
THEOREM PlansFit == Spec => [](IInv /\ PInv)
BY InitInv, NextInv, InitPlanned, NextPlanned, PTL DEF Spec

(* Type correctness.                                                       *)
THEOREM TypeCorrect == Spec => []TypeOK
BY PlansFit, PTL DEF PInv

(* An expansion that installs a part has checked its nodes.                *)
LEMMA CheckedFirst ==
  ASSUME PInv, mode = "update", plan # <<>>, Step \in Parts
  PROVE  discovered
<1> SUFFICES ASSUME ~discovered PROVE FALSE
  OBVIOUS
<1>1. Checking(plan) /\ plan \in Seq(Int)
  BY DEF PInv, Planned
<1>2. 1 \in DOMAIN plan /\ Head(plan) = plan[1]
  BY <1>1, TailFacts
<1>3. plan[1] \in DOMAIN Table(mode)
  BY <1>2 DEF PInv, TypeOK, Elems
<1>4. plan[1] \in {1, 2}
  BY <1>1, <1>2, <1>3, Tables DEF Checking
<1> QED
  BY <1>2, <1>4 DEF Step, Table, UpdateSteps, Parts

(* What changes a host in an expansion that has not checked its nodes is   *)
(* no script or task of this run.                                          *)
LEMMA NextChecked ==
  ASSUME IInv, PInv, [Next]_vars, host' # host, mode # "install", ~discovered, NEW n \in Node
  PROVE  task[n] = "none"
<1> SUFFICES ASSUME task[n] # "none" PROVE FALSE
  OBVIOUS
<1>1. mode = "update" /\ Step \in Parts /\ plan # <<>>
  BY DEF IInv, Guarded, PInv, TypeOK
<1> QED
  BY <1>1, CheckedFirst

(* An expansion that has not found its nodes new in this run does not      *)
(* touch a host: the check is in every plan before any step that would.    *)
THEOREM ExpansionChecksFirst == Spec => DiscoveryFirst
<1>1. IInv /\ PInv /\ [Next]_vars =>
        [ host' # host => mode = "install" \/ discovered \/ \A n \in Node : task[n] = "none" ]_vars
  BY NextChecked
<1> QED
  BY <1>1, PlansFit, PTL DEF Spec, DiscoveryFirst
-----------------------------------------------------------------------------
(* The plan in terms of what is left to do.                                *)
LEMMA InPlanFacts ==
  ASSUME PInv
  PROVE  /\ \A p \in Parts : InPlan(p) <=> \E k \in Elems(plan) : Table(mode)[k] = p
         /\ plan # <<>> => \A p \in Parts : p = Step => InPlan(p)
         /\ whole /\ mode = "update" /\ plan # <<>> /\ Step = "join" =>
              \A p \in Parts \ {"join"} : ~InPlan(p)
<1>1. plan \in Seq(Int)
  BY DEF PInv, Planned
<1>2. ASSUME plan # <<>> PROVE 1 \in DOMAIN plan /\ Head(plan) = plan[1]
  BY <1>1, <1>2, TailFacts
<1>3. ASSUME whole, mode = "update", plan # <<>>, Step = "join", NEW p \in Parts \ {"join"}, InPlan(p)
      PROVE  FALSE
  <2>1. PICK i \in DOMAIN plan : Table(mode)[plan[i]] = p
    BY <1>3 DEF InPlan
  <2>2. i \in Nat /\ i # 0 /\ 1 \in DOMAIN plan /\ plan[1] \in Int /\ plan[i] \in Int
    BY <1>1, <1>2, <1>3
  <2>3. plan[i] \in 1..10 /\ plan[1] \in 1..10
    BY <1>3, <2>2, Tables DEF PInv, TypeOK, Elems
  <2>4. plan[1] <= plan[i]
    <3>1. Rising(plan)
      BY <1>3 DEF PInv, Planned
    <3>2. i = 1 \/ 1 < i
      BY <2>2
    <3> QED
      BY <2>2, <3>1, <3>2 DEF Rising
  <2>5. UpdateSteps[plan[1]] = "join" /\ UpdateSteps[plan[i]] = p
    BY <1>2, <1>3, <2>1 DEF Step, Table
  <2> QED
    BY <2>3, <2>4, <2>5 DEF UpdateSteps, Parts
<1> QED
  BY <1>2, <1>3 DEF InPlan, Elems, Step

LEMMA InitWhole == Init => WInv
<1> SUFFICES ASSUME Init PROVE WInv
  OBVIOUS
<1>1. \A n \in Node : script[n] = "none" /\ task[n] = "none"
  BY DEF Init, NoTasks
<1>2. pc = "idle" /\ whole = FALSE
  BY DEF Init
<1> QED
  BY <1>1, <1>2 DEF WInv, Reported, Provisioned

(* While the run stays in its step, what was provisioned stays so if no    *)
(* host loses what the plan has not left to do, and none joins while more  *)
(* than the join is left.                                                  *)
LEMMA KeepsProvisioned ==
  ASSUME PInv, Provisioned,
         plan' = plan, mode' = mode, cfg' = cfg, new' = new, discovered' = discovered,
         whole' = whole, subject' = subject,
         \A n \in Node : \A p \in Parts :
           Finished(n, p) => Finished(n, p)' \/ (InPlan(p) /\ p # "join"),
         \A n \in Node : Has(n, "join")' =>
           Has(n, "join") \/ ~whole \/ mode # "update" \/ \A p \in Parts \ {"join"} : ~InPlan(p)
  PROVE  Provisioned'
<1> SUFFICES ASSUME whole PROVE Provisioned'
  BY DEF Provisioned
<1>1. \A p : InPlan(p)' <=> InPlan(p)
  BY DEF InPlan
<1>2. subject \subseteq Node /\ cfg \subseteq Node /\ "join" \in Parts
  BY ProvisionAssumption DEF PInv, TypeOK, Parts
<1>3. \A n \in Node : Has(n, "join") => Has(n, "join")'
  BY <1>2 DEF Finished
<1>4. \A p \in Parts : InPlan(p)' \/ \A n \in subject : Finished(n, p)'
  BY <1>1, <1>2 DEF Provisioned
<1>5. ASSUME mode = "update"
      PROVE /\ discovered => new \subseteq subject /\ \A n \in cfg \ new : Has(n, "join")'
            /\ \A p \in Parts : InPlan(p)' \/ \A n \in cfg \ subject : Has(n, "join")'
            /\ \A n \in subject : Has(n, "join")' => \A p \in Parts \ {"join"} : ~InPlan(p)'
  <2>1. discovered => new \subseteq subject /\ \A n \in cfg \ new : Has(n, "join")'
    BY <1>2, <1>3, <1>5 DEF Provisioned
  <2>2. \A p \in Parts : InPlan(p)' \/ \A n \in cfg \ subject : Has(n, "join")'
    BY <1>1, <1>2, <1>3, <1>5 DEF Provisioned
  <2>3. \A n \in subject : Has(n, "join")' => \A p \in Parts \ {"join"} : ~InPlan(p)'
    BY <1>1, <1>2, <1>5 DEF Provisioned
  <2> QED
    BY <2>1, <2>2, <2>3
<1>6. subject \subseteq cfg /\ (mode = "install" => subject \subseteq new)
  BY DEF Provisioned
<1> QED
  BY <1>4, <1>5, <1>6 DEF Provisioned

(* Nothing changes on the hosts and in the plan.                           *)
LEMMA FrameProvisioned ==
  ASSUME PInv, Provisioned, host' = host,
         plan' = plan, mode' = mode, cfg' = cfg, new' = new, discovered' = discovered,
         whole' = whole, subject' = subject
  PROVE  Provisioned'
<1>1. \A n \in Node : \A p \in Parts : Finished(n, p) => Finished(n, p)'
  BY DEF Finished, Has
<1>2. \A n \in Node : Has(n, "join")' => Has(n, "join")
  BY DEF Has
<1>3. \A n \in Node : \A p \in Parts : Finished(n, p) => Finished(n, p)' \/ (InPlan(p) /\ p # "join")
  BY <1>1
<1>4. \A n \in Node : Has(n, "join")' =>
        Has(n, "join") \/ ~whole \/ mode # "update" \/ \A p \in Parts \ {"join"} : ~InPlan(p)
  BY <1>2
<1> QED
  BY <1>3, <1>4, KeepsProvisioned

(* A script works on the step of the run, and no join takes down a node    *)
(* that has joined.                                                        *)
LEMMA ScriptProvisioned ==
  ASSUME PInv, IInv, Provisioned, NEW n \in Node, script[n] # "none",
         NEW level \in {"none", "half", "ready"},
         host' = [host EXCEPT ![n].part[Step] = level],
         Step = "join" /\ Has(n, "join") => level = "ready",
         plan' = plan, mode' = mode, cfg' = cfg, new' = new, discovered' = discovered,
         whole' = whole, subject' = subject
  PROVE  Provisioned'
<1>1. Step \in Parts /\ plan # <<>>
  BY DEF IInv, Guarded, PInv, Planned
<1>2. InPlan(Step)
  BY <1>1, InPlanFacts
<1>3. \A x \in Node, p \in Parts : (x # n \/ p # Step) => host'[x].part[p] = host[x].part[p]
  BY DEF IInv, Host
<1>4. \A x \in Node : host'[x].names = host[x].names
  BY DEF IInv, Host
<1>5. host'[n].part[Step] = level
  BY <1>1 DEF IInv, Host
<1>6. ASSUME NEW x \in Node, NEW p \in Parts, Finished(x, p)
      PROVE  Finished(x, p)' \/ (InPlan(p) /\ p # "join")
  <2>1. CASE x # n \/ p # Step
    BY <1>3, <1>4, <1>6, <2>1 DEF Finished, Has
  <2>2. CASE x = n /\ p = Step
    <3>1. CASE level = "ready"
      BY <1>4, <1>5, <1>6, <2>2, <3>1 DEF Finished, Has
    <3>2. CASE level # "ready"
      BY <1>2, <1>6, <2>2, <3>2 DEF Finished
    <3> QED
      BY <3>1, <3>2
  <2> QED
    BY <2>1, <2>2
<1>7. ASSUME NEW x \in Node, Has(x, "join")', whole, mode = "update", ~Has(x, "join")
      PROVE  \A p \in Parts \ {"join"} : ~InPlan(p)
  <2>1. Step = "join"
    BY <1>3, <1>7 DEF Has, Parts
  <2> QED
    BY <1>1, <1>7, <2>1, InPlanFacts
<1> QED
  BY <1>6, <1>7, KeepsProvisioned

(* A run of all steps has them all left to do; one that resumes it has the *)
(* same parts left.                                                        *)
LEMMA StartProvisioned ==
  ASSUME NEW m \in {"install", "update"}, NEW c \in Clusters, StartAll(m, c)
  PROVE  Provisioned'
<1>1. /\ mode' = m /\ cfg' = c /\ new' = c /\ plan' = All(m) /\ discovered' = FALSE
      /\ subject' = IF m = "install" THEN c ELSE {}
  BY DEF StartAll, Begin
<1>2. \A p \in Parts : InPlan(p)'
  <2> DEFINE n == IF m = "install" THEN 14 ELSE 10
  <2>1. DOMAIN Table(m) = 1..n
    BY Tables
  <2>2. All(m) = [k \in 1..n |-> k]
    BY <2>1 DEF All
  <2>3. DOMAIN All(m) = 1..n /\ \A k \in 1..n : All(m)[k] = k
    BY <2>2
  <2>4. ASSUME NEW p \in Parts PROVE \E k \in 1..n : Table(m)[k] = p
    <3>1. CASE m = "install"
      <4>1. n = 14 /\ {2, 4, 5, 6, 10} \subseteq 1..14
        BY <3>1
      <4>2. /\ Table(m)[2] = "init" /\ Table(m)[4] = "containerd" /\ Table(m)[5] = "kubeadm"
            /\ Table(m)[6] = "images" /\ Table(m)[10] = "join"
        BY <3>1 DEF Table, DeploySteps
      <4> QED
        BY <4>1, <4>2 DEF Parts
    <3>2. CASE m # "install"
      <4>1. n = 10 /\ {3, 5, 6, 7, 9} \subseteq 1..10
        BY <3>2
      <4>2. /\ Table(m)[3] = "init" /\ Table(m)[5] = "containerd" /\ Table(m)[6] = "kubeadm"
            /\ Table(m)[7] = "images" /\ Table(m)[9] = "join"
        BY <3>2 DEF Table, UpdateSteps
      <4> QED
        BY <4>1, <4>2 DEF Parts
    <3> QED
      BY <3>1, <3>2
  <2>5. ASSUME NEW p \in Parts PROVE \E i \in DOMAIN All(m) : Table(m)[All(m)[i]] = p
    <3>1. PICK k \in 1..n : Table(m)[k] = p
      BY <2>4
    <3> QED
      BY <2>3, <3>1
  <2> QED
    BY <1>1, <2>5 DEF InPlan
<1> QED
  BY <1>1, <1>2 DEF Provisioned

LEMMA ResumeProvisioned ==
  ASSUME PInv, Provisioned, PInv', Resume
  PROVE  Provisioned'
<1>1. /\ mode' = mode /\ cfg' = cfg /\ new' = cfg /\ plan' = Plan(mode, plan) /\ discovered' = FALSE
      /\ subject' = subject /\ whole /\ Plan(mode, plan) # <<>> /\ host' = host
  BY DEF Resume, Begin
<1>2. plan \in Seq(Int) /\ mode \in {"install", "update"}
  BY DEF PInv, TypeOK, Planned
<1>3. Accepted(mode, plan)
  BY <1>1 DEF Plan
<1>4. Elems(plan') = Elems(plan) \cup Elems(Required(mode, plan))
  BY <1>1, <1>2, <1>3, PlanFacts
<1>5. \A k \in Elems(Required(mode, plan)) : Table(mode)[k] \notin Parts
  <2>1. \A k \in Elems(Required(mode, plan)) : k = 1 \/ (k = 2 /\ mode = "update")
    BY DEF Required, Elems
  <2>2. Table(mode)[1] = "connect" /\ (mode = "update" => Table(mode)[2] = "check")
    BY DEF Table, DeploySteps, UpdateSteps
  <2> QED
    BY <2>1, <2>2 DEF Parts
<1>6. \A p \in Parts : InPlan(p)' <=> InPlan(p)
  <2>1. \A p \in Parts : InPlan(p) <=> \E k \in Elems(plan) : Table(mode)[k] = p
    BY InPlanFacts
  <2>2. \A p \in Parts : InPlan(p)' <=> \E k \in Elems(plan') : Table(mode')[k] = p
    BY <1>1 DEF InPlan, Elems
  <2> QED
    BY <1>1, <1>4, <1>5, <2>1, <2>2
<1>7. \A n, p : (Has(n, p)' <=> Has(n, p)) /\ (Finished(n, p)' <=> Finished(n, p))
  BY <1>1 DEF Has, Finished
<1> QED
  BY <1>1, <1>2, <1>6, <1>7 DEF Provisioned, Parts

(* When a step is done, what it installed is all that may leave the plan.  *)
LEMMA TailInPlan ==
  ASSUME PInv, plan # <<>>, plan' = Tail(plan), mode' = mode
  PROVE  \A p \in Parts : (InPlan(p)' => InPlan(p)) /\ (InPlan(p) => InPlan(p)' \/ p = Step)
<1>1. plan \in Seq(Int)
  BY DEF PInv, Planned
<1>2. ASSUME NEW p \in Parts, InPlan(p)' PROVE InPlan(p)
  <2>1. PICK i \in DOMAIN Tail(plan) : Table(mode)[Tail(plan)[i]] = p
    BY <1>2 DEF InPlan
  <2>2. i + 1 \in DOMAIN plan /\ Tail(plan)[i] = plan[i + 1]
    BY <1>1, TailFacts
  <2> QED
    BY <2>1, <2>2 DEF InPlan
<1>3. ASSUME NEW p \in Parts, InPlan(p), p # Step PROVE InPlan(p)'
  <2>1. PICK i \in DOMAIN plan : Table(mode)[plan[i]] = p
    BY <1>3 DEF InPlan
  <2>2. i # 1
    BY <1>1, <1>3, <2>1, TailFacts DEF Step
  <2>3. i - 1 \in DOMAIN Tail(plan) /\ Tail(plan)[i - 1] = plan[i]
    BY <1>1, <2>2, TailFacts
  <2> QED
    BY <2>1, <2>3 DEF InPlan
<1> QED
  BY <1>2, <1>3

(* Discovery adds the nodes that have not joined.  None may be missing a   *)
(* part that is already done.                                              *)
LEMMA CheckProvisioned ==
  ASSUME PInv, Provisioned, CheckNew
  PROVE  Provisioned'
<1>1. /\ mode' = mode /\ cfg' = cfg /\ whole' = whole /\ host' = host /\ plan' = Tail(plan)
      /\ new' = {n \in cfg : ~Has(n, "join")} /\ Step = "check"
      /\ subject' = IF whole THEN subject \cup new' ELSE subject
  BY DEF CheckNew, StepDone
<1>2. plan # <<>>
  BY DEF CheckNew, PInv, TypeOK
<1>3. \A p \in Parts : InPlan(p)' <=> InPlan(p)
  BY <1>1, <1>2, TailInPlan DEF Parts
<1>4. \A n, p : (Has(n, p)' <=> Has(n, p)) /\ (Finished(n, p)' <=> Finished(n, p))
  BY <1>1 DEF Has, Finished
<1>5. mode = "update"
  <2>1. 1 \in DOMAIN plan /\ Head(plan) = plan[1]
    BY <1>2, TailFacts DEF PInv, Planned
  <2>2. plan[1] \in DOMAIN Table(mode)
    BY <2>1 DEF PInv, TypeOK, Elems
  <2>3. mode = "install" => plan[1] \in 1..14
    BY <2>2, Tables
  <2>4. mode = "install" => DeploySteps[plan[1]] = "check"
    BY <1>1, <2>1 DEF Step, Table
  <2>5. mode # "install"
    BY <2>3, <2>4 DEF DeploySteps
  <2> QED
    BY <2>5 DEF PInv, TypeOK
<1> SUFFICES ASSUME whole PROVE Provisioned'
  BY <1>1 DEF Provisioned
<1>6. subject' = subject \cup new'
  BY <1>1
<1>7. \A p \in Parts : InPlan(p)' \/ \A n \in subject' : Finished(n, p)'
  <2> SUFFICES ASSUME NEW p \in Parts, ~InPlan(p), NEW n \in subject' PROVE Finished(n, p)
    BY <1>3, <1>4
  <2>1. CASE n \in subject
    BY <2>1 DEF Provisioned
  <2>2. CASE n \in new' /\ n \notin subject
    <3>1. n \in cfg \ subject /\ ~Has(n, "join")
      BY <1>1, <2>2
    <3> QED
      BY <1>5, <3>1 DEF Provisioned
  <2> QED
    BY <1>6, <2>1, <2>2
<1>8. subject' \subseteq cfg'
  BY <1>1, <1>6 DEF Provisioned
<1>9. new' \subseteq subject' /\ \A n \in cfg \ new' : Has(n, "join")'
  BY <1>1, <1>4, <1>6
<1>10. \A p \in Parts : InPlan(p)' \/ \A n \in cfg \ subject' : Has(n, "join")'
  BY <1>9
<1>11. \A n \in subject' : Has(n, "join")' => \A p \in Parts \ {"join"} : ~InPlan(p)'
  BY <1>1, <1>3, <1>4, <1>5, <1>6 DEF Provisioned
<1> QED
  BY <1>1, <1>5, <1>7, <1>8, <1>9, <1>10, <1>11 DEF Provisioned

(* What leaves the plan is done on every node these runs found new: by the *)
(* goroutines of the step, or because the node had joined before.          *)
LEMMA DoneProvisioned ==
  ASSUME PInv, Provisioned, pc = "step", StepDone, mode' = mode, cfg' = cfg, new' = new,
         discovered' = discovered, whole' = whole, subject' = subject, host' = host,
         Step \in Parts => \A n \in new : Finished(n, Step)
  PROVE  Provisioned'
<1>1. plan # <<>> /\ plan \in Seq(Int) /\ plan' = Tail(plan)
  BY DEF PInv, TypeOK, Planned, StepDone
<1>2. \A p \in Parts : (InPlan(p)' => InPlan(p)) /\ (InPlan(p) => InPlan(p)' \/ p = Step)
  BY <1>1, TailInPlan
<1>3. \A n, p : (Has(n, p)' <=> Has(n, p)) /\ (Finished(n, p)' <=> Finished(n, p))
  BY DEF Has, Finished
<1> SUFFICES ASSUME whole PROVE Provisioned'
  BY DEF Provisioned
<1>4. ASSUME Step \in Parts, NEW n \in subject PROVE Finished(n, Step)
  <2>1. CASE n \in new
    BY <1>4, <2>1
  <2>2. CASE n \notin new
    <3>1. mode = "update"
      BY <2>2 DEF Provisioned, PInv, TypeOK
    <3>2. discovered
      BY <1>1, <1>4, <3>1, CheckedFirst
    <3>3. Has(n, "join")
      BY <2>2, <3>1, <3>2 DEF Provisioned
    <3>4. InPlan(Step)
      BY <1>1, <1>4, InPlanFacts
    <3>5. Step = "join"
      BY <1>4, <3>1, <3>3, <3>4 DEF Provisioned
    <3> QED
      BY <3>3, <3>5 DEF Finished
  <2> QED
    BY <2>1, <2>2
<1>5. \A p \in Parts : InPlan(p)' \/ \A n \in subject' : Finished(n, p)'
  <2> SUFFICES ASSUME NEW p \in Parts, ~InPlan(p)', NEW n \in subject PROVE Finished(n, p)
    BY <1>3
  <2>1. CASE p = Step
    BY <1>4, <2>1
  <2>2. CASE p # Step
    BY <1>2, <2>2 DEF Provisioned
  <2> QED
    BY <2>1, <2>2
<1>6. ASSUME mode = "update", NEW p \in Parts, ~InPlan(p)', NEW n \in cfg \ subject
      PROVE  Has(n, "join")
  <2>1. CASE InPlan(p)
    <3>1. p = Step
      BY <1>2, <1>6, <2>1
    <3>2. discovered
      BY <1>1, <1>6, <3>1, CheckedFirst
    <3> QED
      BY <1>6, <3>2 DEF Provisioned
  <2>2. CASE ~InPlan(p)
    BY <1>6, <2>2 DEF Provisioned
  <2> QED
    BY <2>1, <2>2
<1>7. mode = "update" =>
        /\ discovered => new \subseteq subject /\ \A n \in cfg \ new : Has(n, "join")'
        /\ \A p \in Parts : InPlan(p)' \/ \A n \in cfg \ subject : Has(n, "join")'
        /\ \A n \in subject : Has(n, "join")' => \A p \in Parts \ {"join"} : ~InPlan(p)'
  BY <1>2, <1>3, <1>6 DEF Provisioned
<1> QED
  BY <1>5, <1>7 DEF Provisioned

(* A run with no script and no task has nothing to report.                 *)
LEMMA QuietReported ==
  ASSUME \A n \in Node : script'[n] = "none" /\ task'[n] = "none", pc' # "step"
  PROVE  Reported'
BY DEF Reported

LEMMA NextReported ==
  ASSUME IInv, PInv, Reported, [Next]_vars
  PROVE  Reported'
<1> USE DEF NoTasks
<1>0. new \subseteq Node
  BY ProvisionAssumption DEF PInv, TypeOK
<1>1. CASE UNCHANGED vars
  BY <1>1 DEF vars, engine, ghost, Reported, Step, Joined, MayHave, Finished, Has
<1>2. ASSUME NEW m, NEW c, NEW numbers, NEW w, NEW s, Begin(m, c, numbers, w, s) PROVE Reported'
  BY <1>2, QuietReported DEF Begin
<1>3. CASE Stop
  BY <1>3 DEF Stop, Reported, Step, Joined, MayHave
<1>4. CASE Finish
  BY <1>4 DEF Finish, Reported, Step, Joined, MayHave, Finished, Has
<1>5. CASE EnterStep
  <2>1. \A n \in Node : script'[n] = "none" /\ task'[n] \in {"queued", "none"}
    BY <1>5 DEF EnterStep, IInv, Guarded
  <2>2. new \subseteq Node /\ new' = new /\ Step' = Step
    BY <1>5, ProvisionAssumption DEF EnterStep, PInv, TypeOK, Step
  <2>3. Step \in Parts => \A n \in new : task'[n] # "none"
    BY <1>5, <2>2 DEF EnterStep
  <2> QED
    BY <2>1, <2>2, <2>3 DEF Reported
<1>6. CASE CheckNew \/ PlainStep
  <2>1. \A n \in Node : script[n] = "none"
    BY <1>6 DEF CheckNew, PlainStep, IInv, Guarded, Parts
  <2> QED
    BY <1>6, <2>1, QuietReported DEF CheckNew, PlainStep, StepDone
<1>7. CASE StepReturns
  <2>1. CASE \E n \in Node : task[n] = "failed"
    BY <1>3, <1>7, <2>1 DEF StepReturns
  <2>2. CASE ~ \E n \in Node : task[n] = "failed"
    <3>1. \A n \in Node : script[n] = "none"
      BY <1>7, <2>2 DEF StepReturns, Returned, IInv, Guarded
    <3> QED
      BY <1>7, <2>2, <3>1, QuietReported DEF StepReturns, StepDone
  <2> QED
    BY <2>1, <2>2
<1>8. ASSUME NEW n \in Node, Change(n) PROVE Reported'
  <2>1. /\ Step' = Step /\ pc' = pc /\ new' = new /\ task' = task /\ cfg' = cfg /\ Step \in Parts
        /\ task[n] \notin {"hosts", "ok"} /\ script'[n] = "half"
    BY <1>8 DEF Change, engine, Step, IInv, Guarded
  <2>2. \A x \in Node : x # n => host'[x] = host[x] /\ script'[x] = script[x]
    BY <1>8 DEF Change, IInv
  <2> QED
    BY <2>1, <2>2 DEF Reported, Finished, Has, Joined, MayHave
<1>9. ASSUME NEW n \in Node, ScriptEnds(n) PROVE Reported'
  <2>1. /\ Step' = Step /\ pc' = pc /\ new' = new /\ cfg' = cfg /\ Step \in Parts
        /\ script'[n] = "none" /\ (pc = "step" => task[n] \in {"wait", "failed"})
    BY <1>9 DEF ScriptEnds, Ends, ghost, Step, IInv, Guarded
  <2>2. \A x \in Node : x # n => host'[x] = host[x] /\ script'[x] = script[x] /\ task'[x] = task[x]
    BY <1>9 DEF ScriptEnds, Ends, IInv
  <2>3. host'[n].part[Step] = "ready"
    BY <1>9, <2>1 DEF ScriptEnds, IInv, Host
  <2>4. task'[n] = IF task[n] # "wait" THEN task[n] ELSE IF Step = "init" THEN "hosts" ELSE "ok"
    BY <1>9 DEF ScriptEnds, Ends, IInv
  <2>5. task[n] \notin {"hosts", "ok"}
    BY <2>1 DEF IInv, Guarded
  <2>6. (task'[n] = "hosts" => Step = "init") /\ (task'[n] = "ok" => Step # "init")
    BY <2>4, <2>5
  <2>7. task'[n] = "none" <=> task[n] = "none"
    BY <2>4
  <2> QED
    BY <1>0, <2>1, <2>2, <2>3, <2>6, <2>7 DEF Reported, Finished, Has, Joined, MayHave
<1>10. ASSUME NEW n \in Node, ScriptFails(n) PROVE Reported'
  <2>1. /\ Step' = Step /\ pc' = pc /\ new' = new /\ cfg' = cfg
        /\ script'[n] = "none" /\ (pc = "step" => task[n] \in {"wait", "failed"})
    BY <1>10 DEF ScriptFails, Ends, ghost, Step, IInv, Guarded
  <2>2. \A x \in Node : x # n => host'[x] = host[x] /\ script'[x] = script[x] /\ task'[x] = task[x]
    BY <1>10 DEF ScriptFails, Ends, IInv
  <2>3. task'[n] = IF task[n] # "wait" THEN task[n] ELSE "failed"
    BY <1>10 DEF ScriptFails, Ends, IInv
  <2>4. task[n] \notin {"hosts", "ok"}
    BY <2>1 DEF IInv, Guarded
  <2>5. task'[n] \notin {"hosts", "ok"} /\ (task'[n] = "none" <=> task[n] = "none")
    BY <2>3, <2>4
  <2> QED
    BY <1>0, <2>1, <2>2, <2>5 DEF Reported, Finished, Has, Joined, MayHave
<1>11. ASSUME NEW n \in Node, Reset(n) PROVE Reported'
  <2>1. /\ Step' = Step /\ pc' = pc /\ \A x \in Node : task'[x] = "none"
        /\ script' = script /\ script[n] = "none" /\ pc # "step"
    BY <1>11 DEF Reset, engine, Step, IInv, Guarded, Idle
  <2>2. \A x \in Node : x # n => host'[x] = host[x]
    BY <1>11 DEF Reset, IInv
  <2> QED
    BY <1>0, <2>1, <2>2 DEF Reported, Joined, MayHave
<1>12. ASSUME NEW n \in Node, RunScript(n) PROVE Reported'
  <2>1. Step' = Step /\ pc' = pc /\ new' = new /\ cfg' = cfg /\ host' = host
    BY <1>12 DEF RunScript, ghost, Step
  <2>2. /\ task'[n] \in {"wait", "failed"}
        /\ \A x \in Node : x # n => script'[x] = script[x] /\ task'[x] = task[x]
    BY <1>12 DEF RunScript, IInv
  <2>3. script'[n] = "running" /\ Step = "join" => ~Joined(n)
    BY <1>12 DEF RunScript, Accepts, IInv, Guarded
  <2> QED
    BY <1>0, <2>1, <2>2, <2>3 DEF Reported, Finished, Has, Joined, MayHave
<1>13. ASSUME NEW n \in Node, NEW m \in Node, AddHost(n, m) PROVE Reported'
  <2>1. Step' = Step /\ pc' = pc /\ new' = new /\ cfg' = cfg /\ task' = task /\ script' = script
    BY <1>13 DEF AddHost, engine, Step
  <2>2. \A x \in Node : host'[x].part = host[x].part /\ host[x].names \subseteq host'[x].names
    BY <1>13 DEF AddHost, IInv, Host
  <2> QED
    BY <1>0, <2>1, <2>2 DEF Reported, Finished, Has, Joined, MayHave
<1>14. ASSUME NEW n \in Node, HostsDone(n) PROVE Reported'
  <2>1. /\ Step' = Step /\ pc' = pc /\ new' = new /\ cfg' = cfg /\ host' = host /\ script' = script
        /\ task[n] = "hosts"
    BY <1>14 DEF HostsDone, ghost, Step
  <2>2. /\ task'[n] \in {"ok", "failed"} /\ (task'[n] = "ok" => cfg \subseteq host[n].names)
        /\ \A x \in Node : x # n => task'[x] = task[x]
    BY <1>14 DEF HostsDone, IInv
  <2> QED
    BY <1>0, <2>1, <2>2 DEF Reported, Finished, Has, Joined, MayHave
<1>15. ASSUME NEW n \in Node, TimesOut(n) PROVE Reported'
  <2>1. Step' = Step /\ pc' = pc /\ new' = new /\ cfg' = cfg /\ host' = host /\ script' = script
    BY <1>15 DEF TimesOut, ghost, Step
  <2>2. task'[n] = "failed" /\ \A x \in Node : x # n => task'[x] = task[x]
    BY <1>15 DEF TimesOut, IInv
  <2> QED
    BY <1>0, <2>1, <2>2 DEF Reported, Finished, Has, Joined, MayHave
<1> QED
  BY <1>1, <1>2, <1>3, <1>4, <1>5, <1>6, <1>7, <1>8, <1>9, <1>10, <1>11, <1>12, <1>13, <1>14,
     <1>15 DEF Next, StartAll, StartSome, Resume, Cancel, StepFails

LEMMA NextProvisioned ==
  ASSUME IInv, PInv, PInv', WInv, [Next]_vars
  PROVE  Provisioned'
<1>0. Reported /\ Provisioned
  BY DEF WInv
<1>1. CASE UNCHANGED vars
  BY <1>0, <1>1, FrameProvisioned DEF vars, engine, ghost
<1>2. ASSUME NEW m \in {"install", "update"}, NEW c \in Clusters, StartAll(m, c) PROVE Provisioned'
  BY <1>2, StartProvisioned
<1>3. ASSUME NEW m, NEW c, NEW sel, StartSome(m, c, sel) PROVE Provisioned'
  BY <1>3 DEF StartSome, Begin, Provisioned
<1>4. CASE Resume
  BY <1>0, <1>4, ResumeProvisioned
<1>5. CASE Stop \/ Finish \/ EnterStep
  BY <1>0, <1>5, FrameProvisioned DEF Stop, Finish, EnterStep, ghost
<1>6. CASE CheckNew
  BY <1>0, <1>6, CheckProvisioned
<1>7. CASE PlainStep
  <2>1. Step \notin Parts
    BY <1>7 DEF PlainStep, Parts
  <2> QED
    BY <1>0, <1>7, <2>1, DoneProvisioned DEF PlainStep, ghost
<1>8. CASE StepReturns
  <2>1. CASE \E n \in Node : task[n] = "failed"
    BY <1>5, <1>8, <2>1 DEF StepReturns
  <2>2. CASE ~ \E n \in Node : task[n] = "failed"
    <3>1. pc = "step" /\ Step \in Parts /\ \A n \in Node : task[n] \in {"none", "ok"}
      BY <1>8, <2>2 DEF StepReturns, Returned
    <3>2. new \subseteq Node
      BY ProvisionAssumption DEF PInv, TypeOK
    <3>3. \A n \in new : Finished(n, Step)
      BY <1>0, <3>1, <3>2 DEF Reported
    <3> QED
      BY <1>0, <1>8, <2>2, <3>1, <3>3, DoneProvisioned DEF StepReturns, ghost
  <2> QED
    BY <2>1, <2>2
<1>9. ASSUME NEW n \in Node, Change(n) PROVE Provisioned'
  <2>1. CASE UNCHANGED host
    BY <1>0, <1>9, <2>1, FrameProvisioned DEF Change, engine, ghost
  <2>2. CASE ~(Step = "images" /\ Has(n, "images"))
    <3>1. script[n] = "running" /\ host' = [host EXCEPT ![n].part[Step] = "half"]
      BY <1>9, <2>2 DEF Change
    <3>2. Step = "join" => ~Has(n, "join")
      BY <1>0, <3>1 DEF Reported, Has, Joined, MayHave
    <3> QED
      BY <1>0, <1>9, <3>1, <3>2, ScriptProvisioned DEF Change, engine, ghost
  <2> QED
    BY <1>9, <2>1, <2>2 DEF Change
<1>10. ASSUME NEW n \in Node, ScriptEnds(n) PROVE Provisioned'
  <2>1. script[n] # "none" /\ host' = [host EXCEPT ![n].part[Step] = "ready"]
    BY <1>10 DEF ScriptEnds
  <2> QED
    BY <1>0, <1>10, <2>1, ScriptProvisioned DEF ScriptEnds, Ends, ghost
<1>11. ASSUME NEW n \in Node, ScriptFails(n) PROVE Provisioned'
  <2>1. CASE UNCHANGED host
    BY <1>0, <1>11, <2>1, FrameProvisioned DEF ScriptFails, Ends, ghost
  <2>2. CASE script[n] # "none" /\ host' = [host EXCEPT ![n].part[Step] = "ready"]
    BY <1>0, <1>11, <2>2, ScriptProvisioned DEF ScriptFails, Ends, ghost
  <2> QED
    BY <1>11, <2>1, <2>2 DEF ScriptFails
<1>12. ASSUME NEW n \in Node, NEW m \in Node, Reset(n) \/ AddHost(n, m) PROVE Provisioned'
  <2>0. ASSUME NEW x \in Node, NEW p \in Parts
        PROVE  (Has(x, p)' <=> Has(x, p)) /\ host[x].names \subseteq host'[x].names /\ cfg' = cfg
    <3>1. CASE Reset(n)
      <4>1. host'[x].names = host[x].names /\ (x # n \/ p # "join" => host'[x].part[p] = host[x].part[p])
        BY <3>1 DEF Reset, IInv, Host
      <4>2. x = n /\ p = "join" => host[x].part[p] = "half" /\ host'[x].part[p] = "none"
        BY <3>1 DEF Reset, IInv, Host, Parts
      <4> QED
        BY <3>1, <4>1, <4>2 DEF Reset, engine, Has
    <3>2. CASE AddHost(n, m)
      BY <3>2 DEF AddHost, engine, Has, IInv, Host
    <3> QED
      BY <1>12, <3>1, <3>2
  <2>1. \A x \in Node : \A p \in Parts :
          (Finished(x, p) => Finished(x, p)') /\ (Has(x, "join")' => Has(x, "join"))
    BY <2>0 DEF Finished, Parts
  <2>2. "join" \in Parts
    BY DEF Parts
  <2>3. \A x \in Node : \A p \in Parts : Finished(x, p) => Finished(x, p)' \/ (InPlan(p) /\ p # "join")
    BY <2>1
  <2>4. \A x \in Node : Has(x, "join")' =>
          Has(x, "join") \/ ~whole \/ mode # "update" \/ \A p \in Parts \ {"join"} : ~InPlan(p)
    BY <2>1, <2>2
  <2> QED
    BY <1>0, <1>12, <2>3, <2>4, KeepsProvisioned DEF Reset, AddHost, engine, ghost
<1>13. ASSUME NEW n \in Node, RunScript(n) \/ HostsDone(n) \/ TimesOut(n) PROVE Provisioned'
  BY <1>0, <1>13, FrameProvisioned DEF RunScript, HostsDone, TimesOut, ghost
<1> QED
  BY <1>1, <1>2, <1>3, <1>4, <1>5, <1>6, <1>7, <1>8, <1>9, <1>10, <1>11, <1>12, <1>13
  DEF Next, Cancel, StepFails

(* What a run has still to do and what is on its hosts make up the whole.  *)
THEOREM WholeRuns == Spec => [](IInv /\ PInv /\ WInv)
<1>1. IInv /\ PInv /\ WInv /\ [Next]_vars => (IInv /\ PInv /\ WInv)'
  <2> SUFFICES ASSUME IInv, PInv, WInv, [Next]_vars PROVE (IInv /\ PInv /\ WInv)'
    OBVIOUS
  <2>1. IInv' /\ PInv'
    BY NextInv, NextPlanned
  <2>2. Reported' /\ Provisioned'
    BY <2>1, NextReported, NextProvisioned DEF WInv
  <2> QED
    BY <2>1, <2>2 DEF WInv
<1> QED
  BY <1>1, InitInv, InitPlanned, InitWhole, PTL DEF Spec

(* A run of all steps that succeeds, with the runs it resumes, leaves no   *)
(* part missing on the nodes it set out to provision, and no name.         *)
THEOREM CompleteRunsProvision == Spec => []SuccessIsProvisioned
<1>1. PInv /\ WInv => SuccessIsProvisioned
  <2> SUFFICES ASSUME PInv, WInv, pc = "done", whole, NEW n \in subject
               PROVE  (\A p \in Parts : Has(n, p)) /\ cfg \subseteq host[n].names
    BY DEF SuccessIsProvisioned
  <2>1. plan = <<>>
    BY DEF PInv, Planned
  <2>2. \A p : ~InPlan(p)
    BY <2>1 DEF InPlan
  <2>3. \A p \in Parts : Finished(n, p)
    BY <2>2 DEF WInv, Provisioned
  <2> QED
    BY <2>3 DEF Finished, Parts
<1> QED
  BY <1>1, WholeRuns, PTL
=============================================================================
