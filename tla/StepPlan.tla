------------------------------ MODULE StepPlan ------------------------------
(***************************************************************************)
(* Which steps a run executes and in which order: the tables of step.go    *)
(* and the --step selection of workflow.go.  A step is known by its number *)
(* in the table of its mode, and here by the kind of work it does; "plain" *)
(* are the steps that other modules model or that only install packages.   *)
(***************************************************************************)
EXTENDS Subsequences

DeploySteps == <<"connect", "init", "plain", "containerd", "kubeadm", "images", "plain",
                 "plain", "plain", "join", "plain", "plain", "plain", "plain">>
UpdateSteps == <<"connect", "check", "init", "plain", "containerd", "kubeadm", "images",
                 "plain", "join", "plain">>
Table(mode) == IF mode = "install" THEN DeploySteps ELSE UpdateSteps

(* parseStepNums refuses a selection with a number that is not in the      *)
(* table, and an empty one.                                                *)
Accepted(mode, sel) == sel # <<>> /\ Elems(sel) \subseteq DOMAIN Table(mode)

(* Mutant: only the connections are required.                              *)
RequiredConnect(mode, sel) == <<1>>

(* Every selection needs the connections; an expansion needs discovery     *)
(* before any step that follows it.                                        *)
Required(mode, sel) ==
  IF mode = "update" /\ \E k \in Elems(sel) : k > 2 THEN <<1, 2>> ELSE <<1>>

(* Mutant: duplicates in the selection are kept.                           *)
PrependAll(sel, required) ==
  required \o Pick(sel, {i \in DOMAIN sel : sel[i] \notin Elems(required)})

(* prependMissingSteps: of the required steps and then the selected ones,  *)
(* each that has not been added yet.                                       *)
PrependMissing(sel, required) == Pick(required \o sel, Firsts(required \o sel))

(* Without --step, all steps of the table; <<>> when the selection is      *)
(* refused.                                                                *)
All(mode) == [k \in DOMAIN Table(mode) |-> k]
Plan(mode, sel) ==
  IF Accepted(mode, sel) THEN PrependMissing(sel, Required(mode, sel)) ELSE <<>>

-----------------------------------------------------------------------------
FirstAt(sel, k) == CHOOSE i \in DOMAIN sel : sel[i] = k /\ \A j \in 1..(i - 1) : sel[j] # k
Before(plan, k, l) == \E i, j \in DOMAIN plan : i < j /\ plan[i] = k /\ plan[j] = l

(* The reference for Plan: exactly the selected and the required steps,    *)
(* each once, what is required first, the others in the order in which     *)
(* they were first named ("--step 9,10,9" is 1,2,9,10); connect is always  *)
(* the first step and discovery precedes whatever an expansion changes.    *)
PlanMeets(mode, sel, plan) ==
  LET req == Elems(Required(mode, sel))
      steps == Elems(sel) \cup req
  IN  /\ Elems(plan) = steps /\ \A i, j \in DOMAIN plan : plan[i] = plan[j] => i = j
      /\ plan[1] = 1
      /\ \A k \in steps : mode = "update" /\ k > 2 => Before(plan, 2, k)
      /\ \A k, l \in steps \ req : FirstAt(sel, k) < FirstAt(sel, l) => Before(plan, k, l)
=============================================================================
