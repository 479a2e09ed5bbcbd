---------------------------- MODULE LaunchProofs -----------------------------
(* What the Go checks of settings guarantee the install scripts, for all    *)
(* settings and all selections of steps.                                    *)
EXTENDS Launch, SequenceProofs

(* The kinds of text of the settings that scripts read.                     *)
LEMMA Kinds ==
  ASSUME NEW s, Typed(s)
  PROVE  /\ s.istio \in {"bundled", "exact", "other"}
         /\ s.region \in {"", "region", "partition", "other"}
         /\ s.registry \in {"host", "", "other"}
         /\ s.ntpServer \in {"", "host", "node", "other"}
         /\ s.ntpAllow \in {"", "net", "other"}
         /\ s.timezone \in {"zone", "", "other"}
         /\ s.nfsServer \in {"", "host", "other"}
<1>1. /\ DOMAIN Values = {"keys", "timeouts", "kubernetes", "istio", "cri", "vip", "region",
            "registry", "namespace", "ntpServer", "ntpAllow", "timezone", "nfsServer", "nfsPath",
            "insecure", "flag", "knownHosts", "address", "hostname", "roles", "username",
            "password", "keyPath", "pin"}
      /\ Values.istio = {"bundled", "exact", "other"}
      /\ Values.region = {"", "region", "partition", "other"}
      /\ Values.registry = {"host", "", "other"}
      /\ Values.ntpServer = {"", "host", "node", "other"}
      /\ Values.ntpAllow = {"", "net", "other"}
      /\ Values.timezone = {"zone", "", "other"}
      /\ Values.nfsServer = {"", "host", "other"}
  BY DEF Values
<1> QED BY <1>1 DEF Typed

(* Scripts accept what the Go checks have passed and Unread does not list.  *)
LEMMA GuardsAgree ==
  ASSUME NEW s, Passed(s), NEW script, script # "connect", ~Accepts(script, s)
  PROVE  Unread(s)
<1> USE DEF Passed
<1>1. /\ s.kubernetes = "exact" /\ s.istio # "other" /\ s.cri # "other" /\ s.hostname = "name"
      /\ s.vip \in {"v4", "mapped"} /\ s.address \in {"v4", "mapped"} /\ s.registry # ""
  BY DEF Loaded, Checked
<1>2. script \in {"init", "chrony", "haproxy", "keepalived", "synchronize", "start", "nfs", "istio"}
  BY <1>1, Zenon DEF Accepts
<1>3. CASE script = "init"
  <2>1. ~InitAccepts(s) BY <1>3 DEF Accepts
  <2> QED BY <2>1, <1>1 DEF InitAccepts, ZoneAccepted, Unread
<1>4. CASE script = "chrony"
  <2>1. ~ChronyAccepts(s) BY <1>4 DEF Accepts
  <2> QED BY <2>1, <1>1, Kinds DEF ChronyAccepts, Unread
<1>5. CASE script = "haproxy"
  <2>1. ~HaproxyAccepts(s) BY <1>5 DEF Accepts
  <2> QED BY <2>1, <1>1 DEF HaproxyAccepts, Unread
<1>6. CASE script = "keepalived"
  <2>1. ~KeepalivedAccepts(s) BY <1>6 DEF Accepts
  <2> QED BY <2>1, <1>1, Kinds DEF KeepalivedAccepts, Unread
<1>7. CASE script = "synchronize"
  <2>1. ~HaproxyAccepts(s) \/ ~KeepalivedAccepts(s) BY <1>7 DEF Accepts
  <2> QED BY <2>1, <1>1, Kinds DEF HaproxyAccepts, KeepalivedAccepts, Unread
<1>8. CASE script = "start"
  <2>1. ~StartAccepts(s) BY <1>8 DEF Accepts
  <2> QED BY <2>1, <1>1, Kinds DEF StartAccepts, Unread
<1>9. CASE script = "nfs"
  <2>1. ~NfsAccepts(s) BY <1>9 DEF Accepts
  <2> QED BY <2>1, Kinds DEF NfsAccepts, Unread
<1>10. CASE script = "istio"
  <2>1. s.istio # "bundled" BY <1>10 DEF Accepts
  <2> QED BY <2>1, <1>1, Kinds DEF Unread
<1> QED BY <1>2, <1>3, <1>4, <1>5, <1>6, <1>7, <1>8, <1>9, <1>10

-----------------------------------------------------------------------------
(* The plan of a selection that is not refused, and of none.                *)
LEMMA TodoType ==
  ASSUME sel \in Seq(Numbers)
  PROVE  Todo \in Seq(Int)
<1>1. CASE sel = <<>>
  <2>1. \E n \in Nat : DOMAIN Table(mode) = 1..n
    BY Tables
  <2>2. PICK n \in Nat : DOMAIN Table(mode) = 1..n
    BY <2>1
  <2>3. All(mode) = [k \in 1..n |-> k]
    BY <2>2 DEF All
  <2>4. \A k \in 1..n : k \in Int
    OBVIOUS
  <2>5. [k \in 1..n |-> k] \in Seq(Int)
    BY <2>4
  <2> QED BY <1>1, <2>3, <2>5 DEF Todo
<1>2. CASE sel # <<>>
  <2>1. sel \in Seq(Int) BY LaunchAssumption, SeqMonotonic
  <2>2. CASE Accepted(mode, sel)
    BY <1>2, <2>1, <2>2, PlanFacts DEF Todo
  <2>3. CASE ~Accepted(mode, sel)
    <3>1. Todo = <<>> BY <1>2, <2>3 DEF Todo, Plan
    <3> QED BY <3>1
  <2> QED BY <2>2, <2>3
<1> QED BY <1>1, <1>2

(* A run that has begun passed every check of Go, whatever was typed; what  *)
(* is not left of its plan was accepted, and what it stopped at was not.    *)
THEOREM Inv == Spec => []IInv
<1>1. Init => IInv
  BY LaunchAssumption DEF Init, IInv
<1>2. IInv /\ [Next]_vars => IInv'
  <2> SUFFICES ASSUME IInv, [Next]_vars PROVE IInv' OBVIOUS
  <2>1. CASE Step
    <3>1. UNCHANGED <<mode, sel, settings>> /\ pc = "run" BY <2>1 DEF Step
    <3>2. Passed(settings') BY <3>1 DEF IInv
    <3>3. Scripts' = Scripts BY <3>1 DEF Scripts
    <3>4. pc' = "stopped" => ~Accepts(Scripts[Head(plan)], settings) /\ plan' = plan
      BY <2>1 DEF Step
    <3>5. pc' = "stopped" => ~Accepts(Scripts[Head(plan)], settings)' BY <3>1, <3>3, <3>4
    <3>6. pc' # "refused" BY <2>1 DEF Step
    <3>7. /\ plan \in Seq(Int) /\ plan # <<>> /\ Executed /\ Todo' = Todo
      BY <3>1 DEF IInv, Todo
    <3>8. /\ pc' = "run" => plan' # <<>>
          /\ pc' = "done" => plan' = <<>>
          /\ plan' \in Seq(Int) /\ Executed'
      <4>1. CASE pc' = "stopped" /\ UNCHANGED plan
        BY <3>1, <3>3, <3>7, <4>1 DEF Executed
      <4>2. CASE /\ Accepts(Scripts[Head(plan)], settings) /\ plan' = Tail(plan)
                 /\ pc' = IF Tail(plan) = <<>> THEN "done" ELSE "run"
        <5>1. /\ Tail(plan) \in Seq(Int) /\ Head(plan) = plan[1]
              /\ \A j \in DOMAIN plan : j # 1 => j - 1 \in DOMAIN Tail(plan) /\ Tail(plan)[j - 1] = plan[j]
          BY <3>7, TailFacts
        <5>2. ASSUME NEW i \in DOMAIN Todo
              PROVE  Accepts(Scripts[Todo[i]], settings) \/ \E j \in DOMAIN plan' : plan'[j] = Todo[i]
          <6>1. CASE \E j \in DOMAIN plan : plan[j] = Todo[i]
            <7>1. PICK j \in DOMAIN plan : plan[j] = Todo[i] BY <6>1
            <7>2. CASE j = 1 BY <4>2, <5>1, <7>1, <7>2
            <7>3. CASE j # 1 BY <4>2, <5>1, <7>1, <7>3
            <7> QED BY <7>2, <7>3
          <6> QED BY <3>7, <6>1 DEF Executed
        <5>3. Executed' BY <3>1, <3>3, <3>7, <5>2 DEF Executed
        <5> QED BY <4>2, <5>1, <5>3
      <4> QED BY <2>1, <4>1, <4>2 DEF Step
    <3> QED BY <3>1, <3>2, <3>5, <3>6, <3>8 DEF IInv
  <2>2. ASSUME NEW k \in Numbers, Type(k) PROVE IInv'
    <3>1. sel' \in Seq(Numbers) /\ Len(sel') = Len(sel) + 1 /\ Len(sel) < MaxSelected
      BY <2>2 DEF Type, IInv
    <3>2. Len(sel) \in Nat BY DEF IInv
    <3> QED BY <2>2, <3>1, <3>2, LaunchAssumption DEF Type, IInv
  <2>3. ASSUME NEW s \in Offered(Len(sel)), Launch(s) PROVE IInv'
    <3>1. Len(sel) \in 0..MaxSelected BY LaunchAssumption DEF IInv
    <3>2. Typed(s) BY <3>1, LaunchAssumption
    <3>3. settings' = s /\ UNCHANGED <<mode, sel>> /\ pc' \in {"run", "refused"} BY <2>3 DEF Launch
    <3>4. pc' = "run" => Loaded(s) /\ Checked(s) BY <2>3 DEF Launch, Good
    <3>5. pc' = "refused" => ~Good(s) BY <2>3 DEF Launch
    <3>6. Good(s)' <=> Good(s) BY <3>3 DEF Good, Todo
    <3>7. pc' = "run" => plan' = Todo /\ Todo # <<>> /\ Todo' = Todo
      BY <2>3, <3>3 DEF Launch, Good, Todo
    <3>8. Todo \in Seq(Int) BY TodoType DEF IInv
    <3>9. pc' = "run" => plan' # <<>> /\ plan' \in Seq(Int) /\ Executed'
      BY <3>7, <3>8 DEF Executed
    <3> QED BY <3>2, <3>3, <3>4, <3>5, <3>6, <3>9 DEF IInv, Passed
  <2>4. CASE UNCHANGED vars BY <2>4 DEF vars, IInv, Scripts, Good, Todo, Executed
  <2> QED BY <2>1, <2>2, <2>3, <2>4 DEF Next
<1> QED BY <1>1, <1>2, PTL DEF Spec

(* What the Go checks let pass a script refuses only for one of the         *)
(* settings that no check reads - for every configuration, not only those   *)
(* that differ from the example in two places.                              *)
THEOREM NothingElseStopsLate == Spec => []RefusedEarly
<1>1. IInv => RefusedEarly
  <2> SUFFICES ASSUME IInv, pc = "stopped", Scripts[Head(plan)] # "connect" PROVE Unread(settings)
    BY DEF RefusedEarly
  <2>1. Passed(settings) /\ ~Accepts(Scripts[Head(plan)], settings) BY DEF IInv
  <2> QED BY <2>1, GuardsAgree
<1> QED BY <1>1, Inv, PTL
-----------------------------------------------------------------------------
(* Every selection that may be typed is refused or gets the plan of the    *)
(* reference: what is selected and required, each once, the required first *)
(* and the others in the order in which they were named.                   *)
THEOREM PlansAreSound == Spec => []PlanSound
<1>1. IInv => PlanSound
  <2> SUFFICES ASSUME IInv PROVE PlanSound
    OBVIOUS
  <2>1. sel \in Seq(Int)
    BY LaunchAssumption, SeqMonotonic DEF IInv
  <2>2. Elems(sel) \subseteq 1..(IF mode = "install" THEN 14 ELSE 10) /\ sel # <<>> <=> Accepted(mode, sel)
    BY Tables DEF Accepted
  <2> QED
    BY <2>1, <2>2, PlanIsSound DEF PlanSound, Plan
<1> QED
  BY <1>1, Inv, PTL

-----------------------------------------------------------------------------
(* The kinds of text that only DocumentedRuns tells apart.                 *)
LEMMA MoreKinds ==
  ASSUME NEW s, Typed(s)
  PROVE  /\ s.flag \in {"unset", "no", "yes"} /\ s.keyPath \in {"", "key", "missing"}
         /\ s.pin \in {"", "SHA256", "other"}
<1>1. /\ {"flag", "keyPath", "pin"} \subseteq DOMAIN Values
      /\ Values.flag = {"unset", "no", "yes"} /\ Values.keyPath = {"", "key", "missing"}
      /\ Values.pin = {"", "SHA256", "other"}
  BY DEF Values
<1> QED BY <1>1 DEF Typed

LEMMA DocumentedFacts ==
  ASSUME NEW s, Documented(s)
  PROVE  /\ s.keys = "known" /\ s.timeouts = "positive" /\ s.kubernetes = "exact"
         /\ s.istio = "bundled" /\ s.vip = "v4" /\ s.registry = "host" /\ s.namespace = "name"
         /\ s.address = "v4" /\ s.hostname = "name"
BY DEF Documented, Example

(* The Go checks let every documented configuration pass.                  *)
LEMMA DocumentedPasses ==
  ASSUME NEW s, Typed(s), Documented(s)
  PROVE  Loaded(s) /\ NodeBuilt(s) /\ Checked(s)
<1>1. Loaded(s)
  BY DocumentedFacts DEF Documented, Loaded
<1>2. PinAccepted(s)
  BY MoreKinds DEF Documented, PinAccepted, SkipHostKeyCheck
<1>3. NodeBuilt(s)
  BY <1>2 DEF Documented, NodeBuilt
<1>4. Checked(s)
  BY DocumentedFacts DEF Documented, Checked, IsControl
<1> QED BY <1>1, <1>3, <1>4

(* Every script accepts it, but for what RefusedAnyway lists.               *)
LEMMA DocumentedAccepted ==
  ASSUME NEW s, Typed(s), Documented(s), ~RefusedAnyway(s), NEW script
  PROVE  Accepts(script, s)
<1>1. Connects(s)
  BY MoreKinds DEF Documented, Connects, SkipHostKeyCheck
<1>2. InitAccepts(s)
  BY DocumentedFacts DEF Documented, InitAccepts, ZoneAccepted, RefusedAnyway
<1>3. ChronyAccepts(s)
  BY DocumentedFacts, Kinds DEF Documented, ChronyAccepts, RefusedAnyway
<1>4. HaproxyAccepts(s) /\ KeepalivedAccepts(s)
  <2>1. s.region \in {"", "region"}
    <3>1. s.region # "other" /\ s.region # "partition"
      BY DEF Documented, RefusedAnyway
    <3> QED BY <3>1, Kinds
  <2> QED
    BY <2>1, DocumentedFacts DEF HaproxyAccepts, KeepalivedAccepts
<1>5. StartAccepts(s)
  BY DocumentedFacts DEF Documented, StartAccepts
<1>6. NfsAccepts(s)
  BY DocumentedFacts DEF Documented, NfsAccepts
<1> QED
  BY <1>1, <1>2, <1>3, <1>4, <1>5, <1>6, DocumentedFacts, Zenon DEF Accepts

LEMMA TodoNotEmpty ==
  ASSUME IInv, sel = <<>> \/ Accepted(mode, sel)
  PROVE  Todo # <<>>
<1>1. CASE sel = <<>>
  <2>1. Todo = All(mode) /\ 1 \in DOMAIN Table(mode)
    BY <1>1, Tables DEF Todo
  <2>2. DOMAIN All(mode) = DOMAIN Table(mode)
    BY DEF All
  <2> QED
    BY <2>1, <2>2
<1>2. CASE sel # <<>>
  <2>1. sel \in Seq(Int)
    BY LaunchAssumption, SeqMonotonic DEF IInv
  <2>2. Plan(mode, sel) = PrependMissing(sel, Required(mode, sel)) /\ Todo = Plan(mode, sel)
    BY <1>2 DEF Plan, Todo
  <2>3. /\ Required(mode, sel) \in Seq(Int) /\ 1 \in DOMAIN Required(mode, sel)
        /\ \A i, j \in DOMAIN Required(mode, sel) :
             Required(mode, sel)[i] = Required(mode, sel)[j] => i = j
    BY RequiredFacts
  <2>4. 1 \in DOMAIN Plan(mode, sel)
    BY <2>1, <2>2, <2>3, FirstsConcat DEF PrependMissing
  <2> QED
    BY <2>2, <2>4
<1> QED BY <1>1, <1>2

(* A run of all steps that came to its end met every guard.                *)
LEMMA CompleteRunsMeetAll ==
  ASSUME IInv, pc = "done", sel = <<>>
  PROVE  ~RefusedAnyway(settings)
<1>1. Todo = All(mode) /\ plan = <<>> /\ Executed
  BY DEF Todo, IInv
<1>2. DOMAIN All(mode) = 1..(IF mode = "install" THEN 14 ELSE 10) /\ \A i \in DOMAIN All(mode) : All(mode)[i] = i
  BY Tables DEF All
<1>3. \A i \in DOMAIN All(mode) : Accepts(Scripts[i], settings)
  BY <1>1, <1>2 DEF Executed
<1>4. /\ \E i \in DOMAIN All(mode) : Scripts[i] = "init"
      /\ \E i \in DOMAIN All(mode) : Scripts[i] = "chrony"
      /\ \E i \in DOMAIN All(mode) : Scripts[i] \in {"keepalived", "synchronize"}
  <2>1. CASE mode = "install"
    <3>1. Scripts[2] = "init" /\ Scripts[3] = "chrony" /\ Scripts[9] = "keepalived"
      BY <2>1 DEF Scripts
    <3> QED BY <1>2, <2>1, <3>1
  <2>2. CASE mode # "install"
    <3>1. Scripts[3] = "init" /\ Scripts[4] = "chrony" /\ Scripts[10] = "synchronize"
      BY <2>2 DEF Scripts
    <3> QED BY <1>2, <2>2, <3>1
  <2> QED BY <2>1, <2>2
<1>5. Accepts("init", settings) /\ Accepts("chrony", settings)
  BY <1>3, <1>4
<1>6. InitAccepts(settings) /\ ChronyAccepts(settings)
  BY <1>5 DEF Accepts
<1>7. Accepts("keepalived", settings) \/ Accepts("synchronize", settings)
  BY <1>3, <1>4
<1>8. KeepalivedAccepts(settings)
  BY <1>7 DEF Accepts
<1> QED
  BY <1>6, <1>8 DEF InitAccepts, ChronyAccepts, KeepalivedAccepts, RefusedAnyway

(* README's configuration, with any of the settings it says may be empty   *)
(* or changed, runs to the end of every selection but for three kinds of   *)
(* setting, with which no run of all steps does.                           *)
THEOREM DocumentedRunsEnd == Spec => []DocumentedRuns
<1>1. ASSUME IInv, Documented(settings), Stops PROVE RefusedAnyway(settings)
  <2> SUFFICES ASSUME ~RefusedAnyway(settings) PROVE FALSE
    OBVIOUS
  <2>1. CASE pc = "refused"
    BY <1>1, <2>1, DocumentedPasses, TodoNotEmpty DEF IInv, Good, Stops
  <2>2. CASE pc = "stopped"
    BY <1>1, <2>2, DocumentedAccepted DEF IInv, Passed
  <2> QED BY <1>1, <2>1, <2>2 DEF Stops
<1>2. IInv => DocumentedRuns
  BY <1>1, CompleteRunsMeetAll DEF DocumentedRuns
<1> QED BY <1>2, Inv, PTL
=============================================================================
