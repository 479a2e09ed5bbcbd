------------------------------ MODULE Sessions ------------------------------
(***************************************************************************)
(* What the steps of a run rely on of its SSH connections, without sockets,*)
(* contexts and goroutines: a session with each node, all of which are     *)
(* opened before any is used, which carries one command at a time and      *)
(* breaks only under a command that is given up; they end together, when   *)
(* no command is under way.                                                *)
(***************************************************************************)
CONSTANT Node

VARIABLES state,   \* of each session: "connecting", "ready", "broken", "over"
          busy     \* the nodes on which a caller waits for a command

vars == <<state, busy>>

TypeOK == /\ state \in [Node -> {"connecting", "ready", "broken", "over"}]
          /\ busy \subseteq Node

Init == state = [n \in Node |-> "connecting"] /\ busy = {}

Become(n, s) == state' = [state EXCEPT ![n] = s]

Open(n) == state[n] = "connecting" /\ Become(n, "ready") /\ UNCHANGED busy
Refuse(n) == state[n] = "connecting" /\ Become(n, "over") /\ UNCHANGED busy

(* No command is run anywhere before every node is connected.              *)
Call(n) ==
  /\ n \notin busy /\ \A m \in Node : state[m] \in {"ready", "broken"}
  /\ busy' = busy \cup {n} /\ UNCHANGED state

Reply(n) == n \in busy /\ busy' = busy \ {n} /\ UNCHANGED state

GiveUp(n) == n \in busy /\ state[n] = "ready" /\ Become(n, "broken") /\ UNCHANGED busy

End ==
  /\ busy = {} /\ \A n \in Node : state[n] # "connecting"
  /\ state' = [n \in Node |-> "over"] /\ UNCHANGED busy

Next == End \/ \E n \in Node : Open(n) \/ Refuse(n) \/ Call(n) \/ Reply(n) \/ GiveUp(n)

Spec == Init /\ [][Next]_vars
=============================================================================
