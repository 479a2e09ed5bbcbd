------------------------------ MODULE SshNode -------------------------------
(***************************************************************************)
(* The SSH connections of a run (app/node/node.go): connect opens one per  *)
(* node in parallel under an errgroup context, the steps run commands over *)
(* them, closeAll closes them.                                             *)
(*                                                                         *)
(* ConnectContext races the handshake with a watcher that closes the       *)
(* socket when its context ends; bounded races every remote operation with *)
(* the end of its context.  A server may never answer.                     *)
(*                                                                         *)
(* Left out: keys and host-key checks (they fail or not), file transfers   *)
(* (an operation like a command), a second Connect on the same node, which *)
(* the engine never makes, and connections the server drops.               *)
(***************************************************************************)
EXTENDS Integers

CONSTANTS Node,
          MaxCmds    \* bound on the commands a step runs on each node

ASSUME SshAssumption == MaxCmds \in Nat

VARIABLES
  phase,     \* of the run: "connect", "steps", "end"
  root,      \* e.ctx has been cancelled
  group,     \* connect's errgroup context has been cancelled
  pc,        \* ConnectContext of each node
  expired,   \* its connect timeout has passed
  handshake, \* result of ssh.NewClientConn
  watcher,   \* the AfterFunc that closes the socket
  sock,      \* the TCP connection
  sshcli,    \* n.sshcli is set
  call,      \* bounded: "none", "select" or "closing" (after ctx.Done)
  op,        \* the goroutine of bounded that performs the operation
  fetched,   \* of OS, architecture and home directory
  gaveUp,    \* bounded has closed the transport
  cmds       \* commands run

connectVars == <<pc, expired, handshake, watcher, fetched>>
callVars == <<call, op, gaveUp>>
vars == <<phase, root, group, connectVars, sock, sshcli, callVars, cmds>>

TypeOK ==
  /\ phase \in {"connect", "steps", "end"} /\ root \in BOOLEAN /\ group \in BOOLEAN
  /\ pc \in [Node -> {"dial", "handshake", "check", "store", "fetch", "connected", "failed"}]
  /\ expired \in [Node -> BOOLEAN]
  /\ handshake \in [Node -> {"none", "pending", "ok", "err"}]
  /\ watcher \in [Node -> {"none", "armed", "fired", "done", "stopped"}]
  /\ sock \in [Node -> {"none", "open", "closed"}]
  /\ sshcli \in [Node -> BOOLEAN]
  /\ call \in [Node -> {"none", "select", "closing"}]
  /\ op \in [Node -> {"none", "run", "ok", "err"}]
  /\ fetched \in [Node -> 0..3] /\ gaveUp \in [Node -> BOOLEAN]
  /\ cmds \in [Node -> 0..MaxCmds]

Init ==
  /\ phase = "connect" /\ root = FALSE /\ group = FALSE
  /\ pc = [n \in Node |-> "dial"] /\ expired = [n \in Node |-> FALSE]
  /\ handshake = [n \in Node |-> "none"] /\ watcher = [n \in Node |-> "none"]
  /\ sock = [n \in Node |-> "none"] /\ sshcli = [n \in Node |-> FALSE]
  /\ call = [n \in Node |-> "none"] /\ op = [n \in Node |-> "none"]
  /\ fetched = [n \in Node |-> 0] /\ gaveUp = [n \in Node |-> FALSE]
  /\ cmds = [n \in Node |-> 0]

-----------------------------------------------------------------------------
(* Contexts: the parent of ConnectContext is the errgroup's context, that  *)
(* of a command the run's.                                                 *)
ParentDone(n) == root \/ (phase = "connect" /\ group)
CtxDone(n) == ParentDone(n) \/ expired[n]

Connecting(n) == pc[n] \in {"dial", "handshake", "check", "store"}

Expire(n) ==
  /\ Connecting(n) /\ ~expired[n]
  /\ expired' = [expired EXCEPT ![n] = TRUE]
  /\ UNCHANGED <<phase, root, group, pc, handshake, watcher, fetched, sock, sshcli, callVars, cmds>>

Cancel ==
  /\ phase # "end" /\ ~root
  /\ root' = TRUE
  /\ UNCHANGED <<phase, group, connectVars, sock, sshcli, callVars, cmds>>

(* Mutant: an errgroup without a context.                                  *)
ConnectFailsAlone(n) == pc' = [pc EXCEPT ![n] = "failed"] /\ UNCHANGED group

(* A goroutine that returns an error cancels the errgroup's context.       *)
ConnectFails(n) == pc' = [pc EXCEPT ![n] = "failed"] /\ group' = TRUE

CloseSock(n) == sock' = [sock EXCEPT ![n] = IF @ = "open" THEN "closed" ELSE @]

-----------------------------------------------------------------------------
(* ConnectContext.                                                         *)
Dial(n) ==
  /\ pc[n] = "dial" /\ ~CtxDone(n)
  /\ sock' = [sock EXCEPT ![n] = "open"] /\ pc' = [pc EXCEPT ![n] = "handshake"]
  /\ watcher' = [watcher EXCEPT ![n] = "armed"]
  /\ handshake' = [handshake EXCEPT ![n] = "pending"]
  /\ UNCHANGED <<phase, root, group, expired, fetched, sshcli, callVars, cmds>>

DialFails(n) ==
  /\ pc[n] = "dial" /\ ConnectFails(n)
  /\ UNCHANGED <<phase, root, expired, handshake, watcher, fetched, sock, sshcli, callVars, cmds>>

(* NewClientConn returns what the server does, or an error once the socket *)
(* is closed or its deadline, the connect timeout, has passed.             *)
Handshake(n, result) ==
  /\ handshake[n] = "pending" /\ (result = "ok" => sock[n] = "open")
  /\ handshake' = [handshake EXCEPT ![n] = result]
  /\ UNCHANGED <<phase, root, group, pc, expired, watcher, fetched, sock, sshcli, callVars, cmds>>

(* The watcher starts when the context ends, and closes the socket.        *)
WatcherFires(n) ==
  /\ watcher[n] = "armed" /\ CtxDone(n)
  /\ watcher' = [watcher EXCEPT ![n] = "fired"]
  /\ UNCHANGED <<phase, root, group, pc, expired, handshake, fetched, sock, sshcli, callVars, cmds>>

WatcherCloses(n) ==
  /\ watcher[n] = "fired"
  /\ watcher' = [watcher EXCEPT ![n] = "done"] /\ CloseSock(n)
  /\ UNCHANGED <<phase, root, group, pc, expired, handshake, fetched, sshcli, callVars, cmds>>

(* Mutant: the watcher is not stopped.                                     *)
StopWatcherForgotten(n) ==
  /\ pc[n] = "handshake" /\ handshake[n] \in {"ok", "err"}
  /\ pc' = [pc EXCEPT ![n] = "check"]
  /\ UNCHANGED <<phase, root, group, expired, handshake, watcher, fetched, sock, sshcli, callVars, cmds>>

(* After the handshake the watcher is stopped, or waited for if it runs.   *)
StopWatcher(n) ==
  /\ pc[n] = "handshake" /\ handshake[n] \in {"ok", "err"}
  /\ watcher[n] \in {"armed", "done"}
  /\ watcher' = [watcher EXCEPT ![n] = IF @ = "armed" THEN "stopped" ELSE @]
  /\ pc' = [pc EXCEPT ![n] = "check"]
  /\ UNCHANGED <<phase, root, group, expired, handshake, fetched, sock, sshcli, callVars, cmds>>

(* Mutant: the error path after the handshake does not close.              *)
CheckLeaks(n) ==
  /\ pc[n] = "check"
  /\ IF handshake[n] = "err" \/ CtxDone(n)
       THEN ConnectFails(n)
       ELSE pc' = [pc EXCEPT ![n] = "store"] /\ UNCHANGED group
  /\ UNCHANGED <<phase, root, expired, handshake, watcher, fetched, sock, sshcli, callVars, cmds>>

(* A failed handshake or an ended context closes the socket.               *)
Check(n) ==
  /\ pc[n] = "check"
  /\ IF handshake[n] = "err" \/ CtxDone(n)
       THEN ConnectFails(n) /\ CloseSock(n)
       ELSE pc' = [pc EXCEPT ![n] = "store"] /\ UNCHANGED <<group, sock>>
  /\ UNCHANGED <<phase, root, expired, handshake, watcher, fetched, sshcli, callVars, cmds>>

Store(n) ==
  /\ pc[n] = "store"
  /\ sshcli' = [sshcli EXCEPT ![n] = TRUE] /\ pc' = [pc EXCEPT ![n] = "fetch"]
  /\ UNCHANGED <<phase, root, group, expired, handshake, watcher, fetched, sock, callVars, cmds>>

-----------------------------------------------------------------------------
(* bounded: nothing is sent once the context has ended; otherwise the      *)
(* operation runs in a goroutine of its own.                               *)
CallStart(n) ==
  /\ call[n] = "none" /\ sshcli[n] /\ ~ParentDone(n)
  /\ \/ pc[n] = "fetch" /\ UNCHANGED cmds
     \/ /\ phase = "steps" /\ cmds[n] < MaxCmds
        /\ cmds' = [cmds EXCEPT ![n] = @ + 1]
  /\ call' = [call EXCEPT ![n] = "select"] /\ op' = [op EXCEPT ![n] = "run"]
  /\ UNCHANGED <<phase, root, group, connectVars, sock, sshcli, gaveUp>>

(* The operation ends when the server answers, or fails when the transport *)
(* is closed.                                                              *)
OpAnswered(n) ==
  /\ op[n] = "run" /\ sock[n] = "open"
  /\ op' = [op EXCEPT ![n] = "ok"] \/ op' = [op EXCEPT ![n] = "err"]
  /\ UNCHANGED <<phase, root, group, connectVars, sock, sshcli, call, gaveUp, cmds>>

OpBroken(n) ==
  /\ op[n] = "run" /\ sock[n] = "closed"
  /\ op' = [op EXCEPT ![n] = "err"]
  /\ UNCHANGED <<phase, root, group, connectVars, sock, sshcli, call, gaveUp, cmds>>

(* Mutant: the transport is not closed.                                    *)
GiveUpQuietly(n) ==
  /\ call[n] = "select"
  /\ call' = [call EXCEPT ![n] = "closing"]
  /\ gaveUp' = [gaveUp EXCEPT ![n] = TRUE]
  /\ UNCHANGED <<phase, root, group, connectVars, sock, sshcli, op, cmds>>

(* <-ctx.Done(), by cancellation or by the command's own timeout, which    *)
(* may come at any time: the transport is closed.                          *)
GiveUp(n) ==
  /\ call[n] = "select"
  /\ call' = [call EXCEPT ![n] = "closing"] /\ CloseSock(n)
  /\ gaveUp' = [gaveUp EXCEPT ![n] = TRUE]
  /\ UNCHANGED <<phase, root, group, connectVars, sshcli, op, cmds>>

(* Mutants: no <-done after closing the transport; a fourth fetch.         *)
ReturnEarly(n) ==
  /\ call[n] = "closing"
  /\ call' = [call EXCEPT ![n] = "none"]
  /\ IF pc[n] # "fetch"
       THEN UNCHANGED <<pc, group, fetched, sshcli, sock>>
       ELSE /\ ConnectFails(n) /\ CloseSock(n)
            /\ sshcli' = [sshcli EXCEPT ![n] = FALSE] /\ UNCHANGED fetched
  /\ UNCHANGED <<phase, root, expired, handshake, watcher, gaveUp, op, cmds>>
ReturnOffByOne(n) ==
  /\ call[n] = "select" /\ op[n] = "ok" /\ pc[n] = "fetch"
  /\ call' = [call EXCEPT ![n] = "none"] /\ op' = [op EXCEPT ![n] = "none"]
  /\ fetched' = [fetched EXCEPT ![n] = @ + 1]
  /\ pc' = [pc EXCEPT ![n] = IF fetched[n] = 3 THEN "connected" ELSE "fetch"]
  /\ UNCHANGED <<phase, root, group, expired, handshake, watcher, sock, sshcli, gaveUp, cmds>>

(* bounded returns - with the operation's result, or after <-done with the *)
(* context's error.  ConnectContext closes the node on any error.          *)
Return(n) ==
  LET success == call[n] = "select" /\ op[n] = "ok"
  IN  /\ call[n] # "none" /\ op[n] # "run"
      /\ call' = [call EXCEPT ![n] = "none"] /\ op' = [op EXCEPT ![n] = "none"]
      /\ IF pc[n] # "fetch"
           THEN UNCHANGED <<pc, group, fetched, sshcli, sock>>
           ELSE IF success
             THEN /\ fetched' = [fetched EXCEPT ![n] = @ + 1]
                  /\ pc' = [pc EXCEPT ![n] = IF fetched[n] = 2 THEN "connected" ELSE "fetch"]
                  /\ UNCHANGED <<group, sshcli, sock>>
             ELSE /\ ConnectFails(n) /\ CloseSock(n)
                  /\ sshcli' = [sshcli EXCEPT ![n] = FALSE] /\ UNCHANGED fetched
      /\ UNCHANGED <<phase, root, expired, handshake, watcher, gaveUp, cmds>>

(* A fetch that finds its context ended.                                   *)
FetchRefused(n) ==
  /\ pc[n] = "fetch" /\ call[n] = "none" /\ ParentDone(n)
  /\ ConnectFails(n) /\ CloseSock(n)
  /\ sshcli' = [sshcli EXCEPT ![n] = FALSE]
  /\ UNCHANGED <<phase, root, expired, handshake, watcher, fetched, callVars, cmds>>

-----------------------------------------------------------------------------
(* The run: eg.Wait waits for every ConnectContext; a step waits for every *)
(* command it started.  It ends with closeAll.                             *)
CloseAll ==
  /\ sock' = [n \in Node |-> IF sshcli[n] /\ sock[n] = "open" THEN "closed" ELSE sock[n]]
  /\ sshcli' = [n \in Node |-> FALSE]
  /\ phase' = "end"

(* Mutant: the steps start with the first node that is connected.          *)
WaitConnectFirst ==
  /\ phase = "connect" /\ \E n \in Node : pc[n] = "connected"
  /\ IF \E n \in Node : pc[n] = "failed" THEN CloseAll ELSE phase' = "steps" /\ UNCHANGED <<sock, sshcli>>
  /\ UNCHANGED <<root, group, connectVars, callVars, cmds>>

WaitConnect ==
  /\ phase = "connect" /\ \A n \in Node : pc[n] \in {"connected", "failed"}
  /\ IF \E n \in Node : pc[n] = "failed" THEN CloseAll ELSE phase' = "steps" /\ UNCHANGED <<sock, sshcli>>
  /\ UNCHANGED <<root, group, connectVars, callVars, cmds>>

Finish ==
  /\ phase = "steps" /\ \A n \in Node : call[n] = "none"
  /\ CloseAll
  /\ UNCHANGED <<root, group, connectVars, callVars, cmds>>

(* What goes on without an answer of the server.                           *)
Local(n) ==
  \/ CtxDone(n) /\ DialFails(n)
  \/ (sock[n] = "closed" \/ expired[n]) /\ Handshake(n, "err")
  \/ WatcherFires(n) \/ WatcherCloses(n) \/ StopWatcher(n) \/ Check(n) \/ Store(n)
  \/ OpBroken(n) \/ Return(n) \/ FetchRefused(n)
  \/ pc[n] = "fetch" /\ CallStart(n)
  \/ ParentDone(n) /\ GiveUp(n)

Remote(n) ==
  \/ Dial(n) \/ DialFails(n) \/ Handshake(n, "ok") \/ Handshake(n, "err") \/ OpAnswered(n)

Next ==
  \/ Cancel \/ WaitConnect \/ Finish
  \/ \E n \in Node : Local(n) \/ Remote(n) \/ Expire(n) \/ CallStart(n) \/ GiveUp(n)

(* Goroutines are scheduled; neither a server's answer nor a timeout is    *)
(* relied on.                                                              *)
Fairness == /\ WF_vars(WaitConnect) /\ WF_vars(root /\ Finish)
            /\ \A n \in Node : WF_vars(Local(n))
Spec == Init /\ [][Next]_vars /\ Fairness

-----------------------------------------------------------------------------
(* Why the safety properties hold: the inductive invariant of their        *)
(* proofs.                                                                 *)

(* ConnectContext owns the socket and its watcher until the session is     *)
(* handed over; the watcher has closed it only if the context has ended.   *)
Handover(n) ==
  /\ pc[n] = "dial" => sock[n] = "none"
  /\ handshake[n] = "pending" => pc[n] = "handshake"
  /\ watcher[n] \in {"armed", "fired"} => pc[n] = "handshake"
  /\ pc[n] = "handshake" => watcher[n] \in {"armed", "fired", "done"}
  /\ pc[n] = "check" => watcher[n] \in {"done", "stopped"}
  /\ pc[n] \in {"handshake", "check"} /\ watcher[n] \in {"fired", "done"} => CtxDone(n)
  /\ pc[n] \in {"handshake", "check"} /\ watcher[n] # "done" => sock[n] = "open"
  /\ pc[n] = "store" => sock[n] = "open"

(* What is fetched after the connection is stored.                         *)
Fetching(n) == pc[n] \notin {"connected", "failed"} => fetched[n] < 3

(* An operation has a caller, the caller a stored connection.              *)
Calling(n) ==
  /\ op[n] = "none" <=> call[n] = "none"
  /\ call[n] # "none" => pc[n] = "fetch" \/ phase = "steps"
  /\ pc[n] = "fetch" /\ call[n] # "closing" => sock[n] = "open"
  /\ pc[n] = "connected" /\ phase # "end" /\ ~gaveUp[n] => sock[n] = "open"
  /\ sshcli[n] = (pc[n] \in {"fetch", "connected"} /\ phase # "end")
  /\ pc[n] = "failed" => sock[n] # "open"

Phases ==
  /\ phase = "steps" => \A n \in Node : pc[n] = "connected"
  /\ phase = "end" => \A n \in Node : pc[n] \in {"connected", "failed"} /\ sock[n] # "open"

IInv == TypeOK /\ Phases /\ \A n \in Node : Handover(n) /\ Fetching(n) /\ Calling(n)

-----------------------------------------------------------------------------
(* closeAll and the error paths leave no socket open.                      *)
NoLeak == /\ phase = "end" => \A n \in Node : sock[n] # "open"
          /\ \A n \in Node : pc[n] = "failed" => sock[n] # "open"

(* A connection handed to the steps stays usable until bounded closes it:  *)
(* neither the watcher nor the connect timeout reaches it any more.        *)
ConnectedIsOpen ==
  \A n \in Node : pc[n] = "connected" /\ phase # "end" /\ ~gaveUp[n] => sock[n] = "open" /\ sshcli[n]

(* node.go:216-217: the operation has ended before its caller reads the    *)
(* buffers it writes to.                                                   *)
NoBufferRace == \A n \in Node : op[n] = "run" => call[n] # "none"

(* What the steps see of the connections is module Sessions.               *)
SessionOf(n) ==
  IF phase = "end" \/ pc[n] = "failed" THEN "over"
  ELSE IF pc[n] # "connected" THEN "connecting"
  ELSE IF sock[n] = "open" THEN "ready" ELSE "broken"

Abstract == INSTANCE Sessions
  WITH state <- [n \in Node |-> SessionOf(n)],
       busy <- {n \in Node : pc[n] = "connected" /\ call[n] # "none"}

(* The connections of a run implement Sessions: no command before every    *)
(* node is connected, none to an ended session, and no session breaks by a *)
(* watcher, a timeout or a sibling - only under a command given up.        *)
ImplementsSessions == Abstract!Spec

(* A cancelled run ends even when no server ever answers and no timeout    *)
(* passes.                                                                 *)
CancelEnds == root ~> phase = "end"

(* A node that cannot be connected ends the connect step: the others do    *)
(* not have to answer or time out.                                         *)
FailureEndsConnect ==
  (phase = "connect" /\ \E n \in Node : pc[n] = "failed") ~> phase = "end"
=============================================================================
