--------------------------- MODULE SshNodeProofs ----------------------------
(***************************************************************************)
(* The safety of the SSH connections and that they implement Sessions, for *)
(* every set of nodes and number of commands.                              *)
(***************************************************************************)
EXTENDS SshNode, TLAPS

(* The steps that belong to one node.                                      *)
Act(n) ==
  \/ Expire(n) \/ Dial(n) \/ DialFails(n) \/ \E r \in {"ok", "err"} : Handshake(n, r)
  \/ WatcherFires(n) \/ WatcherCloses(n) \/ StopWatcher(n) \/ Check(n) \/ Store(n)
  \/ CallStart(n) \/ OpAnswered(n) \/ OpBroken(n) \/ GiveUp(n) \/ Return(n) \/ FetchRefused(n)

LEMMA NextActs == Next <=> Cancel \/ WaitConnect \/ Finish \/ \E n \in Node : Act(n)
BY DEF Next, Act, Local, Remote

-----------------------------------------------------------------------------
LEMMA InitType == Init => TypeOK
<1> SUFFICES ASSUME Init PROVE TypeOK
  OBVIOUS
<1>1. root \in BOOLEAN /\ group \in BOOLEAN
  BY Zenon DEF Init
<1> QED
  BY <1>1, SshAssumption DEF Init, TypeOK

(* A step of a node changes the run's state by group alone.                *)
LEMMA ActShared ==
  ASSUME NEW n \in Node, Act(n)
  PROVE  phase' = phase /\ root' = root /\ (group' = group \/ group' = TRUE)
BY DEF Act, Expire, Dial, DialFails, Handshake, WatcherFires, WatcherCloses, StopWatcher, Check,
       Store, CallStart, OpAnswered, OpBroken, GiveUp, Return, FetchRefused, ConnectFails

LEMMA ActType ==
  ASSUME TypeOK, NEW n \in Node, Fetching(n), Act(n) PROVE TypeOK'
<1> USE SshAssumption DEF TypeOK
<1>1. CASE Expire(n)
  BY <1>1 DEF Expire, callVars
<1>2. CASE Dial(n)
  BY <1>2 DEF Dial, callVars
<1>3. CASE DialFails(n)
  BY <1>3 DEF DialFails, ConnectFails, callVars
<1>4. ASSUME NEW r \in {"ok", "err"}, Handshake(n, r) PROVE TypeOK'
  BY <1>4 DEF Handshake, callVars
<1>5. CASE WatcherFires(n)
  BY <1>5 DEF WatcherFires, callVars
<1>6. CASE WatcherCloses(n)
  BY <1>6 DEF WatcherCloses, CloseSock, callVars
<1>7. CASE StopWatcher(n)
  BY <1>7 DEF StopWatcher, callVars
<1>8. CASE Check(n)
  <2>1. group' \in BOOLEAN
    BY <1>8, Zenon DEF Check, ConnectFails
  <2>2. pc' \in [Node -> {"dial", "handshake", "check", "store", "fetch", "connected", "failed"}]
    BY <1>8 DEF Check, ConnectFails
  <2>3. sock' \in [Node -> {"none", "open", "closed"}]
    BY <1>8 DEF Check, CloseSock
  <2>4. UNCHANGED <<phase, root, expired, handshake, watcher, fetched, sshcli, callVars, cmds>>
    BY <1>8 DEF Check
  <2> QED
    BY <2>1, <2>2, <2>3, <2>4 DEF callVars
<1>9. CASE Store(n)
  BY <1>9 DEF Store, callVars
<1>10. CASE CallStart(n)
  BY <1>10 DEF CallStart, connectVars
<1>11. CASE OpAnswered(n)
  BY <1>11 DEF OpAnswered, connectVars
<1>12. CASE OpBroken(n)
  BY <1>12 DEF OpBroken, connectVars
<1>13. CASE GiveUp(n)
  BY <1>13 DEF GiveUp, CloseSock, connectVars
<1>14. CASE Return(n)
  <2>1. fetched' \in [Node -> 0..3] /\ pc' \in [Node -> {"dial", "handshake", "check", "store", "fetch", "connected", "failed"}]
    <3>1. CASE pc[n] # "fetch"
      BY <1>14, <3>1 DEF Return
    <3>2. CASE pc[n] = "fetch" /\ call[n] = "select" /\ op[n] = "ok"
      BY <1>14, <3>2 DEF Return, Fetching
    <3>3. CASE pc[n] = "fetch" /\ ~(call[n] = "select" /\ op[n] = "ok")
      BY <1>14, <3>3 DEF Return, ConnectFails
    <3> QED
      BY <3>1, <3>2, <3>3
  <2>2. group' \in BOOLEAN /\ sshcli' \in [Node -> BOOLEAN] /\ sock' \in [Node -> {"none", "open", "closed"}]
    <3>1. group' \in BOOLEAN
      BY <1>14, Zenon DEF Return, ConnectFails
    <3>2. sshcli' \in [Node -> BOOLEAN]
      BY <1>14 DEF Return
    <3>3. sock' \in [Node -> {"none", "open", "closed"}]
      BY <1>14 DEF Return, CloseSock
    <3> QED
      BY <3>1, <3>2, <3>3
  <2>3. /\ UNCHANGED <<phase, root, expired, handshake, watcher, gaveUp, cmds>>
        /\ call' \in [Node -> {"none", "select", "closing"}]
        /\ op' \in [Node -> {"none", "run", "ok", "err"}]
    BY <1>14 DEF Return
  <2> QED
    BY <2>1, <2>2, <2>3
<1>15. CASE FetchRefused(n)
  BY <1>15 DEF FetchRefused, ConnectFails, CloseSock, callVars
<1> QED
  BY <1>1, <1>2, <1>3, <1>4, <1>5, <1>6, <1>7, <1>8, <1>9, <1>10, <1>11, <1>12, <1>13, <1>14, <1>15 DEF Act

LEMMA StepType == IInv /\ [Next]_vars => TypeOK'
<1> SUFFICES ASSUME IInv, [Next]_vars PROVE TypeOK'
  OBVIOUS
<1>0. TypeOK
  BY DEF IInv
<1>1. CASE Cancel
  <2>1. root' \in BOOLEAN
    BY <1>1, Zenon DEF Cancel
  <2> QED
    BY <1>0, <1>1, <2>1 DEF Cancel, connectVars, callVars, TypeOK
<1>2. CASE WaitConnect
  <2>1. CASE UNCHANGED <<sock, sshcli>> /\ phase' = "steps"
    BY <1>0, <1>2, <2>1 DEF WaitConnect, connectVars, callVars, TypeOK
  <2>2. CASE CloseAll
    BY <1>0, <1>2, <2>2 DEF WaitConnect, CloseAll, connectVars, callVars, TypeOK
  <2> QED
    BY <1>2, <2>1, <2>2 DEF WaitConnect
<1>3. CASE Finish
  BY <1>0, <1>3 DEF Finish, CloseAll, connectVars, callVars, TypeOK
<1>4. CASE UNCHANGED vars
  BY <1>0, <1>4 DEF vars, connectVars, callVars, TypeOK
<1> QED
  BY <1>0, <1>1, <1>2, <1>3, <1>4, ActType, NextActs DEF IInv

-----------------------------------------------------------------------------
(* A step of another node leaves a node's part of the invariant alone: the *)
(* contexts only end, they do not begin again.                             *)
LEMMA ActOther ==
  ASSUME TypeOK, NEW n \in Node, Act(n), NEW m \in Node, m # n,
         Handover(m), Fetching(m), Calling(m)
  PROVE  Handover(m)' /\ Fetching(m)' /\ Calling(m)'
<1>1. /\ pc'[m] = pc[m] /\ expired'[m] = expired[m] /\ handshake'[m] = handshake[m]
      /\ watcher'[m] = watcher[m] /\ sock'[m] = sock[m] /\ sshcli'[m] = sshcli[m]
      /\ call'[m] = call[m] /\ op'[m] = op[m] /\ fetched'[m] = fetched[m] /\ gaveUp'[m] = gaveUp[m]
  BY DEF TypeOK, Act, Expire, Dial, DialFails, Handshake, WatcherFires, WatcherCloses, StopWatcher, Check,
         Store, CallStart, OpAnswered, OpBroken, GiveUp, Return, FetchRefused, ConnectFails,
         CloseSock, connectVars, callVars
<1>2. CtxDone(m) => CtxDone(m)'
  BY <1>1, ActShared DEF CtxDone, ParentDone
<1>3. Handover(m)'
  BY <1>1, <1>2 DEF Handover
<1> QED
  BY <1>1, <1>3, ActShared DEF Fetching, Calling

(* A step of a node keeps its own part.                                    *)
LEMMA ActSelf ==
  ASSUME TypeOK, Phases, NEW n \in Node, Act(n), Handover(n), Fetching(n), Calling(n)
  PROVE  Handover(n)' /\ Fetching(n)' /\ Calling(n)'
<1> USE DEF TypeOK, Phases, Handover, Fetching, Calling, CtxDone, ParentDone
<1>1. CASE Expire(n)
  BY <1>1 DEF Expire, callVars
<1>2. CASE Dial(n)
  BY <1>2 DEF Dial, callVars
<1>3. CASE DialFails(n)
  BY <1>3 DEF DialFails, ConnectFails, callVars
<1>4. ASSUME NEW r \in {"ok", "err"}, Handshake(n, r) PROVE Handover(n)' /\ Fetching(n)' /\ Calling(n)'
  BY <1>4 DEF Handshake, callVars
<1>5. CASE WatcherFires(n)
  BY <1>5 DEF WatcherFires, callVars
<1>6. CASE WatcherCloses(n)
  BY <1>6 DEF WatcherCloses, CloseSock, callVars
<1>7. CASE StopWatcher(n)
  BY <1>7 DEF StopWatcher, callVars
<1>8. CASE Check(n)
  BY <1>8 DEF Check, ConnectFails, CloseSock, callVars
<1>9. CASE Store(n)
  BY <1>9 DEF Store, callVars
<1>10. CASE CallStart(n)
  BY <1>10 DEF CallStart, connectVars
<1>11. CASE OpAnswered(n)
  BY <1>11 DEF OpAnswered, connectVars
<1>12. CASE OpBroken(n)
  BY <1>12 DEF OpBroken, connectVars
<1>13. CASE GiveUp(n)
  BY <1>13 DEF GiveUp, CloseSock, connectVars
<1>14. CASE Return(n)
  <2>1. UNCHANGED <<phase, root, expired, handshake, watcher, gaveUp>> /\ call'[n] = "none" /\ op'[n] = "none"
    BY <1>14 DEF Return
  <2>2. CASE pc[n] # "fetch"
    BY <1>14, <2>1, <2>2 DEF Return
  <2>3. CASE pc[n] = "fetch" /\ call[n] = "select" /\ op[n] = "ok"
    BY <1>14, <2>1, <2>3 DEF Return
  <2>4. CASE pc[n] = "fetch" /\ ~(call[n] = "select" /\ op[n] = "ok")
    <3>1. pc'[n] = "failed" /\ sock'[n] # "open" /\ handshake[n] # "pending" /\ watcher[n] \notin {"armed", "fired"}
      BY <1>14, <2>4 DEF Return, ConnectFails, CloseSock
    <3>2. sshcli'[n] = FALSE
      BY <1>14, <2>4 DEF Return
    <3> QED
      BY <2>1, <3>1, <3>2
  <2> QED
    BY <2>2, <2>3, <2>4
<1>15. CASE FetchRefused(n)
  BY <1>15 DEF FetchRefused, ConnectFails, CloseSock, callVars
<1> QED
  BY <1>1, <1>2, <1>3, <1>4, <1>5, <1>6, <1>7, <1>8, <1>9, <1>10, <1>11, <1>12, <1>13, <1>14, <1>15 DEF Act

(* Once all are connected no node goes back; after closeAll none reopens.  *)
LEMMA ActPhases ==
  ASSUME TypeOK, Phases, NEW n \in Node, Act(n), Handover(n), Calling(n)
  PROVE  Phases'
<1>1. ASSUME pc[n] \in {"connected", "failed"}
      PROVE  pc' = pc /\ (sock[n] # "open" => sock' = sock)
  BY <1>1 DEF Act, TypeOK, Handover, Calling, Expire, Dial, DialFails, Handshake, WatcherFires, WatcherCloses,
     StopWatcher, Check, Store, CallStart, OpAnswered, OpBroken, GiveUp, Return, FetchRefused,
     CloseSock, Connecting, connectVars
<1> QED
  BY <1>1, ActShared DEF Phases

(* The initial states satisfy the invariant.                               *)
LEMMA InitInv == Init => IInv
<1> SUFFICES ASSUME Init PROVE IInv
  OBVIOUS
<1>1. Phases
  BY DEF Init, Phases
<1>2. ASSUME NEW n \in Node PROVE Handover(n) /\ Fetching(n) /\ Calling(n)
  <2>1. /\ pc[n] = "dial" /\ handshake[n] = "none" /\ watcher[n] = "none" /\ sock[n] = "none"
        /\ call[n] = "none" /\ op[n] = "none" /\ fetched[n] = 0 /\ phase = "connect"
    BY DEF Init
  <2>2. sshcli[n] = FALSE
    BY DEF Init
  <2>3. sshcli[n] = (pc[n] \in {"fetch", "connected"} /\ phase # "end")
    <3>1. pc[n] \notin {"fetch", "connected"}
      BY <2>1
    <3> QED
      BY <2>2, <3>1, Zenon
  <2>4. Handover(n) /\ Fetching(n)
    BY <2>1 DEF Handover, Fetching
  <2> QED
    BY <2>1, <2>3, <2>4 DEF Calling
<1> QED
  BY <1>1, <1>2, InitType DEF IInv

(* closeAll closes what is stored, and nothing else is open by then.       *)
LEMMA CloseAllInv ==
  ASSUME IInv, CloseAll, \A n \in Node : pc[n] \in {"connected", "failed"} /\ call[n] = "none",
         UNCHANGED <<root, group, connectVars, callVars, cmds>>
  PROVE  Phases' /\ \A n \in Node : Handover(n)' /\ Fetching(n)' /\ Calling(n)'
<1> USE DEF IInv, TypeOK
<1>1. ASSUME NEW n \in Node PROVE sock'[n] # "open" /\ sshcli'[n] = FALSE
  BY <1>1 DEF CloseAll, Calling, Phases
<1>2. phase' = "end" /\ UNCHANGED <<pc, handshake, watcher, fetched, call, op>>
  BY DEF CloseAll, connectVars, callVars
<1>3. ASSUME NEW n \in Node PROVE Handover(n)' /\ Fetching(n)' /\ Calling(n)'
  BY <1>1, <1>2, <1>3 DEF Handover, Fetching, Calling
<1> QED
  BY <1>1, <1>2, <1>3 DEF Phases

(* A node's part depends on the contexts only through what has ended.      *)
LEMMA UnchangedPart ==
  ASSUME NEW n \in Node, Handover(n), Fetching(n), Calling(n),
         root' = TRUE \/ root' = root,
         UNCHANGED <<phase, group, pc, expired, handshake, watcher, fetched, sock, sshcli, call, op, gaveUp>>
  PROVE  Handover(n)' /\ Fetching(n)' /\ Calling(n)'
<1>1. CtxDone(n) => CtxDone(n)'
  BY DEF CtxDone, ParentDone
<1> QED
  BY <1>1 DEF Handover, Fetching, Calling

(* Every step keeps the invariant.                                         *)
LEMMA StepInv == IInv /\ [Next]_vars => IInv'
<1> DEFINE Part(n) == Handover(n) /\ Fetching(n) /\ Calling(n)
<1> SUFFICES ASSUME IInv, [Next]_vars PROVE Phases' /\ \A n \in Node : Part(n)'
  BY StepType DEF IInv
<1>0. TypeOK /\ Phases /\ \A n \in Node : Part(n)
  BY DEF IInv
<1>1. ASSUME NEW n \in Node, Act(n) PROVE Phases' /\ \A m \in Node : Part(m)'
  <2>1. Phases'
    BY <1>0, <1>1, ActPhases
  <2>2. Part(n)'
    BY <1>0, <1>1, ActSelf
  <2>3. ASSUME NEW m \in Node, m # n PROVE Part(m)'
    BY <1>0, <1>1, <2>3, ActOther
  <2> QED
    BY <2>1, <2>2, <2>3
<1>2. CASE Cancel
  <2>1. root' = TRUE /\ UNCHANGED <<phase, group, pc, expired, handshake, watcher, fetched, sock, sshcli, call, op, gaveUp>>
    BY <1>2 DEF Cancel, connectVars, callVars
  <2>2. ASSUME NEW n \in Node PROVE Part(n)'
    BY <1>0, <2>1, UnchangedPart
  <2>3. Phases'
    BY <1>0, <2>1 DEF Phases
  <2> QED
    BY <2>2, <2>3
<1>3. CASE WaitConnect
  <2>0. UNCHANGED <<root, group, connectVars, callVars, cmds>>
    BY <1>3 DEF WaitConnect
  <2>1. CASE phase' = "steps" /\ UNCHANGED <<sock, sshcli>> /\ ~\E n \in Node : pc[n] = "failed"
    <3>1. /\ phase = "connect" /\ UNCHANGED <<pc, expired, handshake, watcher, fetched, sock, sshcli, call, op, gaveUp>>
          /\ \A n \in Node : pc[n] = "connected"
      BY <1>3, <2>0, <2>1 DEF WaitConnect, connectVars, callVars
    <3>2. ASSUME NEW n \in Node PROVE Part(n)'
      BY <1>0, <2>1, <3>1 DEF Handover, Fetching, Calling
    <3>3. Phases'
      BY <2>1, <3>1 DEF Phases
    <3> QED
      BY <3>2, <3>3
  <2>2. CASE CloseAll /\ \E n \in Node : pc[n] = "failed"
    <3>1. \A n \in Node : pc[n] \in {"connected", "failed"} /\ call[n] = "none"
      BY <1>0, <1>3 DEF WaitConnect, Calling
    <3> QED
      BY <2>0, <2>2, <3>1, CloseAllInv
  <2> QED
    BY <1>3, <2>1, <2>2 DEF WaitConnect
<1>4. CASE Finish
  <2>1. CloseAll /\ UNCHANGED <<root, group, connectVars, callVars, cmds>>
    BY <1>4 DEF Finish
  <2>2. \A n \in Node : pc[n] \in {"connected", "failed"} /\ call[n] = "none"
    BY <1>0, <1>4 DEF Finish, Phases
  <2> QED
    BY <2>1, <2>2, CloseAllInv
<1>5. CASE UNCHANGED vars
  <2>1. UNCHANGED <<phase, root, group, pc, expired, handshake, watcher, fetched, sock, sshcli, call, op, gaveUp>>
    BY <1>5 DEF vars, connectVars, callVars
  <2>2. ASSUME NEW n \in Node PROVE Part(n)'
    BY <1>0, <2>1, UnchangedPart
  <2>3. Phases'
    BY <1>0, <2>1 DEF Phases
  <2> QED
    BY <2>2, <2>3
<1> QED
  BY <1>1, <1>2, <1>3, <1>4, <1>5, NextActs

(* Every reachable state satisfies the invariant.                          *)
THEOREM Inv == Spec => []IInv
  BY InitInv, StepInv, PTL DEF Spec

(* Type correctness.                                                       *)
THEOREM TypeCorrect == Spec => []TypeOK
<1>1. IInv => TypeOK
  BY DEF IInv
<1> QED
  BY <1>1, Inv, PTL

(* No path of ConnectContext and no end of a run leaves a socket open.     *)
THEOREM NothingLeaks == Spec => []NoLeak
<1>1. IInv => NoLeak
  BY DEF IInv, NoLeak, Phases, Calling
<1> QED
  BY <1>1, Inv, PTL

(* A connection the steps use is open until a command on it is given up.   *)
THEOREM StaysOpen == Spec => []ConnectedIsOpen
<1>1. IInv => ConnectedIsOpen
  BY DEF IInv, TypeOK, ConnectedIsOpen, Calling
<1> QED
  BY <1>1, Inv, PTL

(* No caller reads a buffer that an operation still writes.                *)
THEOREM NoRace == Spec => []NoBufferRace
<1>1. IInv => NoBufferRace
  BY DEF IInv, NoBufferRace, Calling
<1> QED
  BY <1>1, Inv, PTL

-----------------------------------------------------------------------------
(* The connections of a run implement Sessions.                            *)
Busy(n) == pc[n] = "connected" /\ call[n] # "none"

(* What a step of a node may do to its session.                            *)
Session(n) ==
  \/ SessionOf(n)' = SessionOf(n) /\ (Busy(n)' <=> Busy(n))
  \/ /\ SessionOf(n) = "connecting" /\ SessionOf(n)' \in {"ready", "over"}
     /\ ~Busy(n) /\ ~Busy(n)'
  \/ /\ SessionOf(n)' = SessionOf(n) /\ ~Busy(n) /\ Busy(n)'
     /\ \A m \in Node : pc[m] = "connected" /\ phase = "steps"
  \/ SessionOf(n)' = SessionOf(n) /\ Busy(n) /\ ~Busy(n)'
  \/ SessionOf(n) = "ready" /\ SessionOf(n)' = "broken" /\ Busy(n) /\ Busy(n)'

LEMMA ActSession ==
  ASSUME IInv, NEW n \in Node, Act(n) PROVE Session(n)
<1> USE DEF Session, SessionOf, Busy
<1>0. TypeOK /\ Phases /\ Handover(n) /\ Fetching(n) /\ Calling(n) /\ phase' = phase
  BY ActShared DEF IInv
<1>1. CASE Expire(n)
  BY <1>0, <1>1 DEF Expire, callVars
<1>2. CASE Dial(n)
  BY <1>0, <1>2 DEF Dial, callVars, TypeOK
<1>3. CASE DialFails(n)
  BY <1>0, <1>3 DEF DialFails, ConnectFails, callVars, TypeOK, Phases
<1>4. ASSUME NEW r \in {"ok", "err"}, Handshake(n, r) PROVE Session(n)
  BY <1>0, <1>4 DEF Handshake, callVars
<1>5. CASE WatcherFires(n)
  BY <1>0, <1>5 DEF WatcherFires, callVars
<1>6. CASE WatcherCloses(n)
  BY <1>0, <1>6 DEF WatcherCloses, callVars, Handover, Phases
<1>7. CASE StopWatcher(n)
  BY <1>0, <1>7 DEF StopWatcher, callVars, TypeOK, Phases
<1>8. CASE Check(n)
  BY <1>0, <1>8 DEF Check, ConnectFails, callVars, TypeOK, Phases
<1>9. CASE Store(n)
  BY <1>0, <1>9 DEF Store, callVars, TypeOK, Phases
<1>10. CASE CallStart(n)
  BY <1>0, <1>10 DEF CallStart, connectVars, TypeOK, Phases
<1>11. CASE OpAnswered(n)
  BY <1>0, <1>11 DEF OpAnswered, connectVars
<1>12. CASE OpBroken(n)
  BY <1>0, <1>12 DEF OpBroken, connectVars
<1>13. CASE GiveUp(n)
  BY <1>0, <1>13 DEF GiveUp, CloseSock, connectVars, TypeOK, Phases, Calling
<1>14. CASE Return(n)
  <2>1. call'[n] = "none" /\ call[n] # "none" /\ phase # "end"
    BY <1>0, <1>14 DEF Return, TypeOK, Calling, Phases
  <2>2. CASE pc[n] # "fetch"
    BY <1>0, <1>14, <2>1, <2>2 DEF Return, Calling, Phases
  <2>3. CASE pc[n] = "fetch" /\ call[n] = "select" /\ op[n] = "ok"
    <3>1. pc'[n] \in {"fetch", "connected"} /\ sock' = sock /\ sock[n] = "open"
      BY <1>0, <1>14, <2>3 DEF Return, TypeOK, Calling
    <3> QED
      BY <1>0, <2>1, <2>3, <3>1
  <2>4. CASE pc[n] = "fetch" /\ ~(call[n] = "select" /\ op[n] = "ok")
    <3>1. pc'[n] = "failed"
      BY <1>0, <1>14, <2>4 DEF Return, ConnectFails, TypeOK
    <3> QED
      BY <1>0, <2>1, <2>4, <3>1
  <2> QED
    BY <2>2, <2>3, <2>4
<1>15. CASE FetchRefused(n)
  BY <1>0, <1>15 DEF FetchRefused, ConnectFails, callVars, TypeOK, Phases
<1> QED
  BY <1>1, <1>2, <1>3, <1>4, <1>5, <1>6, <1>7, <1>8, <1>9, <1>10, <1>11, <1>12, <1>13, <1>14, <1>15 DEF Act

(* A step of one node is a step of its session or a stutter.               *)
LEMMA ActRefines ==
  ASSUME IInv, NEW n \in Node, Act(n) PROVE [Abstract!Next]_(Abstract!vars)
<1> DEFINE state == [m \in Node |-> SessionOf(m)]
           busy == {m \in Node : pc[m] = "connected" /\ call[m] # "none"}
<1>1. ASSUME NEW m \in Node, m # n
      PROVE  pc'[m] = pc[m] /\ sock'[m] = sock[m] /\ call'[m] = call[m]
  BY <1>1 DEF IInv, TypeOK, Act, Expire, Dial, DialFails, Handshake, WatcherFires, WatcherCloses, StopWatcher,
     Check, Store, CallStart, OpAnswered, OpBroken, GiveUp, Return, FetchRefused, ConnectFails,
     CloseSock, connectVars, callVars
<1>2. phase' = phase
  BY ActShared
<1>3. ASSUME NEW m \in Node, m # n
      PROVE  state'[m] = state[m] /\ (m \in busy' <=> m \in busy)
  BY <1>1, <1>2, <1>3 DEF SessionOf
<1>4. Session(n)
  BY ActSession
<1>5. state[n] = SessionOf(n) /\ state'[n] = SessionOf(n)'
  BY DEF SessionOf
<1>6. (n \in busy <=> Busy(n)) /\ (n \in busy' <=> Busy(n)')
  BY DEF Busy
<1>7. state' = [state EXCEPT ![n] = SessionOf(n)']
  BY <1>3, <1>5
<1>8. CASE SessionOf(n)' = SessionOf(n) /\ (Busy(n)' <=> Busy(n))
  BY <1>3, <1>5, <1>6, <1>7, <1>8 DEF Abstract!vars
<1>9. CASE SessionOf(n) = "connecting" /\ SessionOf(n)' \in {"ready", "over"} /\ ~Busy(n) /\ ~Busy(n)'
  <2>1. busy' = busy
    BY <1>3, <1>6, <1>9
  <2> QED
    BY <1>5, <1>7, <1>9, <2>1 DEF Abstract!Next, Abstract!Open, Abstract!Refuse, Abstract!Become
<1>10. CASE /\ SessionOf(n)' = SessionOf(n) /\ ~Busy(n) /\ Busy(n)'
            /\ \A m \in Node : pc[m] = "connected" /\ phase = "steps"
  <2>1. busy' = busy \cup {n} /\ n \notin busy
    BY <1>3, <1>6, <1>10
  <2>2. state' = state
    BY <1>5, <1>7, <1>10
  <2>3. \A m \in Node : state[m] \in {"ready", "broken"}
    BY <1>10 DEF SessionOf
  <2> QED
    BY <2>1, <2>2, <2>3 DEF Abstract!Next, Abstract!Call
<1>11. CASE SessionOf(n)' = SessionOf(n) /\ Busy(n) /\ ~Busy(n)'
  <2>1. busy' = busy \ {n} /\ n \in busy
    BY <1>3, <1>6, <1>11
  <2>2. state' = state
    BY <1>5, <1>7, <1>11
  <2> QED
    BY <2>1, <2>2 DEF Abstract!Next, Abstract!Reply
<1>12. CASE SessionOf(n) = "ready" /\ SessionOf(n)' = "broken" /\ Busy(n) /\ Busy(n)'
  <2>1. busy' = busy /\ n \in busy
    BY <1>3, <1>6, <1>12
  <2> QED
    BY <1>5, <1>7, <1>12, <2>1 DEF Abstract!Next, Abstract!GiveUp, Abstract!Become
<1> QED
  BY <1>4, <1>8, <1>9, <1>10, <1>11, <1>12 DEF Session

(* closeAll ends every session.                                            *)
LEMMA CloseAllRefines ==
  ASSUME CloseAll, UNCHANGED <<pc, call>>,
         \A n \in Node : pc[n] \in {"connected", "failed"} /\ call[n] = "none"
  PROVE  Abstract!Next
<1>1. [n \in Node |-> SessionOf(n)]' = [n \in Node |-> "over"]
  BY DEF CloseAll, SessionOf
<1>2. \A n \in Node : SessionOf(n) # "connecting"
  BY DEF SessionOf
<1>3. {n \in Node : pc[n] = "connected" /\ call[n] # "none"} = {}
  OBVIOUS
<1>4. {n \in Node : pc[n] = "connected" /\ call[n] # "none"}' = {}
  OBVIOUS
<1> QED
  BY <1>1, <1>2, <1>3, <1>4 DEF Abstract!Next, Abstract!End

(* Every step of a run is a step of its sessions or a stutter.             *)
LEMMA StepRefines == IInv /\ [Next]_vars => [Abstract!Next]_(Abstract!vars)
<1> SUFFICES ASSUME IInv, [Next]_vars PROVE [Abstract!Next]_(Abstract!vars)
  OBVIOUS
<1>1. ASSUME NEW n \in Node, Act(n) PROVE [Abstract!Next]_(Abstract!vars)
  BY <1>1, ActRefines
<1>2. ASSUME UNCHANGED <<phase, pc, sock, call>> PROVE UNCHANGED (Abstract!vars)
  BY <1>2 DEF Abstract!vars, SessionOf
<1>3. CASE Cancel
  BY <1>2, <1>3 DEF Cancel, connectVars, callVars
<1>4. CASE WaitConnect
  <2>1. UNCHANGED <<pc, call>> /\ phase = "connect" /\ \A n \in Node : pc[n] \in {"connected", "failed"}
    BY <1>4 DEF WaitConnect, connectVars, callVars
  <2>2. \A n \in Node : call[n] = "none"
    BY <2>1 DEF IInv, Calling
  <2>3. CASE CloseAll
    BY <2>1, <2>2, <2>3, CloseAllRefines
  <2>4. CASE phase' = "steps" /\ UNCHANGED <<sock, sshcli>>
    BY <2>1, <2>4 DEF Abstract!vars, SessionOf
  <2> QED
    BY <1>4, <2>3, <2>4 DEF WaitConnect
<1>5. CASE Finish
  <2>1. UNCHANGED <<pc, call>> /\ CloseAll
    BY <1>5 DEF Finish, connectVars, callVars
  <2>2. \A n \in Node : pc[n] \in {"connected", "failed"} /\ call[n] = "none"
    BY <1>5 DEF Finish, IInv, Phases
  <2> QED
    BY <2>1, <2>2, CloseAllRefines
<1>6. CASE UNCHANGED vars
  BY <1>2, <1>6 DEF vars, connectVars, callVars
<1> QED
  BY <1>1, <1>3, <1>4, <1>5, <1>6, NextActs

(* Nothing is connected and no command is under way initially.             *)
LEMMA InitRefines == Init => Abstract!Init
BY DEF Init, Abstract!Init, SessionOf

(* The connections, their watchers, contexts and goroutines do what        *)
(* Sessions says of them, for every set of nodes.                          *)
THEOREM SessionsImplemented == Spec => ImplementsSessions
<1>1. IInv /\ [Next]_vars => [Abstract!Next]_(Abstract!vars)
  BY StepRefines
<1> QED
  BY <1>1, InitRefines, Inv, PTL DEF Spec, ImplementsSessions, Abstract!Spec
=============================================================================
