----------------------------- MODULE HostsFile ------------------------------
(***************************************************************************)
(* The edits of a new node's /etc/hosts (app/node/node.go, hostsCommand)   *)
(* and the init step's loop that makes them (app/engine/engine.go).        *)
(*                                                                         *)
(* An edit is one shell command: awk writes the edited file to a temporary *)
(* one, then cat copies it back over the same inode, which truncates first.*)
(* Each part may fail, the host may lose power, and the caller's timeout   *)
(* leaves the command running.  The init step may then be run again, over  *)
(* whatever file is left: init/install.sh (lines 11-14) refuses a host for *)
(* its runtime or kubelet, which come later.  Assumed: the command that a  *)
(* run gave up on has ended when the next run begins (README.MD:112,       *)
(* "Inspect a failed node before retrying").                               *)
(***************************************************************************)
EXTENDS Subsequences

CONSTANTS Name, Address,
          Hosts,      \* the configured nodes: a function from names to addresses
          FirstFiles, \* what /etc/hosts may be when the tool meets the host
          MaxEdits,   \* bound on the edits before the loops
          MaxLoops    \* bound on the runs of the init step

VARIABLES file,   \* of lines: an address, its aliases, what an inline # hides
          tmp,    \* the temporary file
          cmd,    \* the last edit
          pc,     \* of its command: "idle", "awk", "sudo", "cat", "torn", "done"
          caller, \* "edits", "loop" (waits for it), "ok", "failed"
          todo,   \* names the loop has still to add
          edits, loops,
          old,    \* history: the file that cmd found
          first,  \* history: the file that the first loop found
          cut     \* history: a cat has been cut short since then
vars == <<file, tmp, cmd, pc, caller, todo, edits, loops, old, first, cut>>

(* A line of comment has no address and no alias, only hidden words.       *)
Line == [addr : Address \cup {"#"}, names : SUBSET Name, hidden : SUBSET Name]
Edit == [mode : {"add", "replace"}, addr : Address, name : Name]
          \cup [mode : {"remove"}, addr : {""}, name : Name]

ASSUME HostsAssumption ==
  /\ Hosts \in [Name -> Address]
  /\ \A m, n \in Name : Hosts[m] = Hosts[n] => m = n   \* Topology!Distinct
  /\ FirstFiles \subseteq Seq(Line) /\ MaxEdits \in Nat /\ MaxLoops \in Nat

TypeOK ==
  /\ file \in Seq(Line) /\ tmp \in Seq(Line) /\ old \in Seq(Line) /\ first \in Seq(Line)
  /\ cmd \in Edit \cup {<<>>} /\ (pc # "idle" => cmd \in Edit)
  /\ pc \in {"idle", "awk", "sudo", "cat", "torn", "done"}
  /\ caller \in {"edits", "loop", "ok", "failed"}
  /\ todo \subseteq Name /\ edits \in 0..MaxEdits /\ loops \in 0..MaxLoops /\ cut \in BOOLEAN

-----------------------------------------------------------------------------
(* Mutant: comments are searched too.                                      *)
HitsComments(line, name) == name \in line.names \cup line.hidden

Hits(line, name) == name \in line.names

Kept(f, e) == Pick(f, {i \in DOMAIN f : e.mode = "add" \/ ~Hits(f[i], e.name)})
Found(f, e) == \E i \in DOMAIN f : Hits(f[i], e.name)
Entry(e) == << [addr |-> e.addr, names |-> {e.name}, hidden |-> {}] >>

(* Mutant: remove appends.                                                 *)
AwkAppends(f, e) == Kept(f, e) \o IF e.mode = "replace" \/ ~Found(f, e) THEN Entry(e) ELSE <<>>

Awk(f, e) ==
  Kept(f, e) \o IF e.mode = "replace" \/ (e.mode = "add" /\ ~Found(f, e)) THEN Entry(e) ELSE <<>>

Init ==
  /\ file \in FirstFiles /\ tmp = <<>> /\ cmd = <<>> /\ pc = "idle"
  /\ caller = "edits" /\ todo = Name /\ edits = 0 /\ loops = 0
  /\ old = file /\ first = file /\ cut = FALSE

(* No command runs; the last one may have failed or been cut short.        *)
Ready == pc \in {"idle", "done", "torn"}

Start(e) == Ready /\ cmd' = e /\ pc' = "awk" /\ old' = file /\ UNCHANGED <<file, tmp>>

(* Mutant: awk writes to the file that it reads.                           *)
TruncateFirst ==
  /\ pc = "awk" /\ file' = <<>> /\ pc' = "sudo" /\ tmp' = Awk(<<>>, cmd)
  /\ UNCHANGED <<cmd, caller, todo, edits, loops, old, first, cut>>

(* mktemp && awk && sudo sh -c 'cat ...': a failure skips the rest.        *)
RunAwk ==
  /\ pc = "awk" /\ tmp' = Awk(file, cmd) /\ pc' = "sudo"
  /\ UNCHANGED <<file, cmd, caller, todo, edits, loops, old, first, cut>>

Truncate ==
  /\ pc = "sudo" /\ file' = <<>> /\ pc' = "cat"
  /\ UNCHANGED <<tmp, cmd, caller, todo, edits, loops, old, first, cut>>

(* Mutant: the loop goes on after an error.                                *)
ReturnedAnyway(success) ==
  /\ caller' = IF caller = "loop" /\ todo = {} THEN "ok" ELSE caller
  /\ UNCHANGED <<cmd, todo, edits, loops, old, first>>

(* The loop goes on to a name that remains, or is done; edits of their own *)
(* have no successor.                                                      *)
Returned(success) ==
  /\ caller' = IF caller # "loop" THEN caller
               ELSE IF ~success THEN "failed" ELSE IF todo = {} THEN "ok" ELSE "loop"
  /\ UNCHANGED <<cmd, todo, edits, loops, old, first>>

Cat == pc = "cat" /\ file' = tmp /\ pc' = "done" /\ UNCHANGED <<tmp, cut>> /\ Returned(TRUE)

(* What a cut may leave of a line: some of its names, and a word cut short *)
(* that may be the name of another node (node-1 of node-10).               *)
Fragments(line) ==
  {l \in Line : /\ l.addr = line.addr /\ l.hidden = {} /\ (l.addr = "#" => l.names = {})
                /\ \E n \in Name : l.names \ line.names \subseteq {n}}
CutShort(f) ==
  {SubSeq(f, 1, k) : k \in 0..Len(f)}
    \cup UNION {{Append(SubSeq(f, 1, k - 1), l) : l \in Fragments(f[k])} : k \in 1..Len(f)}

Fails ==
  \/ pc \in {"awk", "sudo"} /\ pc' = "idle" /\ UNCHANGED <<file, tmp, cut>> /\ Returned(FALSE)
  \/ /\ pc = "cat" /\ file' \in CutShort(tmp)
     /\ pc' = "torn" /\ cut' = TRUE /\ UNCHANGED tmp /\ Returned(FALSE)

(* The caller gives up on the command, which goes on.                      *)
GiveUp ==
  /\ pc \in {"awk", "sudo", "cat"} /\ caller = "loop" /\ caller' = "failed"
  /\ UNCHANGED <<file, tmp, cmd, pc, todo, edits, loops, old, first, cut>>

EditHosts ==
  /\ caller = "edits" /\ edits < MaxEdits /\ edits' = edits + 1
  /\ \E e \in Edit : Start(e)
  /\ UNCHANGED <<caller, todo, loops, first, cut>>

AddHost(n) == Start([mode |-> "add", addr |-> Hosts[n], name |-> n])

(* The init step: the first, or one that is run again.  A map's order is   *)
(* random.                                                                 *)
BeginLoop ==
  /\ caller # "loop" /\ loops < MaxLoops /\ loops' = loops + 1 /\ caller' = "loop"
  /\ \E n \in Name : AddHost(n) /\ todo' = Name \ {n}
  /\ IF caller = "edits" THEN first' = file /\ cut' = FALSE ELSE UNCHANGED <<first, cut>>
  /\ UNCHANGED edits

Loop ==
  /\ caller = "loop" /\ \E n \in todo : AddHost(n) /\ todo' = todo \ {n}
  /\ UNCHANGED <<caller, edits, loops, first, cut>>

Next == RunAwk \/ Truncate \/ Cat \/ Fails \/ GiveUp \/ EditHosts \/ BeginLoop \/ Loop
Spec == Init /\ [][Next]_vars

-----------------------------------------------------------------------------
Addresses(f, n) == {f[i].addr : i \in {j \in DOMAIN f : n \in f[j].names}}
Others(f, n) == Pick(f, {i \in DOMAIN f : n \notin f[i].names})

(* An edit that completed did what its name says: comments, other lines    *)
(* and their order are kept, and the name has the addresses it must have.  *)
EditCorrect ==
  pc = "done" =>
    LET was == Addresses(old, cmd.name)
    IN  /\ Others(file, cmd.name) = Others(old, cmd.name)
        /\ Addresses(file, cmd.name) = CASE cmd.mode = "remove" -> {}
                                        [] cmd.mode = "replace" -> {cmd.addr}
                                        [] cmd.mode = "add" -> IF was = {} THEN {cmd.addr} ELSE was

(* A failure or a timeout leaves the old file or the new one; only the cat *)
(* of node.go:306 can leave neither.                                       *)
AllOrNothing == pc \notin {"cat", "torn"} => file = old \/ file = Awk(old, cmd)

(* When the init step has succeeded, also over what failed runs have left, *)
(* every node's name is listed.  Its address is the configured one unless  *)
(* the host already knew the name (the loop does not correct a stale       *)
(* address) or a cat has been cut short, which may leave a wrong one.      *)
Wanted(n) == IF Addresses(first, n) = {} THEN {Hosts[n]} ELSE Addresses(first, n)
NamesListed ==
  caller = "ok" => \A n \in Name :
    Addresses(file, n) # {} /\ (~cut => Addresses(file, n) = Wanted(n))

-----------------------------------------------------------------------------
(* Why these hold.  The original is intact until the cat begins, and from  *)
(* the awk on the temporary file is the edited one ...                     *)
InFlight ==
  /\ pc \in {"idle", "awk", "sudo"} => file = old
  /\ pc \in {"sudo", "cat", "torn", "done"} => tmp = Awk(old, cmd)
  /\ pc = "done" => file = tmp

(* ... each run of the loop, which ends at the first failure, has listed   *)
(* the names that it has left behind, and while no cat was cut short every *)
(* name has the addresses it had at first or those it is to have.          *)
Listed(f, names) == \A n \in names : Addresses(f, n) # {}
Sound(f) == \A n \in Name : Addresses(f, n) \in {Addresses(first, n), Wanted(n)}
Looping ==
  /\ caller # "edits" => cmd \in {[mode |-> "add", addr |-> Hosts[n], name |-> n] : n \in Name}
  /\ caller # "edits" /\ ~cut => pc # "torn" /\ Sound(old)
  /\ caller \in {"loop", "ok"} =>
       /\ cmd.name \notin todo
       /\ Listed(old, Name \ (todo \cup {cmd.name}))
       /\ pc # "idle" /\ pc # "torn"
  /\ caller = "ok" => pc = "done" /\ todo = {}

IInv == TypeOK /\ InFlight /\ Looping
=============================================================================
