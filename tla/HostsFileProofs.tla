-------------------------- MODULE HostsFileProofs --------------------------
(***************************************************************************)
(* EditCorrect, AllOrNothing and NamesListed for every /etc/hosts, every   *)
(* set of configured nodes, any number of edits before the init step and   *)
(* any number of its runs, cut short anywhere.                             *)
(***************************************************************************)
EXTENDS HostsFile, SequenceProofs

LEMMA EntryFacts ==
  ASSUME NEW e \in Edit, e.mode # "remove"
  PROVE  /\ Entry(e) \in Seq(Line) /\ DOMAIN Entry(e) = {1} /\ Len(Entry(e)) = 1
         /\ Entry(e)[1].names = {e.name} /\ Entry(e)[1].addr = e.addr
<1>1. e.addr \in Address /\ e.name \in Name
  BY DEF Edit
<1>2. [addr |-> e.addr, names |-> {e.name}, hidden |-> {}] \in Line
  BY <1>1 DEF Line
<1> HIDE DEF Line
<1> QED
  BY <1>2 DEF Entry

(* A file with one line more.                                              *)
LEMMA Appended ==
  ASSUME NEW f \in Seq(Line), NEW e \in Edit, e.mode # "remove"
  PROVE  LET g == f \o Entry(e)
         IN  /\ g \in Seq(Line) /\ Len(f) \in Nat
             /\ DOMAIN f = 1..Len(f) /\ DOMAIN g = DOMAIN f \cup {Len(f) + 1}
             /\ \A i \in DOMAIN f : g[i] = f[i] /\ i # Len(f) + 1
             /\ g[Len(f) + 1].names = {e.name} /\ g[Len(f) + 1].addr = e.addr
<1>1. /\ Entry(e) \in Seq(Line) /\ DOMAIN Entry(e) = {1} /\ Len(Entry(e)) = 1
      /\ Entry(e)[1].names = {e.name} /\ Entry(e)[1].addr = e.addr
  BY EntryFacts
<1> HIDE DEF Line
<1> DEFINE g == f \o Entry(e)
<1> HIDE DEF Entry
<1>a. /\ g \in Seq(Line) /\ Len(g) = Len(f) + 1 /\ Len(f) \in Nat
      /\ \A i \in 1..(Len(f) + 1) : g[i] = IF i <= Len(f) THEN f[i] ELSE Entry(e)[i - Len(f)]
  <2> DEFINE h == Entry(e)
  <2> HIDE DEF h
  <2>1. h \in Seq(Line)
    BY <1>1 DEF h
  <2>2. /\ f \o h \in Seq(Line) /\ Len(f \o h) = Len(f) + Len(h) /\ Len(f) \in Nat
        /\ \A i \in 1..(Len(f) + Len(h)) : (f \o h)[i] = IF i <= Len(f) THEN f[i] ELSE h[i - Len(f)]
    BY <2>1, ConcatProperties
  <2> QED
    BY <1>1, <2>2 DEF h
<1>b. DOMAIN f = 1..Len(f) /\ \A h \in Seq(Line) : DOMAIN h = 1..Len(h)
  OBVIOUS
<1>2. /\ g \in Seq(Line) /\ Len(f) \in Nat /\ DOMAIN f = 1..Len(f)
      /\ DOMAIN g = 1..(Len(f) + 1)
      /\ \A i \in 1..Len(f) : g[i] = f[i]
      /\ g[Len(f) + 1] = Entry(e)[1]
  <2> HIDE DEF g
  <2>1. (Len(f) + 1) - Len(f) = 1 /\ Len(f) + 1 \in 1..(Len(f) + 1) /\ ~(Len(f) + 1 <= Len(f))
    BY <1>a
  <2>2. \A i \in 1..Len(f) : i \in 1..(Len(f) + 1) /\ i <= Len(f)
    BY <1>a
  <2>3. g[Len(f) + 1] = Entry(e)[1]
    BY <1>a, <2>1
  <2> QED
    BY <1>a, <1>b, <2>2, <2>3
<1> HIDE DEF g
<1>3. 1..(Len(f) + 1) = (1..Len(f)) \cup {Len(f) + 1} /\ \A i \in 1..Len(f) : i # Len(f) + 1
  BY <1>2
<1>4. /\ DOMAIN g = DOMAIN f \cup {Len(f) + 1}
      /\ \A i \in DOMAIN f : g[i] = f[i] /\ i # Len(f) + 1
  BY <1>2, <1>3
<1>5. g[Len(f) + 1].names = {e.name} /\ g[Len(f) + 1].addr = e.addr
  BY <1>1, <1>2
<1> QED
  BY <1>2, <1>4, <1>5 DEF g

(* Nothing but the lines of the name changes when a line of the name is    *)
(* appended.                                                               *)
LEMMA OthersAppended ==
  ASSUME NEW f \in Seq(Line), NEW e \in Edit, e.mode # "remove",
         \A i \in DOMAIN f : e.name \notin f[i].names
  PROVE  Others(f \o Entry(e), e.name) = f
<1> DEFINE g == f \o Entry(e)
<1>1. /\ g \in Seq(Line) /\ DOMAIN g = DOMAIN f \cup {Len(f) + 1}
      /\ \A i \in DOMAIN f : g[i] = f[i] /\ i # Len(f) + 1
      /\ g[Len(f) + 1].names = {e.name}
  BY Appended
<1>2. {i \in DOMAIN g : e.name \notin g[i].names} = DOMAIN f
  BY <1>1
<1> HIDE DEF g
<1>3. Pick(g, DOMAIN f) = f
  BY <1>1, PickInitial
<1> QED
  BY <1>2, <1>3 DEF Others, g

LEMMA OthersAll ==
  ASSUME NEW f \in Seq(Line), NEW n, \A i \in DOMAIN f : n \notin f[i].names
  PROVE  Others(f, n) = f
<1>1. {i \in DOMAIN f : n \notin f[i].names} = DOMAIN f
  OBVIOUS
<1>2. Pick(f, DOMAIN f) = f
  BY PickInitial
<1> QED
  BY <1>1, <1>2 DEF Others

(* What awk keeps of a file: all of it to add a name, else the lines that  *)
(* do not have the name, in their order.                                   *)
LEMMA KeptFacts ==
  ASSUME NEW f \in Seq(Line), NEW e
  PROVE  /\ Kept(f, e) \in Seq(Line)
         /\ e.mode = "add" => Kept(f, e) = f
         /\ e.mode # "add" => /\ Kept(f, e) = Others(f, e.name)
                              /\ \A i \in DOMAIN Kept(f, e) : e.name \notin Kept(f, e)[i].names
<1> DEFINE K == {i \in DOMAIN f : e.mode = "add" \/ ~Hits(f[i], e.name)}
<1>1. K \subseteq DOMAIN f
  OBVIOUS
<1>2. Kept(f, e) = Pick(f, K)
  BY DEF Kept
<1>3. ASSUME e.mode = "add" PROVE K = DOMAIN f
  BY <1>3
<1>4. ASSUME e.mode # "add" PROVE K = {i \in DOMAIN f : e.name \notin f[i].names}
  BY <1>4 DEF Hits
<1> HIDE DEF K
<1>5. /\ Pick(f, K) \in Seq(Line) /\ DOMAIN Pick(f, K) = 1..Cardinality(K)
      /\ \A k \in 1..Cardinality(K) : Nth(K, k) \in K /\ Pick(f, K)[k] = f[Nth(K, k)]
  BY <1>1, PickType
<1>6. Pick(f, DOMAIN f) = f
  BY PickInitial
<1>7. ASSUME e.mode # "add" PROVE \A i \in DOMAIN Pick(f, K) : e.name \notin Pick(f, K)[i].names
  BY <1>4, <1>5, <1>7
<1> QED
  BY <1>2, <1>3, <1>4, <1>5, <1>6, <1>7 DEF Others

(* The addresses of a name when a line for another name, or for itself, is *)
(* appended.                                                               *)
LEMMA AddressesAppended ==
  ASSUME NEW f \in Seq(Line), NEW e \in Edit, e.mode # "remove", NEW n
  PROVE  Addresses(f \o Entry(e), n) = Addresses(f, n) \cup IF n = e.name THEN {e.addr} ELSE {}
<1> DEFINE g == f \o Entry(e)
           l == Len(f) + 1
<1>1. /\ DOMAIN g = DOMAIN f \cup {l}
      /\ \A i \in DOMAIN f : g[i] = f[i]
      /\ g[l].names = {e.name} /\ g[l].addr = e.addr
  BY Appended
<1> HIDE DEF g, l
<1>2. CASE n = e.name
  <2>1. {j \in DOMAIN g : n \in g[j].names} = {j \in DOMAIN f : n \in f[j].names} \cup {l}
    BY <1>1, <1>2
  <2>2. Addresses(g, n) = {g[i].addr : i \in {j \in DOMAIN f : n \in f[j].names}} \cup {g[l].addr}
    BY <2>1 DEF Addresses
  <2>3. \A i \in {j \in DOMAIN f : n \in f[j].names} : g[i] = f[i]
    BY <1>1
  <2> QED
    BY <1>1, <1>2, <2>2, <2>3 DEF Addresses, g
<1>3. CASE n # e.name
  <2>1. {j \in DOMAIN g : n \in g[j].names} = {j \in DOMAIN f : n \in f[j].names}
    BY <1>1, <1>3
  <2>2. \A i \in {j \in DOMAIN f : n \in f[j].names} : g[i] = f[i]
    BY <1>1
  <2> QED
    BY <1>3, <2>1, <2>2 DEF Addresses, g
<1> QED
  BY <1>2, <1>3

(* What an edit makes of any file.                                         *)
THEOREM AwkFacts ==
  ASSUME NEW f \in Seq(Line), NEW e \in Edit
  PROVE  /\ Awk(f, e) \in Seq(Line)
         /\ Others(Awk(f, e), e.name) = Others(f, e.name)
         /\ e.mode = "remove" => Addresses(Awk(f, e), e.name) = {}
         /\ e.mode = "replace" => Addresses(Awk(f, e), e.name) = {e.addr}
         /\ e.mode = "add" =>
              /\ \A n : n # e.name => Addresses(Awk(f, e), n) = Addresses(f, n)
              /\ Addresses(Awk(f, e), e.name) =
                   IF Addresses(f, e.name) = {} THEN {e.addr} ELSE Addresses(f, e.name)
<1>1. /\ Kept(f, e) \in Seq(Line)
      /\ e.mode = "add" => Kept(f, e) = f
      /\ e.mode # "add" => /\ Kept(f, e) = Others(f, e.name)
                           /\ \A i \in DOMAIN Kept(f, e) : e.name \notin Kept(f, e)[i].names
  BY KeptFacts
<1>2. e.mode \in {"add", "replace", "remove"}
  BY DEF Edit
<1>3. \A g \in Seq(Line) : g \o <<>> = g
  BY ConcatEmptySeq
<1>4. ASSUME NEW g \in Seq(Line), \A i \in DOMAIN g : e.name \notin g[i].names
      PROVE  Addresses(g, e.name) = {} /\ Others(g, e.name) = g
  BY <1>4, OthersAll DEF Addresses
<1>5. CASE e.mode = "remove"
  <2>1. Awk(f, e) = Kept(f, e)
    BY <1>1, <1>3, <1>5 DEF Awk
  <2> QED
    BY <1>1, <1>4, <1>5, <2>1
<1>6. CASE e.mode = "replace"
  <2>1. Awk(f, e) = Kept(f, e) \o Entry(e)
    BY <1>6 DEF Awk
  <2>2. Awk(f, e) \in Seq(Line)
    BY <1>1, <1>6, <2>1, Appended
  <2>3. Others(Awk(f, e), e.name) = Kept(f, e)
    BY <1>1, <1>6, <2>1, OthersAppended
  <2>4. Addresses(Awk(f, e), e.name) = {} \cup {e.addr}
    BY <1>1, <1>4, <1>6, <2>1, AddressesAppended
  <2> QED
    BY <1>1, <1>6, <2>2, <2>3, <2>4
<1>7. CASE e.mode = "add" /\ Found(f, e)
  <2>1. Awk(f, e) = f
    BY <1>1, <1>3, <1>7 DEF Awk
  <2>2. Addresses(f, e.name) # {}
    BY <1>7 DEF Found, Hits, Addresses
  <2> QED
    BY <1>7, <2>1, <2>2
<1>8. CASE e.mode = "add" /\ ~Found(f, e)
  <2>1. Awk(f, e) = f \o Entry(e)
    BY <1>1, <1>8 DEF Awk
  <2>2. \A i \in DOMAIN f : e.name \notin f[i].names
    BY <1>8 DEF Found, Hits
  <2>3. Awk(f, e) \in Seq(Line) /\ Others(Awk(f, e), e.name) = f
    BY <1>8, <2>1, <2>2, Appended, OthersAppended
  <2>4. Addresses(f, e.name) = {} /\ Others(f, e.name) = f
    BY <1>4, <2>2
  <2>5. \A n : Addresses(Awk(f, e), n) = Addresses(f, n) \cup IF n = e.name THEN {e.addr} ELSE {}
    BY <1>8, <2>1, AddressesAppended
  <2> QED
    BY <1>8, <2>3, <2>4, <2>5
<1> QED
  BY <1>2, <1>5, <1>6, <1>7, <1>8

-----------------------------------------------------------------------------
LEMMA TypeInit == Init => TypeOK
<1> SUFFICES ASSUME Init PROVE TypeOK
  OBVIOUS
<1>1. <<>> \in Seq(Line)
  OBVIOUS
<1> HIDE DEF Line, Edit
<1>2. file \in Seq(Line) /\ tmp \in Seq(Line) /\ old \in Seq(Line) /\ first \in Seq(Line)
  BY <1>1, HostsAssumption DEF Init
<1>3. edits \in 0..MaxEdits /\ loops \in 0..MaxLoops
  BY HostsAssumption DEF Init
<1> QED
  BY <1>2, <1>3 DEF Init, TypeOK

(* What a cut leaves is a file.                                            *)
LEMMA CutType ==
  ASSUME NEW f \in Seq(Line), NEW g \in CutShort(f)
  PROVE  g \in Seq(Line)
<1>1. \A k \in 0..Len(f) : SubSeq(f, 1, k) \in Seq(Line)
  <2> HIDE DEF Line
  <2> QED
    OBVIOUS
<1>2. ASSUME NEW k \in 1..Len(f), NEW l \in Fragments(f[k])
      PROVE  Append(SubSeq(f, 1, k - 1), l) \in Seq(Line)
  <2>1. l \in Line
    BY DEF Fragments
  <2>2. k - 1 \in 0..Len(f)
    OBVIOUS
  <2> HIDE DEF Line
  <2>3. SubSeq(f, 1, k - 1) \in Seq(Line)
    BY <1>1, <2>2
  <2> QED
    BY <2>1, <2>3
<1>3. CASE g \in {SubSeq(f, 1, k) : k \in 0..Len(f)}
  BY <1>1, <1>3
<1>4. CASE g \in UNION {{Append(SubSeq(f, 1, k - 1), l) : l \in Fragments(f[k])} : k \in 1..Len(f)}
  <2>1. PICK k \in 1..Len(f) : g \in {Append(SubSeq(f, 1, k - 1), l) : l \in Fragments(f[k])}
    BY <1>4
  <2>2. PICK l \in Fragments(f[k]) : g = Append(SubSeq(f, 1, k - 1), l)
    BY <2>1
  <2> QED
    BY <1>2, <2>2
<1> QED
  BY <1>3, <1>4 DEF CutShort

LEMMA TypeStep == TypeOK /\ [Next]_vars => TypeOK'
<1> SUFFICES ASSUME TypeOK, [Next]_vars PROVE TypeOK'
  OBVIOUS
<1> USE DEF TypeOK
<1>1. <<>> \in Seq(Line)
  OBVIOUS
<1>2. ASSUME NEW n \in Name PROVE [mode |-> "add", addr |-> Hosts[n], name |-> n] \in Edit
  BY HostsAssumption DEF Edit
<1>3. ASSUME NEW e \in Edit, Start(e)
      PROVE  /\ file' \in Seq(Line) /\ tmp' \in Seq(Line) /\ old' \in Seq(Line)
             /\ cmd' \in Edit /\ pc' = "awk"
  BY <1>3 DEF Start
<1> HIDE DEF Line, Edit
<1>4. CASE RunAwk
  <2>1. Awk(file, cmd) \in Seq(Line)
    BY <1>4, AwkFacts DEF RunAwk
  <2> QED
    BY <1>4, <2>1 DEF RunAwk
<1>5. CASE Truncate
  BY <1>1, <1>5 DEF Truncate
<1>6. CASE Cat
  BY <1>6 DEF Cat, Returned
<1>7. CASE Fails
  <2>1. \A g \in CutShort(tmp) : g \in Seq(Line)
    BY CutType
  <2> QED
    BY <1>7, <2>1 DEF Fails, Returned
<1>8. CASE GiveUp
  BY <1>8 DEF GiveUp
<1>9. CASE EditHosts
  <2>1. edits' \in 0..MaxEdits
    BY <1>9, HostsAssumption DEF EditHosts
  <2> QED
    BY <1>3, <1>9, <2>1 DEF EditHosts
<1>10. CASE BeginLoop
  <2>1. PICK n \in Name : AddHost(n) /\ todo' = Name \ {n}
    BY <1>10 DEF BeginLoop
  <2>2. loops' \in 0..MaxLoops
    BY <1>10, HostsAssumption DEF BeginLoop
  <2>3. first' \in Seq(Line) /\ cut' \in BOOLEAN
    BY <1>10 DEF BeginLoop
  <2>4. /\ file' \in Seq(Line) /\ tmp' \in Seq(Line) /\ old' \in Seq(Line)
        /\ cmd' \in Edit /\ pc' = "awk"
    BY <1>2, <1>3, <2>1 DEF AddHost
  <2> QED
    BY <1>10, <2>1, <2>2, <2>3, <2>4 DEF BeginLoop
<1>11. CASE Loop
  BY <1>2, <1>3, <1>11 DEF Loop, AddHost
<1>12. CASE UNCHANGED vars
  BY <1>12 DEF vars
<1> QED
  BY <1>4, <1>5, <1>6, <1>7, <1>8, <1>9, <1>10, <1>11, <1>12 DEF Next

(* Type correctness.                                                       *)
THEOREM TypeCorrect == Spec => []TypeOK
BY TypeInit, TypeStep, PTL DEF Spec

-----------------------------------------------------------------------------
LEMMA FlightInit == Init => InFlight
BY DEF Init, InFlight

(* The file is the one the command found, until cat writes the edited one  *)
(* back.                                                                   *)
LEMMA FlightStep == InFlight /\ [Next]_vars => InFlight'
<1> SUFFICES ASSUME InFlight, [Next]_vars PROVE InFlight'
  OBVIOUS
<1> USE DEF InFlight
<1>1. CASE RunAwk
  BY <1>1 DEF RunAwk
<1>2. CASE Truncate
  BY <1>2 DEF Truncate
<1>3. CASE Cat
  BY <1>3 DEF Cat, Returned
<1>4. CASE Fails
  BY <1>4 DEF Fails, Returned
<1>5. CASE GiveUp
  BY <1>5 DEF GiveUp
<1>6. ASSUME NEW e, Start(e) PROVE InFlight'
  BY <1>6 DEF Start
<1>7. CASE EditHosts
  BY <1>6, <1>7 DEF EditHosts
<1>8. CASE BeginLoop \/ Loop
  BY <1>6, <1>8 DEF BeginLoop, Loop, AddHost
<1>9. CASE UNCHANGED vars
  BY <1>9 DEF vars
<1> QED
  BY <1>1, <1>2, <1>3, <1>4, <1>5, <1>7, <1>8, <1>9 DEF Next

-----------------------------------------------------------------------------
LEMMA LoopInit == Init => Looping
BY DEF Init, Looping

(* One edit of the loop lists one more name, and gives no name an address  *)
(* that it is not to have.                                                 *)
LEMMA OneMoreListed ==
  ASSUME NEW f \in Seq(Line), NEW n \in Name
  PROVE  LET g == Awk(f, [mode |-> "add", addr |-> Hosts[n], name |-> n])
         IN  /\ \A names \in SUBSET Name : Listed(f, names) => Listed(g, names \cup {n})
             /\ Sound(f) => Sound(g)
<1> DEFINE e == [mode |-> "add", addr |-> Hosts[n], name |-> n]
           g == Awk(f, e)
<1>1. e \in Edit /\ e.mode = "add" /\ e.name = n /\ e.addr = Hosts[n]
  BY HostsAssumption DEF Edit
<1> HIDE DEF e
<1>2. \A m : m # n => Addresses(g, m) = Addresses(f, m)
  BY <1>1, AwkFacts
<1>3. Addresses(g, n) = IF Addresses(f, n) = {} THEN {Hosts[n]} ELSE Addresses(f, n)
  BY <1>1, AwkFacts
<1> HIDE DEF g
<1>4. ASSUME NEW names \in SUBSET Name, Listed(f, names) PROVE Listed(g, names \cup {n})
  BY <1>2, <1>3, <1>4 DEF Listed
<1>5. ASSUME Sound(f) PROVE Sound(g)
  <2>1. Addresses(f, n) \in {Addresses(first, n), Wanted(n)}
    BY <1>5 DEF Sound
  <2>2. Addresses(g, n) \in {Addresses(first, n), Wanted(n)}
    BY <1>3, <2>1 DEF Wanted
  <2> QED
    BY <1>2, <1>5, <2>2 DEF Sound
<1> QED
  BY <1>4, <1>5 DEF g, e

(* When a command of the loop has completed, its name is listed too.       *)
LEMMA LoopListed ==
  ASSUME TypeOK, InFlight, Looping, caller \in {"loop", "ok"}, pc = "done"
  PROVE  Listed(file, Name \ todo)
<1>1. PICK n \in Name : cmd = [mode |-> "add", addr |-> Hosts[n], name |-> n]
  BY DEF Looping
<1>2. cmd.name = n
  BY <1>1
<1>3. Listed(old, Name \ (todo \cup {n})) /\ n \notin todo
  BY <1>2 DEF Looping
<1>4. file = Awk(old, cmd) /\ old \in Seq(Line)
  BY DEF InFlight, TypeOK
<1>5. (Name \ (todo \cup {n})) \cup {n} = Name \ todo
  BY <1>3
<1> QED
  BY <1>1, <1>3, <1>4, <1>5, OneMoreListed

(* Between two commands, when no cat was cut short, every name has the     *)
(* addresses it had at first or those it is to have.                       *)
LEMMA LoopSound ==
  ASSUME TypeOK, InFlight, Looping, caller # "edits", ~cut, Ready
  PROVE  Sound(file)
<1>1. Sound(old) /\ pc \in {"idle", "done"}
  BY DEF Looping, Ready
<1>2. CASE pc = "idle"
  BY <1>1, <1>2 DEF InFlight
<1>3. CASE pc = "done"
  <2>1. PICK n \in Name : cmd = [mode |-> "add", addr |-> Hosts[n], name |-> n]
    BY DEF Looping
  <2>2. file = Awk(old, cmd) /\ old \in Seq(Line)
    BY <1>3 DEF InFlight, TypeOK
  <2> QED
    BY <1>1, <2>1, <2>2, OneMoreListed
<1> QED
  BY <1>1, <1>2, <1>3

LEMMA LoopStep == IInv /\ [Next]_vars => Looping'
<1> SUFFICES ASSUME IInv, [Next]_vars PROVE Looping'
  OBVIOUS
<1>0. TypeOK /\ InFlight /\ Looping
  BY DEF IInv
<1>1. ASSUME UNCHANGED <<cmd, todo, old, first>>, pc # "done",
             caller' \in {"loop", "ok"} => caller = "loop" /\ pc' # "idle" /\ pc' # "torn",
             caller' # "edits" => caller # "edits",
             caller' # "edits" /\ ~cut' => ~cut /\ pc' # "torn",
             caller' = "ok" => pc' = "done" /\ todo = {}
      PROVE  Looping'
  BY <1>0, <1>1 DEF Looping, Listed, Sound, Wanted
<1>2. CASE RunAwk
  BY <1>0, <1>1, <1>2 DEF RunAwk, Looping
<1>3. CASE Truncate
  BY <1>0, <1>1, <1>3 DEF Truncate, Looping
<1>4. CASE Cat
  BY <1>0, <1>1, <1>4 DEF Cat, Returned, TypeOK, Looping
<1>5. CASE Fails
  <2>1. caller # "ok"
    BY <1>0, <1>5 DEF Fails, Looping
  <2> QED
    BY <1>0, <1>1, <1>5, <2>1 DEF Fails, Returned, TypeOK
<1>6. CASE GiveUp
  BY <1>0, <1>1, <1>6 DEF GiveUp, Looping
<1>7. CASE EditHosts
  BY <1>0, <1>7 DEF EditHosts, Start, Looping
<1>8. CASE BeginLoop
  <2>1. PICK n \in Name : AddHost(n) /\ todo' = Name \ {n}
    BY <1>8 DEF BeginLoop
  <2>2. /\ todo' = Name \ {n} /\ old' = file /\ pc' = "awk" /\ caller' = "loop" /\ Ready
        /\ cmd' = [mode |-> "add", addr |-> Hosts[n], name |-> n] /\ cmd'.name = n
    BY <1>8, <2>1 DEF BeginLoop, AddHost, Start
  <2>3. n \notin todo' /\ Name \ (todo' \cup {n}) = {}
    BY <2>2
  <2>4. CASE caller = "edits"
    <3>1. first' = file
      BY <1>8, <2>4 DEF BeginLoop
    <3>2. Sound(old)'
      BY <2>2, <3>1 DEF Sound
    <3> QED
      BY <2>2, <2>3, <3>2 DEF Looping, Listed
  <2>5. CASE caller # "edits"
    <3>1. first' = first /\ cut' = cut
      BY <1>8, <2>5 DEF BeginLoop
    <3>2. ~cut => Sound(file)
      BY <1>0, <2>2, <2>5, LoopSound
    <3>3. ~cut' => Sound(old)'
      BY <2>2, <3>1, <3>2 DEF Sound, Wanted
    <3> QED
      BY <2>2, <2>3, <3>3 DEF Looping, Listed
  <2> QED
    BY <2>4, <2>5
<1>9. CASE Loop
  <2>1. PICK n \in todo : AddHost(n) /\ todo' = todo \ {n}
    BY <1>9 DEF Loop
  <2>2. pc = "done" /\ caller = "loop" /\ n \in Name /\ Ready
    BY <1>0, <1>9, <2>1 DEF Loop, AddHost, Start, Ready, Looping, TypeOK
  <2>3. Listed(file, Name \ todo)
    BY <1>0, <2>2, LoopListed
  <2>4. ~cut => Sound(file)
    BY <1>0, <2>2, LoopSound
  <2>5. /\ old' = file /\ first' = first /\ cut' = cut /\ pc' = "awk" /\ caller' = "loop"
        /\ cmd' = [mode |-> "add", addr |-> Hosts[n], name |-> n] /\ cmd'.name = n
    BY <1>9, <2>1 DEF Loop, AddHost, Start
  <2>6. n \notin todo' /\ Name \ (todo' \cup {n}) = Name \ todo
    BY <2>1, <2>2
  <2>7. Listed(old, Name \ (todo \cup {cmd.name}))'
    BY <2>3, <2>5, <2>6 DEF Listed
  <2>8. ~cut' => Sound(old)'
    BY <2>4, <2>5 DEF Sound, Wanted
  <2> QED
    BY <2>2, <2>5, <2>6, <2>7, <2>8 DEF Looping
<1>10. CASE UNCHANGED vars
  BY <1>0, <1>10 DEF vars, Looping, Listed, Sound, Wanted
<1> QED
  BY <1>2, <1>3, <1>4, <1>5, <1>6, <1>7, <1>8, <1>9, <1>10 DEF Next

(* The inductive invariant holds in every reachable state.                 *)
THEOREM Inv == Spec => []IInv
<1>1. Init => IInv
  BY TypeInit, FlightInit, LoopInit DEF IInv
<1>2. IInv /\ [Next]_vars => IInv'
  BY TypeStep, FlightStep, LoopStep DEF IInv
<1> QED
  BY <1>1, <1>2, PTL DEF Spec

(* An edit that completed did what its name says, in any file.             *)
THEOREM EditsAreCorrect == Spec => []EditCorrect
<1>1. IInv => EditCorrect
  <2> SUFFICES ASSUME IInv, pc = "done"
               PROVE  /\ Others(file, cmd.name) = Others(old, cmd.name)
                      /\ Addresses(file, cmd.name) =
                           CASE cmd.mode = "remove" -> {}
                             [] cmd.mode = "replace" -> {cmd.addr}
                             [] cmd.mode = "add" -> IF Addresses(old, cmd.name) = {} THEN {cmd.addr}
                                                    ELSE Addresses(old, cmd.name)
    BY DEF EditCorrect
  <2>1. file = Awk(old, cmd) /\ old \in Seq(Line) /\ cmd \in Edit
    BY DEF IInv, InFlight, TypeOK
  <2>2. cmd.mode \in {"remove", "replace", "add"}
    BY <2>1 DEF Edit
  <2> QED
    BY <2>1, <2>2, AwkFacts
<1> QED
  BY <1>1, Inv, PTL

(* A command that fails or is given up leaves the old file or the new one, *)
(* unless it has reached the cat.                                          *)
THEOREM OldOrNew == Spec => []AllOrNothing
<1>1. IInv => AllOrNothing
  BY DEF IInv, InFlight, AllOrNothing, TypeOK
<1> QED
  BY <1>1, Inv, PTL

(* The init step that succeeds, after any runs that failed or were cut     *)
(* short, has listed every configured name, whatever the order in which    *)
(* its loops took them.                                                    *)
THEOREM LoopListsNames == Spec => []NamesListed
<1>1. IInv => NamesListed
  <2> SUFFICES ASSUME IInv, caller = "ok", NEW n \in Name
               PROVE  /\ Addresses(file, n) # {}
                      /\ ~cut => Addresses(file, n) = Wanted(n)
    BY DEF NamesListed
  <2>1. TypeOK /\ InFlight /\ Looping /\ pc = "done" /\ todo = {} /\ Ready
    BY DEF IInv, Looping, Ready
  <2>2. Addresses(file, n) # {}
    BY <2>1, LoopListed DEF Listed
  <2>3. ASSUME ~cut PROVE Addresses(file, n) = Wanted(n)
    <3>1. Addresses(file, n) \in {Addresses(first, n), Wanted(n)}
      BY <2>1, <2>3, LoopSound DEF Sound
    <3> QED
      BY <2>2, <3>1 DEF Wanted
  <2> QED
    BY <2>2, <2>3
<1> QED
  BY <1>1, Inv, PTL
=============================================================================
