--------------------------- MODULE Scripts_proofs ---------------------------
(* Proofs about the two shell scripts. EfiStub, for every finite set of      *)
(* entry numbers, every set of other systems' labels and any number of runs. *)
(* XrayService, for any number of starts. The two are extended side by side: *)
(* they share neither variables nor definitions.                             *)
EXTENDS EfiStub, XrayService, FiniteSetTheorems, WellFoundedInduction, TLAPS

AfterCopy == {"rw", "list", "delete", "create", "ro"}

(* The entries of other systems that mention Artix at the start.             *)
Others == Cardinality({e \in foreign : e.label \in Mentioning})

Typed ==
  /\ at \in {"idle", "cp", "copying"} \cup AfterCopy
  /\ entries \subseteq Entries /\ bootnum \in Numbers \cup {NoNumber}
  /\ had \in BOOLEAN /\ gap \in BOOLEAN /\ odd \in BOOLEAN
  /\ Others \in Nat

(* An entry is known by its number.                                          *)
Numbered == \A d, e \in entries : d.number = e.number => d = e

(* What a run has achieved by the time it gets here.                         *)
Progress ==
  /\ at \in AfterCopy => image = "new"
  /\ at = "ro" => Artix # {}
  /\ last = "completed" => at = "idle" /\ image = "new" /\ efivars = "ro" /\ Artix # {}

(* While nothing was misread: the entry to be deleted is one that mentions   *)
(* Artix, and it is gone before the next is made.                            *)
Untouched == Labelled(Foreign \ Mentioning) = {e \in foreign : e.label \notin Mentioning}

Sound ==
  ~odd => /\ Untouched
          /\ Cardinality(Matching) <= 1 + Others
          /\ at = "delete" => bootnum \in Found \/ (Found = {} /\ bootnum = NoNumber)
          /\ at = "create" => Cardinality(Matching) <= Others

Present == had /\ Artix = {} => at = "create" \/ gap

StubInv == Typed /\ Numbered /\ Progress /\ Sound /\ Present

------------------------------------------------------------------------------
(* A set of naturals that is not empty has its minimum.                      *)
LEMMA MinIsLeast ==
  ASSUME NEW S \in SUBSET Nat, S # {}
  PROVE  Min(S) \in S /\ \A n \in S : Min(S) <= n
<1>1. PICK m \in S : \A n \in S : ~ (<<n, m>> \in OpToRel(<, Nat))
  BY NatLessThanWellFounded, WFMin
<1>2. \A n \in S : ~(n < m)
  BY <1>1 DEF OpToRel
<1>3. \E x \in S : \A y \in S : x =< y
  BY <1>2
<1> QED
  BY <1>3 DEF Min

(* Entries are known by their numbers: there are finitely many.              *)
LEMMA EntriesFinite ==
  ASSUME NEW E \in SUBSET Entries, \A d, e \in E : d.number = e.number => d = e
  PROVE  IsFiniteSet(E)
<1> DEFINE numberOf == [e \in E |-> e.number]
<1>1. numberOf \in Injection(E, Numbers)
  BY DEF Injection, IsInjective, Entries
<1> QED
  BY <1>1, EfiAssumption, FS_Injection

LEMMA MatchingFinite ==
  ASSUME Typed, Numbered
  PROVE  IsFiniteSet(Matching) /\ Cardinality(Matching) \in Nat
<1>1. IsFiniteSet(entries)
  BY EntriesFinite DEF Typed, Numbered
<1>2. Matching \subseteq entries
  BY DEF Matching, Labelled
<1> QED
  BY <1>1, <1>2, FS_Subset, FS_CardinalityType

(* A number that is free.                                                    *)
Free == Min(Numbers \ NumbersOf(entries))
New == [number |-> Free, label |-> "Artix"]

LEMMA FreeNumber ==
  ASSUME Typed, Numbers # NumbersOf(entries)
  PROVE  Free \in Numbers /\ Free \notin NumbersOf(entries) /\ New \in Entries
<1>1. NumbersOf(entries) \subseteq Numbers
  BY DEF Typed, NumbersOf, Entries
<1>2. Numbers \ NumbersOf(entries) # {} /\ Numbers \ NumbersOf(entries) \in SUBSET Nat
  BY <1>1, EfiAssumption
<1>3. Free \in Numbers \ NumbersOf(entries)
  BY <1>2, MinIsLeast DEF Free
<1> QED
  BY <1>3 DEF New, Entries

(* The actions that leave the entries alone leave what is said of them.      *)
LEMMA SameEntries ==
  ASSUME entries' = entries
  PROVE  /\ Artix' = Artix /\ Matching' = Matching /\ Found' = Found
         /\ foreign' = foreign => Untouched' = Untouched /\ Others' = Others
BY DEF Artix, Matching, Labelled, Found, NumbersOf, Untouched, Others

(* At the start there may be one entry named Artix.                          *)
LEMMA Initially == StubInit => StubInv
<1> SUFFICES ASSUME StubInit PROVE StubInv
  OBVIOUS
<1> DEFINE others == {e \in foreign : e.label \in Mentioning}
<1>1. /\ entries \subseteq Entries /\ Numbered
      /\ Cardinality({e \in entries : e.label = "Artix"}) <= 1
  BY DEF StubInit, Numbered
<1>2. Artix = {e \in entries : e.label = "Artix"}
  BY DEF Artix, Labelled
<1>3. Matching = Artix \cup others /\ others \subseteq entries /\ Artix \subseteq entries
  BY EfiAssumption DEF StubInit, Matching, Artix, Labelled
<1>4. IsFiniteSet(entries)
  BY <1>1, EntriesFinite DEF Numbered
<1>5. IsFiniteSet(others) /\ IsFiniteSet(Artix)
  BY <1>3, <1>4, FS_Subset
<1>6. Cardinality(others) \in Nat /\ Cardinality(Artix) \in Nat /\ Cardinality(Artix \cap others) \in Nat
  <2>1. IsFiniteSet(Artix \cap others)
    BY <1>5, FS_Subset
  <2> QED
    BY <1>5, <2>1, FS_CardinalityType
<1>7. Cardinality(Matching) = Cardinality(Artix) + Cardinality(others) - Cardinality(Artix \cap others)
  BY <1>3, <1>5, FS_Union
<1>8. Others = Cardinality(others)
  BY DEF Others
<1> HIDE DEF others
<1>9. Cardinality(Matching) <= 1 + Others
  BY <1>1, <1>2, <1>6, <1>7, <1>8
<1>10. Typed /\ Progress
  BY <1>1, <1>6, <1>8 DEF StubInit, Typed, Progress, AfterCopy
<1>11. Untouched
  BY DEF StubInit, Untouched, Labelled
<1>12. Sound /\ Present
  BY <1>9, <1>11 DEF StubInit, Sound, Present
<1> QED
  BY <1>1, <1>10, <1>12 DEF StubInv

(* The steps before the entries are listed.                                  *)
LEMMA EarlyKeeps ==
  ASSUME StubInv, Begin \/ CopyKernel \/ RemountRw
  PROVE  StubInv'
<1>1. UNCHANGED <<entries, foreign, had, gap, odd>> /\ at' \in {"cp", "copying", "rw", "list"}
  BY DEF Begin, CopyKernel, RemountRw, histories
<1>2. Typed' /\ Numbered'
  BY <1>1, SameEntries DEF StubInv, Typed, Numbered, AfterCopy, Begin, CopyKernel, RemountRw
<1>3. Progress'
  BY <1>1 DEF StubInv, Progress, AfterCopy, Begin, CopyKernel, RemountRw
<1>4. Sound' /\ Present'
  BY <1>1, SameEntries DEF StubInv, Sound, Present, Begin, CopyKernel, RemountRw
<1> QED
  BY <1>2, <1>3, <1>4 DEF StubInv

(* The script finds the entry's number, or is known to have misread it.      *)
LEMMA ListKeeps ==
  ASSUME StubInv, List
  PROVE  StubInv'
<1>1. /\ at = "list" /\ at' = "delete"
      /\ UNCHANGED <<image, efivars, entries, last, foreign, had, gap>>
  BY DEF List
<1>2. bootnum' \in Found \/ (Found = {} /\ bootnum' = NoNumber) \/ odd' = TRUE
  BY DEF List
<1>3. bootnum' \in Numbers \cup {NoNumber} /\ odd' \in BOOLEAN /\ (odd => odd')
  <2>1. Found \subseteq Numbers
    BY DEF StubInv, Typed, Entries, Found, Matching, Labelled, NumbersOf
  <2> QED
    BY <2>1 DEF List, StubInv, Typed
<1>4. Typed' /\ Numbered' /\ Progress'
  BY <1>1, <1>3, SameEntries DEF StubInv, Typed, Numbered, Progress, AfterCopy
<1>5. Sound' /\ Present'
  BY <1>1, <1>2, <1>3, SameEntries DEF StubInv, Typed, Sound, Present
<1> QED
  BY <1>4, <1>5 DEF StubInv

(* What is deleted mentions Artix, unless its number was misread.            *)
LEMMA DeleteKeeps ==
  ASSUME StubInv, Delete
  PROVE  StubInv'
<1>1. /\ at = "delete" /\ at' = "create"
      /\ entries' = {e \in entries : e.number # bootnum}
      /\ UNCHANGED <<image, efivars, bootnum, last, foreign, had, gap, odd>>
  BY DEF Delete, histories
<1>2. Typed' /\ Numbered' /\ Progress' /\ Present'
  BY <1>1 DEF StubInv, Typed, Numbered, Progress, Present, AfterCopy, Others
<1>3. Sound'
  <2> SUFFICES ASSUME ~odd
               PROVE  Untouched' /\ Cardinality(Matching') <= Others
    <3>1. Others' = Others /\ Others \in Nat
      BY <1>1 DEF Others, StubInv, Typed
    <3>2. Matching' \subseteq Matching /\ IsFiniteSet(Matching)
      BY <1>1, MatchingFinite DEF StubInv, Matching, Labelled
    <3>3. Cardinality(Matching') \in Nat
      BY <3>2, FS_Subset, FS_CardinalityType
    <3>4. Cardinality(Matching') <= Others => Cardinality(Matching') <= 1 + Others
      BY <3>1, <3>3
    <3> QED
      BY <1>1, <3>1, <3>4 DEF Sound
  <2>1. Untouched /\ Cardinality(Matching) <= 1 + Others /\ Others \in Nat
    BY DEF StubInv, Sound, Typed
  <2>2. IsFiniteSet(Matching) /\ Cardinality(Matching) \in Nat
    BY MatchingFinite DEF StubInv
  <2>3. CASE bootnum \in Found
    <3>1. PICK a \in Matching : bootnum = a.number
      BY <2>3 DEF Found, NumbersOf
    <3>2. \A e \in entries : e.number = bootnum <=> e = a
      BY <3>1 DEF StubInv, Numbered, Matching, Labelled
    <3>3. Matching' = Matching \ {a}
      BY <1>1, <3>2 DEF Matching, Labelled
    <3>4. Cardinality(Matching') = Cardinality(Matching) - 1
      BY <2>2, <3>1, <3>3, FS_RemoveElement
    <3>5. a.label \notin Foreign \ Mentioning
      BY <3>1, EfiAssumption DEF Matching, Labelled
    <3>6. Labelled(Foreign \ Mentioning)' = Labelled(Foreign \ Mentioning)
      BY <1>1, <3>2, <3>5 DEF Labelled
    <3>7. Untouched'
      BY <1>1, <2>1, <3>6 DEF Untouched
    <3> QED
      BY <2>1, <2>2, <3>4, <3>7
  <2>4. CASE Found = {} /\ bootnum = NoNumber
    <3>1. \A e \in entries : e.number # NoNumber
      BY EfiAssumption DEF StubInv, Typed, Entries
    <3>2. entries' = entries
      BY <1>1, <2>4, <3>1
    <3>3. Matching = {}
      BY <2>4 DEF Found, NumbersOf
    <3>4. Untouched' /\ Matching' = {}
      BY <1>1, <2>1, <3>2, <3>3, SameEntries
    <3>5. Cardinality(Matching') = 0
      BY <3>4, FS_EmptySet
    <3> QED
      BY <2>1, <3>4, <3>5
  <2> QED
    BY <1>1, <2>3, <2>4 DEF StubInv, Sound
<1> QED
  BY <1>2, <1>3 DEF StubInv

(* The entry made has a number of its own and is then the only one named so. *)
LEMMA CreateKeeps ==
  ASSUME StubInv, Create
  PROVE  StubInv'
<1>1. /\ at = "create" /\ at' = "ro" /\ had' = TRUE /\ gap' = FALSE
      /\ entries' = entries \cup {New}
      /\ UNCHANGED <<image, efivars, bootnum, last, foreign, odd>>
  BY DEF Create, New, Free
<1>2. New \in Entries /\ New.label = "Artix" /\ \A e \in entries : e.number # New.number
  BY FreeNumber DEF Create, StubInv, New, NumbersOf
<1>3. Artix' = Artix \cup {New} /\ Matching' = Matching \cup {New} /\ Untouched' = Untouched
  BY <1>1, <1>2, EfiAssumption DEF Artix, Matching, Labelled, Untouched
<1>4. Typed' /\ Numbered' /\ Others' = Others
  BY <1>1, <1>2 DEF StubInv, Typed, Numbered, AfterCopy, Others
<1>5. Progress' /\ Present'
  BY <1>1, <1>3 DEF StubInv, Progress, Present, AfterCopy
<1>6. Sound'
  <2>1. IsFiniteSet(Matching) /\ Cardinality(Matching) \in Nat /\ Others \in Nat
    BY MatchingFinite DEF StubInv, Typed
  <2>2. Cardinality(Matching') <= Cardinality(Matching) + 1
    BY <1>3, <2>1, FS_AddElement
  <2>3. Cardinality(Matching') \in Nat
    BY <1>3, <2>1, FS_AddElement, FS_CardinalityType
  <2> QED
    BY <1>1, <1>3, <1>4, <2>1, <2>2, <2>3 DEF StubInv, Sound
<1> QED
  BY <1>4, <1>5, <1>6 DEF StubInv

(* A run that completes has done all of it.                                  *)
LEMMA RemountRoKeeps ==
  ASSUME StubInv, RemountRo
  PROVE  StubInv'
<1>1. /\ at = "ro" /\ at' = "idle" /\ efivars' = "ro"
      /\ UNCHANGED <<image, entries, bootnum, foreign, had, gap, odd>>
  BY DEF RemountRo, histories
<1>2. Typed' /\ Numbered' /\ Progress'
  BY <1>1, SameEntries DEF StubInv, Typed, Numbered, Progress, AfterCopy
<1>3. Sound' /\ Present'
  BY <1>1, SameEntries DEF StubInv, Sound, Present
<1> QED
  BY <1>2, <1>3 DEF StubInv

(* A run that breaks off completes nothing, and the gap is remembered.       *)
LEMMA BrokenKeeps ==
  ASSUME StubInv, Fail \/ GoDown
  PROVE  StubInv'
<1>1. /\ at' = "idle" /\ last' = "broken"
      /\ gap' = (gap \/ (at = "create" /\ Artix = {}))
      /\ UNCHANGED <<entries, bootnum, foreign, had, odd>>
  BY DEF Fail, GoDown, BreaksOff
<1>2. Typed' /\ Numbered' /\ Progress'
  BY <1>1, SameEntries DEF StubInv, Typed, Numbered, Progress, AfterCopy
<1>3. Sound' /\ Present'
  BY <1>1, SameEntries DEF StubInv, Typed, Sound, Present
<1> QED
  BY <1>2, <1>3 DEF StubInv

------------------------------------------------------------------------------
(* The inductive invariant holds of every reachable state.                   *)
LEMMA Inductive == StubSpec => []StubInv
<1>1. StubInv /\ [StubNext]_stubVars => StubInv'
  <2> SUFFICES ASSUME StubInv, [StubNext]_stubVars PROVE StubInv'
    OBVIOUS
  <2>1. CASE UNCHANGED stubVars
    BY <2>1, SameEntries DEF stubVars, StubInv, Typed, Numbered, Progress, Sound, Present
  <2> QED
    BY <2>1, EarlyKeeps, ListKeeps, DeleteKeeps, CreateKeeps, RemountRoKeeps, BrokenKeeps
       DEF StubNext
<1> QED
  BY Initially, <1>1, PTL DEF StubSpec

(* A completed run leaves a whole kernel, an entry to boot it by and efivars *)
(* read-only, whatever broke off before it.                                  *)
THEOREM RunsRepair == StubSpec => []Repaired
<1>1. StubInv => Repaired
  BY DEF StubInv, Progress, Repaired
<1> QED
  BY Inductive, <1>1, PTL

(* No more entries that mention Artix than the other systems' own and one,   *)
(* no other system's entry touched but for those, and none missing without a *)
(* reason.                                                                   *)
THEOREM EntriesAreKept == StubSpec => []EntriesKept
<1>1. StubInv => EntriesKept
  BY DEF StubInv, Sound, Present, EntriesKept, Untouched, Others
<1> QED
  BY Inductive, <1>1, PTL

------------------------------------------------------------------------------
(* XrayService.                                                              *)

Commands == {"boot", "spawn", "setpid", "loop", "linkup", "add100", "route", "add200", "wait"}
Cleanups == {"kill", "reap", "del200", "del100", "delroute", "linkdown"}

(* The labels and steps of the script written out.                          *)
LEMMA CommandSteps ==
  /\ DOMAIN NextCommand = Commands
  /\ NextCommand["boot"] = "spawn" /\ NextCommand["spawn"] = "setpid"
  /\ NextCommand["setpid"] = "loop" /\ NextCommand["loop"] = "linkup"
  /\ NextCommand["linkup"] = "add100" /\ NextCommand["add100"] = "route"
  /\ NextCommand["route"] = "add200" /\ NextCommand["add200"] = "wait"
  /\ NextCommand["wait"] = "end"
  BY DEF NextCommand, Commands

LEMMA CleanupSteps ==
  /\ DOMAIN NextCleanup = Cleanups
  /\ NextCleanup["kill"] = "reap" /\ NextCleanup["reap"] = "del200"
  /\ NextCleanup["del200"] = "del100" /\ NextCleanup["del100"] = "delroute"
  /\ NextCleanup["delroute"] = "linkdown" /\ NextCleanup["linkdown"] = "none"
  BY DEF NextCleanup, Cleanups

NetType == [rule100 : BOOLEAN, rule200 : BOOLEAN, route : BOOLEAN, up : BOOLEAN]

(* What each command does to each part of the network.                      *)
LEMMA NetSteps ==
  ASSUME net \in NetType, NEW c
  PROVE  /\ NetAfter(c) \in NetType
         /\ NetAfter(c).rule100 = IF c = "add100" THEN TRUE ELSE IF c = "del100" THEN FALSE ELSE net.rule100
         /\ NetAfter(c).rule200 = IF c = "add200" THEN TRUE ELSE IF c = "del200" THEN FALSE ELSE net.rule200
         /\ NetAfter(c).up = IF c = "linkup" THEN xray = "up" ELSE IF c = "linkdown" THEN FALSE ELSE net.up
         /\ NetAfter(c).route = IF c = "route" THEN net.route \/ net.up
                                ELSE IF c \in {"delroute", "linkdown"} THEN FALSE ELSE net.route
  BY DEF NetAfter, NetType

LEMMA NoDeviceStep ==
  ASSUME net \in NetType
  PROVE  /\ NoDevice \in NetType
         /\ NoDevice.rule100 = net.rule100 /\ NoDevice.rule200 = net.rule200
         /\ NoDevice.up = FALSE /\ NoDevice.route = FALSE
  BY DEF NoDevice, NetType

LEMMA TypeInit == Init => TypeOK
<1> SUFFICES ASSUME Init PROVE TypeOK
  OBVIOUS
<1>1. pc \in DOMAIN NextCommand /\ trap = "none"
  BY CommandSteps DEF Init, Commands
<1>2. net \in [rule100 : BOOLEAN, rule200 : BOOLEAN, route : BOOLEAN, up : BOOLEAN]
  BY DEF Init
<1>3. starts \in 1 .. MaxStarts
  BY ServiceAssumption DEF Init
<1> QED
  BY <1>1, <1>2, <1>3 DEF Init, TypeOK

LEMMA TypeNext == TypeOK /\ [Next]_vars => TypeOK'
<1> SUFFICES ASSUME TypeOK, [Next]_vars PROVE TypeOK'
  OBVIOUS
<1>0. /\ pc \in Commands \cup {"end", "exit", "down"}
      /\ trap \in Cleanups \cup {"none"}
      /\ net \in NetType
  BY CommandSteps, CleanupSteps DEF TypeOK, NetType
<1>1. CASE Command
  <2>1. pc' \in Commands \cup {"end"}
    BY <1>0, <1>1, CommandSteps DEF Command, Commands
  <2>2. net' \in NetType
    BY <1>0, <1>1, NetSteps DEF Command
  <2> QED
    BY <1>1, <2>1, <2>2, CommandSteps DEF Command, TypeOK, NetType, dinitVars
<1>2. CASE CleanupCommand
  <2>1. trap' \in Cleanups \cup {"none"}
    BY <1>0, <1>2, CleanupSteps DEF CleanupCommand, Cleanups
  <2>2. net' \in NetType
    BY <1>0, <1>2, NetSteps DEF CleanupCommand
  <2> QED
    BY <1>2, <2>1, <2>2, CleanupSteps DEF CleanupCommand, TypeOK, NetType, dinitVars
<1>3. CASE TrapTerm
  <2>1. trap' \in DOMAIN NextCleanup
    BY <1>3, CleanupSteps DEF TrapTerm, Cleanups
  <2>2. pc' \in DOMAIN NextCommand \cup {"end", "exit", "down"}
    BY <1>3 DEF TrapTerm, TypeOK
  <2> QED
    BY <1>3, <2>1, <2>2 DEF TrapTerm, TypeOK, procVars, dinitVars
<1>4. CASE TrapExit
  BY <1>4, CleanupSteps DEF TrapExit, TypeOK, procVars, dinitVars, Cleanups
<1>5. CASE ScriptEnds
  BY <1>5 DEF ScriptEnds, TypeOK, procVars
<1>6. CASE ProxyUp
  BY <1>6 DEF ProxyUp, TypeOK, scriptVars, dinitVars
<1>7. CASE ProxyDies
  BY <1>0, <1>7, NoDeviceStep DEF ProxyDies, TypeOK, scriptVars, dinitVars, NetType
<1>8. CASE Stop
  <2>1. pc' \in Commands \cup {"end", "exit", "down"}
    BY <1>0, <1>8, CommandSteps DEF Stop, Commands, IpCommands
  <2>2. trap' \in Cleanups \cup {"none"}
    BY <1>0, <1>8, CleanupSteps DEF Stop, Cleanups, IpCommands
  <2> QED
    BY <1>8, <2>1, <2>2, CommandSteps, CleanupSteps DEF Stop, TypeOK
<1>9. CASE Kill
  BY <1>0, <1>9, NoDeviceStep DEF Kill, TypeOK, dinitVars, NetType
<1>10. CASE Stopped
  BY <1>10 DEF Stopped, TypeOK, scriptVars, procVars
<1>11. CASE Start
  <2>1. pc' \in DOMAIN NextCommand
    BY <1>11, CommandSteps DEF Start, Commands
  <2>2. starts' \in 1 .. MaxStarts
    BY <1>11, ServiceAssumption DEF Start, TypeOK
  <2> QED
    BY <1>11, <2>1, <2>2 DEF Start, TypeOK, procVars
<1>12. CASE UNCHANGED vars
  BY <1>12 DEF vars, TypeOK, scriptVars, procVars, dinitVars
<1> QED
  BY <1>1, <1>2, <1>3, <1>4, <1>5, <1>6, <1>7, <1>8, <1>9, <1>10, <1>11, <1>12 DEF Next, Script

------------------------------------------------------------------------------
(* The inductive invariant: the device and the route need the proxy; past    *)
(* its wait a cleanup has no proxy left; and where a script with a proxy     *)
(* goes on undisturbed past line 23, rule 100 is there. A script that was    *)
(* disturbed before has lost its proxy, so its route command fails.          *)
PastReap == {"del200", "del100", "delroute", "linkdown"}

IInv ==
  /\ TypeOK
  /\ net.up => xray = "up"
  /\ net.route => net.up /\ net.rule100
  /\ trap \in PastReap => xray = "none"
  /\ pc \in {"boot", "spawn", "down"} => xray = "none"
  /\ pc \in {"route", "add200", "wait"} /\ xray # "none" /\ ~pending /\ trap = "none" => net.rule100
  /\ pc = "exit" /\ trap = "none" /\ ~pending => xray = "none"
  /\ pc \in {"boot", "down"} => trap = "none" /\ ~pending

LEMMA InvInit == Init => IInv
  BY TypeInit DEF Init, IInv, PastReap

LEMMA InvNext == IInv /\ [Next]_vars => IInv'
<1> SUFFICES ASSUME IInv, [Next]_vars PROVE IInv'
  OBVIOUS
<1>0. /\ TypeOK'
      /\ pc \in Commands \cup {"end", "exit", "down"}
      /\ trap \in Cleanups \cup {"none"}
      /\ net \in NetType /\ pending \in BOOLEAN
      /\ xray \in {"none", "starting", "up"}
  BY TypeNext, CommandSteps, CleanupSteps DEF IInv, TypeOK, NetType
<1>1. CASE Command
  <2>1. net' = NetAfter(pc) /\ pc' = NextCommand[pc] /\ trap = "none" /\ trap' = "none"
        /\ ~pending /\ ~pending' /\ Returns(pc) /\ pc \in Commands
    BY <1>0, <1>1, CommandSteps DEF Command
  <2>2. pc' \in Commands \cup {"end"} /\ pc' \notin {"boot", "down", "exit"}
    BY <2>1, CommandSteps DEF Commands
  <2>3. xray' = IF pc = "spawn" THEN "starting" ELSE xray
    BY <1>1 DEF Command
  <2>4. pc' \in {"spawn"} => pc = "boot"
    BY <2>1, CommandSteps DEF Commands
  <2>5. pc' \in {"route", "add200", "wait"} => pc \in {"add100", "route", "add200"}
    BY <2>1, CommandSteps DEF Commands
  <2>6. net'.up => xray' = "up"
    BY <1>0, <2>1, <2>3, NetSteps DEF IInv
  <2>7. net'.route => net'.up /\ net'.rule100
    BY <1>0, <2>1, NetSteps DEF IInv, Commands
  <2>8. pc' \in {"route", "add200", "wait"} /\ xray' # "none" => net'.rule100
    BY <1>0, <2>1, <2>3, <2>5, NetSteps DEF IInv, Commands
  <2> QED
    BY <1>0, <2>1, <2>2, <2>3, <2>4, <2>6, <2>7, <2>8 DEF IInv, PastReap
<1>2. CASE CleanupCommand
  <2>1. net' = NetAfter(trap) /\ trap' = NextCleanup[trap] /\ trap \in Cleanups
        /\ ~pending /\ ~pending' /\ Returns(trap) /\ pc' = pc /\ xray' = xray
    BY <1>0, <1>2 DEF CleanupCommand
  <2>2. trap' \in PastReap => xray = "none"
    BY <2>1, CleanupSteps DEF IInv, PastReap, Cleanups, Returns
  <2>3. trap' = "none" => xray = "none"
    BY <2>1, CleanupSteps DEF IInv, PastReap, Cleanups
  <2>4. net'.up => xray' = "up"
    BY <1>0, <2>1, NetSteps DEF IInv, Cleanups
  <2>5. net'.route => net'.up /\ net'.rule100
    BY <1>0, <2>1, NetSteps DEF IInv, Cleanups, PastReap
  <2>6. pc \notin {"boot", "down"}
    BY <2>1 DEF IInv, Cleanups
  <2> QED
    BY <1>0, <2>1, <2>2, <2>3, <2>4, <2>5, <2>6 DEF IInv
<1>3. CASE TrapTerm
  BY <1>0, <1>3 DEF IInv, TrapTerm, procVars, dinitVars, PastReap
<1>4. CASE TrapExit
  BY <1>0, <1>4 DEF IInv, TrapExit, procVars, dinitVars, PastReap
<1>5. CASE ScriptEnds
  BY <1>0, <1>5 DEF IInv, ScriptEnds, procVars
<1>6. CASE ProxyUp
  BY <1>0, <1>6 DEF IInv, ProxyUp, scriptVars, dinitVars
<1>7. CASE ProxyDies
  BY <1>0, <1>7, NoDeviceStep DEF IInv, ProxyDies, scriptVars, dinitVars
<1>8. CASE Stop
  <2>1. pc \in IpCommands => NextCommand[pc] \in {"add100", "route", "add200", "wait"}
    BY <1>0, CommandSteps DEF Commands, IpCommands
  <2>2. trap \in IpCommands =>
          /\ trap \in PastReap
          /\ NextCleanup[trap] \in PastReap \cup {"none"}
    BY <1>0, CleanupSteps DEF Cleanups, IpCommands, PastReap
  <2>3. /\ pc' # pc => pc' \in {"down", "add100", "route", "add200", "wait"}
        /\ trap' # trap => trap \in PastReap /\ trap' \in PastReap \cup {"none"}
        /\ xray' = xray /\ net' = net /\ pending' = (pc # "boot")
        /\ pc' = "down" => pc = "boot" /\ trap' = trap
        /\ pc # "down"
    BY <1>0, <1>8, <2>1, <2>2 DEF Stop, Commands, IpCommands
  <2>4. CASE pc = "boot"
    <3>1. trap = "none" /\ pc' = "down" /\ trap' = "none" /\ ~pending'
      BY <1>8, <2>4 DEF IInv, Stop, IpCommands
    <3> QED
      BY <1>0, <2>3, <2>4, <3>1 DEF IInv, PastReap
  <2>5. CASE pc # "boot"
    <3>1. pending' /\ pc' \notin {"boot", "down"}
      BY <2>3, <2>5
    <3>2. pc' = "spawn" => xray' = "none"
      BY <2>3 DEF IInv
    <3>3. trap' \in PastReap => xray' = "none"
      BY <2>3 DEF IInv, PastReap
    <3> QED
      BY <1>0, <2>3, <3>1, <3>2, <3>3 DEF IInv
  <2> QED
    BY <2>4, <2>5
<1>9. CASE Kill
  BY <1>0, <1>9, NoDeviceStep DEF IInv, Kill, dinitVars, PastReap
<1>10. CASE Stopped
  BY <1>0, <1>10 DEF IInv, Stopped, scriptVars, procVars
<1>11. CASE Start
  BY <1>0, <1>11 DEF IInv, Start, procVars, PastReap
<1>12. CASE UNCHANGED vars
  BY <1>0, <1>12 DEF IInv, vars, scriptVars, procVars
<1> QED
  BY <1>1, <1>2, <1>3, <1>4, <1>5, <1>6, <1>7, <1>8, <1>9, <1>10, <1>11, <1>12 DEF Next, Script

(* The inductive invariant holds throughout.                                 *)
THEOREM Invariance == Spec => []IInv
  BY InvInit, InvNext, PTL DEF Spec

(* No routing loop, whatever is stopped, killed or restarted when.          *)
THEOREM RoutingIsSafe == Spec => []NoRoutingLoop
<1>1. IInv => NoRoutingLoop
  BY DEF IInv, NoRoutingLoop
<1> QED
  BY <1>1, Invariance, PTL

(* The script never starts a second proxy beside a first.                    *)
THEOREM SingleProxy == Spec => []OneProxy
<1>1. IInv => OneProxy
  BY DEF IInv, OneProxy
<1> QED
  BY <1>1, Invariance, PTL

------------------------------------------------------------------------------
(* A rule is gone once a cleanup is past it, unless a SIGTERM came, which    *)
(* may have killed the command and makes the cleanup begin again.            *)
Cleaned ==
  /\ trap \in {"del100", "delroute", "linkdown"} /\ ~pending => ~net.rule200
  /\ trap \in {"delroute", "linkdown"} /\ ~pending => ~net.rule100
  /\ pc = "exit" /\ trap = "none" /\ ~pending => ~net.rule100 /\ ~net.rule200
  /\ clean => pc = "down" /\ ~net.rule100 /\ ~net.rule200

LEMMA CleanedNext == IInv /\ IInv' /\ Cleaned /\ [Next]_vars => Cleaned'
<1> SUFFICES ASSUME IInv, IInv', Cleaned, [Next]_vars PROVE Cleaned'
  OBVIOUS
<1>0. /\ pc \in Commands \cup {"end", "exit", "down"}
      /\ trap \in Cleanups \cup {"none"}
      /\ net \in NetType
  BY CommandSteps, CleanupSteps DEF IInv, TypeOK, NetType
<1>1. CASE Command
  <2>1. pc' # "exit" /\ pc # "down" /\ trap' = "none" /\ clean' = clean
    BY <1>0, <1>1, CommandSteps DEF Command, Commands, dinitVars
  <2> QED
    BY <2>1 DEF Cleaned
<1>2. CASE CleanupCommand
  <2>1. /\ trap \in Cleanups /\ trap' = NextCleanup[trap] /\ net' = NetAfter(trap)
        /\ ~pending /\ pc' = pc /\ clean' = clean
    BY <1>0, <1>2 DEF CleanupCommand, dinitVars
  <2>2. trap' \in {"del100", "delroute", "linkdown", "none"} => ~net'.rule200
    BY <1>0, <2>1, CleanupSteps, NetSteps DEF Cleaned, Cleanups
  <2>3. trap' \in {"delroute", "linkdown", "none"} => ~net'.rule100
    BY <1>0, <2>1, CleanupSteps, NetSteps DEF Cleaned, Cleanups
  <2>4. ~clean
    BY <2>1 DEF IInv, Cleaned, Cleanups
  <2> QED
    BY <2>1, <2>2, <2>3, <2>4 DEF Cleaned
<1>3. CASE TrapTerm
  BY <1>3 DEF IInv, Cleaned, TrapTerm, dinitVars
<1>4. CASE TrapExit
  BY <1>4 DEF Cleaned, TrapExit, dinitVars
<1>5. CASE ScriptEnds
  BY <1>5 DEF Cleaned, ScriptEnds, procVars
<1>6. CASE ProxyUp
  BY <1>6 DEF Cleaned, ProxyUp, scriptVars, dinitVars
<1>7. CASE ProxyDies
  BY <1>0, <1>7, NoDeviceStep DEF Cleaned, ProxyDies, scriptVars, dinitVars
<1>8. CASE Stop
  <2>1. pc # "down" /\ clean' = clean
    BY <1>8 DEF Stop
  <2>2. CASE pc = "boot"
    <3>1. pc' = "down" /\ trap' = "none"
      BY <1>8, <2>2 DEF IInv, Stop, IpCommands
    <3> QED
      BY <2>1, <3>1 DEF Cleaned
  <2>3. CASE pc # "boot"
    <3>1. pending'
      BY <1>8, <2>3 DEF Stop
    <3> QED
      BY <2>1, <3>1 DEF Cleaned
  <2> QED
    BY <2>2, <2>3
<1>9. CASE Kill
  BY <1>9 DEF Cleaned, Kill, dinitVars
<1>10. CASE Stopped
  BY <1>10 DEF Cleaned, Stopped, scriptVars
<1>11. CASE Start
  BY <1>11 DEF IInv, Cleaned, Start
<1>12. CASE UNCHANGED vars
  BY <1>12 DEF Cleaned, vars, scriptVars, dinitVars
<1> QED
  BY <1>1, <1>2, <1>3, <1>4, <1>5, <1>6, <1>7, <1>8, <1>9, <1>10, <1>11, <1>12 DEF Next, Script

(* A script that ended by itself has put the routing back and has no proxy.  *)
THEOREM ExitIsClean == Spec => []CleanExit
<1>1. Init => Cleaned
  BY DEF Init, Cleaned
<1>2. IInv /\ Cleaned => CleanExit
  BY DEF IInv, Cleaned, CleanExit
<1> QED
  BY <1>1, <1>2, CleanedNext, Invariance, PTL DEF Spec
=============================================================================
