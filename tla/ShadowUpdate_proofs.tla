------------------------ MODULE ShadowUpdate_proofs ------------------------
(* Proofs about ShadowUpdate for any number of processes, users, hashes,    *)
(* lock attempts, kills and power failures.                                 *)
EXTENDS ShadowUpdate, FiniteSetTheorems, TLAPS

(* The inductive invariant. LockHeld is mutual exclusion; LocalOK says what *)
(* a process's temporary file holds at each point of the copy, relative to  *)
(* the /etc/shadow that the lock keeps still.                               *)
Locked == {"mkstemp", "open", "copy", "sync", "rename", "outOk", "outErr"}

LockHeld == \A p \in Procs : loc[p].pc \in Locked <=> lock = p

Copied(l, u) == IF u = l.req.user THEN l.req.hash ELSE l.src[u]

LocalOK(l, s) ==
  /\ l.pc \in {"idle", "lock", "mkstemp", "open"} => l.temp = Empty /\ l.rest = {}
  /\ l.pc \in {"idle", "lock", "mkstemp", "outOk"} => l.tstate = "none"
  /\ l.pc = "rename" => l.tstate = "synced"
  /\ l.pc \in {"copy", "sync", "rename"} => l.src = s
  /\ l.pc = "copy" =>
       /\ l.rest \subseteq Lines(s)
       /\ \A u \in Users : l.temp[u] = IF s[u] = NoLine \/ u \in l.rest THEN NoLine ELSE Copied(l, u)
  /\ l.pc \in {"sync", "rename"} =>
       /\ \A u \in Users : l.temp[u] = IF u # l.req.user /\ u \in l.rest THEN NoLine ELSE Copied(l, u)
       /\ l.rest = {} \/ ReadFaults

(* The directory the disk holds may have one temporary file more than kills *)
(* and power failures account for: the one in use when it was written.      *)
DiskLitterBounded == diskTemps <= crashes + 1

IInv ==
  /\ TypeOK
  /\ LockHeld
  /\ \A p \in Procs : LocalOK(loc[p], shadow)
  /\ synced
  /\ NoLineLost
  /\ LitterBounded
  /\ DiskLitterBounded

------------------------------------------------------------------------------
(* Giving one process new locals leaves the others as they are.             *)
LEMMA SetLocFrame ==
  ASSUME loc \in [Procs -> Locs], NEW p \in Procs, NEW l, SetLoc(p, l)
  PROVE  /\ l \in Locs => loc' \in [Procs -> Locs]
         /\ loc'[p] = l
         /\ \A q \in Procs : q # p => loc'[q] = loc[q]
  BY DEF SetLoc

LEMMA IdleLocType == IdleLoc \in Locs /\ IdleLoc.pc = "idle" /\ IdleLoc.req = NoRequest
  BY ShadowAssumption DEF IdleLoc, Locs, Labels, Contents, Empty

(* What a power failure leaves of a synced file is the file.                 *)
LEMMA SyncedSurvives == ASSUME NEW c PROVE Survivors(c, TRUE) = {c}
  BY DEF Survivors

LEMMA SurvivorsType ==
  ASSUME NEW c \in Contents, NEW b \in BOOLEAN
  PROVE  Survivors(c, b) \subseteq Contents
  BY DEF Survivors, Contents

(* Moving to another label inside a call.                                    *)
LEMMA TypeStep ==
  ASSUME TypeOK, NEW p \in Procs, NEW l \in Locs, SetLoc(p, l),
         l.pc = "idle" <=> l.req = NoRequest
  PROVE  /\ loc' \in [Procs -> Locs]
         /\ \A q \in Procs : loc'[q].pc = "idle" <=> loc'[q].req = NoRequest
  BY SetLocFrame DEF TypeOK, At

LEMMA TypeInit == Init => TypeOK
  BY ShadowAssumption, IdleLocType DEF Init, TypeOK, At

(* Only the holder of the lock has a temporary file.                         *)
LEMMA OneTemp ==
  ASSUME LitterBounded
  PROVE  Cardinality({p \in Procs : loc[p].tstate # "none"}) \in {0, 1}
<1> DEFINE T == {p \in Procs : loc[p].tstate # "none"}
<1>1. T = {} \/ T = {lock}
  BY DEF LitterBounded
<1> QED
  BY <1>1, FS_EmptySet, FS_Singleton

LEMMA FewTemps ==
  ASSUME TypeOK, LitterBounded
  PROVE  Temps \in Nat /\ Temps <= crashes + 1
<1>1. Cardinality({p \in Procs : loc[p].tstate # "none"}) \in {0, 1}
  BY OneTemp
<1> QED
  BY <1>1 DEF Temps, TypeOK, LitterBounded

LEMMA TypeNext == TypeOK /\ LitterBounded /\ [Next]_vars => TypeOK'
<1> SUFFICES ASSUME TypeOK, LitterBounded, [Next]_vars PROVE TypeOK'
  OBVIOUS
<1> USE ShadowAssumption
<1>1. ASSUME NEW p \in Procs, NEW u \in Users, NEW h \in Hashes, Call(p, u, h) PROVE TypeOK'
  <2> DEFINE l == [IdleLoc EXCEPT !.pc = "lock", !.req = [user |-> u, hash |-> h]]
  <2>1. l \in Locs /\ l.pc = "lock" /\ l.req \in Requests
    BY IdleLocType DEF Locs, Labels, Requests
  <2>2. l.pc = "idle" <=> l.req = NoRequest
    BY <2>1
  <2>3. SetLoc(p, l)
    BY <1>1 DEF Call
  <2> HIDE DEF l
  <2> QED
    BY <1>1, <2>1, <2>2, <2>3, TypeStep DEF Call, TypeOK, At, fileVars, crashVars
<1>2. ASSUME NEW p \in Procs, LckpwdfSucceeds(p) PROVE TypeOK'
  <2> DEFINE l == [loc[p] EXCEPT !.pc = "mkstemp"]
  <2>1. l \in Locs /\ (l.pc = "idle" <=> l.req = NoRequest)
    BY <1>2 DEF Locs, Labels, TypeOK, At, LckpwdfSucceeds
  <2>2. SetLoc(p, l)
    BY <1>2 DEF LckpwdfSucceeds
  <2> HIDE DEF l
  <2> QED
    BY <1>2, <2>1, <2>2, TypeStep DEF LckpwdfSucceeds, TypeOK, At, fileVars, crashVars
<1>3. ASSUME NEW p \in Procs, LckpwdfFails(p) PROVE TypeOK'
  <2>1. CASE loc[p].tries + 1 < MaxTries
    <3> DEFINE l == [loc[p] EXCEPT !.tries = @ + 1]
    <3>1. l \in Locs /\ (l.pc = "idle" <=> l.req = NoRequest)
      BY <2>1 DEF Locs, TypeOK, At
    <3>2. SetLoc(p, l)
      BY <1>3, <2>1 DEF LckpwdfFails
    <3> HIDE DEF l
    <3> QED
      BY <1>3, <2>1, <3>1, <3>2, TypeStep DEF LckpwdfFails, TypeOK, At, fileVars, crashVars
  <2>2. CASE ~(loc[p].tries + 1 < MaxTries)
    BY <1>3, <2>2, IdleLocType, TypeStep DEF LckpwdfFails, Returns, TypeOK, At, fileVars, crashVars
  <2> QED
    BY <2>1, <2>2
<1>4. ASSUME NEW p \in Procs, MakeTemp(p) PROVE TypeOK'
  <2> DEFINE l == [loc[p] EXCEPT !.pc = "open", !.tstate = "dirty"]
  <2>1. l \in Locs /\ (l.pc = "idle" <=> l.req = NoRequest)
    <3>1. loc[p] \in Locs /\ loc[p].pc # "idle" /\ loc[p].req # NoRequest
      BY <1>4 DEF TypeOK, At, MakeTemp
    <3>2. l \in Locs
      BY <3>1 DEF Locs, Labels
    <3>3. l.pc # "idle" /\ l.req = loc[p].req
      BY <3>1 DEF Locs
    <3> QED
      BY <3>1, <3>2, <3>3
  <2>2. SetLoc(p, l)
    BY <1>4 DEF MakeTemp
  <2> HIDE DEF l
  <2> QED
    BY <1>4, <2>1, <2>2, TypeStep DEF MakeTemp, TypeOK, At, fileVars, crashVars
<1>5. ASSUME NEW p \in Procs, OpenShadow(p) PROVE TypeOK'
  <2> DEFINE l == [loc[p] EXCEPT !.pc = "copy", !.src = shadow, !.rest = Lines(shadow)]
  <2>1. l \in Locs /\ (l.pc = "idle" <=> l.req = NoRequest)
    <3>1. loc[p] \in Locs /\ loc[p].pc # "idle" /\ loc[p].req # NoRequest /\ shadow \in Contents
      BY <1>5 DEF TypeOK, At, OpenShadow
    <3>2. l \in Locs
      BY <3>1 DEF Locs, Labels, Lines
    <3>3. l.pc # "idle" /\ l.req = loc[p].req
      BY <3>1 DEF Locs
    <3> QED
      BY <3>1, <3>2, <3>3
  <2>2. SetLoc(p, l)
    BY <1>5 DEF OpenShadow
  <2> HIDE DEF l
  <2> QED
    BY <1>5, <2>1, <2>2, TypeStep DEF OpenShadow, TypeOK, At, fileVars, crashVars
<1>6. ASSUME NEW p \in Procs, NEW u \in Users, CopyLine(p, u) PROVE TypeOK'
  <2> DEFINE line == IF u = loc[p].req.user THEN loc[p].req.hash ELSE loc[p].src[u]
             l == [loc[p] EXCEPT !.temp = [@ EXCEPT ![u] = line], !.rest = @ \ {u}]
  <2>1. loc[p] \in Locs /\ loc[p].req \in Requests
    BY <1>6 DEF TypeOK, At, CopyLine, Locs
  <2>2. line \in Hashes \cup {NoLine}
    BY <2>1 DEF Locs, Requests, Contents
  <2>3. [loc[p].temp EXCEPT ![u] = line] \in Contents
    BY <2>1, <2>2 DEF Locs, Contents
  <2>4. l \in Locs /\ (l.pc = "idle" <=> l.req = NoRequest)
    BY <2>1, <2>3, <1>6 DEF Locs, TypeOK, At
  <2>5. SetLoc(p, l)
    BY <1>6 DEF CopyLine
  <2> HIDE DEF l
  <2> QED
    BY <1>6, <2>4, <2>5, TypeStep DEF CopyLine, TypeOK, At, fileVars, crashVars
<1>7. ASSUME NEW p \in Procs, EndOfLines(p) PROVE TypeOK'
  <2> DEFINE r == loc[p].req
             l == [loc[p] EXCEPT !.pc = "sync", !.temp = [@ EXCEPT ![r.user] = r.hash]]
  <2>1. loc[p] \in Locs /\ loc[p].req \in Requests
    BY <1>7 DEF TypeOK, At, EndOfLines, Locs
  <2>2. [loc[p].temp EXCEPT ![r.user] = r.hash] \in Contents
    BY <2>1 DEF Locs, Requests, Contents
  <2>3. l \in Locs /\ (l.pc = "idle" <=> l.req = NoRequest)
    BY <2>1, <2>2, <1>7 DEF Locs, Labels, TypeOK, At
  <2>4. SetLoc(p, l)
    BY <1>7 DEF EndOfLines
  <2> HIDE DEF l
  <2> QED
    BY <1>7, <2>3, <2>4, TypeStep DEF EndOfLines, TypeOK, At, fileVars, crashVars
<1>8. ASSUME NEW p \in Procs, SyncTemp(p) PROVE TypeOK'
  <2> DEFINE l == [loc[p] EXCEPT !.pc = "rename", !.tstate = "synced"]
  <2>1. l \in Locs /\ (l.pc = "idle" <=> l.req = NoRequest)
    <3>1. loc[p] \in Locs /\ loc[p].pc # "idle" /\ loc[p].req # NoRequest
      BY <1>8 DEF TypeOK, At, SyncTemp
    <3>2. l \in Locs
      BY <3>1 DEF Locs, Labels
    <3>3. l.pc # "idle" /\ l.req = loc[p].req
      BY <3>1 DEF Locs
    <3> QED
      BY <3>1, <3>2, <3>3
  <2>2. SetLoc(p, l)
    BY <1>8 DEF SyncTemp
  <2> HIDE DEF l
  <2> QED
    BY <1>8, <2>1, <2>2, TypeStep DEF SyncTemp, TypeOK, At, fileVars, crashVars
<1>9. ASSUME NEW p \in Procs, RenameTemp(p) PROVE TypeOK'
  <2> DEFINE l == [loc[p] EXCEPT !.pc = "outOk", !.tstate = "none"]
  <2>1. l \in Locs /\ (l.pc = "idle" <=> l.req = NoRequest)
    <3>1. loc[p] \in Locs /\ loc[p].pc # "idle" /\ loc[p].req # NoRequest
      BY <1>9 DEF TypeOK, At, RenameTemp
    <3>2. l \in Locs
      BY <3>1 DEF Locs, Labels
    <3>3. l.pc # "idle" /\ l.req = loc[p].req
      BY <3>1 DEF Locs
    <3> QED
      BY <3>1, <3>2, <3>3
  <2>2. SetLoc(p, l)
    BY <1>9 DEF RenameTemp
  <2>3. loc[p].temp \in Contents /\ loc[p].rest \subseteq Users
    BY DEF TypeOK, Locs
  <2> HIDE DEF l
  <2> QED
    BY <1>9, <2>1, <2>2, <2>3, TypeStep DEF RenameTemp, TypeOK, At, crashVars
<1>10. ASSUME NEW p \in Procs, SyscallFails(p) PROVE TypeOK'
  <2> DEFINE l == [loc[p] EXCEPT !.pc = "outErr"]
  <2>1. l \in Locs /\ (l.pc = "idle" <=> l.req = NoRequest)
    BY <1>10 DEF Locs, Labels, TypeOK, At, SyscallFails
  <2>2. SetLoc(p, l)
    BY <1>10 DEF SyscallFails
  <2> HIDE DEF l
  <2> QED
    BY <1>10, <2>1, <2>2, TypeStep DEF SyscallFails, TypeOK, At, fileVars, crashVars
<1>11. ASSUME NEW p \in Procs, Out(p) PROVE TypeOK'
  BY <1>11, IdleLocType, TypeStep DEF Out, Returns, TypeOK, At, fileVars
<1>12. ASSUME NEW p \in Procs, Crash(p) PROVE TypeOK'
  BY <1>12, IdleLocType, TypeStep DEF Crash, TypeOK, At, fileVars
<1>13. CASE WriteBack
  BY <1>13, SurvivorsType, FewTemps DEF WriteBack, TypeOK, At
<1>14. CASE PowerFail
  <2>1. litter' \in Nat
    BY <1>14, FewTemps DEF PowerFail, TypeOK
  <2>2. shadow' \in Contents
    BY <1>14, SurvivorsType DEF PowerFail, TypeOK
  <2> QED
    BY <1>14, <2>1, <2>2, IdleLocType DEF PowerFail, TypeOK, At
<1>15. CASE UNCHANGED vars
  BY <1>15 DEF vars, TypeOK, At, fileVars, crashVars
<1> QED
  BY <1>1, <1>2, <1>3, <1>4, <1>5, <1>6, <1>7, <1>8, <1>9, <1>10, <1>11,
     <1>12, <1>13, <1>14, <1>15 DEF Next, Step

------------------------------------------------------------------------------
(* What the processes know of each other: when one process takes a step that *)
(* leaves /etc/shadow and the lock alone, only its own part of LockHeld,     *)
(* LocalOK and LitterBounded is at stake.                                    *)
LocalPart(p, l) ==
  /\ l.pc \in Locked <=> lock = p
  /\ LocalOK(l, shadow)
  /\ l.tstate # "none" => lock = p

LEMMA LocalStep ==
  ASSUME IInv, NEW p \in Procs, NEW l \in Locs, SetLoc(p, l), TypeOK',
         UNCHANGED <<lock, fileVars, crashVars>>, LocalPart(p, l)
  PROVE  IInv'
<1>1. /\ loc'[p] = l
      /\ \A q \in Procs : q # p => loc'[q] = loc[q]
  BY SetLocFrame DEF IInv, TypeOK
<1>2. LockHeld' /\ LitterBounded' /\ DiskLitterBounded'
  BY <1>1 DEF IInv, LockHeld, LitterBounded, DiskLitterBounded, LocalPart, crashVars
<1>3. \A q \in Procs : LocalOK(loc'[q], shadow)
  BY <1>1 DEF IInv, LocalPart
<1>4. NoLineLost' /\ synced'
  BY DEF IInv, NoLineLost, fileVars
<1> QED
  BY <1>2, <1>3, <1>4 DEF IInv, fileVars

LEMMA IdleLocOK == ASSUME NEW s PROVE LocalOK(IdleLoc, s)
  BY DEF LocalOK, IdleLoc

LEMMA InvInit == Init => IInv
<1> SUFFICES ASSUME Init PROVE IInv
  OBVIOUS
<1>1. TypeOK
  BY TypeInit
<1>2. LockHeld /\ LitterBounded /\ DiskLitterBounded
  BY ShadowAssumption DEF Init, LockHeld, LitterBounded, DiskLitterBounded, IdleLoc, Locked
<1>3. \A p \in Procs : LocalOK(loc[p], shadow)
  BY IdleLocOK DEF Init
<1>4. NoLineLost
  BY DEF Init, NoLineLost, Lines
<1> QED
  BY <1>1, <1>2, <1>3, <1>4 DEF Init, IInv

LEMMA InvNext == IInv /\ [Next]_vars => IInv'
<1> SUFFICES ASSUME IInv, [Next]_vars PROVE IInv'
  OBVIOUS
<1> USE ShadowAssumption
<1>0. TypeOK' /\ TypeOK /\ LockHeld /\ LitterBounded
  BY TypeNext DEF IInv
<1>S. Survivors(shadow, synced) = {shadow}
  <2>1. synced = TRUE
    BY <1>0 DEF IInv, TypeOK
  <2> QED
    BY <2>1, SyncedSurvives
<1>1. ASSUME NEW p \in Procs, NEW u \in Users, NEW h \in Hashes, Call(p, u, h) PROVE IInv'
  <2> DEFINE l == [IdleLoc EXCEPT !.pc = "lock", !.req = [user |-> u, hash |-> h]]
  <2>1. l \in Locs
    BY IdleLocType DEF Locs, Labels, Requests
  <2>2. LocalPart(p, l)
    BY <1>0, <1>1 DEF LocalPart, LocalOK, Call, At, LockHeld, Locked, IdleLoc
  <2>3. SetLoc(p, l)
    BY <1>1 DEF Call
  <2> HIDE DEF l
  <2> QED
    BY <1>0, <1>1, <2>1, <2>2, <2>3, LocalStep DEF Call
<1>2. ASSUME NEW p \in Procs, LckpwdfSucceeds(p) PROVE IInv'
  <2> DEFINE l == [loc[p] EXCEPT !.pc = "mkstemp"]
  <2>1. l \in Locs /\ SetLoc(p, l)
    <3>1. loc[p] \in Locs
      BY <1>0 DEF TypeOK
    <3>2. l \in Locs
      BY <3>1 DEF Locs, Labels
    <3> QED
      BY <1>2, <3>2 DEF LckpwdfSucceeds
  <2>2. loc'[p] = l /\ \A q \in Procs : q # p => loc'[q] = loc[q]
    BY <1>0, <2>1, SetLocFrame DEF TypeOK
  <2>3. l.pc = "mkstemp" /\ LocalOK(l, shadow) /\ l.tstate = "none"
    BY <1>0, <1>2 DEF IInv, LocalOK, LckpwdfSucceeds, At, TypeOK, Locs
  <2> HIDE DEF l
  <2>4. LockHeld' /\ LitterBounded'
    BY <1>0, <1>2, <2>2, <2>3 DEF LckpwdfSucceeds, LockHeld, LitterBounded, Locked, crashVars
  <2>5. \A q \in Procs : LocalOK(loc'[q], shadow)
    BY <2>2, <2>3 DEF IInv
  <2> QED
    BY <1>0, <1>2, <2>4, <2>5 DEF IInv, LckpwdfSucceeds, fileVars, crashVars, NoLineLost, DiskLitterBounded
<1>3. ASSUME NEW p \in Procs, LckpwdfFails(p) PROVE IInv'
  <2>1. CASE loc[p].tries + 1 < MaxTries
    <3> DEFINE l == [loc[p] EXCEPT !.tries = @ + 1]
    <3>1. l \in Locs
      <4>1. loc[p] \in Locs
        BY <1>0 DEF TypeOK
      <4> QED
        BY <2>1, <4>1 DEF Locs
    <3>2. SetLoc(p, l)
      BY <1>3, <2>1 DEF LckpwdfFails
    <3>3. LocalPart(p, l)
      BY <1>0, <1>3 DEF IInv, LocalPart, LocalOK, LckpwdfFails, At, LockHeld, Locked, TypeOK, Locs
    <3> HIDE DEF l
    <3> QED
      BY <1>0, <1>3, <3>1, <3>2, <3>3, LocalStep DEF LckpwdfFails
  <2>2. CASE ~(loc[p].tries + 1 < MaxTries)
    <3>1. LocalPart(p, IdleLoc)
      BY <1>0, <1>3, IdleLocOK, IdleLocType
         DEF LocalPart, LckpwdfFails, At, LockHeld, Locked, IdleLoc
    <3> QED
      BY <1>0, <1>3, <2>2, <3>1, IdleLocType, LocalStep DEF LckpwdfFails, Returns
  <2> QED
    BY <2>1, <2>2
<1>4. ASSUME NEW p \in Procs, MakeTemp(p) PROVE IInv'
  <2> DEFINE l == [loc[p] EXCEPT !.pc = "open", !.tstate = "dirty"]
  <2>c. loc[p] \in Locs
    BY <1>0 DEF TypeOK
  <2>a. l \in Locs
    BY <2>c DEF Locs, Labels
  <2>b. SetLoc(p, l)
    BY <1>4 DEF MakeTemp
  <2>1. l \in Locs /\ SetLoc(p, l)
    BY <2>a, <2>b
  <2>2. LocalPart(p, l)
    BY <1>0, <1>4 DEF IInv, LocalPart, LocalOK, MakeTemp, At, LockHeld, Locked, TypeOK, Locs
  <2> HIDE DEF l
  <2> QED
    BY <1>0, <1>4, <2>1, <2>2, LocalStep DEF MakeTemp
<1>5. ASSUME NEW p \in Procs, OpenShadow(p) PROVE IInv'
  <2> DEFINE l == [loc[p] EXCEPT !.pc = "copy", !.src = shadow, !.rest = Lines(shadow)]
  <2>c. loc[p] \in Locs /\ shadow \in Contents /\ Lines(shadow) \in SUBSET Users
    BY <1>0 DEF TypeOK, Lines
  <2>a. l \in Locs
    BY <2>c DEF Locs, Labels
  <2>b. SetLoc(p, l)
    BY <1>5 DEF OpenShadow
  <2>1. l \in Locs /\ SetLoc(p, l)
    BY <2>a, <2>b
  <2>2. loc[p].temp = Empty /\ lock = p
    BY <1>0, <1>5 DEF IInv, LocalOK, OpenShadow, At, LockHeld, Locked
  <2>3. l.pc = "copy" /\ l.src = shadow /\ l.rest = Lines(shadow) /\ l.temp = Empty
    BY <1>0, <2>2 DEF TypeOK, Locs
  <2> HIDE DEF l
  <2>4. LocalPart(p, l)
    BY <1>0, <2>2, <2>3 DEF LocalPart, LocalOK, Locked, Lines, Empty, Copied, TypeOK, Contents
  <2> QED
    BY <1>0, <1>5, <2>1, <2>4, LocalStep DEF OpenShadow
<1>6. ASSUME NEW p \in Procs, NEW u \in Users, CopyLine(p, u) PROVE IInv'
  <2> DEFINE line == IF u = loc[p].req.user THEN loc[p].req.hash ELSE loc[p].src[u]
             l == [loc[p] EXCEPT !.temp = [@ EXCEPT ![u] = line], !.rest = @ \ {u}]
  <2>1. SetLoc(p, l)
    BY <1>6 DEF CopyLine
  <2>2. loc[p] \in Locs /\ loc[p].req \in Requests /\ loc[p].pc = "copy" /\ u \in loc[p].rest
    BY <1>0, <1>6 DEF TypeOK, At, CopyLine, Locs
  <2>3. line \in Hashes \cup {NoLine}
    BY <2>2 DEF Locs, Requests, Contents
  <2>4. l \in Locs
    BY <2>2, <2>3 DEF Locs, Contents
  <2>5. /\ l.pc = "copy" /\ l.src = loc[p].src /\ l.req = loc[p].req
        /\ l.rest = loc[p].rest \ {u} /\ l.temp = [loc[p].temp EXCEPT ![u] = line]
    BY <2>2 DEF Locs
  <2>6. line = Copied(l, u)
    BY <2>5 DEF Copied
  <2>7. loc[p].src = shadow /\ lock = p
    BY <1>0, <2>2 DEF IInv, LocalOK, LockHeld, Locked
  <2>8. \A v \in Users : loc[p].temp[v] =
          IF shadow[v] = NoLine \/ v \in loc[p].rest THEN NoLine ELSE Copied(loc[p], v)
    BY <1>0, <2>2 DEF IInv, LocalOK
  <2> HIDE DEF l, line
  <2>9. shadow[u] # NoLine /\ l.rest \subseteq Lines(shadow)
    BY <1>0, <2>2, <2>5 DEF IInv, LocalOK, Lines
  <2>10. ASSUME NEW v \in Users
         PROVE  l.temp[v] = IF shadow[v] = NoLine \/ v \in l.rest THEN NoLine ELSE Copied(l, v)
    <3>1. CASE v = u
      BY <2>2, <2>5, <2>6, <2>9, <3>1 DEF Locs, Contents
    <3>2. CASE v # u
      BY <2>2, <2>5, <2>8, <3>2 DEF Locs, Contents, Copied
    <3> QED
      BY <3>1, <3>2
  <2>11. LocalPart(p, l)
    BY <2>5, <2>7, <2>9, <2>10 DEF LocalPart, LocalOK, Locked
  <2> QED
    BY <1>0, <1>6, <2>1, <2>4, <2>11, LocalStep DEF CopyLine
<1>7. ASSUME NEW p \in Procs, EndOfLines(p) PROVE IInv'
  <2> DEFINE r == loc[p].req
             l == [loc[p] EXCEPT !.pc = "sync", !.temp = [@ EXCEPT ![r.user] = r.hash]]
  <2>1. SetLoc(p, l)
    BY <1>7 DEF EndOfLines
  <2>2. loc[p] \in Locs /\ r \in Requests /\ loc[p].pc = "copy"
    BY <1>0, <1>7 DEF TypeOK, At, EndOfLines, Locs
  <2>3. l \in Locs
    BY <2>2 DEF Locs, Labels, Contents, Requests
  <2>4. /\ l.pc = "sync" /\ l.src = loc[p].src /\ l.req = r /\ l.rest = loc[p].rest
        /\ l.temp = [loc[p].temp EXCEPT ![r.user] = r.hash]
    BY <2>2 DEF Locs
  <2>5. loc[p].src = shadow /\ lock = p /\ loc[p].rest \subseteq Lines(shadow)
    BY <1>0, <2>2 DEF IInv, LocalOK, LockHeld, Locked
  <2>6. \A v \in Users : loc[p].temp[v] =
          IF shadow[v] = NoLine \/ v \in loc[p].rest THEN NoLine ELSE Copied(loc[p], v)
    BY <1>0, <2>2 DEF IInv, LocalOK
  <2>7. l.rest = {} \/ ReadFaults
    BY <1>7, <2>4 DEF EndOfLines
  <2> HIDE DEF l
  <2>8. ASSUME NEW v \in Users
        PROVE  l.temp[v] = IF v # l.req.user /\ v \in l.rest THEN NoLine ELSE Copied(l, v)
    <3>1. CASE v = r.user
      BY <2>2, <2>4, <3>1 DEF Locs, Contents, Copied
    <3>2. CASE v # r.user
      BY <2>2, <2>4, <2>5, <2>6, <3>2 DEF Locs, Contents, Copied
    <3> QED
      BY <3>1, <3>2
  <2>9. LocalPart(p, l)
    BY <2>4, <2>5, <2>7, <2>8 DEF LocalPart, LocalOK, Locked
  <2> QED
    BY <1>0, <1>7, <2>1, <2>3, <2>9, LocalStep DEF EndOfLines
<1>8. ASSUME NEW p \in Procs, SyncTemp(p) PROVE IInv'
  <2> DEFINE l == [loc[p] EXCEPT !.pc = "rename", !.tstate = "synced"]
  <2>c. loc[p] \in Locs
    BY <1>0 DEF TypeOK
  <2>a. l \in Locs
    BY <2>c DEF Locs, Labels
  <2>b. SetLoc(p, l)
    BY <1>8 DEF SyncTemp
  <2>1. l \in Locs /\ SetLoc(p, l)
    BY <2>a, <2>b
  <2>2. loc[p] \in Locs /\ loc[p].pc = "sync" /\ LocalOK(loc[p], shadow) /\ lock = p
    BY <1>0, <1>8 DEF IInv, SyncTemp, At, TypeOK, LockHeld, Locked
  <2>3. /\ l.pc = "rename" /\ l.tstate = "synced" /\ l.src = loc[p].src
        /\ l.req = loc[p].req /\ l.rest = loc[p].rest /\ l.temp = loc[p].temp
    BY <2>2 DEF Locs
  <2> HIDE DEF l
  <2>4. LocalPart(p, l)
    BY <2>2, <2>3 DEF LocalPart, LocalOK, Locked, Copied
  <2> QED
    BY <1>0, <1>8, <2>1, <2>4, LocalStep DEF SyncTemp
<1>9. ASSUME NEW p \in Procs, RenameTemp(p) PROVE IInv'
  <2> DEFINE l == [loc[p] EXCEPT !.pc = "outOk", !.tstate = "none"]
  <2>c. loc[p] \in Locs
    BY <1>0 DEF TypeOK
  <2>a. l \in Locs
    BY <2>c DEF Locs, Labels
  <2>b. SetLoc(p, l)
    BY <1>9 DEF RenameTemp
  <2>1. l \in Locs /\ SetLoc(p, l)
    BY <2>a, <2>b
  <2>2. loc'[p] = l /\ \A q \in Procs : q # p => loc'[q] = loc[q]
    BY <1>0, <2>1, SetLocFrame DEF TypeOK
  <2>3. loc[p] \in Locs /\ loc[p].pc = "rename" /\ loc[p].req \in Requests
    BY <1>0, <1>9 DEF RenameTemp, At, TypeOK, Locs
  <2>4. l.pc = "outOk" /\ l.tstate = "none"
    BY <2>3 DEF Locs
  <2> HIDE DEF l
  <2>5. lock = p /\ LocalOK(loc[p], shadow)
    BY <1>0, <2>3 DEF IInv, LockHeld, Locked
  <2>6. LockHeld' /\ LitterBounded'
    BY <1>0, <1>9, <2>2, <2>4, <2>5 DEF RenameTemp, LockHeld, LitterBounded, Locked, crashVars
  <2>7. \A q \in Procs : LocalOK(loc'[q], shadow')
    <3>1. LocalOK(l, shadow')
      BY <2>4 DEF LocalOK
    <3>2. ASSUME NEW q \in Procs, q # p PROVE LocalOK(loc[q], shadow')
      <4>1. loc[q].pc \notin Locked /\ LocalOK(loc[q], shadow)
        BY <1>0, <2>5, <3>2 DEF IInv, LockHeld
      <4> QED
        BY <4>1 DEF LocalOK, Locked
    <3> QED
      BY <2>2, <3>1, <3>2
  <2>8. synced'
    BY <1>9, <2>3, <2>5 DEF RenameTemp, LocalOK
  <2>9. NoLineLost'
    <3> SUFFICES ASSUME NEW u \in Lines(InitShadow) \ lost'
                 PROVE  shadow'[u] # NoLine /\ disk'[u] # NoLine
      BY DEF NoLineLost, Lines
    <3>1. u \in Users /\ u \notin lost /\ (u = loc[p].req.user \/ u \notin loc[p].rest)
      BY <1>9 DEF RenameTemp, Lines
    <3>2. shadow[u] # NoLine /\ disk'[u] # NoLine
      BY <1>9, <3>1 DEF IInv, NoLineLost, RenameTemp
    <3>3. shadow'[u] = Copied(loc[p], u) /\ loc[p].src = shadow
      BY <1>9, <2>3, <2>5, <3>1 DEF LocalOK, RenameTemp
    <3> QED
      BY <2>3, <3>2, <3>3 DEF Copied, Requests
  <2>10. DiskLitterBounded'
    BY <1>9 DEF IInv, RenameTemp, DiskLitterBounded, crashVars
  <2> QED
    BY <1>0, <2>6, <2>7, <2>8, <2>9, <2>10 DEF IInv
<1>10. ASSUME NEW p \in Procs, SyscallFails(p) PROVE IInv'
  <2> DEFINE l == [loc[p] EXCEPT !.pc = "outErr"]
  <2>1. l \in Locs /\ SetLoc(p, l)
    <3>1. loc[p] \in Locs /\ SetLoc(p, l)
      BY <1>0, <1>10 DEF TypeOK, SyscallFails
    <3> QED
      BY <3>1 DEF Locs, Labels
  <2>2. LocalPart(p, l)
    BY <1>0, <1>10 DEF IInv, LocalPart, LocalOK, SyscallFails, LockHeld, Locked, TypeOK, Locs
  <2> HIDE DEF l
  <2> QED
    BY <1>0, <1>10, <2>1, <2>2, LocalStep DEF SyscallFails
<1>11. ASSUME NEW p \in Procs, Out(p) PROVE IInv'
  <2>1. SetLoc(p, IdleLoc)
    BY <1>11 DEF Out, Returns
  <2>2. loc'[p] = IdleLoc /\ \A q \in Procs : q # p => loc'[q] = loc[q]
    BY <1>0, <2>1, IdleLocType, SetLocFrame DEF TypeOK
  <2>3. lock = p /\ (loc[p].pc = "outOk" => loc[p].tstate = "none")
    BY <1>0, <1>11 DEF IInv, LocalOK, Out, LockHeld, Locked
  <2>4. LockHeld' /\ LitterBounded'
    BY <1>0, <1>11, <2>2, <2>3 DEF Out, At, LockHeld, LitterBounded, Locked, IdleLoc
  <2>5. \A q \in Procs : LocalOK(loc'[q], shadow)
    BY <2>2, IdleLocOK DEF IInv
  <2> QED
    BY <1>0, <1>11, <2>4, <2>5 DEF IInv, Out, fileVars, NoLineLost, DiskLitterBounded
<1>12. ASSUME NEW p \in Procs, Crash(p) PROVE IInv'
  <2>1. SetLoc(p, IdleLoc)
    BY <1>12 DEF Crash
  <2>2. loc'[p] = IdleLoc /\ \A q \in Procs : q # p => loc'[q] = loc[q]
    BY <1>0, <2>1, IdleLocType, SetLocFrame DEF TypeOK
  <2>3. LockHeld'
    BY <1>0, <1>12, <2>2 DEF Crash, LockHeld, Locked, IdleLoc
  <2>4. LitterBounded'
    BY <1>0, <1>12, <2>2 DEF Crash, LitterBounded, IdleLoc, TypeOK
  <2>5. \A q \in Procs : LocalOK(loc'[q], shadow)
    BY <2>2, IdleLocOK DEF IInv
  <2>6. DiskLitterBounded'
    BY <1>0, <1>12 DEF IInv, Crash, DiskLitterBounded, TypeOK
  <2> QED
    BY <1>0, <1>12, <2>3, <2>4, <2>5, <2>6 DEF IInv, Crash, fileVars, NoLineLost
<1>13. CASE WriteBack
  <2>1. disk' = shadow
    BY <1>13, <1>S DEF WriteBack
  <2>2. DiskLitterBounded'
    BY <1>0, <1>13, FewTemps DEF WriteBack, DiskLitterBounded
  <2> QED
    BY <1>0, <1>13, <2>1, <2>2 DEF IInv, WriteBack, LockHeld, LitterBounded, NoLineLost
<1>14. CASE PowerFail
  <2>1. shadow' \in {disk, shadow} /\ disk' = shadow' /\ synced'
    BY <1>14, <1>S DEF PowerFail
  <2>2. \A q \in Procs : loc'[q] = IdleLoc
    BY <1>14 DEF PowerFail
  <2>3. LockHeld'
    BY <1>14, <2>2 DEF PowerFail, LockHeld, Locked, IdleLoc
  <2>4. LitterBounded' /\ DiskLitterBounded'
    <3>1. litter' <= crashes' /\ diskTemps' <= crashes' + 1
      <4>1. Temps \in Nat /\ Temps <= crashes + 1 /\ diskTemps <= crashes + 1
        BY <1>0, FewTemps DEF IInv, DiskLitterBounded
      <4>2. /\ litter' \in {diskTemps, Temps} /\ diskTemps' = litter' /\ crashes' = crashes + 1
        BY <1>14 DEF PowerFail
      <4>3. diskTemps \in Nat /\ crashes \in Nat
        BY <1>0 DEF TypeOK
      <4> HIDE <1>14
      <4> QED
        BY <4>1, <4>2, <4>3
    <3> QED
      BY <2>2, <3>1 DEF LitterBounded, DiskLitterBounded, IdleLoc
  <2>5. \A q \in Procs : LocalOK(loc'[q], shadow')
    BY <2>2, IdleLocOK
  <2>6. NoLineLost'
    BY <1>14, <2>1 DEF IInv, NoLineLost, PowerFail
  <2> QED
    BY <1>0, <2>1, <2>3, <2>4, <2>5, <2>6 DEF IInv
<1>15. CASE UNCHANGED vars
  BY <1>0, <1>15 DEF IInv, vars, LockHeld, LitterBounded, DiskLitterBounded, NoLineLost, fileVars, crashVars
<1> QED
  BY <1>1, <1>2, <1>3, <1>4, <1>5, <1>6, <1>7, <1>8, <1>9, <1>10, <1>11,
     <1>12, <1>13, <1>14, <1>15 DEF Next, Step

(* The inductive invariant holds throughout.                                 *)
THEOREM Invariance == Spec => []IInv
  BY InvInit, InvNext, PTL DEF Spec

(* Every variable keeps its type.                                            *)
THEOREM TypeCorrect == Spec => []TypeOK
<1>1. IInv => TypeOK
  BY DEF IInv
<1> QED
  BY <1>1, Invariance, PTL

(* Mutual exclusion: two processes are never both between lckpwdf and        *)
(* ulckpwdf (555-616).                                                       *)
THEOREM MutualExclusion ==
  Spec => [](\A p, q \in Procs : loc[p].pc \in Locked /\ loc[q].pc \in Locked => p = q)
<1>1. IInv => \A p, q \in Procs : loc[p].pc \in Locked /\ loc[q].pc \in Locked => p = q
  BY DEF IInv, LockHeld
<1> QED
  BY <1>1, Invariance, PTL

(* Kills, failed calls and power failures never cost a line of /etc/shadow;  *)
(* only a failed read does.                                                  *)
THEOREM LinesSurvive == Spec => []NoLineLost
<1>1. IInv => NoLineLost
  BY DEF IInv
<1> QED
  BY <1>1, Invariance, PTL

(* Temporary files left behind never outnumber kills and power failures.     *)
THEOREM LitterIsBounded == Spec => []LitterBounded
<1>1. IInv => LitterBounded
  BY DEF IInv
<1> QED
  BY <1>1, Invariance, PTL

------------------------------------------------------------------------------
(* At the moment of the rename the temporary file is the current /etc/shadow *)
(* with one line changed, less the lines a failed read kept from it.         *)
LEMMA RenameCommits ==
  ASSUME IInv, NEW p \in Procs, RenameTemp(p)
  PROVE  \A u \in Users :
           shadow'[u] = IF u = loc[p].req.user THEN loc[p].req.hash
                        ELSE IF u \in loc[p].rest THEN NoLine ELSE shadow[u]
<1>1. LocalOK(loc[p], shadow) /\ loc[p].pc = "rename" /\ shadow' = loc[p].temp
  BY DEF IInv, RenameTemp, At
<1> QED
  BY <1>1 DEF LocalOK, Copied

(* No commit undoes another process's.                                       *)
THEOREM UpdatesAreKept == Spec => NoLostUpdate
<1>1. IInv /\ [Next]_vars => [shadow' = shadow \/ crashes' # crashes \/ CommitsOneLine]_vars
  <2> SUFFICES ASSUME IInv, Next, shadow' # shadow
               PROVE  crashes' # crashes \/ CommitsOneLine
    OBVIOUS
  <2>1. TypeOK
    BY DEF IInv
  <2>2. CASE PowerFail
    BY <2>1, <2>2, ShadowAssumption DEF PowerFail, TypeOK
  <2>3. ASSUME NEW p \in Procs, RenameTemp(p) PROVE CommitsOneLine
    <3>1. loc'[p].pc = "outOk"
      BY <2>1, <2>3 DEF RenameTemp, SetLoc, TypeOK, Locs
    <3>2. ASSUME NEW u \in Users
          PROVE  IF u = loc[p].req.user THEN shadow'[u] = loc[p].req.hash
                 ELSE shadow'[u] = shadow[u] \/ (u \in lost' /\ shadow'[u] = NoLine)
      BY <2>3, RenameCommits DEF RenameTemp
    <3> QED
      BY <3>1, <3>2 DEF CommitsOneLine
  <2> QED
    BY <2>2, <2>3 DEF Next, Step, Call, LckpwdfSucceeds, LckpwdfFails, MakeTemp, OpenShadow,
       CopyLine, EndOfLines, SyncTemp, SyscallFails, Out, Crash, WriteBack, fileVars
<1> QED
  BY <1>1, Invariance, PTL DEF Spec, NoLostUpdate

------------------------------------------------------------------------------
(* Refinement of PasswordFile. absJob is the abstract job of each process.   *)
absJob == [p \in Procs |-> AbstractJob(loc[p])]

LEMMA AbstractFrame ==
  ASSUME loc \in [Procs -> Locs], NEW p \in Procs, NEW l, SetLoc(p, l)
  PROVE  absJob' = [absJob EXCEPT ![p] = AbstractJob(l)]
<1>1. absJob' = [q \in Procs |-> AbstractJob(loc'[q])]
  BY DEF absJob
<1>2. loc'[p] = l /\ \A q \in Procs : q # p => loc'[q] = loc[q]
  BY SetLocFrame
<1> QED
  BY <1>1, <1>2 DEF absJob

(* A step inside a call, other than the rename, is a stutter.                *)
LEMMA AbstractStutter ==
  ASSUME loc \in [Procs -> Locs], NEW p \in Procs, NEW l, SetLoc(p, l),
         AbstractJob(l) = AbstractJob(loc[p])
  PROVE  absJob' = absJob
  BY AbstractFrame DEF absJob

LEMMA JobsOfIdle == AbstractJob(IdleLoc) = PF!Idle
  BY DEF AbstractJob, IdleLoc, PF!Idle

LEMMA JobsOfCalls ==
  ASSUME NEW l, l.pc # "idle"
  PROVE  AbstractJob(l).phase = Phase(l.pc) /\ AbstractJob(l) # PF!Idle
<1>1. AbstractJob(l) = [phase |-> Phase(l.pc), user |-> l.req.user, hash |-> l.req.hash]
  BY DEF AbstractJob
<1>2. AbstractJob(l).phase = Phase(l.pc)
  BY <1>1
<1>3. Phase(l.pc) # "idle"
  BY DEF Phase
<1>4. PF!Idle.phase = "idle"
  BY DEF PF!Idle
<1> QED
  BY <1>2, <1>3, <1>4

LEMMA RefineInit == Init => PF!Init
  BY JobsOfIdle DEF Init, PF!Init

LEMMA RefineNext ==
  ASSUME ~ReadFaults, IInv, [Next]_vars
  PROVE  [PF!Next]_(PF!vars)
<1>1. TypeOK
  BY DEF IInv
<1>2. /\ PF!vars = <<shadow, disk, absJob, ret>>
      /\ PF!vars' = <<shadow', disk', absJob', ret'>>
  BY DEF PF!vars, absJob
<1>3. \A p \in Procs : absJob[p] = AbstractJob(loc[p])
  BY DEF absJob
<1>4. ASSUME NEW p \in Procs, NEW l, SetLoc(p, l), UNCHANGED <<ret, shadow, disk>>,
             AbstractJob(l) = AbstractJob(loc[p])
      PROVE  PF!vars' = PF!vars
  BY <1>1, <1>2, <1>4, AbstractStutter DEF TypeOK
<1>5. ASSUME NEW p \in Procs, NEW u \in Users, NEW h \in Hashes, Call(p, u, h) PROVE PF!Next
  <2> DEFINE l == [IdleLoc EXCEPT !.pc = "lock", !.req = [user |-> u, hash |-> h]]
  <2>1. l \in Locs /\ AbstractJob(l) = PF!Job("pending", u, h)
    BY IdleLocType DEF Locs, Labels, Requests, AbstractJob, Phase, PF!Job
  <2>2. SetLoc(p, l)
    BY <1>5 DEF Call
  <2> HIDE DEF l
  <2>3. absJob' = [absJob EXCEPT ![p] = PF!Job("pending", u, h)]
    BY <1>1, <2>1, <2>2, AbstractFrame DEF TypeOK
  <2>4. absJob[p] = PF!Idle
    BY <1>3, <1>5 DEF Call, At, AbstractJob, PF!Idle
  <2>5. PF!Request(p, u, h)
    BY <1>5, <2>3, <2>4 DEF PF!Request, Call, fileVars, absJob
  <2> QED
    BY <2>5 DEF PF!Next
<1>6. ASSUME NEW p \in Procs, RenameTemp(p) PROVE PF!Next
  <2> DEFINE l == [loc[p] EXCEPT !.pc = "outOk", !.tstate = "none"]
             u == loc[p].req.user
             h == loc[p].req.hash
  <2>1. loc[p] \in Locs /\ loc[p].pc = "rename" /\ u \in Users /\ h \in Hashes /\ loc[p].rest = {}
    BY <1>1, <1>6 DEF TypeOK, RenameTemp, At, Locs, Requests, IInv, LocalOK
  <2>2. l \in Locs /\ l.pc = "outOk" /\ l.req = loc[p].req
    BY <2>1 DEF Locs, Labels
  <2>3. SetLoc(p, l)
    BY <1>6 DEF RenameTemp
  <2> HIDE DEF l
  <2>4. absJob' = [absJob EXCEPT ![p] = PF!Job("committed", u, h)]
    BY <1>1, <2>2, <2>3, AbstractFrame DEF TypeOK, AbstractJob, Phase, PF!Job
  <2>5. absJob[p] = PF!Job("pending", u, h)
    BY <1>3, <2>1 DEF AbstractJob, Phase, PF!Job
  <2>6. shadow' = [shadow EXCEPT ![u] = h]
    <3>1. shadow \in Contents /\ shadow' \in Contents
      BY <1>1, <1>6, <2>1 DEF TypeOK, RenameTemp, Locs
    <3>2. \A v \in Users : shadow'[v] = IF v = u THEN h ELSE shadow[v]
      BY <1>6, <2>1, RenameCommits
    <3> HIDE DEF u, h
    <3> QED
      BY <2>1, <3>1, <3>2 DEF Contents
  <2>7. PF!Commit(p, u, h)
    BY <1>6, <2>4, <2>5, <2>6 DEF PF!Commit, RenameTemp, absJob
  <2> QED
    BY <2>1, <2>7 DEF PF!Next
<1>7. ASSUME NEW p \in Procs, loc[p].pc # "idle", Returns(p, "LOCK_BUSY"),
             loc[p].pc # "outOk", UNCHANGED <<shadow, disk>>
      PROVE  PF!Next
  <2>1. absJob' = [absJob EXCEPT ![p] = PF!Idle]
    BY <1>1, <1>7, AbstractFrame, IdleLocType, JobsOfIdle DEF TypeOK, Returns
  <2>2. absJob[p] # PF!Idle /\ absJob[p].phase = "pending"
    BY <1>3, <1>7, JobsOfCalls DEF Phase
  <2>3. PF!Answer(p)
    BY <1>7, <2>1, <2>2 DEF PF!Answer, Returns, absJob
  <2> QED
    BY <2>3 DEF PF!Next
<1>8. ASSUME NEW p \in Procs, Out(p) PROVE PF!Next
  <2>1. absJob' = [absJob EXCEPT ![p] = PF!Idle]
    BY <1>1, <1>8, AbstractFrame, IdleLocType, JobsOfIdle DEF TypeOK, Out, Returns
  <2>2. /\ absJob[p] # PF!Idle
        /\ absJob[p].phase = IF At(p, "outOk") THEN "committed" ELSE "pending"
    BY <1>3, <1>8, JobsOfCalls DEF Phase, Out, At
  <2>3. PF!Answer(p)
    BY <1>8, <2>1, <2>2 DEF PF!Answer, Out, Returns, absJob, fileVars
  <2> QED
    BY <2>3 DEF PF!Next
<1>9. ASSUME NEW p \in Procs, Crash(p) PROVE PF!Next
  <2>1. absJob' = [absJob EXCEPT ![p] = PF!Idle]
    BY <1>1, <1>9, AbstractFrame, IdleLocType, JobsOfIdle DEF TypeOK, Crash
  <2>2. absJob[p] # PF!Idle
    BY <1>3, <1>9, JobsOfCalls DEF Crash, At
  <2>3. PF!Abort(p)
    BY <1>9, <2>1, <2>2 DEF PF!Abort, Crash, absJob, fileVars
  <2> QED
    BY <2>3 DEF PF!Next
<1>10. CASE WriteBack
  BY <1>10, SyncedSurvives DEF WriteBack, IInv, PF!Next, PF!Persist, absJob
<1>11. CASE PowerFail
  <2>1. absJob' = [p \in Procs |-> PF!Idle]
    BY <1>11, JobsOfIdle DEF absJob, PowerFail
  <2>2. PF!PowerLoss
    BY <1>11, <2>1, SyncedSurvives DEF PF!PowerLoss, PowerFail, IInv, absJob
  <2> QED
    BY <2>2 DEF PF!Next
<1>12. ASSUME NEW p \in Procs, NEW l, SetLoc(p, l), UNCHANGED <<ret, fileVars>>,
              loc[p].pc \notin {"idle", "outOk"}, l.pc \notin {"idle", "outOk"},
              l.req = loc[p].req
       PROVE  PF!vars' = PF!vars
  <2>1. AbstractJob(l) = AbstractJob(loc[p])
    BY <1>12 DEF AbstractJob, Phase
  <2> QED
    BY <1>4, <1>12, <2>1 DEF fileVars
<1>13. ASSUME NEW p \in Procs, Step(p) PROVE PF!Next \/ PF!vars' = PF!vars
  <2> DEFINE Moves(label) == [loc[p] EXCEPT !.pc = label]
  <2>0. loc[p] \in Locs
    BY <1>1 DEF TypeOK
  <2>1. CASE LckpwdfSucceeds(p)
    <3>1. Moves("mkstemp").pc = "mkstemp" /\ Moves("mkstemp").req = loc[p].req
      BY <2>0 DEF Locs
    <3> QED
      BY <1>12, <2>1, <3>1 DEF LckpwdfSucceeds, At
  <2>2. CASE LckpwdfFails(p)
    <3>1. CASE loc[p].tries + 1 < MaxTries
      <4> DEFINE l == [loc[p] EXCEPT !.tries = @ + 1]
      <4>1. l.pc = loc[p].pc /\ l.req = loc[p].req
        BY <2>0 DEF Locs
      <4>2. SetLoc(p, l) /\ UNCHANGED <<ret, fileVars>> /\ loc[p].pc = "lock"
        BY <2>2, <3>1 DEF LckpwdfFails, At
      <4> HIDE DEF l
      <4> QED
        BY <1>12, <4>1, <4>2
    <3>2. CASE ~(loc[p].tries + 1 < MaxTries)
      BY <1>7, <2>2, <3>2 DEF LckpwdfFails, At, fileVars
    <3> QED
      BY <3>1, <3>2
  <2>3. CASE MakeTemp(p)
    <3> DEFINE l == [loc[p] EXCEPT !.pc = "open", !.tstate = "dirty"]
    <3>1. l.pc = "open" /\ l.req = loc[p].req
      BY <2>0 DEF Locs
    <3>2. SetLoc(p, l) /\ UNCHANGED <<ret, fileVars>> /\ loc[p].pc = "mkstemp"
      BY <2>3 DEF MakeTemp, At
    <3> HIDE DEF l
    <3> QED
      BY <1>12, <3>1, <3>2
  <2>4. CASE OpenShadow(p)
    <3> DEFINE l == [loc[p] EXCEPT !.pc = "copy", !.src = shadow, !.rest = Lines(shadow)]
    <3>1. l.pc = "copy" /\ l.req = loc[p].req
      BY <2>0 DEF Locs
    <3>2. SetLoc(p, l) /\ UNCHANGED <<ret, fileVars>> /\ loc[p].pc = "open"
      BY <2>4 DEF OpenShadow, At
    <3> HIDE DEF l
    <3> QED
      BY <1>12, <3>1, <3>2
  <2>5. ASSUME NEW u \in Users, CopyLine(p, u) PROVE PF!vars' = PF!vars
    <3> DEFINE line == IF u = loc[p].req.user THEN loc[p].req.hash ELSE loc[p].src[u]
               l == [loc[p] EXCEPT !.temp = [@ EXCEPT ![u] = line], !.rest = @ \ {u}]
    <3>1. l.pc = loc[p].pc /\ l.req = loc[p].req
      BY <2>0 DEF Locs
    <3>2. SetLoc(p, l) /\ UNCHANGED <<ret, fileVars>> /\ loc[p].pc = "copy"
      BY <2>5 DEF CopyLine, At
    <3> HIDE DEF l
    <3> QED
      BY <1>12, <3>1, <3>2
  <2>6. CASE EndOfLines(p)
    <3> DEFINE r == loc[p].req
               l == [loc[p] EXCEPT !.pc = "sync", !.temp = [@ EXCEPT ![r.user] = r.hash]]
    <3>1. l.pc = "sync" /\ l.req = loc[p].req
      BY <2>0 DEF Locs
    <3>2. SetLoc(p, l) /\ UNCHANGED <<ret, fileVars>> /\ loc[p].pc = "copy"
      BY <2>6 DEF EndOfLines, At
    <3> HIDE DEF l
    <3> QED
      BY <1>12, <3>1, <3>2
  <2>7. CASE SyncTemp(p)
    <3> DEFINE l == [loc[p] EXCEPT !.pc = "rename", !.tstate = "synced"]
    <3>1. l.pc = "rename" /\ l.req = loc[p].req
      BY <2>0 DEF Locs
    <3>2. SetLoc(p, l) /\ UNCHANGED <<ret, fileVars>> /\ loc[p].pc = "sync"
      BY <2>7 DEF SyncTemp, At
    <3> HIDE DEF l
    <3> QED
      BY <1>12, <3>1, <3>2
  <2>8. CASE SyscallFails(p)
    <3>1. Moves("outErr").pc = "outErr" /\ Moves("outErr").req = loc[p].req
      BY <2>0 DEF Locs
    <3> QED
      BY <1>12, <2>8, <3>1 DEF SyscallFails
  <2> QED
    BY <1>6, <1>8, <1>13, <2>1, <2>2, <2>3, <2>4, <2>5, <2>6, <2>7, <2>8 DEF Step
<1>14. CASE UNCHANGED vars
  BY <1>2, <1>14 DEF vars, fileVars, absJob
<1> QED
  BY <1>5, <1>9, <1>10, <1>11, <1>13, <1>14 DEF Next

(* With reads that do not fail, update_shadow_password implements the        *)
(* abstract password file: an update is one atomic change, reported exactly  *)
(* when it was made, and a power failure brings back a complete version.     *)
THEOREM Refinement == ASSUME ~ReadFaults PROVE Spec => ImplementsPasswordFile
<1>1. IInv /\ [Next]_vars => [PF!Next]_(PF!vars)
  BY RefineNext
<1> QED
  BY <1>1, RefineInit, Invariance, PTL DEF Spec, ImplementsPasswordFile, PF!Spec
=============================================================================
