---------------------------- MODULE ShadowUpdate ----------------------------
(* update_shadow_password of libpam/pam.c, run by several processes at once: *)
(* take the password lock, copy /etc/shadow line by line into a temporary    *)
(* file with one line changed, sync it, rename it over /etc/shadow, unlock.  *)
(* Any system call may fail, a process may be killed at any point and the    *)
(* machine may lose power at any point.                                      *)
(*                                                                           *)
(* The file is a function from user names to hashes, NoLine where the user   *)
(* has none. The other fields of a line, the order of the lines and the      *)
(* ownership and mode copied at 569-572 are left out. A file that was        *)
(* renamed over keeps its content for the process that has it open.          *)
EXTENDS Naturals, FiniteSets

CONSTANTS
  Procs,        \* processes that change a password
  Users,        \* user names
  Hashes,       \* password hashes
  NoProc,       \* the lock is free
  NoLine,       \* the user has no line
  NoRequest,    \* the process is in no call
  InitShadow,   \* /etc/shadow at the start
  MaxTries,     \* attempts of lock_shadow (100 in the code)
  MaxCrashes,   \* bound on kills and power failures together
  ReadFaults    \* whether reading /etc/shadow may fail half way

Contents == [Users -> Hashes \cup {NoLine}]
Requests == [user : Users, hash : Hashes]

ASSUME ShadowAssumption ==
  /\ NoProc \notin Procs
  /\ NoLine \notin Hashes
  /\ NoRequest \notin Requests
  /\ InitShadow \in Contents
  /\ MaxTries \in Nat \ {0}
  /\ MaxCrashes \in Nat
  /\ ReadFaults \in BOOLEAN

VARIABLES
  loc,          \* the locals of each process, see IdleLoc
  ret,          \* what its last call returned
  lock,         \* holder of the lock of lckpwdf
  shadow,       \* /etc/shadow as every process sees it
  synced,       \* whether the data of that file reached the disk
  disk,         \* the version of /etc/shadow the disk holds
  lost,         \* history: users whose lines a failed read dropped
  litter,       \* temporary files nobody will remove
  diskTemps,    \* temporary files in the directory the disk holds
  crashes

fileVars == <<shadow, synced, disk, lost>>
crashVars == <<litter, diskTemps, crashes>>
vars == <<loc, ret, lock, fileVars, crashVars>>

Empty == [u \in Users |-> NoLine]
Lines(c) == {u \in Users : c[u] # NoLine}

(* The versions a file may come back as after a power failure: all of it    *)
(* when it was synced, else with any of its lines missing.                  *)
Survivors(c, isSynced) ==
  IF isSynced THEN {c}
  ELSE {[u \in Users |-> IF u \in kept THEN c[u] ELSE NoLine] : kept \in SUBSET Lines(c)}

(* pc: the next thing the process does; req: the arguments of its call;      *)
(* tries: failed lckpwdf calls; src: the content of the file it reads; rest: *)
(* the users whose lines it has not read; temp: the content of its temporary *)
(* file; tstate: that file's state, "none", "dirty" or "synced".             *)
IdleLoc == [pc |-> "idle", req |-> NoRequest, tries |-> 0, src |-> Empty,
            rest |-> {}, temp |-> Empty, tstate |-> "none"]

Init ==
  /\ loc = [p \in Procs |-> IdleLoc]
  /\ ret = [p \in Procs |-> "none"]
  /\ lock = NoProc
  /\ shadow = InitShadow /\ synced = TRUE /\ disk = InitShadow
  /\ lost = {} /\ litter = 0 /\ diskTemps = 0 /\ crashes = 0

At(p, label) == loc[p].pc = label
SetLoc(p, l) == loc' = [loc EXCEPT ![p] = l]
Returns(p, r) == SetLoc(p, IdleLoc) /\ ret' = [ret EXCEPT ![p] = r]

------------------------------------------------------------------------------
Call(p, u, h) ==
  /\ At(p, "idle")
  /\ SetLoc(p, [IdleLoc EXCEPT !.pc = "lock", !.req = [user |-> u, hash |-> h]])
  /\ ret' = [ret EXCEPT ![p] = "none"]
  /\ UNCHANGED <<lock, fileVars, crashVars>>

(* Mutant: a lock whose state is not looked at. *)
LocksAnyway(p) ==
  /\ At(p, "lock")
  /\ lock' = p
  /\ SetLoc(p, [loc[p] EXCEPT !.pc = "mkstemp"])
  /\ UNCHANGED <<ret, fileVars, crashVars>>

LckpwdfSucceeds(p) ==
  /\ At(p, "lock") /\ lock = NoProc
  /\ lock' = p
  /\ SetLoc(p, [loc[p] EXCEPT !.pc = "mkstemp"])
  /\ UNCHANGED <<ret, fileVars, crashVars>>

(* Mutants of LckpwdfFails: one attempt too many; no bound at all; a caller  *)
(* that ignores PAM_AUTHTOK_LOCK_BUSY and goes on without the lock.          *)
TriesOffByOne(p) ==
  /\ At(p, "lock")
  /\ IF loc[p].tries + 1 <= MaxTries
     THEN SetLoc(p, [loc[p] EXCEPT !.tries = @ + 1]) /\ UNCHANGED ret
     ELSE Returns(p, "LOCK_BUSY")
  /\ UNCHANGED <<lock, fileVars, crashVars>>

RetriesForever(p) ==
  /\ At(p, "lock")
  /\ UNCHANGED <<loc, ret, lock, fileVars, crashVars>>

GoesOnUnlocked(p) ==
  /\ At(p, "lock")
  /\ SetLoc(p, [loc[p] EXCEPT !.pc = "mkstemp"])
  /\ UNCHANGED <<ret, lock, fileVars, crashVars>>

(* lckpwdf fails after its own time limit when another process holds the    *)
(* lock, and at once when it cannot open the lock file. After the last try  *)
(* the call returns without having taken anything.                          *)
LckpwdfFails(p) ==
  /\ At(p, "lock")
  /\ IF loc[p].tries + 1 < MaxTries
     THEN SetLoc(p, [loc[p] EXCEPT !.tries = @ + 1]) /\ UNCHANGED ret
     ELSE Returns(p, "LOCK_BUSY")
  /\ UNCHANGED <<lock, fileVars, crashVars>>

MakeTemp(p) ==
  /\ At(p, "mkstemp")
  /\ SetLoc(p, [loc[p] EXCEPT !.pc = "open", !.tstate = "dirty"])
  /\ UNCHANGED <<ret, lock, fileVars, crashVars>>

OpenShadow(p) ==
  /\ At(p, "open")
  /\ SetLoc(p, [loc[p] EXCEPT !.pc = "copy", !.src = shadow, !.rest = Lines(shadow)])
  /\ UNCHANGED <<ret, lock, fileVars, crashVars>>

(* Mutant: putspent moved into the if of 575. *)
CopiesOnlyMatch(p, u) ==
  /\ At(p, "copy") /\ u \in loc[p].rest
  /\ LET line == IF u = loc[p].req.user THEN loc[p].req.hash ELSE NoLine
     IN  SetLoc(p, [loc[p] EXCEPT !.temp = [@ EXCEPT ![u] = line], !.rest = @ \ {u}])
  /\ UNCHANGED <<ret, lock, fileVars, crashVars>>

CopyLine(p, u) ==
  /\ At(p, "copy") /\ u \in loc[p].rest
  /\ LET line == IF u = loc[p].req.user THEN loc[p].req.hash ELSE loc[p].src[u]
     IN  SetLoc(p, [loc[p] EXCEPT !.temp = [@ EXCEPT ![u] = line], !.rest = @ \ {u}])
  /\ UNCHANGED <<ret, lock, fileVars, crashVars>>

(* fgetspent returns NULL at the end of the file and when a read fails; the *)
(* loop takes both for the end. A user whose line was not seen is appended. *)
EndOfLines(p) ==
  /\ At(p, "copy") /\ (loc[p].rest = {} \/ ReadFaults)
  /\ LET r == loc[p].req
     IN  SetLoc(p, [loc[p] EXCEPT !.pc = "sync", !.temp = [@ EXCEPT ![r.user] = r.hash]])
  /\ UNCHANGED <<ret, lock, fileVars, crashVars>>

(* Mutant: no fsync. *)
FlushesOnly(p) ==
  /\ At(p, "sync")
  /\ SetLoc(p, [loc[p] EXCEPT !.pc = "rename"])
  /\ UNCHANGED <<ret, lock, fileVars, crashVars>>

SyncTemp(p) ==
  /\ At(p, "sync")
  /\ SetLoc(p, [loc[p] EXCEPT !.pc = "rename", !.tstate = "synced"])
  /\ UNCHANGED <<ret, lock, fileVars, crashVars>>

RenameTemp(p) ==
  /\ At(p, "rename")
  /\ shadow' = loc[p].temp
  /\ synced' = (loc[p].tstate = "synced")
  /\ lost' = lost \cup (loc[p].rest \ {loc[p].req.user})
  /\ SetLoc(p, [loc[p] EXCEPT !.pc = "outOk", !.tstate = "none"])
  /\ UNCHANGED <<ret, lock, disk, crashVars>>

(* mkstemp, fdopen, fopen, putspent, fflush, fsync, fclose or rename fails. *)
SyscallFails(p) ==
  /\ loc[p].pc \in {"mkstemp", "open", "copy", "sync", "rename"}
  /\ SetLoc(p, [loc[p] EXCEPT !.pc = "outErr"])
  /\ UNCHANGED <<ret, lock, fileVars, crashVars>>

(* Mutant: no unlink after an error. *)
LeavesTemp(p) ==
  /\ loc[p].pc \in {"outOk", "outErr"}
  /\ Returns(p, IF At(p, "outOk") THEN "SUCCESS" ELSE "AUTHTOK_ERR")
  /\ lock' = NoProc
  /\ litter' = IF loc[p].tstate # "none" THEN litter + 1 ELSE litter
  /\ UNCHANGED <<fileVars, diskTemps, crashes>>

(* The label out: unlink the temporary file after an error, unlock, return.  *)
Out(p) ==
  /\ loc[p].pc \in {"outOk", "outErr"}
  /\ Returns(p, IF At(p, "outOk") THEN "SUCCESS" ELSE "AUTHTOK_ERR")
  /\ lock' = NoProc
  /\ litter' = IF At(p, "outOk") /\ loc[p].tstate # "none" THEN litter + 1 ELSE litter
  /\ UNCHANGED <<fileVars, diskTemps, crashes>>

------------------------------------------------------------------------------
(* The process is killed: the kernel releases its lock and closes its       *)
(* files; a temporary file stays.                                           *)
Crash(p) ==
  /\ ~At(p, "idle") /\ crashes < MaxCrashes
  /\ crashes' = crashes + 1
  /\ litter' = IF loc[p].tstate # "none" THEN litter + 1 ELSE litter
  /\ SetLoc(p, IdleLoc)
  /\ lock' = IF lock = p THEN NoProc ELSE lock
  /\ UNCHANGED <<ret, fileVars, diskTemps>>

(* Temporary files in /etc now: the left-over ones and those in use.        *)
Temps == litter + Cardinality({p \in Procs : loc[p].tstate # "none"})

(* The file system writes the directory back some time after a change:      *)
(* nothing in the code syncs the directory. Changes of a directory reach    *)
(* the disk in their order (a journalled file system), so what the disk     *)
(* holds is a directory that existed: /etc/shadow and the temporary names   *)
(* of one moment, the names not yet renamed (602) or unlinked (615) then    *)
(* included.                                                                *)
WriteBack ==
  /\ disk # shadow \/ diskTemps # Temps
  /\ disk' \in Survivors(shadow, synced)
  /\ diskTemps' = Temps
  /\ UNCHANGED <<loc, ret, lock, shadow, synced, lost, litter, crashes>>

(* The machine comes back with the directory the disk held, or with the     *)
(* present one if that was written in the last moment.                      *)
PowerFail ==
  /\ crashes < MaxCrashes
  /\ crashes' = crashes + 1
  /\ \/ shadow' = disk /\ litter' = diskTemps
     \/ shadow' \in Survivors(shadow, synced) /\ litter' = Temps
  /\ disk' = shadow' /\ diskTemps' = litter' /\ synced' = TRUE
  /\ loc' = [p \in Procs |-> IdleLoc]
  /\ ret' = [p \in Procs |-> "none"]
  /\ lock' = NoProc
  /\ UNCHANGED lost

Step(p) ==
  \/ LckpwdfSucceeds(p) \/ LckpwdfFails(p)
  \/ MakeTemp(p) \/ OpenShadow(p)
  \/ \E u \in Users : CopyLine(p, u)
  \/ EndOfLines(p) \/ SyncTemp(p) \/ RenameTemp(p)
  \/ SyscallFails(p) \/ Out(p)

Next ==
  \/ \E p \in Procs, u \in Users, h \in Hashes : Call(p, u, h)
  \/ \E p \in Procs : Step(p) \/ Crash(p)
  \/ WriteBack
  \/ PowerFail

Spec == Init /\ [][Next]_vars

(* A running process keeps running: the code waits for nothing but lckpwdf, *)
(* which returns by itself.                                                 *)
FairSpec == Spec /\ \A p \in Procs : WF_vars(Step(p))

------------------------------------------------------------------------------
Labels == {"idle", "lock", "mkstemp", "open", "copy", "sync", "rename", "outOk", "outErr"}

Locs == [pc : Labels, req : Requests \cup {NoRequest}, tries : 0 .. MaxTries - 1,
         src : Contents, rest : SUBSET Users, temp : Contents,
         tstate : {"none", "dirty", "synced"}]

(* Every variable keeps its type, and a process has a request exactly while *)
(* it is in a call.                                                         *)
TypeOK ==
  /\ loc \in [Procs -> Locs]
  /\ \A p \in Procs : At(p, "idle") <=> loc[p].req = NoRequest
  /\ ret \in [Procs -> {"none", "SUCCESS", "AUTHTOK_ERR", "LOCK_BUSY"}]
  /\ lock \in Procs \cup {NoProc}
  /\ shadow \in Contents /\ disk \in Contents /\ synced \in BOOLEAN
  /\ lost \in SUBSET Users
  /\ litter \in Nat /\ diskTemps \in Nat /\ crashes \in 0 .. MaxCrashes

(* Nobody's line disappears from /etc/shadow, as processes see it or as the *)
(* disk holds it, whatever is killed, fails or loses power half way through *)
(* the copy (fsync before rename, one writer at a time); only a read error, *)
(* which the loop of 574 takes for the end of the file, drops lines.        *)
NoLineLost ==
  \A u \in Lines(InitShadow) \ lost : shadow[u] # NoLine /\ disk[u] # NoLine

(* Every return of update_shadow_password removes its temporary file (604-  *)
(* 616), and a power failure brings back at most one of those that were     *)
(* already renamed or unlinked, the lock being held around each: there are  *)
(* never more files left in /etc than there were kills and power failures,  *)
(* and no process outside the locked section has one.                       *)
LitterBounded ==
  /\ litter <= crashes
  /\ \A p \in Procs : loc[p].tstate # "none" => lock = p

(* A change of /etc/shadow other than a power failure is the commit of one   *)
(* call: that call's user gets its hash, every other line stays what it was  *)
(* at that moment or, if its read had failed, is gone. So no commit undoes   *)
(* another process's (the lock of 555 spans the read and the rename).        *)
CommitsOneLine ==
  \E p \in Procs :
    /\ loc'[p].pc = "outOk"
    /\ \A u \in Users :
         IF u = loc[p].req.user THEN shadow'[u] = loc[p].req.hash
         ELSE shadow'[u] = shadow[u] \/ (u \in lost' /\ shadow'[u] = NoLine)

NoLostUpdate == [][shadow' = shadow \/ crashes' # crashes \/ CommitsOneLine]_vars

(* Every call returns: 100 attempts bound the wait for the lock and nothing *)
(* else blocks.                                                             *)
CallReturns == \A p \in Procs : ~At(p, "idle") ~> At(p, "idle")

(* The abstract file: a job is committed once rename has been done.          *)
Phase(label) == IF label = "outOk" THEN "committed" ELSE "pending"

AbstractJob(l) ==
  IF l.pc = "idle" THEN [phase |-> "idle"]
  ELSE [phase |-> Phase(l.pc), user |-> l.req.user, hash |-> l.req.hash]

PF == INSTANCE PasswordFile
        WITH store <- shadow, durable <- disk, job <- [p \in Procs |-> AbstractJob(loc[p])]

(* update_shadow_password keeps PasswordFile's promise: one atomic change    *)
(* per successful call, an answer that says whether it was made, and after a *)
(* power failure a complete version of the file.                             *)
ImplementsPasswordFile == PF!Spec
=============================================================================
