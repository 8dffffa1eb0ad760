------------------------------- MODULE EfiStub -------------------------------
(* The script efistub of efistub/PKGBUILD, which the package manager runs    *)
(* after every kernel package: copy the kernel to /boot, make efivars        *)
(* writable, delete the boot entry that mentions Artix, create it again,     *)
(* make efivars read-only. Any command may fail, which set -e makes the end  *)
(* of the script, and the machine may go down at any moment.                 *)
(*                                                                           *)
(* A boot entry is a number and a label, which stands for all that           *)
(* efibootmgr prints on its line: grep finds Artix anywhere in it. The       *)
(* script takes the first four digits of what grep lets through for the      *)
(* number; where the number is hexadecimal with a letter in it they make     *)
(* another one.                                                              *)
EXTENDS Naturals, FiniteSets, FiniteSetsExt

CONSTANTS
  Numbers,    \* of boot entries
  Hex,        \* those with a letter among their digits
  Foreign,    \* labels of other systems
  Mentioning, \* those with Artix in them, or in the path of their loader
  NoNumber,   \* the empty string
  MaxRuns     \* bound on the runs of the script

(* Numbers have four hexadecimal digits.                                     *)
ASSUME EfiAssumption ==
  /\ Hex \subseteq Numbers /\ Numbers \subseteq Nat /\ IsFiniteSet(Numbers)
  /\ NoNumber \notin Nat /\ "Artix" \notin Foreign /\ Mentioning \subseteq Foreign

VARIABLES
  at,         \* the next command, "idle" outside a run
  image,      \* /boot/vmlinuz: "old", "torn" or "new"
  efivars,    \* how efivars is mounted: "ro" or "rw"
  entries,    \* the boot entries
  bootnum,    \* the script's variable
  runs,
  last,       \* how the last run ended
  foreign,    \* history: the entries of other systems at the start
  had,        \* history: there has been an entry named Artix
  gap,        \* history: a run ended between deletion and creation
  odd         \* history: entries could not be listed, or one was misread

histories == <<foreign, had, gap, odd>>
stubVars == <<at, image, efivars, entries, bootnum, runs, last, foreign, had, gap, odd>>

Entries == [number : Numbers, label : Foreign \cup {"Artix"}]
Labelled(L) == {e \in entries : e.label \in L}
Artix == Labelled({"Artix"})
Matching == Labelled(Mentioning \cup {"Artix"})
NumbersOf(E) == {e.number : e \in E}

StubInit ==
  /\ at = "idle" /\ image = "old" /\ efivars = "ro" /\ runs = 0 /\ last = "none"
  /\ entries \in {E \in SUBSET Entries :
       /\ \A d, e \in E : d.number = e.number => d = e
       /\ Cardinality({e \in E : e.label = "Artix"}) <= 1}
  /\ bootnum = NoNumber
  /\ foreign = Labelled(Foreign) /\ had = (Artix # {}) /\ gap = FALSE /\ odd = FALSE

------------------------------------------------------------------------------
(* A newer kernel was installed.                                             *)
Begin ==
  /\ at = "idle" /\ runs < MaxRuns
  /\ at' = "cp" /\ runs' = runs + 1 /\ last' = "none" /\ bootnum' = NoNumber
  /\ image' = IF image = "new" THEN "old" ELSE image
  /\ UNCHANGED <<efivars, entries, histories>>

CopyKernel ==
  /\ \/ at = "cp" /\ image' = "torn" /\ at' = "copying"
     \/ at = "copying" /\ image' = "new" /\ at' = "rw"
  /\ UNCHANGED <<efivars, entries, bootnum, runs, last, histories>>

RemountRw ==
  /\ at = "rw"
  /\ efivars' = "rw" /\ at' = "list"
  /\ UNCHANGED <<image, entries, bootnum, runs, last, histories>>

(* Mutant: the other systems' entries match too.                             *)
FoundAll == NumbersOf(entries)

(* The numbers grep may find first: what efibootmgr lists first is its own.  *)
Found == NumbersOf(Matching)

(* The status of a pipeline is that of cut: a failure of efibootmgr or grep  *)
(* leaves bootnum empty and the script goes on.                              *)
List ==
  /\ at = "list" /\ at' = "delete"
  /\ \/ bootnum' \in Found \ Hex /\ UNCHANGED odd
     \/ Found = {} /\ bootnum' = NoNumber /\ UNCHANGED odd
     \/ Found \cap Hex # {} /\ bootnum' \in Numbers \ Hex /\ odd' = TRUE
     \/ bootnum' = NoNumber /\ odd' = TRUE
  /\ UNCHANGED <<image, efivars, entries, runs, last, foreign, had, gap>>

(* efibootmgr -B of a number that is not there fails: see Fail.              *)
Delete ==
  /\ at = "delete" /\ at' = "create"
  /\ bootnum \in {NoNumber} \cup NumbersOf(entries)
  /\ entries' = {e \in entries : e.number # bootnum}
  /\ UNCHANGED <<image, efivars, bootnum, runs, last, histories>>

(* Mutant: no set -e, the script goes on where creation failed.              *)
CreatesPerhaps ==
  /\ at = "create" /\ at' = "ro"
  /\ \/ UNCHANGED entries
     \/ /\ Numbers # NumbersOf(entries)
        /\ entries' = entries \cup {[number |-> Min(Numbers \ NumbersOf(entries)), label |-> "Artix"]}
  /\ UNCHANGED <<image, efivars, bootnum, runs, last, histories>>

(* The new entry gets the lowest number that is free.                        *)
Create ==
  /\ at = "create" /\ at' = "ro"
  /\ Numbers # NumbersOf(entries)
  /\ entries' = entries \cup {[number |-> Min(Numbers \ NumbersOf(entries)), label |-> "Artix"]}
  /\ had' = TRUE /\ gap' = FALSE
  /\ UNCHANGED <<image, efivars, bootnum, runs, last, foreign, odd>>

RemountRo ==
  /\ at = "ro"
  /\ efivars' = "ro" /\ at' = "idle" /\ last' = "completed"
  /\ UNCHANGED <<image, entries, bootnum, runs, histories>>

------------------------------------------------------------------------------
BreaksOff ==
  /\ at' = "idle" /\ last' = "broken"
  /\ gap' = (gap \/ (at = "create" /\ Artix = {}))
  /\ UNCHANGED <<entries, bootnum, runs, foreign, had, odd>>

(* A command fails and set -e ends the script, or it is killed.              *)
Fail == at # "idle" /\ BreaksOff /\ UNCHANGED <<image, efivars>>

(* The machine goes down, in a run or after it. Nothing has synced the copy  *)
(* of the kernel: part of it may be gone. At the next start efivars is       *)
(* read-only again.                                                          *)
GoDown ==
  /\ BreaksOff /\ efivars' = "ro"
  /\ image' = image \/ (image = "new" /\ image' = "torn")

StubNext ==
  \/ Begin \/ CopyKernel \/ RemountRw \/ List \/ Delete \/ Create \/ RemountRo
  \/ Fail \/ GoDown

StubSpec == StubInit /\ [][StubNext]_stubVars

------------------------------------------------------------------------------
(* A run that completes leaves the machine as it should be, whatever the     *)
(* runs before it broke off, until the machine goes down: the whole new      *)
(* kernel, an entry to boot it by, efivars read-only.                        *)
Repaired ==
  last = "completed" => image = "new" /\ efivars = "ro" /\ Artix # {}

(* As long as entries are listed and their numbers have no letters, no entry *)
(* of another system is touched unless it mentions Artix, and the runs make  *)
(* no more entries than they delete, but for the first: there is never more  *)
(* than one that mentions Artix besides those of other systems that did. An  *)
(* entry named Artix, once there has been one, is missing only between       *)
(* deletion and creation, or because a run broke off there (27-30).          *)
EntriesKept ==
  /\ ~odd => /\ Labelled(Foreign \ Mentioning) = {e \in foreign : e.label \notin Mentioning}
             /\ Cardinality(Matching) <= 1 + Cardinality({e \in foreign : e.label \in Mentioning})
  /\ had /\ Artix = {} => at = "create" \/ gap
=============================================================================
