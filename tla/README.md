# Verification of artix-rootfiles

TLA+ models, TLC runs and TLAPS proofs for the programs of this repository: a
root file system overlay for an Artix machine whose own code is a PAM
replacement (`libpam`, `libpam_misc`, `unix_chkpwd`), a libdbus stub and a few
scripts. Paths below are relative to the repository; `pam.c` is
`home/xlzs0/pkgs/pam-stub/libpam/pam.c`, `dbus.c` is
`home/xlzs0/pkgs/dbus-stub/dbus.c`, `pam_misc.c` is beside `pam.c`.
`PROJECT.json` maps every definition to the
lines it models.

Run `tlc -workers 2 -config <cfg> <module>` and `tlapm <module>.tla`.

## Inventory

| component | state | operations | what is hard |
|---|---|---|---|
| `/etc/shadow` update (`pam.c` 535-618) | the file, the lock of `lckpwdf`, a temporary file | lock, copy line by line, fsync, rename, unlink, unlock | writers at once, every call failing, kills, power failure |
| `unix_chkpwd` and its caller (`pam.c` 300-364, `unix_chkpwd.c`) | a pipe, two processes, an exit status | fork, write, read byte by byte, judge, wait | schedules, SIGPIPE, buffer limit, inherited descriptors and signal state |
| authentication and change (`pam.c` 223-294, 366-420, 620-673) | the handle's user and tokens, `/etc/shadow` | `pam_authenticate`, `pam_chauthtok`, `pam_set_item` | tokens cached from call to call, an entry read before the prompt and used after it, other processes, other handles using the static buffers of `getspnam` and `crypt` |
| handle (`pam.c` 75-221, 702-826) | items, environment, module data, heap | start, end, set/get of each | any allocation failing, callbacks that use the handle inside the call that runs them |
| hash settings (`pam.c` 422-533, 991-1041) | `/etc/login.defs`, a static buffer | look up method and cost, make the salt | two reads of a file that changes, boundaries |
| conversation (`pam_misc.c` 17-79) | the terminal's echo, lines typed ahead, stdin's end-of-file flag, the answers | one message after another, echo off and on, read a line | typing at any moment, signals, kills, a terminal that refuses |
| transfers (`pam.c` 882-914) | a descriptor's two ends, an offset | read or write all of a count | partial transfers, errors, the other end closing |
| libdbus messages (`dbus.c` 584-822) | messages, counts, strings | new, copy, ref, unref, setters, getters | threads, ownership of strings |
| service `xray` (`etc/xray/run`, `etc/dinit.d/xray`) | routing rules, a device, a child | start, wait for the device, rules, trap | signals at every command, a child that dies, restart on what a killed run left |
| boot entry (`efistub/PKGBUILD` 20-32) | the kernel in `/boot`, the firmware's entries, the mount of efivars | copy, remount, list, delete, create, remount | broken off anywhere, run again, numbers taken from text |

How they interact. An application calls libpam on one handle;
`pam_authenticate` reads `/etc/shadow` itself or, without the right, asks
`unix_chkpwd` over a pipe; `pam_chauthtok` verifies the old password, asks for
the new one through the application's conversation callback, makes a hash with
the settings of `login.defs` and calls `update_shadow_password`, the one writer
of `/etc/shadow` in the repository's own code. Module data has callbacks that
get the handle. dinit starts `etc/xray/run`, signals its process group and
restarts it. The conversation an application gives libpam is its own or `misc_conv`; it
may itself start a PAM call on another handle of the process, and so may
another thread. libdbus is called by applications only. The package manager
runs `efistub` after every kernel package.

What makes each correct is the property list of its run below; the hazards the
properties are for are in `PROJECT.json`, each at its line.

Not modelled:

* the constant stubs: about 200 functions of `dbus.c` (some 1200 lines) that
  ignore their arguments and return a constant, `pamc.c`, libpam's session calls,
  `pam_modutil_drop_priv` and its like. They have no state and no control.
* the group and user lookups (`pam.c` 935-989): reads of system files without
  state of their own.
* `pam_misc_paste_env`, `pam_misc_setenv`, `pam_misc_drop_env`: they call
  `pam_putenv`, modelled in `PamHandle`, in a loop or once, and keep nothing.
* the patches of toybox, dwm and st: hunks in functions whose source is not in the
  repository. Of toybox's `update_password`, the one with state that other
  programs share, the hunks show the lock (`F_SETLK`, which does not wait, under a
  comment that calls it blocking) but not the copy, the rename or the error paths;
  a model would be of code nobody can compare it with.
* `tinystatus`, configuration data, key tables, package builds, install hooks: pure
  output, data, or commands run once.

## Modules

**`PasswordFile`** is the abstract store: a call changes its own user's line in
one step and answers `PAM_SUCCESS` exactly if it did; a dead process leaves the
file alone; a power failure brings back a complete version, the current one or
an older one.

**`ShadowUpdate`** is `update_shadow_password` for several processes. `loc[p]`
holds a process's locals; `pc` names the call it makes next, so each action is
one system call or one turn of the copying loop: `LckpwdfSucceeds`/`Fails`
(537), `MakeTemp` (558), `OpenShadow` (566), `CopyLine` (574-583), `EndOfLines`
(574, 584-596), `SyncTemp` (597), `RenameTemp` (602), `SyscallFails` (all the
`goto out`), `Out` (607-617). `Crash` releases the lock as the kernel does and
leaves the temporary file. Nothing in the code syncs the directory, so `disk` and
`diskTemps` are the directory as the disk holds it, `/etc/shadow` and the number of
temporary names, and `WriteBack` brings them up to the present at any time.
`PowerFail` goes back to them: renames and unlinks that were not written back are
undone together, and their temporary names are there again. That the two are of one
moment is the assumption made of the file system: it writes changes of a directory
in their order, as a journalled one does. An unsynced file may come back with any of its
lines missing. A file is a function from users to hashes.

**`ChkpwdHelper`** runs parent and child as two processes joined by a pipe with
its open ends as sets. Passwords are told apart by their length, which shows
truncation, a lost byte and a leftover byte.

**`PamSession`** has one action per step of `pam_authenticate` and
`pam_chauthtok` at which something else may happen: between any two of them
another process may change a password, and another handle of the process may
use `getspnam` or `crypt`, whose answers lie in buffers the process shares.
`call.snap` is what `getspnam` returned, `call.sp` and `call.calc` what the two
buffers hold now, as far as the call will still read them; they are read after
the prompt for a password (389-394, 644) and after `crypt` (394, 419, 532).
`OtherHandle` stands for any number of handles, since a call's only other shared
state is `/etc/shadow`; it acts while a buffer is still to be read, and `crossed`
records that what it wrote differs. Each library call and each comparison is one
step. The helper and the file update are one step each, as the two modules above
justify. `HelperSays` has the two successes of `ChkpwdHelper` that are not for the
password: `Sent` is what the helper gets of a token, its first `PAM_MAX_RESP_SIZE`
bytes (337-338), and with descriptor 0 closed (`access = "noinput"`, 316-318) it judges
the empty password.

**`PamHandle`** counts blocks of memory by the place they are made for, so that
a leak is a count of a place nothing points to, a dangling pointer a place of
count 0. `stack` holds the calls that are running a callback; a callback may
call everything its owner may but `pam_end`. `broken` records that a callback
broke one of two rules: *a callback of `pam_end` leaves the handle alone*; *no
callback stores data under a name that is being replaced*. Where a call frees what
it has allocated when a later allocation fails, the paths with the same outcome are one
(`Unwind`).

**`MiscConv`** is `misc_conv` with `read_response`: `conv.at` is the call made
next (`tcsetattr`, `getline`, `tcsetattr`). Lines carry whether the terminal
showed them while they were typed. `SetEcho` is `tcsetattr` with `TCSAFLUSH`,
which empties the terminal's queue. `hurt` records that the echo was left off by a
kill or by a terminal that refused, `refused` the prompts that could not be hidden.
The heap is the array and one block for each line.

**`ModutilIO`** joins `pam_modutil_write` and `pam_modutil_read`, each called again
and again, by a pipe. Bytes are numbers in the order of sending, so that a byte
lost, doubled or out of place shows.

**`EfiStub`** has one action for each command of the script, two for the copy of the
kernel, which is not atomic; `Fail` is what `set -e` makes of a command that fails
and what a kill does, `GoDown` the machine stopping, in a run or after it, when a copy
that nothing synced may be torn. A label stands for what `efibootmgr` prints on an
entry's line: `grep` finds `Artix` anywhere in it, so `Mentioning` are the labels of
other systems that the script takes for its own. A list that cannot be had
leaves `bootnum` empty, since a pipeline has the status of its last command. A
number with a hexadecimal letter loses it in `tr -cd '0-9'` and becomes another
one.

**`LoginDefs`** is `hash_password` up to the call of `crypt`, with
`password_hash_prefix`'s static buffer and the file rewritten at any time.

**`DBusMessage`** splits what another thread can come between, since no function takes
a lock while `dbus_threads_init_default` (1417) answers TRUE: `refcount++` and
`--refcount` in a load and a store (`Load`, `StoreRef`, `StoreUnref`); a setter in
the free of the old string and the store of the copy (`SetStr`, `Store`), between which the
field points to freed memory; constructors and copies in one such pair for each string
(`Fill`, `Store`); a comparison in the load of the pointer and the reading of the
string (`Compare`, `EndRead`). `given` are the pointers getters have returned, which the
application may use, or set another field from, at any later time. Blocks are addresses;
`heap` says which are allocated, and an address may be used again. `raced` records that
two threads counted one message at once, `clashed` that the rule about strings was
broken: *nobody else sets the field a thread is setting, and a pointer a thread is using
or copying is, until it is done, that of a field nobody is setting, of a message the
thread refers to.* `References` is the set of the references on a message, each a thread
with a number, so that a count can be compared with a cardinality; it is history, which
only the properties read.

**`XrayService`** follows the script command by command (`NextCommand`,
`NextCleanup`), with the shell's pending trap, the proxy and the kernel's
device, dinit's SIGTERM to the process group, its SIGKILL and its restart.

`MC*` modules give the constants their values. Definitions whose comment begins
with *Mutant* are deliberately wrong variants of the definition after them; no
specification uses them. The modules of two components that one module proves about
(`EfiStub` with `XrayService`, `LoginDefs` with `ModutilIO`) have prefixed names where
they would clash: `StubInit`, `StubNext`, `StubSpec` and `HashInit`, `HashNext`,
`HashSpec`.

## Runs

| run | question | bounds | states |
|---|---|---|---|
| `shadow_update` | is the update one atomic, durable, tidy step? | 2 processes, 2 users (one without a line), 2 hashes, 1 attempt, 2 crashes | 473 k |
| `shadow_faults` | what does a failed read cost, and does every call return? | 2 processes, 2 users, 1 hash, 2 attempts, 1 crash, reads may fail, fairness | 238 k |
| `chkpwd_helper` | is the answer right on every schedule? | limit 2, passwords of 0 to 3 bytes, every inherited state | 46 k |
| `pam_session` | are verdicts and changes right? | 2 users, 2 passwords, one beyond the helper's limit of which the other is the beginning, and the empty one | 1606 k |
| `pam_handle` | does a failing allocation leak or lose anything, and what may a callback do? | 2 names of entries and of data, 3 objects, callbacks 3 deep, objects and data names symmetric | 183 k |
| `misc_conv` | does the echo come back, does a hidden answer stay hidden, does a call end? | 3 messages a call, 2 lines typed ahead, fairness | 131 k |
| `modutil_io` | does what was sent arrive, do calls end? | 5 bytes, counts to 3, a pipe of 2, fairness | 14 k |
| `efi_stub` | what does a broken run leave, and the next one repair? | 3 runs, 4 numbers, a foreign label with `Artix` in it and one without | 111 k |
| `dbus_message` | are counts and strings right? | 2 threads, 2 messages, 1 field, 2 addresses of strings, 2 references a thread, until a race | 486 k |
| `login_defs` | what does crypt get? | every file of 2 lines, values at both sides of each bound | 24 k |
| `xray_service` | does the script leave routing as it should? | 3 starts | 1 k |

Why the bounds are enough. Two writers and two users give every way in which
one writer's copy can miss the other's change; a second crash can hit the
recovery of the first. `lock_shadow`'s 100 attempts differ from 3 in number
only, and the proofs are for any number. A password below, at and above the
limit meets each case of `read_password`. Callbacks three deep let a name be
replaced inside the replacement of another one, inside `pam_end`. In
`LoginDefs` only the first line of a key counts, so two lines cover a key
repeated and the two keys of one call. In `MiscConv` three messages put a hidden
question between two visible ones and a refused message after two answers; two
lines typed ahead leave one behind when one is read. A pipe of two bytes makes
every count above it take several transfers. Three runs of `efistub` are a
complete one, one that breaks off and one that repairs. In
`DBusMessage` fields do not interact but through one application setting one from
another, which two messages show as well; two addresses are a string of each,
and one that was freed may be given to either. The run stops where two threads have counted one message at once (`Unraced`): no
property claims anything from there on, and a count that lost updates
would grow for ever. Three starts of `xray` cover a run on
what a killed one left, killed again.

What the runs show, beyond that the properties hold:

* A read error of `/etc/shadow` silently drops the rest of the users
  (`lost` in `NoLineLost` and `NoLostUpdate`): `fgetspent` answers NULL for
  both.
* `PAM_SUCCESS` does not mean durable: the directory is never synced
  (`PasswordFile!PowerLoss` may go back to an older version). The temporary file of a
  rename or an `unlink` that is undone comes back with it; since the lock is held
  around each, that is one file for one power failure (`LitterBounded`).
* `unix_chkpwd` accepts tokens that are not the password: any that begins with the
  same `PAM_MAX_RESP_SIZE` bytes, and, with descriptor 0 closed in the application, any
  at all while the user's password is empty and may be. `VerdictIsRight` states both
  (`Deserved`).
* A call that `unix_chkpwd` cannot serve may have the application killed by
  SIGPIPE; with descriptor 0 closed in the application, the helper judges an
  empty password (the exception stated in `SuccessIsDeserved`).
* `pam_end` must not be re-entered by cleanup callbacks, which get a handle whose
  items and environment are freed; each of the two rules of `PamHandle` is
  needed, as dropping `=> broken` shows.
* Calls on two handles of one process must not overlap: between its lookup and
  its comparison, and between `crypt` and `strdup`, a call relies on buffers any
  other handle's call writes. The windows are `ReadsSp` and `ReadsCalc`; without
  `crossed` both `VerdictIsRight` and `ChangeIsAuthorised` fail. What holds
  whatever other handles do: a refused empty password, a failed token forgotten, no
  other user's entry changed.
* `misc_conv` gives the echo back on every path but a kill and a refusing terminal;
  after either, later prompts keep the terminal without echo, since they restore
  what they found. Both uses of `TCSAFLUSH` are needed: the first keeps a line
  typed visibly ahead from being the hidden answer, the second a line typed
  twice from being the next question's answer. After the end of the input a
  process gets NULL for every question, with `PAM_SUCCESS`.
* `pam_modutil_read` that meets an error answers -1 and drops what it had read; nothing
  is ever doubled or out of place.
* `efistub` leaves the machine without a boot entry only if it breaks off between
  deletion and creation, and any later run that completes repairs it. An entry
  number with a hexadecimal letter makes it delete another entry, or none, and it
  deletes another system's entry that mentions `Artix` if that is listed first.
* `msg_set_str` frees before it copies, unlike `pam_set_item`, which copies
  first. A message two threads refer to is safe only if their calls on it do not
  overlap where one counts or sets: freed memory is reached after two threads counted at
  once, and, without that, after a set beside a set, a comparison or a copy, or
  with a pointer kept across a set. Without either of `raced` and `clashed`
  `SafeByTheRules` fails.
* The setting for YESCRYPT, the default method, has random characters where crypt
  expects the parameters (526): the cost that was looked up is never in it
  (`ValidButForYescrypt`). Whether crypt refuses it or reads the salt for parameters is
  crypt's matter and not modelled.
* A proxy that dies before `xray0` exists leaves the script in its loop for
  ever; `DeathIsNoticed` is therefore stated for line 27 on.

These are properties of the code no document of the repository contradicts; so
they are stated in the properties and hazards and no run is expected to fail.

## Fairness

`shadow_faults` assumes weak fairness of each process's own steps: the code
waits for nothing but `lckpwdf`, which returns by itself. `chkpwd_helper`
assumes that both processes are scheduled and that nothing more must fail
(`ChildWork` leaves the helper's failures out). `misc_conv` assumes that the
process runs and the user goes on typing or ends the input; no signal need come.
`modutil_io` assumes that a reader which has bytes or the end of the stream, and a
writer whose reader is gone, run; nothing is assumed of processes that should
send, close or make a call. `xray_service` assumes that the
shell is scheduled and that a proxy sent SIGTERM ends; nothing is assumed of a
proxy that should come up, of dinit or of the administrator.

Deadlock is not checked where the system may really stop: after the one call
(`chkpwd_helper`), after the last start (`xray_service`), after undefined
behaviour (`pam_handle`, `dbus_message`), when both ends are closed
(`modutil_io`).

## Proofs

`ShadowUpdate_proofs`, from `ShadowAssumption` alone, for any processes, users,
hashes, attempts and crashes. The properties are not inductive by themselves; the
inductive invariant `IInv` is `TypeOK`, `NoLineLost` and `LitterBounded` with
three parts they need:

* `LockHeld`: a process is past `lckpwdf` exactly if it holds the lock, so at most
  one is there (`MutualExclusion`);
* `LocalOK`, for each process: while it copies and until its rename, what it read
  is what `/etc/shadow` still is, since only the holder of the lock renames; its
  temporary file has the file's line or the request's for each user, and no line
  yet for a user in `rest`; at the rename it is synced;
* `synced`: so the version processes see is one a power failure keeps whole;
* `DiskLitterBounded`: the directory on the disk has at most one temporary name more than
  there were crashes, since at most one process has a temporary file (`FewTemps`).

From it follow `TypeCorrect`, `LinesSurvive`, `LitterIsBounded`,
`UpdatesAreKept` (an action property) and `Refinement`: where reads do not
fail, `Spec => ImplementsPasswordFile`, step by step, with everything before the
rename a stutter of the abstract store. The assumption `~ReadFaults` is
necessary: `shadow_faults` shows lines dropped by a commit, which the
abstract store forbids.

`Scripts_proofs` on `XrayService`, for any number of starts: `RoutingIsSafe` from the order of
the commands (once the route of table 200 is there under rule 200, rule 100 is;
an earlier run's rule 200 without the device carries nothing), `SingleProxy`
from where the script can be while a proxy is alive, `ExitIsClean` from
`Cleaned`: a rule is gone once a cleanup is past its command, unless a SIGTERM
came, which makes the cleanup begin again.

`PamHandle_proofs`, for any names, objects, numbers of entries and depth of
callbacks. None of the properties is inductive: that a free does not hit a free
block depends on every pointer of the handle. The invariant has three parts.

* `Shape`: an item points to places of its own, an entry and a node have a name no
  other has, `pam_end` can only be the outermost call, and what it has yet to free
  and what is being replaced is in the list of data (so that the call finds its node again after the
  callback). It holds whatever the callbacks do.
* `Books`: the heap against the pointers (`Account`). As long as no harm is done,
  broken rules or not, a block that is allocated is one the handle's pointers lead
  to, and until `pam_end` all they lead to is allocated; where no rule is broken,
  `pam_end` leaves just what it has yet to free.
* `Orderly`, where no rule is broken: each object has one owner, a node that holds it
  or a call that will store it (`OneOwner`), and `owed` is what is owned; `pam_end` runs
  one callback at a time; no name is being replaced twice.

From it `TypeCorrect`, `NothingIsLost`, `Safe`, `NamesAreUnique`, and
`FailuresAreClean` (an action property). The two rules are used where `pam_end`
starts a callback (the handle's pointers dangle from there on) and where the node
of a replacement is looked up again.

`PamSession_proofs`, for any users and passwords: `VerdictRight`,
`FailedForgotten`, `ChangeAuthorised` (action properties) and `TypeCorrect`. The
invariant says which call can be at which step (`Where`), that what the lookup found
is what the file holds as long as nobody changes it (`Looked`), what the shared
buffers hold as long as no other handle writes them (`Buffers`), and what is known of
the tokens without that condition (`Tokens`). The assumptions (`SessionAssumption`) tell names, passwords and marks apart
and say of `Sent` what a beginning is: that of a beginning is itself, and only the empty
password has the empty one.

`ChkpwdHelper_proofs`, for any limit, any passwords and every inherited state:
`SuccessDeserved`, `ServableServed`, `NothingIsLeft`, `TypeCorrect`. The invariant
relates the two processes' positions to the open ends (`Positions`, `Ends`), the bytes
sent to those in the pipe and those read (`Flow`, the conservation that `judge` relies
on: the helper has all of the password or nothing), and the exit status to the verdict
(`Answered`).

`MiscConv_proofs`, for any messages and lines: `EchoIsRestored`, `AnswersAreFit`,
`NoLeak`, `TypeCorrect`. The invariant says what `oldt` is good for (`Settings`), which
prompts change the echo (`Hiding`) and that lines which wait were typed under the present
setting, since every change throws the waiting ones away (`Waiting`): the proof uses
`TCSAFLUSH` in both places.

`Modutil_proofs` on `ModutilIO`, for any counts and any pipe: `BytesDelivered` and
`TypeCorrect`, from what each call holds of the stream of bytes (`Resting`, `Writing`,
`Reading`) and lemmas on cutting and joining increasing sequences.

`Modutil_proofs` on `LoginDefs`, for any lines of the file: `SettingValid` and `CostUsed`.
The invariant `HashInv` says what a call knows between its two reads of a file that may be
rewritten (`Underway`: the prefix is one of the known methods', whatever is in the static
buffer) and what it has once the setting is made (`Ready`: the cost is computed from the
one lookup of its key, or that lookup found nothing). The rest is arithmetic at both ends
of each method's range; that a setting for YESCRYPT never has a cost crypt accepts is
part of `SettingValid`.

`DBusMessage_proofs`, for any threads, messages, fields and addresses
(`MessageAssumption`: the marks for none and for the caller's own string are told apart
from addresses): `CountExact`, `OneOwner` and `Safe`. The invariant `IInv` has two halves,
each claimed as long as its rules are kept.

* `CountsAgree`, as long as nobody raced: each message's count is the number of its
  references and it lives while there is one (`Counted`), and a thread between its load
  and its store is the only one that counts there and has loaded what is still the count
  (`Alone`). A reference gained, dropped or moved changes the set by one element
  (`OneGained`, `OneDropped`, `Replaced`), which the library's facts about finite sets
  turn into counts.
* `StringsAgree`, as long as the rule about strings is kept as well: a field that nobody is
  setting points to nothing or to a block that is allocated, each block is that of one such
  field, and a freed message has none (`Owners`); a thread inside a setter, a constructor or
  a copy has a reference on its message, and nobody else refers to a message that is still
  being filled, whose strings to come are NULL (`Refers`, `Private`). The free of a
  setter takes its field out of those accounted for (`SetterFrees`), the store puts it back
  (`SetterStores`), and where `msg_free` runs the exact count says that nobody is left
  who could be setting a string of the message (`StoreUnrefStrings`).

`Safe` follows: who calls has a reference, so the message lives (`HolderIsServed`), and a
pointer in use by the rule is that of a settled field, which is allocated
(`CurrentIsAllocated`).

`Scripts_proofs` on `EfiStub`, for every finite set of entry numbers (`EfiAssumption`) and any number
of runs: `RunsRepair` and `EntriesAreKept`, from what a run has achieved at each
command (`Progress`) and, without odd numbers, how many entries mention `Artix` at each
(`Sound`).

Every inductive invariant was checked by TLC on the bounds of its run before it was
proved.

Only model-checked is liveness: `CallReturns`, `CallEnds`, `ConversationEnds`,
`CallsEnd` and `DeathIsNoticed` need fairness and ENABLED, which the provers do not have.
Every other property of a run is a theorem.

## Plan

1. Done: the writers of `/etc/shadow` with refinement and proofs, the helper, the
   session with other handles of its process, the handle, the conversation, the
   transfers, the settings, messages, the xray service, the boot entry.
2. Done: every safety property and action property of every run, and the refinement of
   `PasswordFile`, proved with their inductive invariants.
3. Model work left: `PamSession` with `PasswordFile` in place of its own `entry`;
   the descriptor lost at `pam.c:597`.
