---------------------------- MODULE ChkpwdHelper ----------------------------
(* run_unix_chkpwd of libpam/pam.c and the setuid program unix_chkpwd.c it   *)
(* forks: the application sends the password down a pipe, the helper reads   *)
(* it byte by byte, checks it and answers with its exit status.              *)
(*                                                                           *)
(* Passwords are told apart by their length alone: a password of n bytes is  *)
(* the string of n equal characters, and it matches the stored hash of an    *)
(* n-byte password only. So truncation, a byte lost and a byte left behind   *)
(* all show. The pipe holds at most MaxResp + 1 bytes, far below its         *)
(* capacity: writing never blocks and is never partial.                      *)
EXTENDS Naturals

CONSTANTS
  MaxResp,      \* PAM_MAX_RESP_SIZE (512)
  MaxLen        \* longest password typed

ASSUME HelperAssumption ==
  /\ MaxResp \in Nat \ {0}
  /\ MaxLen \in Nat

Answers == {"SUCCESS", "AUTH_ERR", "AUTHINFO_UNAVAIL", "USER_UNKNOWN"}

(* What the call finds: the typed password's length; what looking up the     *)
(* user gives, and the length of the right password; whether the caller may  *)
(* ask; and the state the application left descriptor 0 and its signals in.  *)
Worlds ==
  [len : 0 .. MaxLen,
   entry : {"hash", "locked", "badhash", "missing", "unreadable"}, secret : 0 .. MaxLen,
   nonull : BOOLEAN, permitted : BOOLEAN,
   stdinOpen : BOOLEAN, sigpipe : {"default", "ignored"}, sigchld : {"default", "ignored"}]

VARIABLES
  world,        \* fixed during the call
  parent,       \* where run_unix_chkpwd stands
  retval,       \* its result
  child,        \* where the child process stands
  status,       \* the child's exit status, or "signal"
  readers, writers,   \* which processes have the pipe's ends open
  pipe,         \* bytes in the pipe: characters, and a NUL after them
  buf,          \* length of what read_password has stored
  faulty        \* history: a system call failed or the helper was killed

pipeVars == <<readers, writers, pipe>>
parentVars == <<parent, retval>>
childVars == <<child, status, buf>>
vars == <<world, parentVars, childVars, pipeVars, faulty>>

Sent == IF world.len > MaxResp THEN MaxResp ELSE world.len

Init ==
  /\ world \in Worlds
  /\ parent = "pipe" /\ retval = "none"
  /\ child = "none" /\ status = "none" /\ buf = 0
  /\ readers = {} /\ writers = {} /\ pipe = [chars |-> 0, nul |-> FALSE]
  /\ faulty = FALSE

------------------------------------------------------------------------------
(* The application's side, 300-364.                                          *)

Return(r) == parent' = "done" /\ retval' = r

Pipe ==
  /\ parent = "pipe"
  /\ parent' = "fork"
  /\ readers' = {"parent"} /\ writers' = {"parent"}
  /\ UNCHANGED <<world, retval, childVars, pipe, faulty>>

PipeFails ==
  /\ parent = "pipe"
  /\ Return("AUTHINFO_UNAVAIL") /\ faulty' = TRUE
  /\ UNCHANGED <<world, childVars, pipeVars>>

(* fork, after which the parent closes its read end (334).                   *)
Fork ==
  /\ parent = "fork"
  /\ parent' = "write"
  /\ child' = "setup"
  /\ readers' = {"child"} /\ writers' = {"parent", "child"}
  /\ UNCHANGED <<world, retval, status, buf, pipe, faulty>>

ForkFails ==
  /\ parent = "fork"
  /\ Return("AUTHINFO_UNAVAIL") /\ faulty' = TRUE
  /\ readers' = {} /\ writers' = {}
  /\ UNCHANGED <<world, childVars, pipe>>

(* A write of n > 0 bytes when nobody can read them: SIGPIPE, or EPIPE where *)
(* the application ignores the signal.                                       *)
BrokenPipe ==
  /\ readers = {}
  /\ IF world.sigpipe = "default"
     THEN parent' = "killed" /\ writers' = writers \ {"parent"} /\ UNCHANGED retval
     ELSE parent' = "close" /\ retval' = "AUTH_ERR" /\ UNCHANGED writers
  /\ UNCHANGED <<readers, pipe>>

WritePassword ==
  /\ parent = "write"
  /\ \/ /\ Sent = 0 \/ readers # {}
        /\ parent' = "writeNul"
        /\ pipe' = [pipe EXCEPT !.chars = @ + Sent]
        /\ UNCHANGED <<retval, readers, writers>>
     \/ Sent > 0 /\ BrokenPipe
  /\ UNCHANGED <<world, childVars, faulty>>

WriteNul ==
  /\ parent = "writeNul"
  /\ \/ /\ readers # {}
        /\ parent' = "close" /\ retval' = "SUCCESS"
        /\ pipe' = [pipe EXCEPT !.nul = TRUE]
        /\ UNCHANGED <<readers, writers>>
     \/ BrokenPipe
  /\ UNCHANGED <<world, childVars, faulty>>

CloseWrite ==
  /\ parent = "close"
  /\ parent' = "wait"
  /\ writers' = writers \ {"parent"}
  /\ UNCHANGED <<world, retval, childVars, readers, pipe, faulty>>

(* Mutants of WaitChild: no WIFEXITED test, so a killed helper counts as     *)
(* status 0; and no wait.                                                    *)
TakesAnyStatus ==
  /\ parent = "wait" /\ child = "exited"
  /\ child' = "reaped"
  /\ Return(IF world.sigchld = "ignored" \/ retval = "AUTH_ERR" THEN "AUTH_ERR"
            ELSE IF status = "signal" THEN "SUCCESS" ELSE status)
  /\ UNCHANGED <<world, status, buf, pipeVars, faulty>>

LeavesZombie ==
  /\ parent = "wait"
  /\ Return(retval)
  /\ UNCHANGED <<world, childVars, pipeVars, faulty>>

(* waitpid: where SIGCHLD is ignored the child leaves nothing to collect and *)
(* the call fails with ECHILD once it is gone.                               *)
WaitChild ==
  /\ parent = "wait" /\ child = "exited"
  /\ child' = "reaped"
  /\ Return(IF world.sigchld = "ignored" \/ status = "signal" \/ retval = "AUTH_ERR"
            THEN "AUTH_ERR" ELSE status)
  /\ UNCHANGED <<world, status, buf, pipeVars, faulty>>

------------------------------------------------------------------------------
(* The child: the lines after fork, then unix_chkpwd.                        *)

Exit(s) ==
  /\ child' = "exited" /\ status' = s
  /\ readers' = readers \ {"child"} /\ writers' = writers \ {"child"}

(* dup2 of the read end to descriptor 0, then close of both ends. Where the  *)
(* application had descriptor 0 closed, pipe used it for the read end, dup2  *)
(* does nothing and the close that follows takes the helper's input away.    *)
SetUpStdin ==
  /\ child = "setup"
  /\ child' = "start"
  /\ readers' = IF world.stdinOpen THEN readers ELSE readers \ {"child"}
  /\ writers' = writers \ {"child"}
  /\ UNCHANGED <<world, parentVars, status, buf, pipe, faulty>>

(* dup2, setuid or execve fails.                                             *)
SetupFails ==
  /\ child \in {"setup", "start"}
  /\ Exit("AUTHINFO_UNAVAIL") /\ faulty' = TRUE
  /\ UNCHANGED <<world, parentVars, buf, pipe>>

(* main up to caller_may_check_user: the input is no terminal and there are  *)
(* three arguments, as run_unix_chkpwd arranged.                             *)
MayCheckUser ==
  /\ child = "start"
  /\ IF world.permitted
     THEN child' = "read" /\ UNCHANGED <<status, readers, writers>>
     ELSE Exit("AUTH_ERR")
  /\ UNCHANGED <<world, parentVars, buf, pipe, faulty>>

(* Mutants of ReadByte: a loop that fills the last byte of the buffer too;   *)
(* one that stores the NUL as a character; one that retries every error.     *)
OverfillsBuffer ==
  /\ child = "read"
  /\ \/ /\ buf <= MaxResp /\ "child" \in readers /\ pipe.chars + (IF pipe.nul THEN 1 ELSE 0) > 0
        /\ pipe' = IF pipe.chars > 0 THEN [pipe EXCEPT !.chars = @ - 1] ELSE [pipe EXCEPT !.nul = FALSE]
        /\ buf' = IF pipe.chars > 0 \/ buf = MaxResp THEN buf + 1 ELSE buf
        /\ child' = IF pipe.chars > 0 THEN child ELSE "judge"
     \/ /\ "child" \notin readers \/ (pipe.chars = 0 /\ ~pipe.nul /\ writers = {})
        /\ child' = "judge" /\ UNCHANGED <<buf, pipe>>
  /\ UNCHANGED <<world, parentVars, status, readers, writers, faulty>>

StoresNul ==
  /\ child = "read"
  /\ \/ /\ buf < MaxResp /\ "child" \in readers /\ pipe.chars > 0
        /\ pipe' = [pipe EXCEPT !.chars = @ - 1]
        /\ buf' = buf + 1 /\ UNCHANGED child
     \/ /\ buf < MaxResp /\ "child" \in readers /\ pipe.chars = 0 /\ pipe.nul
        /\ pipe' = [pipe EXCEPT !.nul = FALSE]
        /\ buf' = buf + 1 /\ UNCHANGED child
     \/ /\ buf = MaxResp \/ "child" \notin readers \/ (pipe.chars = 0 /\ ~pipe.nul /\ writers = {})
        /\ child' = "judge" /\ UNCHANGED <<buf, pipe>>
  /\ UNCHANGED <<world, parentVars, status, readers, writers, faulty>>

RetriesErrors ==
  /\ child = "read"
  /\ \/ /\ buf < MaxResp /\ "child" \in readers /\ pipe.chars > 0
        /\ pipe' = [pipe EXCEPT !.chars = @ - 1]
        /\ buf' = buf + 1 /\ UNCHANGED child
     \/ /\ "child" \in readers /\ pipe.chars = 0 /\ (pipe.nul \/ writers = {})
        /\ child' = "judge" /\ UNCHANGED <<buf, pipe>>
     \/ "child" \notin readers /\ UNCHANGED <<child, buf, pipe>>
  /\ UNCHANGED <<world, parentVars, status, readers, writers, faulty>>

(* One turn of read_password's loop: a character, the NUL, the buffer full   *)
(* or the end of the input; a read that fails makes the password empty.      *)
ReadByte ==
  /\ child = "read"
  /\ \/ /\ buf < MaxResp /\ "child" \in readers /\ pipe.chars > 0
        /\ pipe' = [pipe EXCEPT !.chars = @ - 1]
        /\ buf' = buf + 1
        /\ UNCHANGED child
     \/ /\ buf < MaxResp /\ "child" \in readers /\ pipe.chars = 0 /\ pipe.nul
        /\ pipe' = [pipe EXCEPT !.nul = FALSE]
        /\ child' = "judge"
        /\ UNCHANGED buf
     \/ /\ \/ buf = MaxResp
           \/ "child" \in readers /\ pipe.chars = 0 /\ ~pipe.nul /\ writers = {}
        /\ child' = "judge"
        /\ UNCHANGED <<buf, pipe>>
     \/ /\ buf < MaxResp /\ "child" \notin readers
        /\ child' = "judge" /\ buf' = 0
        /\ UNCHANGED pipe
  /\ UNCHANGED <<world, parentVars, status, readers, writers, faulty>>

Verdict ==
  IF buf = 0 /\ world.nonull THEN "AUTH_ERR"
  ELSE CASE world.entry \in {"unreadable", "badhash"}  -> "AUTHINFO_UNAVAIL"
         [] world.entry = "missing"                    -> "USER_UNKNOWN"
         [] world.entry = "hash" /\ world.secret = buf -> "SUCCESS"
         [] OTHER                                      -> "AUTH_ERR"

Judge ==
  /\ child = "judge"
  /\ Exit(Verdict)
  /\ UNCHANGED <<world, parentVars, buf, pipe, faulty>>

HelperKilled ==
  /\ child \in {"setup", "start", "read", "judge"}
  /\ Exit("signal") /\ faulty' = TRUE
  /\ UNCHANGED <<world, parentVars, buf, pipe>>

Parent == Pipe \/ PipeFails \/ Fork \/ ForkFails \/ WritePassword \/ WriteNul \/ CloseWrite \/ WaitChild
ChildWork == SetUpStdin \/ MayCheckUser \/ ReadByte \/ Judge
ChildFault == SetupFails \/ HelperKilled

Next == Parent \/ ChildWork \/ ChildFault

(* Both processes are scheduled; nothing is owed to the helper's failures.   *)
Spec == Init /\ [][Next]_vars /\ WF_vars(Parent) /\ WF_vars(ChildWork)

------------------------------------------------------------------------------
(* The variables keep their types; in particular read_password stays inside  *)
(* its buffer of PAM_MAX_RESP_SIZE + 1 bytes.                                *)
TypeOK ==
  /\ world \in Worlds
  /\ parent \in {"pipe", "fork", "write", "writeNul", "close", "wait", "done", "killed"}
  /\ retval \in Answers \cup {"none"}
  /\ child \in {"none", "setup", "start", "read", "judge", "exited", "reaped"}
  /\ status \in Answers \cup {"none", "signal"}
  /\ readers \subseteq {"parent", "child"} /\ writers \subseteq {"parent", "child"}
  /\ pipe \in [chars : 0 .. MaxResp, nul : BOOLEAN]
  /\ buf \in 0 .. MaxResp
  /\ faulty \in BOOLEAN

(* Whatever fails or is killed on either side, and in whatever order the two *)
(* processes run, PAM_SUCCESS means: the caller may check this user, the     *)
(* entry holds a usable hash and the first PAM_MAX_RESP_SIZE bytes typed are *)
(* the password. The one exception: with descriptor 0 closed in the          *)
(* application the helper sees an empty password whatever was typed.         *)
SuccessIsDeserved ==
  parent = "done" /\ retval = "SUCCESS" =>
    /\ world.permitted /\ world.entry = "hash"
    /\ world.secret = Sent \/ (~world.stdinOpen /\ world.secret = 0)
    /\ ~(world.nonull /\ world.len = 0)
    /\ ~faulty

(* A call the code can serve: nothing fails, the password leaves room for    *)
(* its NUL, descriptor 0 is open and children can be waited for.             *)
Servable ==
  /\ ~faulty /\ world.permitted /\ world.entry = "hash"
  /\ world.len < MaxResp /\ ~(world.nonull /\ world.len = 0)
  /\ world.stdinOpen /\ world.sigchld = "default"

(* Such a call never has the application killed by SIGPIPE and answers       *)
(* according to the password: both processes' schedules are irrelevant.      *)
ServableIsServed ==
  Servable =>
    /\ parent # "killed"
    /\ parent = "done" => retval = IF world.secret = world.len THEN "SUCCESS" ELSE "AUTH_ERR"

(* Every return leaves no descriptor and no zombie behind.                   *)
NothingLeft ==
  parent = "done" => /\ "parent" \notin readers \cup writers
                     /\ child \in {"none", "reaped"}

(* Neither side waits for the other forever: the call ends, with an answer   *)
(* or by SIGPIPE.                                                            *)
CallEnds == <>(parent \in {"done", "killed"})
=============================================================================
