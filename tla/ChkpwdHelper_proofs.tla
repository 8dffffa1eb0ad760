------------------------ MODULE ChkpwdHelper_proofs ------------------------
(* Proofs about ChkpwdHelper, for every MaxResp > 0 and every MaxLen: the    *)
(* four invariants its run checks, from one inductive invariant.             *)
EXTENDS ChkpwdHelper, TLAPS

Alive == {"setup", "start", "read", "judge"}

(* The two processes' positions, and which ends of the pipe each has open.   *)
Positions ==
  /\ parent \in {"pipe", "fork"} => child = "none" /\ ~faulty
  /\ child = "none" => \/ parent \in {"pipe", "fork"}
                       \/ parent = "done" /\ retval = "AUTHINFO_UNAVAIL" /\ faulty
  /\ child = "reaped" => parent = "done"
  /\ parent = "done" => child \in {"none", "reaped"}
  /\ child \in Alive \cup {"none"} <=> status = "none"
  /\ child \in Alive => ~faulty

Ends ==
  /\ "parent" \in readers <=> parent = "fork"
  /\ "parent" \in writers <=> parent \in {"fork", "write", "writeNul", "close"}
  /\ "child" \in writers <=> child = "setup"
  /\ "child" \in readers <=> child = "setup" \/ (child \in Alive /\ world.stdinOpen)

(* What has been sent, what is in the pipe and what has been read. The last  *)
(* conjunct: the helper stops reading when it has all of the password, or    *)
(* nothing where it has no input; and only a full buffer lets it stop before *)
(* the NUL is written.                                                       *)
Flow ==
  /\ parent \in {"pipe", "fork", "write"} => pipe.chars = 0 /\ buf = 0
  /\ parent \in {"pipe", "fork", "write", "writeNul"} => ~pipe.nul /\ retval = "none"
  /\ parent \in {"close", "wait"} =>
       \/ retval = "SUCCESS"
       \/ retval = "AUTH_ERR" /\ readers = {}
  /\ parent = "killed" => readers = {}
  /\ child \in {"none", "setup", "start"} => buf = 0
  /\ world.stdinOpen /\ child \in {"setup", "start", "read"}
     /\ parent \in {"writeNul", "close", "wait"} => buf + pipe.chars = Sent
  /\ child \in {"setup", "start", "read"} /\ retval = "SUCCESS" => pipe.nul
  /\ child \in {"start", "read"} /\ ~world.stdinOpen => buf = 0
  /\ child = "judge" => buf = IF world.stdinOpen THEN Sent ELSE 0
  /\ child = "judge" /\ world.stdinOpen /\ world.len < MaxResp => retval = "SUCCESS"

(* What the helper's exit status says.                                       *)
Answered ==
  /\ child \in {"read", "judge"} => world.permitted
  /\ status = "SUCCESS" =>
       /\ ~faulty /\ world.permitted /\ status = Verdict
       /\ buf = IF world.stdinOpen THEN Sent ELSE 0
  /\ child = "exited" /\ Servable =>
       /\ status = Verdict /\ buf = Sent
       /\ parent \in {"close", "wait"} /\ retval = "SUCCESS"
  /\ child = "reaped" /\ retval = "SUCCESS" => status = "SUCCESS"
  /\ child = "reaped" /\ Servable => retval = Verdict /\ buf = Sent

IInv == TypeOK /\ Positions /\ Ends /\ Flow /\ Answered /\ ServableIsServed

------------------------------------------------------------------------------
(* At most a buffer's worth is sent, and nothing exactly when nothing was    *)
(* typed.                                                                    *)
LEMMA SentBound ==
  ASSUME world \in Worlds
  PROVE  /\ Sent \in 0 .. MaxResp
         /\ Sent = 0 <=> world.len = 0
         /\ world.len < MaxResp => Sent = world.len
BY HelperAssumption DEF Worlds, Sent

(* The helper's verdict is one of the answers the application knows.         *)
LEMMA VerdictIsAnswer ==
  Verdict \in Answers
BY DEF Verdict, Answers

(* It is favourable only for the right password against a usable hash.       *)
LEMMA VerdictIsDeserved ==
  Verdict = "SUCCESS" => /\ world.entry = "hash" /\ world.secret = buf
                         /\ ~(buf = 0 /\ world.nonull)
BY DEF Verdict

(* Before the call nothing is open, sent or answered.                        *)
LEMMA Initially == Init => IInv
<1> SUFFICES ASSUME Init PROVE IInv
  OBVIOUS
<1>1. TypeOK
  <2>1. 0 \in 0 .. MaxResp
    BY HelperAssumption
  <2> QED
    BY <2>1 DEF Init, TypeOK
<1>2. Positions /\ Ends
  BY DEF Init, Positions, Ends, Alive
<1>3. Flow
  BY DEF Init, Flow
<1>4. Answered /\ ServableIsServed
  BY DEF Init, Answered, ServableIsServed
<1> QED
  BY <1>1, <1>2, <1>3, <1>4 DEF IInv

(* pipe opens both ends for the application.                                 *)
LEMMA PipeKeeps == IInv /\ Pipe => IInv'
<1> SUFFICES ASSUME IInv, Pipe PROVE IInv'
  OBVIOUS
<1> USE HelperAssumption, SentBound DEF IInv, pipeVars, parentVars, childVars
<1>0. Sent' = Sent /\ world' = world /\ (Servable' => Servable)
  BY DEF Sent, Servable, Pipe
<1>1. TypeOK'
  BY DEF TypeOK, Pipe
<1>2. Positions'
  BY DEF Positions, Pipe
<1>3. Ends'
  BY DEF Positions, Ends, Alive, Pipe
<1>4. Flow'
  BY <1>0 DEF Flow, Pipe
<1>5. Answered'
  BY DEF Positions, Answered, Pipe
<1>6. ServableIsServed'
  BY DEF ServableIsServed, Pipe
<1> QED
  BY <1>1, <1>2, <1>3, <1>4, <1>5, <1>6

(* A call that cannot have its pipe ends before anything exists.             *)
LEMMA PipeFailsKeeps == IInv /\ PipeFails => IInv'
<1> SUFFICES ASSUME IInv, PipeFails PROVE IInv'
  OBVIOUS
<1> USE HelperAssumption, SentBound DEF IInv, pipeVars, parentVars, childVars
<1>0. Sent' = Sent /\ world' = world /\ (Servable' => Servable)
  BY DEF Sent, Servable, PipeFails
<1>1. TypeOK'
  BY DEF TypeOK, Answers, PipeFails, Return
<1>2. Positions'
  BY DEF Positions, Alive, PipeFails, Return
<1>3. Ends'
  BY DEF Ends, PipeFails, Return
<1>4. Flow'
  BY <1>0 DEF Flow, PipeFails, Return
<1>5. Answered'
  BY DEF Positions, Answered, PipeFails
<1>6. ServableIsServed'
  BY DEF ServableIsServed, Servable, PipeFails
<1> QED
  BY <1>1, <1>2, <1>3, <1>4, <1>5, <1>6

(* fork gives the child both ends; the application keeps the write end.      *)
LEMMA ForkKeeps == IInv /\ Fork => IInv'
<1> SUFFICES ASSUME IInv, Fork PROVE IInv'
  OBVIOUS
<1> USE HelperAssumption, SentBound DEF IInv, pipeVars, parentVars, childVars
<1>1. TypeOK'
  BY DEF TypeOK, Fork
<1>2. Positions'
  BY DEF Positions, Alive, Fork
<1>3. Ends'
  BY DEF Ends, Fork
<1>4. Flow'
  BY DEF Flow, Fork
<1>5. Answered'
  BY DEF Positions, Answered, Fork
<1>6. ServableIsServed'
  BY DEF ServableIsServed, Fork
<1> QED
  BY <1>1, <1>2, <1>3, <1>4, <1>5, <1>6

(* Without a child both ends are closed again.                               *)
LEMMA ForkFailsKeeps == IInv /\ ForkFails => IInv'
<1> SUFFICES ASSUME IInv, ForkFails PROVE IInv'
  OBVIOUS
<1> USE HelperAssumption, SentBound DEF IInv, pipeVars, parentVars, childVars
<1>0. Sent' = Sent /\ world' = world /\ (Servable' => Servable)
  BY DEF Sent, Servable, ForkFails
<1>1. TypeOK'
  BY DEF TypeOK, Answers, ForkFails, Return
<1>2. Positions'
  BY DEF Positions, Alive, ForkFails, Return
<1>3. Ends'
  BY DEF Positions, Ends, Alive, ForkFails, Return
<1>4. Flow'
  BY <1>0 DEF Flow, ForkFails, Return
<1>5. Answered'
  BY DEF Positions, Answered, ForkFails
<1>6. ServableIsServed'
  BY DEF ServableIsServed, Servable, ForkFails
<1> QED
  BY <1>1, <1>2, <1>3, <1>4, <1>5, <1>6

(* Everything is sent at once, or nothing because nobody reads any more.     *)
LEMMA WritePasswordKeeps == IInv /\ WritePassword => IInv'
<1> SUFFICES ASSUME IInv, WritePassword PROVE IInv'
  OBVIOUS
<1> USE HelperAssumption, SentBound DEF IInv, pipeVars, parentVars, childVars
<1>0. Sent' = Sent /\ world' = world /\ (Servable' => Servable)
  BY DEF Sent, Servable, WritePassword
<1>1. TypeOK'
  BY DEF TypeOK, Flow, Answers, WritePassword, BrokenPipe
<1>2. Positions'
  BY DEF Positions, WritePassword, BrokenPipe
<1>3. Ends'
  BY DEF Ends, WritePassword, BrokenPipe
<1>4. Flow'
  BY <1>0 DEF TypeOK, Ends, Flow, Alive, WritePassword, BrokenPipe
<1>5. Answered'
  BY <1>0 DEF Positions, Answered, Verdict, WritePassword
<1>6. ServableIsServed'
  BY DEF TypeOK, Positions, Ends, Answered, ServableIsServed, Servable, Alive,
     WritePassword, BrokenPipe
<1> QED
  BY <1>1, <1>2, <1>3, <1>4, <1>5, <1>6

(* The NUL follows the password; here too the helper may be gone, but never  *)
(* in a call that can be served, where it still waits for the NUL.           *)
LEMMA WriteNulKeeps == IInv /\ WriteNul => IInv'
<1> SUFFICES ASSUME IInv, WriteNul PROVE IInv'
  OBVIOUS
<1> USE HelperAssumption, SentBound DEF IInv, pipeVars, parentVars, childVars
<1>0. Sent' = Sent /\ world' = world /\ (Servable' => Servable)
  BY DEF Sent, Servable, WriteNul
<1>1. TypeOK'
  BY DEF TypeOK, Answers, WriteNul, BrokenPipe
<1>2. Positions'
  BY DEF Positions, WriteNul, BrokenPipe
<1>3. Ends'
  BY DEF Ends, WriteNul, BrokenPipe
<1>4. Flow'
  BY <1>0 DEF TypeOK, Flow, WriteNul, BrokenPipe
<1>5. Answered'
  BY <1>0 DEF Positions, Answered, Verdict, WriteNul
<1>6. ServableIsServed'
  BY DEF TypeOK, Positions, Ends, Answered, ServableIsServed, Servable, Alive,
     WriteNul, BrokenPipe
<1> QED
  BY <1>1, <1>2, <1>3, <1>4, <1>5, <1>6

(* The last write end the application holds is closed.                       *)
LEMMA CloseWriteKeeps == IInv /\ CloseWrite => IInv'
<1> SUFFICES ASSUME IInv, CloseWrite PROVE IInv'
  OBVIOUS
<1> USE HelperAssumption, SentBound DEF IInv, pipeVars, parentVars, childVars
<1>0. Sent' = Sent /\ world' = world /\ (Servable' => Servable)
  BY DEF Sent, Servable, CloseWrite
<1>1. TypeOK'
  BY DEF TypeOK, CloseWrite
<1>2. Positions'
  BY DEF Positions, CloseWrite
<1>3. Ends'
  BY DEF Ends, CloseWrite
<1>4. Flow'
  BY <1>0 DEF Flow, CloseWrite
<1>5. Answered'
  BY <1>0 DEF Answered, Verdict, CloseWrite
<1>6. ServableIsServed'
  BY DEF ServableIsServed, CloseWrite
<1> QED
  BY <1>1, <1>2, <1>3, <1>4, <1>5, <1>6

(* The status collected is the verdict on what was read, or no success.      *)
LEMMA WaitChildKeeps == IInv /\ WaitChild => IInv'
<1> SUFFICES ASSUME IInv, WaitChild PROVE IInv'
  OBVIOUS
<1> USE HelperAssumption, SentBound DEF IInv, pipeVars, parentVars, childVars
<1>0. Sent' = Sent /\ world' = world /\ (Servable' => Servable)
  BY DEF Sent, Servable, WaitChild
<1>1. TypeOK'
  BY DEF TypeOK, Answers, WaitChild, Return
<1>2. Positions'
  BY DEF Positions, Alive, WaitChild, Return
<1>3. Ends'
  BY DEF Ends, Alive, WaitChild, Return
<1>4. Flow'
  BY DEF Flow, WaitChild, Return
<1>5. Answered'
  BY <1>0 DEF Answered, Servable, Verdict, WaitChild, Return
<1>6. ServableIsServed'
  BY DEF TypeOK, Answered, ServableIsServed, Servable, Verdict, WaitChild,
     Return
<1> QED
  BY <1>1, <1>2, <1>3, <1>4, <1>5, <1>6

(* The helper keeps its input only where descriptor 0 was open.              *)
LEMMA SetUpStdinKeeps == IInv /\ SetUpStdin => IInv'
<1> SUFFICES ASSUME IInv, SetUpStdin PROVE IInv'
  OBVIOUS
<1> USE HelperAssumption, SentBound DEF IInv, pipeVars, parentVars, childVars
<1>0. Sent' = Sent /\ world' = world /\ (Servable' => Servable)
  BY DEF Sent, Servable, SetUpStdin
<1>1. TypeOK'
  BY DEF TypeOK, SetUpStdin
<1>2. Positions'
  BY DEF Positions, Alive, SetUpStdin
<1>3. Ends'
  BY DEF Ends, Alive, SetUpStdin
<1>4. Flow'
  BY <1>0 DEF Flow, SetUpStdin
<1>5. Answered'
  BY DEF Positions, Answered, Alive, SetUpStdin
<1>6. ServableIsServed'
  BY <1>0 DEF ServableIsServed, SetUpStdin
<1> QED
  BY <1>1, <1>2, <1>3, <1>4, <1>5, <1>6

(* A child that cannot become the helper exits with no success.              *)
LEMMA SetupFailsKeeps == IInv /\ SetupFails => IInv'
<1> SUFFICES ASSUME IInv, SetupFails PROVE IInv'
  OBVIOUS
<1> USE HelperAssumption, SentBound DEF IInv, pipeVars, parentVars, childVars
<1>0. Sent' = Sent /\ world' = world /\ (Servable' => Servable)
  BY DEF Sent, Servable, SetupFails
<1>1. TypeOK'
  BY DEF TypeOK, Answers, SetupFails, Exit
<1>2. Positions'
  BY DEF Positions, Alive, SetupFails, Exit
<1>3. Ends'
  BY DEF Ends, Alive, SetupFails, Exit
<1>4. Flow'
  BY DEF Flow, SetupFails, Exit
<1>5. Answered'
  BY DEF Answered, Servable, SetupFails, Exit
<1>6. ServableIsServed'
  BY <1>0 DEF ServableIsServed, SetupFails
<1> QED
  BY <1>1, <1>2, <1>3, <1>4, <1>5, <1>6

(* Only a permitted caller gets to the reading.                              *)
LEMMA MayCheckUserKeeps == IInv /\ MayCheckUser => IInv'
<1> SUFFICES ASSUME IInv, MayCheckUser PROVE IInv'
  OBVIOUS
<1> USE HelperAssumption, SentBound DEF IInv, pipeVars, parentVars, childVars
<1>0. Sent' = Sent /\ world' = world /\ (Servable' => Servable)
  BY DEF Sent, Servable, MayCheckUser
<1>1. TypeOK'
  BY DEF TypeOK, Answers, MayCheckUser, Exit
<1>2. Positions'
  BY DEF Positions, Alive, MayCheckUser, Exit
<1>3. Ends'
  BY DEF Ends, Alive, MayCheckUser, Exit
<1>4. Flow'
  BY <1>0 DEF Flow, MayCheckUser, Exit
<1>5. Answered'
  BY DEF Positions, Answered, Alive, Servable, MayCheckUser, Exit
<1>6. ServableIsServed'
  BY <1>0 DEF ServableIsServed, MayCheckUser
<1> QED
  BY <1>1, <1>2, <1>3, <1>4, <1>5, <1>6

(* What has been read and what is still in the pipe add up to what was sent, *)
(* and the end of the input is never met before the NUL.                     *)
LEMMA ReadByteKeeps == IInv /\ ReadByte => IInv'
<1> SUFFICES ASSUME IInv, ReadByte PROVE IInv'
  OBVIOUS
<1> USE HelperAssumption, SentBound DEF IInv, pipeVars, parentVars, childVars
<1>0. Sent' = Sent /\ world' = world /\ (Servable' => Servable)
  BY DEF Sent, Servable, ReadByte
<1>1. TypeOK'
  <2>1. pipe' \in [chars : 0 .. MaxResp, nul : BOOLEAN]
    <3>1. CASE pipe' = [pipe EXCEPT !.chars = @ - 1] /\ pipe.chars > 0
      BY <3>1 DEF TypeOK
    <3>2. CASE pipe' = [pipe EXCEPT !.nul = FALSE]
      BY <3>2 DEF TypeOK
    <3>3. CASE pipe' = pipe
      BY <3>3 DEF TypeOK
    <3> QED
      BY <3>1, <3>2, <3>3 DEF ReadByte
  <2> QED
    BY <2>1 DEF TypeOK, ReadByte
<1>2. Positions'
  BY DEF Positions, Alive, ReadByte
<1>3. Ends'
  BY DEF Ends, Alive, ReadByte
<1>4. Flow'
  BY <1>0 DEF TypeOK, Positions, Ends, Flow, Alive, ReadByte
<1>5. Answered'
  BY DEF Positions, Answered, Alive, ReadByte
<1>6. ServableIsServed'
  BY <1>0 DEF ServableIsServed, ReadByte
<1> QED
  BY <1>1, <1>2, <1>3, <1>4, <1>5, <1>6

(* The verdict is given on all of the password, or on an empty one where the *)
(* helper had no input.                                                      *)
LEMMA JudgeKeeps == IInv /\ Judge => IInv'
<1> SUFFICES ASSUME IInv, Judge PROVE IInv'
  OBVIOUS
<1> USE HelperAssumption, SentBound DEF IInv, pipeVars, parentVars, childVars
<1>0. Sent' = Sent /\ world' = world /\ (Servable' => Servable)
  BY DEF Sent, Servable, Judge
<1>1. TypeOK'
  BY VerdictIsAnswer DEF TypeOK, Judge, Exit
<1>2. Positions'
  BY VerdictIsAnswer DEF Positions, Alive, Answers, Judge, Exit
<1>3. Ends'
  BY DEF Ends, Alive, Judge, Exit
<1>4. Flow'
  BY DEF Flow, Judge, Exit
<1>5. Answered'
  BY <1>0 DEF TypeOK, Positions, Ends, Flow, Answered, Alive, Servable,
     Verdict, Judge, Exit
<1>6. ServableIsServed'
  BY <1>0 DEF ServableIsServed, Judge
<1> QED
  BY <1>1, <1>2, <1>3, <1>4, <1>5, <1>6

(* A killed helper leaves no status that means success.                      *)
LEMMA HelperKilledKeeps == IInv /\ HelperKilled => IInv'
<1> SUFFICES ASSUME IInv, HelperKilled PROVE IInv'
  OBVIOUS
<1> USE HelperAssumption, SentBound DEF IInv, pipeVars, parentVars, childVars
<1>0. Sent' = Sent /\ world' = world /\ (Servable' => Servable)
  BY DEF Sent, Servable, HelperKilled
<1>1. TypeOK'
  BY DEF TypeOK, HelperKilled, Exit
<1>2. Positions'
  BY DEF Positions, Alive, HelperKilled, Exit
<1>3. Ends'
  BY DEF Ends, Alive, HelperKilled, Exit
<1>4. Flow'
  BY DEF Flow, HelperKilled, Exit
<1>5. Answered'
  BY DEF Answered, Servable, HelperKilled, Exit
<1>6. ServableIsServed'
  BY <1>0 DEF ServableIsServed, HelperKilled
<1> QED
  BY <1>1, <1>2, <1>3, <1>4, <1>5, <1>6

------------------------------------------------------------------------------
(* The inductive invariant holds of every reachable state: each step of      *)
(* either process, and each failure, keeps it.                               *)
LEMMA Inductive == Spec => []IInv
<1>1. IInv /\ [Next]_vars => IInv'
  <2> SUFFICES ASSUME IInv, [Next]_vars PROVE IInv'
    OBVIOUS
  <2>1. CASE Pipe
    BY <2>1, PipeKeeps
  <2>2. CASE PipeFails
    BY <2>2, PipeFailsKeeps
  <2>3. CASE Fork
    BY <2>3, ForkKeeps
  <2>4. CASE ForkFails
    BY <2>4, ForkFailsKeeps
  <2>5. CASE WritePassword
    BY <2>5, WritePasswordKeeps
  <2>6. CASE WriteNul
    BY <2>6, WriteNulKeeps
  <2>7. CASE CloseWrite
    BY <2>7, CloseWriteKeeps
  <2>8. CASE WaitChild
    BY <2>8, WaitChildKeeps
  <2>9. CASE SetUpStdin
    BY <2>9, SetUpStdinKeeps
  <2>10. CASE SetupFails
    BY <2>10, SetupFailsKeeps
  <2>11. CASE MayCheckUser
    BY <2>11, MayCheckUserKeeps
  <2>12. CASE ReadByte
    BY <2>12, ReadByteKeeps
  <2>13. CASE Judge
    BY <2>13, JudgeKeeps
  <2>14. CASE HelperKilled
    BY <2>14, HelperKilledKeeps
  <2>15. CASE UNCHANGED vars
    BY <2>15 DEF IInv, TypeOK, Positions, Ends, Flow, Answered,
       ServableIsServed, Servable, Verdict, Sent, vars, pipeVars, parentVars,
       childVars
  <2> QED
    BY <2>1, <2>2, <2>3, <2>4, <2>5, <2>6, <2>7, <2>8, <2>9, <2>10, <2>11,
       <2>12, <2>13, <2>14, <2>15 DEF Next, Parent, ChildWork, ChildFault
<1> QED
  BY Initially, <1>1, PTL DEF Spec

(* The variables keep their types; read_password never stores more than      *)
(* PAM_MAX_RESP_SIZE bytes before its NUL, whatever arrives.                 *)
THEOREM TypeCorrect == Spec => []TypeOK
<1>1. IInv => TypeOK
  BY DEF IInv
<1> QED
  BY Inductive, <1>1, PTL

(* PAM_SUCCESS from the helper means a permitted caller, a usable hash and   *)
(* the right password, in every interleaving of the two processes and their  *)
(* failures.                                                                 *)
THEOREM SuccessDeserved == Spec => []SuccessIsDeserved
<1>1. IInv => SuccessIsDeserved
  <2> SUFFICES ASSUME IInv, parent = "done", retval = "SUCCESS"
               PROVE  SuccessIsDeserved
    BY DEF SuccessIsDeserved
  <2>1. child = "reaped" /\ status = "SUCCESS"
    BY DEF IInv, Positions, Answered
  <2>2. /\ ~faulty /\ world.permitted /\ Verdict = "SUCCESS"
        /\ buf = IF world.stdinOpen THEN Sent ELSE 0
    BY <2>1 DEF IInv, Answered
  <2>3. world.len = 0 => buf = 0
    BY <2>2, SentBound DEF IInv, TypeOK
  <2> QED
    BY <2>2, <2>3, VerdictIsDeserved DEF SuccessIsDeserved
<1> QED
  BY Inductive, <1>1, PTL

(* A call the code can serve is answered according to the password and never *)
(* ends by SIGPIPE.                                                          *)
THEOREM ServableServed == Spec => []ServableIsServed
<1>1. IInv => ServableIsServed
  BY DEF IInv
<1> QED
  BY Inductive, <1>1, PTL

(* run_unix_chkpwd returns with both ends of the pipe closed and its child   *)
(* waited for, on every path.                                                *)
THEOREM NothingIsLeft == Spec => []NothingLeft
<1>1. IInv => NothingLeft
  BY DEF IInv, Positions, Ends, NothingLeft
<1> QED
  BY Inductive, <1>1, PTL
=============================================================================
