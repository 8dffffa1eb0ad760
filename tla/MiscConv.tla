------------------------------ MODULE MiscConv ------------------------------
(* misc_conv of libpam_misc/pam_misc.c: an application's conversation on a   *)
(* terminal or a pipe. It asks one message after another; for a hidden one   *)
(* it switches the terminal's echo off, reads a line and switches it back.   *)
(* Meanwhile the user types ahead or ends the input, signals interrupt a     *)
(* read or kill the process, and the terminal may refuse a change. A process *)
(* that was killed is followed by another on the same terminal.              *)
(*                                                                           *)
(* A line is told apart by whether it was shown while it was typed; what it  *)
(* says, and the prompts written to stderr, are left out. stdio takes one    *)
(* line at a time from a terminal and remembers the end of the input.        *)
EXTENDS Naturals, Sequences, SequencesExt

CONSTANTS
  MaxMessages,  \* bound on the messages of a call
  MaxTyped      \* bound on the lines that wait to be read

ASSUME ConvAssumption == MaxMessages \in Nat /\ MaxTyped \in Nat \ {0}

(* "other": a style misc_conv does not know, or a NULL message.              *)
Styles == {"ECHO_OFF", "ECHO_ON", "TEXT", "other"}
Lines == {"shown", "hidden"}
Answers == Lines \cup {"NULL"}
Echo == {"on", "off"}
Array == 0

VARIABLES
  tty,          \* standard input is a terminal
  usual,        \* its echo before the first call
  echo,         \* its echo
  queue,        \* lines typed and not yet read, "EOF" for the end of input
  atEof,        \* the end-of-file flag of stdin
  conv,         \* the call in progress, see Convs
  resp,         \* the answers of the call so far
  heap,         \* allocated: Array, and the line answered to each message
  given,        \* the part of the heap the caller was given
  ret,          \* what the last call returned
  hurt,         \* history: a process died, or was refused, with the echo off
  refused       \* history: messages of the call it could not hide

terminal == <<tty, usual>>
vars == <<tty, usual, echo, queue, atEof, conv, resp, heap, given, ret, hurt, refused>>

(* at: "idle" outside a call; oldt: the setting to go back to, have_term if  *)
(* it is not "none"; line: what getline brought.                             *)
Convs == [at : {"idle", "next", "off", "read", "restore"}, msgm : Seq(Styles),
          oldt : {"none"} \cup Echo, line : Answers]
Idle == [at |-> "idle", msgm |-> <<>>, oldt |-> "none", line |-> "NULL"]

Init ==
  /\ tty \in BOOLEAN /\ usual \in Echo /\ echo = usual
  /\ queue = <<>> /\ atEof = FALSE
  /\ conv = Idle /\ resp = <<>> /\ heap = {} /\ given = {} /\ ret = "none"
  /\ hurt = FALSE /\ refused = {}

Goto(label) == conv' = [conv EXCEPT !.at = label]

------------------------------------------------------------------------------
(* The caller has freed the answers of the last call.                        *)
Call(messages) ==
  /\ conv.at = "idle" /\ given = {}
  /\ resp' = <<>> /\ refused' = {}
  /\ \/ messages = <<>> /\ ret' = "CONV_ERR" /\ UNCHANGED <<conv, heap>>
     \/ messages # <<>> /\ ret' = "BUF_ERR" /\ UNCHANGED <<conv, heap>>
     \/ /\ messages # <<>>
        /\ conv' = [Idle EXCEPT !.at = "next", !.msgm = messages]
        /\ heap' = heap \cup {Array} /\ ret' = "none"
  /\ UNCHANGED <<terminal, echo, queue, atEof, given, hurt>>

CallerFrees ==
  /\ conv.at = "idle" /\ given # {}
  /\ heap' = heap \ given /\ given' = {}
  /\ UNCHANGED <<terminal, echo, queue, atEof, conv, resp, ret, hurt, refused>>

AtNext == conv.at = "next" /\ Len(resp) < Len(conv.msgm)
Style == conv.msgm[Len(resp) + 1]

(* No terminal, or its setting cannot be had: the line is read as it comes.  *)
Prompt ==
  /\ AtNext /\ Style \in {"ECHO_OFF", "ECHO_ON"}
  /\ \/ Style = "ECHO_ON" /\ Goto("read") /\ UNCHANGED refused
     \/ Style = "ECHO_OFF" /\ Goto("read") /\ refused' = refused \cup {Len(resp) + 1}
     \/ /\ Style = "ECHO_OFF" /\ tty
        /\ conv' = [conv EXCEPT !.at = "off", !.oldt = echo]
        /\ UNCHANGED refused
  /\ UNCHANGED <<terminal, echo, queue, atEof, resp, heap, given, ret, hurt>>

ShowText ==
  /\ AtNext /\ Style = "TEXT"
  /\ resp' = Append(resp, "NULL")
  /\ UNCHANGED <<terminal, echo, queue, atEof, conv, heap, given, ret, hurt, refused>>

(* Mutant: TCSANOW in place of TCSAFLUSH. *)
SetsNow(setting) == echo' = setting /\ UNCHANGED queue

(* tcsetattr with TCSAFLUSH throws away what was typed and not yet read.     *)
SetEcho(setting) == echo' = setting /\ queue' = <<>>

EchoOff ==
  /\ conv.at = "off"
  /\ Goto("read")
  /\ \/ SetEcho("off") /\ UNCHANGED refused
     \/ refused' = refused \cup {Len(resp) + 1} /\ UNCHANGED <<echo, queue>>
  /\ UNCHANGED <<terminal, atEof, resp, heap, given, ret, hurt>>

Got(line) == conv' = [conv EXCEPT !.at = "restore", !.line = line]

(* Mutant of ReadLine: asks again where getline brought nothing. *)
AsksAgain ==
  /\ conv.at = "read"
  /\ \/ atEof /\ UNCHANGED <<conv, queue, atEof>>
     \/ /\ ~atEof /\ queue # <<>>
        /\ queue' = Tail(queue)
        /\ \/ Head(queue) = "EOF" /\ atEof' = TRUE /\ UNCHANGED conv
           \/ Head(queue) # "EOF" /\ UNCHANGED atEof /\ Got(Head(queue))
  /\ UNCHANGED <<terminal, echo, resp, heap, given, ret, hurt, refused>>

(* getline waits for a line; once stdin has its end-of-file flag, every read *)
(* comes back with nothing.                                                  *)
ReadLine ==
  /\ conv.at = "read"
  /\ \/ atEof /\ Got("NULL") /\ UNCHANGED <<queue, atEof>>
     \/ /\ ~atEof /\ queue # <<>>
        /\ queue' = Tail(queue)
        /\ \/ Head(queue) = "EOF" /\ atEof' = TRUE /\ Got("NULL")
           \/ Head(queue) # "EOF" /\ UNCHANGED atEof /\ Got(Head(queue))
  /\ UNCHANGED <<terminal, echo, resp, heap, given, ret, hurt, refused>>

(* A signal handler returned into read, or there is no memory for the line.  *)
ReadFails ==
  /\ conv.at = "read"
  /\ Got("NULL")
  /\ UNCHANGED <<terminal, echo, queue, atEof, resp, heap, given, ret, hurt, refused>>

(* The answer is stored when the terminal is as it was before.               *)
Store ==
  /\ conv' = [conv EXCEPT !.at = "next", !.oldt = "none", !.line = "NULL"]
  /\ resp' = Append(resp, conv.line)
  /\ heap' = IF conv.line = "NULL" THEN heap ELSE heap \cup {Len(resp) + 1}

(* Mutant: read_response returns early when getline fails. *)
RestoresAfterLine ==
  /\ conv.at = "restore"
  /\ Store
  /\ \/ (conv.oldt = "none" \/ conv.line = "NULL") /\ UNCHANGED <<echo, queue, hurt>>
     \/ conv.oldt # "none" /\ conv.line # "NULL" /\ SetEcho(conv.oldt) /\ UNCHANGED hurt
  /\ UNCHANGED <<terminal, atEof, given, ret, refused>>

Restore ==
  /\ conv.at = "restore"
  /\ Store
  /\ \/ conv.oldt = "none" /\ UNCHANGED <<echo, queue, hurt>>
     \/ conv.oldt # "none" /\ SetEcho(conv.oldt) /\ UNCHANGED hurt
     \/ conv.oldt # "none" /\ hurt' = (hurt \/ echo # conv.oldt) /\ UNCHANGED <<echo, queue>>
  /\ UNCHANGED <<terminal, atEof, given, ret, refused>>

(* Mutant: no return before the label fail. *)
FallsThrough ==
  /\ conv.at = "next" /\ Len(resp) = Len(conv.msgm)
  /\ conv' = Idle /\ resp' = <<>> /\ given' = heap /\ heap' = {} /\ ret' = "CONV_ERR"
  /\ UNCHANGED <<terminal, echo, queue, atEof, hurt, refused>>

ReturnAnswers ==
  /\ conv.at = "next" /\ Len(resp) = Len(conv.msgm)
  /\ conv' = [conv EXCEPT !.at = "idle"] /\ given' = heap /\ ret' = "SUCCESS"
  /\ UNCHANGED <<terminal, echo, queue, atEof, resp, heap, hurt, refused>>

(* Mutant: free(resp) alone. *)
FreesArray ==
  /\ AtNext /\ Style = "other"
  /\ conv' = Idle /\ resp' = <<>> /\ heap' = heap \ {Array} /\ ret' = "CONV_ERR"
  /\ UNCHANGED <<terminal, echo, queue, atEof, given, hurt, refused>>

(* The label fail: every answer so far, then the array.                      *)
FreeAnswers ==
  /\ AtNext /\ Style = "other"
  /\ conv' = Idle /\ resp' = <<>> /\ ret' = "CONV_ERR"
  /\ heap' = heap \ ({Array} \cup {k \in DOMAIN resp : resp[k] # "NULL"})
  /\ UNCHANGED <<terminal, echo, queue, atEof, given, hurt, refused>>

------------------------------------------------------------------------------
(* A line typed on a terminal is shown if its echo is on; one that comes     *)
(* through a pipe is shown nowhere.                                          *)
Type ==
  /\ Len(queue) < MaxTyped
  /\ \E line \in {IF tty /\ echo = "on" THEN "shown" ELSE "hidden", "EOF"} : queue' = Append(queue, line)
  /\ UNCHANGED <<terminal, echo, atEof, conv, resp, heap, given, ret, hurt, refused>>

(* Killed in a call; the next process has a stdin of its own.                *)
Killed ==
  /\ conv.at # "idle"
  /\ hurt' = (hurt \/ (tty /\ echo # usual))
  /\ conv' = Idle /\ resp' = <<>> /\ heap' = {} /\ given' = {} /\ ret' = "none"
  /\ atEof' = FALSE /\ refused' = {}
  /\ UNCHANGED <<terminal, echo, queue>>

Step == Prompt \/ ShowText \/ EchoOff \/ ReadLine \/ ReadFails \/ Restore \/ ReturnAnswers \/ FreeAnswers

Next ==
  \/ \E messages \in BoundedSeq(Styles, MaxMessages) : Call(messages)
  \/ CallerFrees
  \/ Step
  \/ Type
  \/ Killed

Spec == Init /\ [][Next]_vars

(* The process runs where it is not waiting for a line, and the user goes on *)
(* typing. No interruption is needed.                                        *)
FairSpec ==
  /\ Spec
  /\ WF_vars(Prompt \/ ShowText \/ EchoOff \/ ReadLine \/ Restore \/ ReturnAnswers \/ FreeAnswers)
  /\ WF_vars(Type)

------------------------------------------------------------------------------
(* Every variable keeps its type, and an answer is being read only for a     *)
(* message that is there.                                                    *)
TypeOK ==
  /\ tty \in BOOLEAN /\ usual \in Echo /\ echo \in Echo
  /\ queue \in Seq(Lines \cup {"EOF"}) /\ Len(queue) <= MaxTyped /\ atEof \in BOOLEAN
  /\ conv \in Convs /\ resp \in Seq(Answers) /\ Len(resp) <= Len(conv.msgm)
  /\ conv.at \in {"off", "read", "restore"} => Len(resp) < Len(conv.msgm)
  /\ heap \subseteq 0..MaxMessages /\ given \subseteq heap
  /\ ret \in {"none", "SUCCESS", "CONV_ERR", "BUF_ERR"}
  /\ hurt \in BOOLEAN /\ refused \subseteq 1..MaxMessages

(* Outside a prompt the terminal's echo is what it was before the first      *)
(* call, whatever was typed, interrupted or failed to be read: unless a      *)
(* process was killed in the middle of a hidden prompt or the terminal       *)
(* refused the way back, after which every later prompt finds, and puts      *)
(* back, a terminal without echo (25-38).                                    *)
EchoRestored == hurt \/ conv.at \in {"off", "read", "restore"} \/ echo = usual

(* An answer to a hidden prompt was typed with the echo off, never ahead of  *)
(* it; and on a terminal that shows what is typed, an answer to a visible    *)
(* prompt is no line typed at a hidden one: the flush on the way out keeps   *)
(* a password typed twice from being the next question's answer (28, 36).    *)
AnswersMatchEcho ==
  tty => \A k \in DOMAIN resp :
    /\ conv.msgm[k] = "ECHO_OFF" /\ k \notin refused => resp[k] # "shown"
    /\ conv.msgm[k] = "ECHO_ON" /\ usual = "on" /\ ~hurt => resp[k] # "hidden"

(* Nothing stays allocated but what the caller was given, on any way out.    *)
NothingLeaked == conv.at = "idle" => heap = given

(* A call returns if the user goes on typing, after the end of the input     *)
(* too, where it answers every question with NULL.                           *)
ConversationEnds == conv.at # "idle" ~> conv.at = "idle"
=============================================================================
