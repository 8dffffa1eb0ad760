-------------------------- MODULE MiscConv_proofs --------------------------
(* Proofs about MiscConv, for every number of messages and of lines typed    *)
(* ahead: the four invariants of its run, from one inductive invariant.      *)
EXTENDS MiscConv, SequenceTheorems, TLAPS

Prompting == {"off", "read", "restore"}

(* The call's bookkeeping: its messages are within the bound, and what it    *)
(* has allocated is the array and the answers that are there.                *)
Books ==
  /\ Len(conv.msgm) <= MaxMessages
  /\ conv.at = "idle" => heap = given
  /\ conv.at # "idle" =>
       given = {} /\ heap = {Array} \cup {k \in DOMAIN resp : resp[k] # "NULL"}

(* The setting to go back to is the terminal's usual one, unless a process   *)
(* left it changed.                                                          *)
Settings ==
  /\ ~tty => echo = usual /\ conv.oldt = "none"
  /\ conv.at \notin Prompting => conv.oldt = "none" /\ (hurt \/ echo = usual)
  /\ conv.at = "off" => conv.oldt = echo
  /\ conv.at \in Prompting =>
       hurt \/ IF conv.oldt = "none" THEN echo = usual ELSE conv.oldt = usual

(* Which prompts change the setting.                                         *)
Hiding ==
  /\ conv.at \in Prompting => Style \in {"ECHO_ON", "ECHO_OFF"}
  /\ conv.at = "off" => Style = "ECHO_OFF"
  /\ conv.at \in {"read", "restore"} =>
       /\ Style = "ECHO_ON" => conv.oldt = "none"
       /\ tty /\ Style = "ECHO_OFF" /\ Len(resp) + 1 \notin refused => echo = "off"

(* Lines that wait, and the one just read, were typed under the present      *)
(* setting: every change of it throws the waiting ones away.                 *)
Unfit(line) == line = IF echo = "on" THEN "hidden" ELSE "shown"

Waiting ==
  tty => /\ \A k \in DOMAIN queue : ~Unfit(queue[k])
         /\ conv.at = "restore" => ~Unfit(conv.line)

IInv == TypeOK /\ Books /\ Settings /\ Hiding /\ Waiting /\ AnswersMatchEcho

------------------------------------------------------------------------------
(* Effects of the helpers, field by field.                                   *)
Places == {"idle", "next"} \cup Prompting

(* Going on changes where the call stands, and nothing else of it.           *)
LEMMA GotoEffect ==
  ASSUME conv \in Convs, NEW l \in Places, Goto(l)
  PROVE  /\ conv' \in Convs /\ conv'.at = l
         /\ conv'.msgm = conv.msgm /\ conv'.oldt = conv.oldt /\ conv'.line = conv.line
BY DEF Goto, Convs, Places, Prompting

(* What getline brought is kept for the way back.                            *)
LEMMA GotEffect ==
  ASSUME conv \in Convs, NEW line \in Answers, Got(line)
  PROVE  /\ conv' \in Convs /\ conv'.at = "restore" /\ conv'.line = line
         /\ conv'.msgm = conv.msgm /\ conv'.oldt = conv.oldt
BY DEF Got, Convs

(* A call that is not there has no messages.                                 *)
LEMMA IdleEffect ==
  /\ Idle \in Convs /\ Idle.at = "idle" /\ Idle.oldt = "none"
  /\ Idle.msgm = <<>> /\ Len(Idle.msgm) = 0
BY DEF Idle, Convs, Answers

(* A sequence with one more element at its end.                              *)
LEMMA Longer ==
  ASSUME NEW S, NEW s \in Seq(S), NEW x \in S
  PROVE  /\ Append(s, x) \in Seq(S)
         /\ Len(Append(s, x)) = Len(s) + 1
         /\ DOMAIN Append(s, x) = DOMAIN s \cup {Len(s) + 1}
         /\ \A k \in DOMAIN s : Append(s, x)[k] = s[k]
         /\ Append(s, x)[Len(s) + 1] = x
BY AppendProperties

(* A sequence with its first element taken away.                             *)
LEMMA Shorter ==
  ASSUME NEW S, NEW s \in Seq(S), s # <<>>
  PROVE  /\ Head(s) \in S /\ Head(s) = s[1] /\ 1 \in DOMAIN s
         /\ Tail(s) \in Seq(S) /\ Len(Tail(s)) = Len(s) - 1
         /\ \A k \in DOMAIN Tail(s) : k + 1 \in DOMAIN s /\ Tail(s)[k] = s[k + 1]
BY HeadTailProperties

(* The messages of a call are within the bound.                              *)
LEMMA MessagesBounded ==
  ASSUME NEW messages \in BoundedSeq(Styles, MaxMessages)
  PROVE  messages \in Seq(Styles) /\ Len(messages) <= MaxMessages
<1>1. PICK m \in 0 .. MaxMessages : messages \in [1 .. m -> Styles]
  BY DEF BoundedSeq, SeqOf
<1> QED
  BY <1>1, ConvAssumption

(* The two facts about answers and waiting lines that most steps leave be.   *)
LEMMA AnswersStay ==
  ASSUME AnswersMatchEcho, UNCHANGED <<tty, usual, resp>>, conv'.msgm = conv.msgm,
         refused \subseteq refused', hurt => hurt'
  PROVE  AnswersMatchEcho'
BY DEF AnswersMatchEcho

LEMMA EmptyAnswers ==
  ASSUME resp' = <<>>
  PROVE  AnswersMatchEcho'
BY DEF AnswersMatchEcho

(* Nothing waits on a terminal whose setting has just been changed.          *)
LEMMA FlushedWaiting ==
  ASSUME queue' = <<>>, conv'.at # "restore"
  PROVE  Waiting'
BY DEF Waiting

(* The lines that wait stay within the bound when they are thrown away.      *)
LEMMA QueueFlushed ==
  ASSUME TypeOK, queue' \in {queue, <<>>}
  PROVE  queue' \in Seq(Lines \cup {"EOF"}) /\ Len(queue') <= MaxTyped
<1>1. CASE queue' = queue
  BY <1>1 DEF TypeOK
<1>2. CASE queue' = <<>>
  <2>1. Len(queue') = 0 /\ queue' \in Seq(Lines \cup {"EOF"})
    BY <1>2
  <2>2. 0 <= MaxTyped
    BY ConvAssumption
  <2> QED
    BY <2>1, <2>2
<1> QED
  BY <1>1, <1>2

(* A process that leaves the call, one way or the other.                     *)
LEMMA LeavingType ==
  ASSUME TypeOK, conv' = Idle, resp' = <<>>, heap' = {}, given' = {},
         UNCHANGED <<tty, usual, echo, queue>>, atEof' \in BOOLEAN, hurt' \in BOOLEAN,
         ret' \in {"none", "CONV_ERR"}, refused' \subseteq refused
  PROVE  TypeOK'
<1>1. Len(resp') = 0 /\ resp' \in Seq(Answers)
  OBVIOUS
<1>2. conv' \in Convs /\ conv'.at = "idle" /\ Len(conv'.msgm) = 0
  BY IdleEffect
<1> QED
  BY <1>1, <1>2 DEF TypeOK

(* Before the first call the terminal is as it was.                          *)
LEMMA Initially == Init => IInv
<1> SUFFICES ASSUME Init PROVE IInv
  OBVIOUS
<1>1. TypeOK
  <2>1. <<>> \in Seq(Lines \cup {"EOF"}) /\ <<>> \in Seq(Answers) /\ Len(<<>>) = 0
    OBVIOUS
  <2>2. conv \in Convs /\ conv.at = "idle" /\ Len(conv.msgm) = 0
    BY IdleEffect DEF Init
  <2>3. /\ queue = <<>> /\ resp = <<>> /\ heap = {} /\ given = {} /\ refused = {}
        /\ tty \in BOOLEAN /\ usual \in Echo /\ echo \in Echo /\ atEof \in BOOLEAN
        /\ hurt \in BOOLEAN /\ ret = "none"
    BY DEF Init
  <2> QED
    BY <2>1, <2>2, <2>3, ConvAssumption DEF TypeOK
<1>2. Books /\ Settings /\ Hiding /\ Waiting /\ AnswersMatchEcho
  BY IdleEffect, ConvAssumption DEF Init, Books, Settings, Hiding, Waiting,
     AnswersMatchEcho, Prompting
<1> QED
  BY <1>1, <1>2 DEF IInv

(* A call begins when its caller has freed everything.                       *)
LEMMA CallKeeps ==
  ASSUME IInv, NEW messages \in BoundedSeq(Styles, MaxMessages), Call(messages)
  PROVE  IInv'
<1>1. /\ conv.at = "idle" /\ given = {} /\ heap = {} /\ resp' = <<>> /\ refused' = {}
      /\ UNCHANGED <<tty, usual, echo, queue, atEof, given, hurt>>
  BY DEF Call, terminal, IInv, Books
<1>2. Len(resp') = 0 /\ resp' \in Seq(Answers) /\ DOMAIN resp' = {}
  BY <1>1
<1>3. CASE UNCHANGED <<conv, heap>> /\ ret' \in {"CONV_ERR", "BUF_ERR"}
  <2>1. TypeOK'
    BY <1>1, <1>2, <1>3 DEF IInv, TypeOK, Convs
  <2>2. Books' /\ Settings' /\ Hiding' /\ Waiting'
    BY <1>1, <1>3 DEF IInv, Books, Settings, Hiding, Waiting, Unfit, Prompting
  <2> QED
    BY <1>1, <2>1, <2>2, EmptyAnswers DEF IInv
<1>4. CASE /\ conv' = [Idle EXCEPT !.at = "next", !.msgm = messages]
           /\ heap' = heap \cup {Array} /\ ret' = "none"
  <2>1. /\ conv' \in Convs /\ conv'.at = "next" /\ conv'.oldt = "none"
        /\ conv'.msgm = messages
    BY <1>4, MessagesBounded DEF Idle, Convs, Answers
  <2>2. messages \in Seq(Styles) /\ Len(messages) \in Nat /\ Len(messages) <= MaxMessages
    BY MessagesBounded
  <2>3. TypeOK'
    BY <1>1, <1>2, <1>4, <2>1, <2>2, ConvAssumption DEF IInv, TypeOK, Array
  <2>4. Books' /\ Settings' /\ Hiding' /\ Waiting'
    BY <1>1, <1>2, <1>4, <2>1, <2>2 DEF IInv, Books, Settings, Hiding, Waiting, Unfit, Prompting
  <2> QED
    BY <1>1, <2>3, <2>4, EmptyAnswers DEF IInv
<1> QED
  BY <1>3, <1>4 DEF Call

(* The caller frees all it was given.                                        *)
LEMMA CallerFreesKeeps ==
  ASSUME IInv, CallerFrees
  PROVE  IInv'
<1>1. /\ conv.at = "idle" /\ heap' = heap \ given /\ given' = {}
      /\ UNCHANGED <<tty, usual, echo, queue, atEof, conv, resp, ret, hurt, refused>>
  BY DEF CallerFrees, terminal
<1>2. TypeOK'
  BY <1>1 DEF IInv, TypeOK
<1>3. Books' /\ Settings' /\ Hiding' /\ Waiting'
  BY <1>1 DEF IInv, Books, Settings, Hiding, Waiting, Unfit, Style
<1> QED
  BY <1>1, <1>2, <1>3, AnswersStay DEF IInv

(* A hidden prompt starts from the present setting.                          *)
LEMMA PromptKeeps ==
  ASSUME IInv, Prompt
  PROVE  IInv'
<1>1. /\ conv.at = "next" /\ Len(resp) < Len(conv.msgm) /\ Style \in {"ECHO_OFF", "ECHO_ON"}
      /\ UNCHANGED <<tty, usual, echo, queue, atEof, resp, heap, given, ret, hurt>>
  BY DEF Prompt, AtNext, terminal
<1>2. /\ conv' \in Convs /\ conv'.msgm = conv.msgm
      /\ \/ conv'.at = "read" /\ conv'.oldt = "none"
            /\ (Style = "ECHO_ON" \/ Len(resp) + 1 \in refused')
         \/ conv'.at = "off" /\ conv'.oldt = echo /\ tty /\ Style = "ECHO_OFF"
      /\ refused' \in {refused, refused \cup {Len(resp) + 1}}
  <2>1. CASE Goto("read") /\ (Style = "ECHO_ON" \/ Len(resp) + 1 \in refused')
             /\ refused' \in {refused, refused \cup {Len(resp) + 1}}
    BY <1>1, <2>1, GotoEffect DEF IInv, TypeOK, Settings, Places, Prompting
  <2>2. CASE /\ Style = "ECHO_OFF" /\ tty /\ UNCHANGED refused
             /\ conv' = [conv EXCEPT !.at = "off", !.oldt = echo]
    BY <2>2 DEF IInv, TypeOK, Convs
  <2> QED
    BY <2>1, <2>2 DEF Prompt
<1>3. Style' = Style /\ Len(resp) \in Nat /\ Len(conv.msgm) \in Nat
  BY <1>1, <1>2 DEF Style, IInv, TypeOK, Convs
<1>4. TypeOK'
  BY <1>1, <1>2, <1>3, ConvAssumption DEF IInv, TypeOK, Books
<1>5. Books' /\ Waiting'
  BY <1>1, <1>2 DEF IInv, Books, Waiting, Unfit
<1>6. Settings' /\ Hiding'
  BY <1>1, <1>2, <1>3 DEF IInv, Settings, Hiding, Prompting, TypeOK, Echo
<1> QED
  BY <1>1, <1>2, <1>4, <1>5, <1>6, AnswersStay DEF IInv

(* A message that asks for nothing has no answer.                            *)
LEMMA ShowTextKeeps ==
  ASSUME IInv, ShowText
  PROVE  IInv'
<1>1. /\ conv.at = "next" /\ Len(resp) < Len(conv.msgm) /\ Style = "TEXT"
      /\ resp' = Append(resp, "NULL")
      /\ UNCHANGED <<tty, usual, echo, queue, atEof, conv, heap, given, ret, hurt, refused>>
  BY DEF ShowText, AtNext, terminal
<1>2. /\ resp' \in Seq(Answers) /\ Len(resp') = Len(resp) + 1
      /\ DOMAIN resp' = DOMAIN resp \cup {Len(resp) + 1}
      /\ \A k \in DOMAIN resp : resp'[k] = resp[k]
      /\ resp'[Len(resp) + 1] = "NULL"
  BY <1>1, Longer DEF IInv, TypeOK, Answers
<1>3. Len(resp) \in Nat /\ Len(conv.msgm) \in Nat
  BY DEF IInv, TypeOK, Convs
<1>4. TypeOK'
  BY <1>1, <1>2, <1>3 DEF IInv, TypeOK
<1>5. {k \in DOMAIN resp' : resp'[k] # "NULL"} = {k \in DOMAIN resp : resp[k] # "NULL"}
  BY <1>2
<1>6. Books' /\ Settings' /\ Hiding' /\ Waiting'
  BY <1>1, <1>5 DEF IInv, Books, Settings, Hiding, Waiting, Unfit, Prompting
<1>7. AnswersMatchEcho'
  BY <1>1, <1>2 DEF IInv, AnswersMatchEcho
<1> QED
  BY <1>4, <1>6, <1>7 DEF IInv

(* Switching the echo off throws away what was typed ahead.                  *)
LEMMA EchoOffKeeps ==
  ASSUME IInv, EchoOff
  PROVE  IInv'
<1>1. /\ conv.at = "off"
      /\ UNCHANGED <<tty, usual, atEof, resp, heap, given, ret, hurt>>
      /\ \/ echo' = "off" /\ queue' = <<>> /\ refused' = refused
         \/ refused' = refused \cup {Len(resp) + 1} /\ UNCHANGED <<echo, queue>>
  BY DEF EchoOff, SetEcho, terminal
<1>2. /\ conv' \in Convs /\ conv'.at = "read" /\ conv'.msgm = conv.msgm
      /\ conv'.oldt = conv.oldt
  BY GotoEffect DEF EchoOff, IInv, TypeOK, Places, Prompting
<1>3. Style' = Style /\ Len(resp) \in Nat /\ Len(conv.msgm) \in Nat
  BY <1>1, <1>2 DEF Style, IInv, TypeOK, Convs
<1>4. TypeOK'
  <2>1. queue' \in Seq(Lines \cup {"EOF"}) /\ Len(queue') <= MaxTyped
    BY <1>1, QueueFlushed DEF IInv
  <2>2. Len(resp) + 1 \in 1 .. MaxMessages
    BY <1>1, <1>3, ConvAssumption DEF IInv, TypeOK, Books
  <2>3. echo' \in Echo /\ refused' \subseteq 1 .. MaxMessages
    BY <1>1, <2>2 DEF IInv, TypeOK, Echo
  <2> QED
    BY <1>1, <1>2, <1>3, <2>1, <2>3 DEF IInv, TypeOK
<1>5. Books'
  BY <1>1, <1>2 DEF IInv, Books
<1>6. conv.oldt # "none" /\ tty
  BY <1>1 DEF IInv, Settings, TypeOK, Echo
<1>7. Settings' /\ Hiding'
  BY <1>1, <1>2, <1>3, <1>6 DEF IInv, Settings, Hiding, Prompting
<1>8. Waiting'
  BY <1>1, <1>2 DEF IInv, Waiting, Unfit
<1> QED
  BY <1>1, <1>2, <1>4, <1>5, <1>7, <1>8, AnswersStay DEF IInv

(* Reading, with or without a line to show for it.                           *)
LEMMA Reading ==
  ASSUME IInv, conv.at = "read", NEW line \in Answers, Got(line),
         UNCHANGED <<terminal, echo, resp, heap, given, ret, hurt, refused>>,
         atEof' \in BOOLEAN, queue' \in Seq(Lines \cup {"EOF"}), Len(queue') <= MaxTyped,
         tty => ~Unfit(line) /\ \A k \in DOMAIN queue' : ~Unfit(queue'[k])
  PROVE  IInv'
<1>1. /\ conv' \in Convs /\ conv'.at = "restore" /\ conv'.line = line
      /\ conv'.msgm = conv.msgm /\ conv'.oldt = conv.oldt
  BY GotEffect DEF IInv, TypeOK
<1>2. Style' = Style /\ UNCHANGED <<tty, usual>>
  BY <1>1 DEF Style, terminal
<1>3. TypeOK'
  BY <1>1, <1>2 DEF IInv, TypeOK
<1>4. Books' /\ Settings' /\ Hiding'
  BY <1>1, <1>2 DEF IInv, Books, Settings, Hiding, Prompting
<1>5. Waiting'
  BY <1>1, <1>2 DEF Waiting, Unfit
<1> QED
  BY <1>1, <1>2, <1>3, <1>4, <1>5, AnswersStay DEF IInv

(* The line read is the first of those that wait.                            *)
LEMMA ReadLineKeeps ==
  ASSUME IInv, ReadLine
  PROVE  IInv'
<1>1. /\ conv.at = "read"
      /\ UNCHANGED <<terminal, echo, resp, heap, given, ret, hurt, refused>>
  BY DEF ReadLine
<1>2. queue \in Seq(Lines \cup {"EOF"}) /\ Len(queue) <= MaxTyped /\ Len(queue) \in Nat
  BY DEF IInv, TypeOK
<1>3. ~Unfit("NULL") /\ (tty => \A k \in DOMAIN queue : ~Unfit(queue[k]))
  BY DEF IInv, Waiting, Unfit
<1>4. CASE atEof /\ Got("NULL") /\ UNCHANGED <<queue, atEof>>
  BY <1>1, <1>2, <1>3, <1>4, Reading DEF IInv, TypeOK, Answers
<1>5. CASE ~atEof /\ queue # <<>> /\ queue' = Tail(queue)
  <2>1. /\ queue' \in Seq(Lines \cup {"EOF"}) /\ Len(queue') <= MaxTyped
        /\ tty => \A k \in DOMAIN queue' : ~Unfit(queue'[k])
    BY <1>2, <1>3, <1>5, Shorter, ConvAssumption
  <2>2. Head(queue) \in Lines \cup {"EOF"} /\ (tty => ~Unfit(Head(queue)))
    BY <1>2, <1>3, <1>5, Shorter
  <2>3. CASE Head(queue) = "EOF" /\ atEof' = TRUE /\ Got("NULL")
    BY <1>1, <1>3, <2>1, <2>3, Reading DEF Answers
  <2>4. CASE Head(queue) # "EOF" /\ UNCHANGED atEof /\ Got(Head(queue))
    BY <1>1, <2>1, <2>2, <2>4, Reading DEF Answers, IInv, TypeOK
  <2> QED
    BY <1>5, <2>3, <2>4 DEF ReadLine
<1> QED
  BY <1>4, <1>5 DEF ReadLine

(* A read that fails brings nothing and takes nothing.                       *)
LEMMA ReadFailsKeeps ==
  ASSUME IInv, ReadFails
  PROVE  IInv'
<1>1. ~Unfit("NULL") /\ (tty => \A k \in DOMAIN queue : ~Unfit(queue[k]))
  BY DEF IInv, Waiting, Unfit
<1> QED
  BY <1>1, Reading DEF ReadFails, IInv, TypeOK, Answers

(* The answer is stored on the way back; where the terminal takes the old    *)
(* setting, what was typed meanwhile is thrown away.                         *)
LEMMA RestoreKeeps ==
  ASSUME IInv, Restore
  PROVE  IInv'
<1>1. /\ conv.at = "restore" /\ Len(resp) < Len(conv.msgm) /\ conv.line \in Answers
      /\ conv.oldt \in {"none"} \cup Echo
      /\ Len(resp) \in Nat /\ Len(conv.msgm) \in Nat /\ Len(conv.msgm) <= MaxMessages
      /\ UNCHANGED <<tty, usual, atEof, given, ret, refused>>
  BY DEF Restore, terminal, IInv, TypeOK, Convs, Books
<1>2. /\ conv' \in Convs /\ conv'.at = "next" /\ conv'.msgm = conv.msgm
      /\ conv'.oldt = "none"
  BY DEF Restore, Store, IInv, TypeOK, Convs, Answers
<1>3. /\ resp' \in Seq(Answers) /\ Len(resp') = Len(resp) + 1
      /\ DOMAIN resp' = DOMAIN resp \cup {Len(resp) + 1}
      /\ \A k \in DOMAIN resp : resp'[k] = resp[k]
      /\ resp'[Len(resp) + 1] = conv.line
  BY <1>1, Longer DEF Restore, Store, IInv, TypeOK
<1>4. \/ conv.oldt = "none" /\ UNCHANGED <<echo, queue, hurt>>
      \/ conv.oldt # "none" /\ echo' = conv.oldt /\ queue' = <<>> /\ hurt' = hurt
      \/ conv.oldt # "none" /\ hurt' = (hurt \/ echo # conv.oldt) /\ UNCHANGED <<echo, queue>>
  BY DEF Restore, SetEcho
<1>5. heap' = IF conv.line = "NULL" THEN heap ELSE heap \cup {Len(resp) + 1}
  BY DEF Restore, Store
<1>6. TypeOK'
  <2>1. queue' \in Seq(Lines \cup {"EOF"}) /\ Len(queue') <= MaxTyped
    BY <1>4, QueueFlushed DEF IInv
  <2>2. echo' \in Echo /\ hurt' \in BOOLEAN
    BY <1>1, <1>4 DEF IInv, TypeOK
  <2>3. Len(resp) + 1 \in 0 .. MaxMessages
    BY <1>1, ConvAssumption
  <2>4. heap' \subseteq 0 .. MaxMessages /\ given' \subseteq heap'
    BY <1>1, <1>5, <2>3 DEF IInv, TypeOK
  <2> QED
    BY <1>1, <1>2, <1>3, <2>1, <2>2, <2>4 DEF IInv, TypeOK
<1>7. Books'
  <2>1. {k \in DOMAIN resp' : resp'[k] # "NULL"}
        = IF conv.line = "NULL" THEN {k \in DOMAIN resp : resp[k] # "NULL"}
          ELSE {k \in DOMAIN resp : resp[k] # "NULL"} \cup {Len(resp) + 1}
    BY <1>3
  <2> QED
    BY <1>1, <1>2, <1>5, <2>1 DEF IInv, Books
<1>8. Settings' /\ Hiding'
  BY <1>1, <1>2, <1>4 DEF IInv, Settings, Hiding, Prompting
<1>9. Waiting'
  BY <1>1, <1>2, <1>4 DEF IInv, Waiting, Unfit
<1>10. AnswersMatchEcho'
  <2>1. ASSUME tty, conv.msgm[Len(resp) + 1] = "ECHO_OFF", Len(resp) + 1 \notin refused
        PROVE  conv.line # "shown"
    BY <1>1, <2>1 DEF IInv, Hiding, Waiting, Unfit, Style
  <2>2. ASSUME tty, conv.msgm[Len(resp) + 1] = "ECHO_ON", usual = "on", ~hurt
        PROVE  conv.line # "hidden"
    BY <1>1, <2>2 DEF IInv, Hiding, Settings, Waiting, Unfit, Style, Prompting
  <2>3. hurt => hurt'
    BY <1>4 DEF IInv, TypeOK
  <2> QED
    BY <1>1, <1>2, <1>3, <2>1, <2>2, <2>3 DEF IInv, AnswersMatchEcho
<1> QED
  BY <1>6, <1>7, <1>8, <1>9, <1>10 DEF IInv

(* What is allocated becomes the caller's.                                   *)
LEMMA ReturnAnswersKeeps ==
  ASSUME IInv, ReturnAnswers
  PROVE  IInv'
<1>1. /\ conv.at = "next" /\ given' = heap /\ ret' = "SUCCESS"
      /\ UNCHANGED <<tty, usual, echo, queue, atEof, resp, heap, hurt, refused>>
  BY DEF ReturnAnswers, terminal
<1>2. /\ conv' \in Convs /\ conv'.at = "idle" /\ conv'.msgm = conv.msgm
      /\ conv'.oldt = conv.oldt
  BY DEF ReturnAnswers, IInv, TypeOK, Convs
<1>3. TypeOK'
  BY <1>1, <1>2 DEF IInv, TypeOK
<1>4. Books' /\ Settings' /\ Hiding' /\ Waiting'
  BY <1>1, <1>2 DEF IInv, Books, Settings, Hiding, Waiting, Unfit, Prompting
<1> QED
  BY <1>1, <1>2, <1>3, <1>4, AnswersStay DEF IInv

(* The label fail leaves nothing allocated.                                  *)
LEMMA FreeAnswersKeeps ==
  ASSUME IInv, FreeAnswers
  PROVE  IInv'
<1>1. /\ conv.at = "next" /\ conv' = Idle /\ resp' = <<>> /\ ret' = "CONV_ERR"
      /\ heap' = heap \ ({Array} \cup {k \in DOMAIN resp : resp[k] # "NULL"})
      /\ UNCHANGED <<tty, usual, echo, queue, atEof, given, hurt, refused>>
  BY DEF FreeAnswers, AtNext, terminal
<1>2. heap' = {} /\ given' = {}
  BY <1>1 DEF IInv, Books
<1>3. TypeOK'
  BY <1>1, <1>2, LeavingType DEF IInv, TypeOK
<1>4. Books' /\ Settings' /\ Hiding' /\ Waiting'
  BY <1>1, <1>2, IdleEffect, ConvAssumption DEF IInv, Books, Settings, Hiding, Waiting,
     Unfit, Prompting
<1> QED
  BY <1>1, <1>3, <1>4, EmptyAnswers DEF IInv

(* A line typed is shown or not by the present setting.                      *)
LEMMA TypeKeeps ==
  ASSUME IInv, Type
  PROVE  IInv'
<1>1. /\ Len(queue) < MaxTyped
      /\ UNCHANGED <<tty, usual, echo, atEof, conv, resp, heap, given, ret, hurt, refused>>
  BY DEF Type, terminal
<1>2. PICK line \in {IF tty /\ echo = "on" THEN "shown" ELSE "hidden", "EOF"} :
        queue' = Append(queue, line)
  BY DEF Type
<1>3. line \in Lines \cup {"EOF"} /\ (tty => ~Unfit(line))
  BY <1>2 DEF Lines, Unfit
<1>4. queue \in Seq(Lines \cup {"EOF"}) /\ Len(queue) \in Nat
  BY DEF IInv, TypeOK
<1>5. /\ queue' \in Seq(Lines \cup {"EOF"}) /\ Len(queue') = Len(queue) + 1
      /\ DOMAIN queue' = DOMAIN queue \cup {Len(queue) + 1}
      /\ \A k \in DOMAIN queue : queue'[k] = queue[k]
      /\ queue'[Len(queue) + 1] = line
  BY <1>2, <1>3, <1>4, Longer
<1>6. TypeOK'
  BY <1>1, <1>4, <1>5, ConvAssumption DEF IInv, TypeOK
<1>7. Books' /\ Settings' /\ Hiding'
  BY <1>1 DEF IInv, Books, Settings, Hiding, Style
<1>8. Waiting'
  BY <1>1, <1>3, <1>5 DEF IInv, Waiting, Unfit
<1> QED
  BY <1>1, <1>6, <1>7, <1>8, AnswersStay DEF IInv

(* A killed process takes its memory with it and leaves the setting as is.   *)
LEMMA KilledKeeps ==
  ASSUME IInv, Killed
  PROVE  IInv'
<1>1. /\ hurt' = (hurt \/ (tty /\ echo # usual))
      /\ conv' = Idle /\ resp' = <<>> /\ heap' = {} /\ given' = {} /\ ret' = "none"
      /\ atEof' = FALSE /\ refused' = {} /\ UNCHANGED <<tty, usual, echo, queue>>
  BY DEF Killed, terminal
<1>3. TypeOK'
  <2>1. hurt' \in BOOLEAN
    BY <1>1 DEF IInv, TypeOK
  <2> QED
    BY <1>1, <2>1, LeavingType DEF IInv
<1>4. Books' /\ Hiding' /\ Waiting'
  BY <1>1, IdleEffect, ConvAssumption DEF IInv, Books, Hiding, Waiting, Unfit, Prompting
<1>5. Settings'
  BY <1>1, IdleEffect DEF IInv, TypeOK, Settings, Prompting
<1> QED
  BY <1>1, <1>3, <1>4, <1>5, EmptyAnswers DEF IInv

------------------------------------------------------------------------------
(* The inductive invariant holds of every reachable state.                   *)
LEMMA Inductive == Spec => []IInv
<1>1. IInv /\ [Next]_vars => IInv'
  <2> SUFFICES ASSUME IInv, [Next]_vars PROVE IInv'
    OBVIOUS
  <2>1. ASSUME NEW messages \in BoundedSeq(Styles, MaxMessages), Call(messages)
        PROVE  IInv'
    BY <2>1, CallKeeps
  <2>2. CASE CallerFrees
    BY <2>2, CallerFreesKeeps
  <2>3. CASE Step
    BY <2>3, PromptKeeps, ShowTextKeeps, EchoOffKeeps, ReadLineKeeps, ReadFailsKeeps,
       RestoreKeeps, ReturnAnswersKeeps, FreeAnswersKeeps DEF Step
  <2>4. CASE Type
    BY <2>4, TypeKeeps
  <2>5. CASE Killed
    BY <2>5, KilledKeeps
  <2>6. CASE UNCHANGED vars
    BY <2>6 DEF vars, IInv, TypeOK, Books, Settings, Hiding, Waiting, Unfit, Style,
       AnswersMatchEcho
  <2> QED
    BY <2>1, <2>2, <2>3, <2>4, <2>5, <2>6 DEF Next
<1> QED
  BY Initially, <1>1, PTL DEF Spec

(* The variables keep their types.                                           *)
THEOREM TypeCorrect == Spec => []TypeOK
<1>1. IInv => TypeOK
  BY DEF IInv
<1> QED
  BY Inductive, <1>1, PTL

(* Every way out of a prompt puts the terminal's echo back, as long as no    *)
(* process was killed there and the terminal does not refuse.                *)
THEOREM EchoIsRestored == Spec => []EchoRestored
<1>1. IInv => EchoRestored
  BY DEF IInv, Settings, Prompting, EchoRestored
<1> QED
  BY Inductive, <1>1, PTL

(* Hidden answers were typed hidden, and visible questions are not answered  *)
(* by them.                                                                  *)
THEOREM AnswersAreFit == Spec => []AnswersMatchEcho
<1>1. IInv => AnswersMatchEcho
  BY DEF IInv
<1> QED
  BY Inductive, <1>1, PTL

(* misc_conv leaks nothing on any way out.                                   *)
THEOREM NoLeak == Spec => []NothingLeaked
<1>1. IInv => NothingLeaked
  BY DEF IInv, Books, NothingLeaked
<1> QED
  BY Inductive, <1>1, PTL
=============================================================================
