------------------------------ MODULE ModutilIO ------------------------------
(* pam_modutil_write and pam_modutil_read of libpam/pam.c at the two ends of *)
(* a pipe, in two processes that call them again and again. The kernel moves *)
(* as many bytes at a time as it likes, either call may meet an error, and   *)
(* either process may close its end between calls or die inside one.         *)
(*                                                                           *)
(* The writer's bytes are numbered in the order in which its calls are given *)
(* them. A read or write that a signal interrupts is tried again and changes *)
(* nothing.                                                                  *)
EXTENDS Naturals, Sequences

CONSTANTS
  MaxCount,   \* bound on the count of one call
  Total,      \* bound on the bytes of all the writer's calls
  Capacity    \* of the pipe

ASSUME IOAssumption == {MaxCount, Total, Capacity} \subseteq Nat \ {0}

Ends == {"writer", "reader"}

VARIABLES
  pipe,       \* bytes written and not yet read
  open,       \* the ends that are open
  writer,     \* the writer's call, see Calls
  reader,     \* the reader's
  given,      \* bytes of all the writer's calls
  sent,       \* bytes the kernel took
  got,        \* what the reader's successful calls returned, one after another
  failed      \* history: the ends one of whose calls returned -1

vars == <<pipe, open, writer, reader, given, sent, got, failed>>

(* count: bytes to be moved; buffer: the writer's bytes that are left, or    *)
(* the bytes the reader has so far; ret: of the last call, "short" for less  *)
(* than it asked for.                                                        *)
Calls == [at : {"done", "loop"}, count : 0..MaxCount, buffer : Seq(1..Total),
          ret : {"none", "full", "short", "error"}]
NoCall == [at |-> "done", count |-> 0, buffer |-> <<>>, ret |-> "none"]
Done(r) == [NoCall EXCEPT !.ret = r]

Init ==
  /\ pipe = <<>> /\ open = Ends
  /\ writer = NoCall /\ reader = NoCall
  /\ given = 0 /\ sent = 0 /\ got = <<>> /\ failed = {}

Bytes(first, n) == [k \in 1..n |-> first + k - 1]
From(s, k) == SubSeq(s, k, Len(s))

------------------------------------------------------------------------------
Write(n) ==
  /\ "writer" \in open /\ writer.at = "done" /\ given + n <= Total
  /\ given' = given + n
  /\ writer' = IF n = 0 THEN Done("full")
               ELSE [at |-> "loop", count |-> n, buffer |-> Bytes(given + 1, n), ret |-> "none"]
  /\ UNCHANGED <<pipe, open, reader, sent, got, failed>>

(* Mutant: &buffer[0] in place of &buffer[offset]. *)
SendsFirstAgain(k) ==
  /\ pipe' = pipe \o SubSeq(writer.buffer, 1, k)
  /\ writer' = IF k = writer.count THEN Done("full") ELSE [writer EXCEPT !.count = @ - k]

Advance(k) ==
  /\ pipe' = pipe \o SubSeq(writer.buffer, 1, k)
  /\ writer' = IF k = writer.count THEN Done("full")
               ELSE [writer EXCEPT !.count = @ - k, !.buffer = From(@, k + 1)]

(* write took k bytes. It never takes 0 of more than 0 bytes at a pipe: the  *)
(* `block == 0` of the loop (908) does not come up.                          *)
WriteBlock(k) ==
  /\ writer.at = "loop" /\ "reader" \in open
  /\ k <= writer.count /\ Len(pipe) + k <= Capacity
  /\ Advance(k)
  /\ sent' = sent + k
  /\ UNCHANGED <<open, reader, given, got, failed>>

(* write fails, at least where nobody is left to read: -1, though the kernel *)
(* may have taken a part.                                                    *)
WriteError ==
  /\ writer.at = "loop"
  /\ writer' = Done("error")
  /\ failed' = failed \cup {"writer"}
  /\ UNCHANGED <<pipe, open, reader, given, sent, got>>

------------------------------------------------------------------------------
Read(n) ==
  /\ "reader" \in open /\ reader.at = "done"
  /\ reader' = IF n = 0 THEN Done("full")
               ELSE [at |-> "loop", count |-> n, buffer |-> <<>>, ret |-> "none"]
  /\ UNCHANGED <<pipe, open, writer, given, sent, got, failed>>

(* Mutant: no loop around read. *)
TakesOneBlock(k) ==
  /\ reader.at = "loop" /\ k <= reader.count /\ k <= Len(pipe)
  /\ pipe' = From(pipe, k + 1)
  /\ reader' = Done(IF k = reader.count THEN "full" ELSE "short")
  /\ got' = got \o SubSeq(pipe, 1, k)
  /\ UNCHANGED <<open, writer, given, sent, failed>>

(* read brought k bytes.                                                     *)
ReadBlock(k) ==
  /\ reader.at = "loop" /\ k <= reader.count /\ k <= Len(pipe)
  /\ pipe' = From(pipe, k + 1)
  /\ LET buffer == reader.buffer \o SubSeq(pipe, 1, k) IN
     \/ k = reader.count /\ reader' = Done("full") /\ got' = got \o buffer
     \/ /\ k < reader.count
        /\ reader' = [reader EXCEPT !.count = @ - k, !.buffer = buffer]
        /\ UNCHANGED got
  /\ UNCHANGED <<open, writer, given, sent, failed>>

(* Mutant: only a negative block ends the loop. *)
ReadsOn ==
  /\ reader.at = "loop" /\ pipe = <<>> /\ "writer" \notin open
  /\ UNCHANGED vars

(* read answers 0, the end of the stream: what there is so far is returned.  *)
ReadEnd ==
  /\ reader.at = "loop" /\ pipe = <<>> /\ "writer" \notin open
  /\ reader' = Done("short") /\ got' = got \o reader.buffer
  /\ UNCHANGED <<pipe, open, writer, given, sent, failed>>

(* read fails: -1, and the bytes the call has read are lost to the caller.   *)
ReadError ==
  /\ reader.at = "loop"
  /\ reader' = Done("error")
  /\ failed' = failed \cup {"reader"}
  /\ UNCHANGED <<pipe, open, writer, given, sent, got>>

------------------------------------------------------------------------------
CloseWriter ==
  /\ "writer" \in open
  /\ open' = open \ {"writer"} /\ writer' = NoCall
  /\ UNCHANGED <<pipe, reader, given, sent, got, failed>>

CloseReader ==
  /\ "reader" \in open
  /\ open' = open \ {"reader"} /\ reader' = NoCall
  /\ UNCHANGED <<pipe, writer, given, sent, got, failed>>

Next ==
  \/ \E n \in 0..MaxCount : Write(n) \/ Read(n)
  \/ \E k \in 1..MaxCount : WriteBlock(k) \/ ReadBlock(k)
  \/ ReadEnd \/ WriteError \/ ReadError
  \/ CloseWriter \/ CloseReader

(* Both processes run where the kernel lets them: a reader has bytes or the  *)
(* end of the stream, a writer whose reader is gone has its error.           *)
Spec ==
  /\ Init /\ [][Next]_vars
  /\ WF_vars(\E k \in 1..MaxCount : ReadBlock(k))
  /\ WF_vars(ReadEnd)
  /\ WF_vars("reader" \notin open /\ WriteError)

------------------------------------------------------------------------------
(* Every variable keeps its type; the writer's buffer holds the bytes it has *)
(* yet to send, the reader's has room for those it has yet to get.           *)
TypeOK ==
  /\ pipe \in Seq(1..Total) /\ Len(pipe) <= Capacity /\ open \subseteq Ends
  /\ writer \in Calls /\ Len(writer.buffer) = writer.count
  /\ reader \in Calls /\ Len(reader.buffer) + reader.count <= MaxCount
  /\ given \in 0..Total /\ sent \in 0..given
  /\ got \in Seq(1..Total) /\ failed \subseteq Ends

Increasing(s) == \A j, k \in DOMAIN s : j < k => s[j] < s[k]

(* What reads returned, then what the current one has, then what is in the   *)
(* pipe: the bytes the kernel took, all of them once and in order, unless a  *)
(* call returned -1, after which some may be missing but none is doubled or  *)
(* out of place. A read that returns less than it asked for met the end of   *)
(* the stream, a write that answers anything but -1 has sent all.            *)
Delivered ==
  LET stream == got \o reader.buffer \o pipe IN
  /\ Increasing(stream)
  /\ failed = {} /\ "reader" \in open => stream = Bytes(1, sent)
  /\ reader.ret = "short" => pipe = <<>> /\ "writer" \notin open
  /\ failed = {} /\ writer.ret = "full" => sent = given

(* No call waits on an end that is closed.                                   *)
CallsEnd ==
  /\ (reader.at = "loop" /\ "writer" \notin open) ~> reader.at = "done"
  /\ (writer.at = "loop" /\ "reader" \notin open) ~> writer.at = "done"
=============================================================================
