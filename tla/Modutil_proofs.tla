--------------------------- MODULE Modutil_proofs ---------------------------
(* Proofs about the pam_modutil helpers and the settings read through them.  *)
(* ModutilIO, for calls, streams and pipes of any size. LoginDefs, for files *)
(* of any lines. The two are extended side by side: they share neither       *)
(* variables nor definitions.                                                *)
EXTENDS ModutilIO, LoginDefs, SequenceTheorems, TLAPS

(* The two parts a sequence is cut into make the sequence.                  *)
LEMMA Cut ==
  ASSUME NEW S, NEW s \in Seq(S), NEW k \in 0..Len(s)
  PROVE  /\ SubSeq(s, 1, k) \in Seq(S) /\ Len(SubSeq(s, 1, k)) = k
         /\ From(s, k + 1) \in Seq(S) /\ Len(From(s, k + 1)) = Len(s) - k
         /\ SubSeq(s, 1, k) \o From(s, k + 1) = s
<1>1. SubSeq(s, 1, k) \in Seq(S) /\ Len(SubSeq(s, 1, k)) = k
  OBVIOUS
<1>2. From(s, k + 1) \in Seq(S) /\ Len(From(s, k + 1)) = Len(s) - k
  BY DEF From
<1>3. \A j \in 1..(Len(s) - k) : From(s, k + 1)[j] = s[j + k]
  BY DEF From
<1>4. SubSeq(s, 1, k) \o From(s, k + 1) \in Seq(S)
      /\ Len(SubSeq(s, 1, k) \o From(s, k + 1)) = Len(s)
  BY <1>1, <1>2
<1>5. \A j \in 1..Len(s) : (SubSeq(s, 1, k) \o From(s, k + 1))[j] = s[j]
  BY <1>1, <1>2, <1>3
<1> QED
  BY <1>1, <1>2, <1>4, <1>5, SeqEqual

LEMMA Reassociate ==
  \A a, b, c \in Seq(Nat) : (a \o b) \o c = a \o (b \o c)
<1> SUFFICES ASSUME NEW a \in Seq(Nat), NEW b \in Seq(Nat), NEW c \in Seq(Nat)
             PROVE  (a \o b) \o c = a \o (b \o c)
  OBVIOUS
<1> QED
  BY ConcatAssociative, SMTT(20)

(* A sequence grows where its parts grow and the first ends below the second.*)
LEMMA IncreasingParts ==
  ASSUME NEW a \in Seq(Nat), NEW b \in Seq(Nat)
  PROVE  Increasing(a \o b) <=>
           /\ Increasing(a) /\ Increasing(b)
           /\ \A j \in DOMAIN a, k \in DOMAIN b : a[j] < b[k]
<1>0. /\ DOMAIN a = 1..Len(a) /\ DOMAIN b = 1..Len(b) /\ DOMAIN (a \o b) = 1..(Len(a) + Len(b))
      /\ \A j \in 1..Len(a) : (a \o b)[j] = a[j]
      /\ \A k \in 1..Len(b) : (a \o b)[Len(a) + k] = b[k]
      /\ Len(a) \in Nat /\ Len(b) \in Nat
  OBVIOUS
<1>1. ASSUME Increasing(a \o b) PROVE Increasing(a)
  <2> SUFFICES ASSUME NEW j \in 1..Len(a), NEW k \in 1..Len(a), j < k PROVE a[j] < a[k]
    BY <1>0 DEF Increasing
  <2>1. j \in DOMAIN (a \o b) /\ k \in DOMAIN (a \o b)
    BY <1>0
  <2> QED
    BY <1>0, <1>1, <2>1 DEF Increasing
<1>2. ASSUME Increasing(a \o b) PROVE Increasing(b)
  <2> SUFFICES ASSUME NEW j \in 1..Len(b), NEW k \in 1..Len(b), j < k PROVE b[j] < b[k]
    BY <1>0 DEF Increasing
  <2>1. Len(a) + j < Len(a) + k /\ Len(a) + j \in DOMAIN (a \o b) /\ Len(a) + k \in DOMAIN (a \o b)
    BY <1>0
  <2> QED
    BY <1>0, <1>2, <2>1 DEF Increasing
<1>3. ASSUME Increasing(a \o b), NEW j \in DOMAIN a, NEW k \in DOMAIN b PROVE a[j] < b[k]
  <2>1. j < Len(a) + k /\ j \in DOMAIN (a \o b) /\ Len(a) + k \in DOMAIN (a \o b)
    BY <1>0
  <2> QED
    BY <1>0, <1>3, <2>1 DEF Increasing
<1>4. ASSUME Increasing(a), Increasing(b), \A j \in DOMAIN a, k \in DOMAIN b : a[j] < b[k]
      PROVE  Increasing(a \o b)
  <2> SUFFICES ASSUME NEW j \in 1..(Len(a) + Len(b)), NEW k \in 1..(Len(a) + Len(b)), j < k
               PROVE  (a \o b)[j] < (a \o b)[k]
    BY <1>0 DEF Increasing
  <2>1. CASE k <= Len(a)
    <3>1. j \in DOMAIN a /\ k \in DOMAIN a /\ (a \o b)[j] = a[j] /\ (a \o b)[k] = a[k]
      BY <1>0, <2>1
    <3> QED
      BY <1>4, <3>1 DEF Increasing
  <2>2. CASE j <= Len(a) /\ k > Len(a)
    <3>1. k - Len(a) \in DOMAIN b /\ (a \o b)[k] = b[k - Len(a)] /\ j \in DOMAIN a
      BY <1>0, <2>2
    <3> QED
      BY <1>0, <1>4, <3>1
  <2>3. CASE j > Len(a)
    <3>1. /\ k - Len(a) \in DOMAIN b /\ (a \o b)[k] = b[k - Len(a)]
          /\ j - Len(a) \in DOMAIN b /\ (a \o b)[j] = b[j - Len(a)]
          /\ j - Len(a) < k - Len(a)
      BY <1>0, <2>3
    <3> QED
      BY <1>4, <3>1 DEF Increasing
  <2> QED
    BY <1>0, <2>1, <2>2, <2>3
<1> QED
  BY <1>1, <1>2, <1>3, <1>4

(* The writer's bytes: n of them in order, from f on.                       *)
LEMMA BytesType ==
  ASSUME NEW f \in Nat, NEW n \in Nat
  PROVE  /\ Bytes(f, n) \in Seq(f..(f + n - 1)) /\ Len(Bytes(f, n)) = n
         /\ Increasing(Bytes(f, n))
<1>1. /\ Bytes(f, n) \in Seq(f..(f + n - 1)) /\ Len(Bytes(f, n)) = n /\ DOMAIN Bytes(f, n) = 1..n
      /\ \A j \in 1..n : Bytes(f, n)[j] = f + j - 1
  BY DEF Bytes
<1>2. Increasing(Bytes(f, n))
  BY <1>1 DEF Increasing
<1> QED
  BY <1>1, <1>2

(* They can be cut anywhere.                                                *)
LEMMA BytesParts ==
  ASSUME NEW f \in Nat, NEW n \in Nat, NEW k \in 0..n
  PROVE  /\ SubSeq(Bytes(f, n), 1, k) = Bytes(f, k)
         /\ From(Bytes(f, n), k + 1) = Bytes(f + k, n - k)
         /\ Bytes(f, k) \o Bytes(f + k, n - k) = Bytes(f, n)
<1>1. \A g, m \in Nat : /\ Bytes(g, m) \in Seq(g..(g + m - 1)) /\ Bytes(g, m) \in Seq(Nat)
                        /\ Len(Bytes(g, m)) = m /\ DOMAIN Bytes(g, m) = 1..m
                        /\ \A j \in 1..m : Bytes(g, m)[j] = g + j - 1 /\ Bytes(g, m)[j] \in Nat
  BY DEF Bytes
<1>3. k \in Nat /\ n - k \in Nat /\ f + k \in Nat
  OBVIOUS
<1>0. \A j \in 1..n : Bytes(f, n)[j] \in Nat
  BY <1>1
<1>4. SubSeq(Bytes(f, n), 1, k) = Bytes(f, k)
  <2>1. /\ SubSeq(Bytes(f, n), 1, k) \in Seq(Nat) /\ Len(SubSeq(Bytes(f, n), 1, k)) = k
        /\ \A j \in 1..k : SubSeq(Bytes(f, n), 1, k)[j] = Bytes(f, n)[j]
    BY <1>0, SubSeqProperties
  <2>2. \A j \in 1..k : SubSeq(Bytes(f, n), 1, k)[j] = Bytes(f, k)[j]
    BY <1>1, <1>3, <2>1
  <2> QED
    BY <1>1, <1>3, <2>1, <2>2, SeqEqual
<1>5. From(Bytes(f, n), k + 1) = Bytes(f + k, n - k)
  <2>1. From(Bytes(f, n), k + 1) = SubSeq(Bytes(f, n), k + 1, n)
    BY <1>1 DEF From
  <2>2. /\ SubSeq(Bytes(f, n), k + 1, n) \in Seq(Nat) /\ Len(SubSeq(Bytes(f, n), k + 1, n)) = n - k
        /\ \A j \in 1..(n - k) : SubSeq(Bytes(f, n), k + 1, n)[j] = Bytes(f, n)[k + j]
    BY <1>0, SubSeqProperties
  <2>3. /\ Bytes(f + k, n - k) \in Seq(Nat) /\ Len(Bytes(f + k, n - k)) = n - k
        /\ \A j \in 1..(n - k) : Bytes(f + k, n - k)[j] = f + k + j - 1
    BY <1>1, <1>3
  <2>4. ASSUME NEW j \in 1..(n - k) PROVE Bytes(f, n)[k + j] = f + k + j - 1
    BY <1>1, <1>3
  <2>5. \A j \in 1..(n - k) : SubSeq(Bytes(f, n), k + 1, n)[j] = Bytes(f + k, n - k)[j]
    BY <2>2, <2>3, <2>4
  <2> QED
    BY <2>1, <2>2, <2>3, <2>5, SeqEqual
<1>6. Bytes(f, k) \o Bytes(f + k, n - k) = Bytes(f, n)
  BY <1>1, <1>4, <1>5, Cut
<1> QED
  BY <1>4, <1>5, <1>6

------------------------------------------------------------------------------
(* What reads returned, what the current one has and what is in the pipe.    *)
Stream == got \o reader.buffer \o pipe

(* How many bytes the writer's calls are done with, sent or given up.        *)
Past == given - writer.count

(* The inductive invariant. A call that is not in its loop holds nothing,    *)
(* one that is belongs to an open end; the writer's buffer is what its calls *)
(* were given after Past; the stream runs up to Past at most, and without a  *)
(* failure is what was sent, which is all up to Past as long as the writer   *)
(* goes on.                                                                  *)
Resting ==
  /\ writer.at = "done" => writer.buffer = <<>> /\ writer.count = 0
  /\ reader.at = "done" => reader.buffer = <<>> /\ reader.count = 0
  /\ writer.at = "loop" => "writer" \in open /\ writer.ret = "none"
  /\ reader.at = "loop" => "reader" \in open /\ reader.ret = "none"
  /\ writer.ret = "full" => "writer" \in open
  /\ reader.ret = "short" => pipe = <<>> /\ "writer" \notin open

Writing ==
  /\ writer.count \in 0..given /\ writer.count <= MaxCount
  /\ writer.buffer = Bytes(Past + 1, writer.count)
  /\ sent <= Past
  /\ failed = {} /\ "writer" \in open => sent = Past

Reading ==
  /\ Increasing(Stream)
  /\ \A j \in DOMAIN Stream : Stream[j] <= Past
  /\ failed = {} /\ "reader" \in open => Stream = Bytes(1, sent)

IInv == TypeOK /\ Resting /\ Writing /\ Reading

LEMMA Sizes ==
  /\ MaxCount \in Nat /\ Total \in Nat /\ Capacity \in Nat
  BY IOAssumption

(* What a call is when it has returned, or was never made.                   *)
LEMMA DoneEffect ==
  /\ NoCall \in Calls /\ NoCall.at = "done" /\ NoCall.count = 0
  /\ NoCall.buffer = <<>> /\ NoCall.ret = "none"
  /\ \A r \in {"none", "full", "short", "error"} :
       /\ Done(r) \in Calls /\ Done(r).at = "done" /\ Done(r).count = 0
       /\ Done(r).buffer = <<>> /\ Done(r).ret = r
<1>1. <<>> \in Seq(1..Total) /\ 0 \in 0..MaxCount
  BY Sizes, EmptySeq
<1>2. \A r : Done(r) = [at |-> "done", count |-> 0, buffer |-> <<>>, ret |-> r]
  BY DEF NoCall, Done
<1>3. \A r \in {"none", "full", "short", "error"} :
        [at |-> "done", count |-> 0, buffer |-> <<>>, ret |-> r] \in Calls
  BY <1>1 DEF Calls
<1> QED
  BY <1>2, <1>3 DEF NoCall

LEMMA NoBytes == \A f \in Nat : Bytes(f, 0) = <<>>
  BY DEF Bytes

(* The types of the parts, and of the stream they make.                      *)
LEMMA Parts ==
  ASSUME TypeOK
  PROVE  /\ writer.at \in {"done", "loop"} /\ writer.count \in Nat /\ writer.count <= MaxCount
         /\ writer.buffer \in Seq(1..Total) /\ writer.ret \in {"none", "full", "short", "error"}
         /\ reader.at \in {"done", "loop"} /\ reader.count \in Nat /\ reader.count <= MaxCount
         /\ reader.buffer \in Seq(1..Total) /\ reader.buffer \in Seq(Nat)
         /\ reader.ret \in {"none", "full", "short", "error"}
         /\ pipe \in Seq(1..Total) /\ pipe \in Seq(Nat) /\ got \in Seq(1..Total) /\ got \in Seq(Nat)
         /\ given \in Nat /\ sent \in Nat
         /\ Stream \in Seq(1..Total) /\ Stream \in Seq(Nat)
<1>1. \A q \in Seq(1..Total) : q \in Seq(Nat)
  BY Sizes, SeqMonotonic
<1>2. /\ writer \in Calls /\ reader \in Calls /\ pipe \in Seq(1..Total) /\ got \in Seq(1..Total)
      /\ given \in Nat /\ sent \in Nat
  BY Sizes DEF TypeOK
<1>3. Stream \in Seq(1..Total)
  BY <1>2 DEF Calls, Stream
<1> QED
  BY Sizes, <1>1, <1>2, <1>3 DEF Calls

(* A sequence that loses its middle part keeps its order and gains nothing.  *)
LEMMA LosesMiddle ==
  ASSUME NEW a \in Seq(Nat), NEW b \in Seq(Nat), NEW c \in Seq(Nat), NEW m \in Nat,
         Increasing((a \o b) \o c), \A j \in DOMAIN ((a \o b) \o c) : ((a \o b) \o c)[j] <= m
  PROVE  /\ Increasing(a \o c)
         /\ \A j \in DOMAIN (a \o c) : (a \o c)[j] <= m
<1>1. a \o b \in Seq(Nat)
  OBVIOUS
<1>2. /\ Increasing(a \o b) /\ Increasing(c)
      /\ \A j \in DOMAIN (a \o b), k \in DOMAIN c : (a \o b)[j] < c[k]
  BY <1>1, IncreasingParts
<1>3. Increasing(a)
  BY <1>2, IncreasingParts
<1>4. \A j \in DOMAIN a : j \in DOMAIN (a \o b) /\ (a \o b)[j] = a[j]
                          /\ j \in DOMAIN ((a \o b) \o c) /\ ((a \o b) \o c)[j] = a[j]
  OBVIOUS
<1>5. \A j \in DOMAIN a, k \in DOMAIN c : a[j] < c[k]
  BY <1>2, <1>4
<1>6. Increasing(a \o c)
  BY <1>2, <1>3, <1>5, IncreasingParts
<1>7. \A k \in DOMAIN c : LET d == Len(a \o b) IN
        d + k \in DOMAIN ((a \o b) \o c) /\ ((a \o b) \o c)[d + k] = c[k]
  BY <1>1
<1>8. \A j \in DOMAIN a : a[j] <= m
  BY <1>4
<1>9. \A k \in DOMAIN c : c[k] <= m
  BY <1>7
<1>10. ASSUME NEW j \in DOMAIN (a \o c) PROVE (a \o c)[j] <= m
  <2>1. CASE j <= Len(a)
    BY <1>8, <2>1
  <2>2. CASE j > Len(a)
    <3>1. j - Len(a) \in DOMAIN c /\ (a \o c)[j] = c[j - Len(a)]
      BY <2>2
    <3> QED
      BY <1>9, <3>1
  <2> QED
    BY <2>1, <2>2
<1> QED
  BY <1>6, <1>10

------------------------------------------------------------------------------
LEMMA InvInit == Init => IInv
<1> SUFFICES ASSUME Init PROVE IInv
  OBVIOUS
<1>1. TypeOK
  BY Sizes, DoneEffect DEF Init, TypeOK
<1>2. Stream = <<>> /\ Bytes(1, 0) = <<>>
  BY DoneEffect, NoBytes DEF Init, Stream
<1>3. Increasing(<<>>)
  BY DEF Increasing
<1>4. Resting
  BY DoneEffect DEF Init, Resting
<1>5. Writing
  <2>1. given = 0 /\ sent = 0 /\ writer.count = 0 /\ writer.buffer = <<>> /\ Past = 0
    BY DoneEffect DEF Init, Past
  <2> QED
    BY <1>2, <2>1, Sizes DEF Writing
<1>6. Reading
  <2>1. \A j \in DOMAIN Stream : FALSE
    BY <1>2
  <2> QED
    BY <1>2, <1>3, <2>1 DEF Init, Reading
<1> QED
  BY <1>1, <1>4, <1>5, <1>6 DEF IInv

(* Where neither the stream nor what the writer is past changes, and no end  *)
(* opens or failure is forgotten, Reading goes on.                           *)
LEMMA ReadingStays ==
  ASSUME Reading, Stream' = Stream, Past' = Past, sent' = sent, failed \subseteq failed', open' \subseteq open
  PROVE  Reading'
  BY DEF Reading, Increasing

LEMMA WriteKeeps ==
  ASSUME IInv, NEW n \in 0..MaxCount, Write(n)
  PROVE  IInv'
<1>0. /\ TypeOK /\ Resting /\ Writing /\ Reading
      /\ writer.at = "done" /\ "writer" \in open /\ given + n <= Total /\ given' = given + n
      /\ pipe' = pipe /\ open' = open /\ reader' = reader /\ sent' = sent /\ got' = got /\ failed' = failed
  BY DEF IInv, Write
<1>1. /\ writer.count = 0 /\ Past = given /\ n \in Nat /\ given \in Nat /\ sent \in Nat
  BY <1>0, Parts, Sizes DEF Resting, Past
<1>2. /\ writer' \in Calls /\ writer'.count = n /\ writer'.buffer = Bytes(given + 1, n)
      /\ writer'.at = (IF n = 0 THEN "done" ELSE "loop")
      /\ writer'.ret = (IF n = 0 THEN "full" ELSE "none")
  <2>1. CASE n = 0
    BY <1>1, <2>1, DoneEffect, NoBytes DEF Write
  <2>2. CASE n # 0
    <3>1. Bytes(given + 1, n) \in Seq((given + 1)..(given + 1 + n - 1))
      BY <1>1, BytesType
    <3>2. (given + 1)..(given + 1 + n - 1) \subseteq 1..Total
      BY <1>0, <1>1, Sizes
    <3>3. Bytes(given + 1, n) \in Seq(1..Total)
      BY <3>1, <3>2, SeqMonotonic
    <3>4. writer' = [at |-> "loop", count |-> n, buffer |-> Bytes(given + 1, n), ret |-> "none"]
      BY <2>2 DEF Write
    <3> QED
      BY <2>2, <3>3, <3>4 DEF Calls
  <2> QED
    BY <2>1, <2>2
<1>3. Len(writer'.buffer) = n
  BY <1>1, <1>2, BytesType
<1>4. Past' = Past /\ Stream' = Stream
  BY <1>0, <1>1, <1>2 DEF Past, Stream
<1>5. TypeOK'
  BY <1>0, <1>1, <1>2, <1>3, Sizes DEF TypeOK
<1>6. Resting'
  BY <1>0, <1>1, <1>2, NoBytes DEF Resting
<1>7. Writing'
  BY <1>0, <1>1, <1>2, <1>4 DEF Writing
<1>8. Reading'
  BY <1>0, <1>4, ReadingStays
<1> QED
  BY <1>5, <1>6, <1>7, <1>8 DEF IInv

(* The kernel takes the next k bytes of the writer's buffer.                 *)
LEMMA AdvanceEffect ==
  ASSUME TypeOK, Writing, NEW k \in 1..MaxCount, k <= writer.count, Advance(k)
  PROVE  /\ pipe' = pipe \o Bytes(Past + 1, k)
         /\ writer' \in Calls /\ writer'.count = writer.count - k
         /\ writer'.buffer = Bytes(Past + k + 1, writer.count - k)
         /\ writer'.at = IF k = writer.count THEN "done" ELSE writer.at
         /\ writer'.ret = IF k = writer.count THEN "full" ELSE writer.ret
<1>1. /\ writer.count \in 0..given /\ writer.buffer = Bytes(Past + 1, writer.count)
      /\ writer.buffer \in Seq(1..Total) /\ Past \in Nat /\ writer.count \in Nat /\ k \in 0..writer.count
      /\ writer.count <= MaxCount /\ Past + 1 \in Nat
  <2>1. /\ writer.count \in 0..given /\ writer.buffer = Bytes(Past + 1, writer.count)
        /\ writer.buffer \in Seq(1..Total) /\ given \in Nat /\ writer.count <= MaxCount
    BY Parts DEF Writing
  <2>2. Past \in Nat /\ Past + 1 \in Nat
    BY <2>1 DEF Past
  <2> QED
    BY <2>1, <2>2, Sizes
<1>2. /\ SubSeq(writer.buffer, 1, k) = Bytes(Past + 1, k)
      /\ From(writer.buffer, k + 1) = Bytes(Past + 1 + k, writer.count - k)
      /\ Len(writer.buffer) = writer.count
  <2>1. /\ SubSeq(Bytes(Past + 1, writer.count), 1, k) = Bytes(Past + 1, k)
        /\ From(Bytes(Past + 1, writer.count), k + 1) = Bytes(Past + 1 + k, writer.count - k)
        /\ Len(Bytes(Past + 1, writer.count)) = writer.count
    BY <1>1, BytesParts, BytesType
  <2> QED
    BY <1>1, <2>1
<1>3. Past + 1 + k = Past + k + 1
  BY <1>1
<1>4. From(writer.buffer, k + 1) \in Seq(1..Total)
  BY <1>1, <1>2, Cut
<1>5. CASE k = writer.count
  <2>1. Bytes(Past + k + 1, writer.count - k) = <<>>
    BY <1>1, <1>5, NoBytes
  <2> QED
    <3>1. writer' = Done("full") /\ pipe' = pipe \o Bytes(Past + 1, k)
      BY <1>2, <1>5 DEF Advance
    <3>2. writer.count - k = 0
      BY <1>1, <1>5
    <3> QED
      BY <1>5, <2>1, <3>1, <3>2, DoneEffect
<1>6. CASE k # writer.count
  <2>1. writer' = [writer EXCEPT !.count = @ - k, !.buffer = From(@, k + 1)]
    BY <1>6 DEF Advance
  <2>2. writer.count - k \in 0..MaxCount
    BY <1>1, Sizes
  <2>3. writer \in Calls
    BY DEF TypeOK
  <2>4. /\ writer' \in Calls /\ writer'.count = writer.count - k
        /\ writer'.buffer = From(writer.buffer, k + 1) /\ writer'.at = writer.at /\ writer'.ret = writer.ret
    BY <1>4, <2>1, <2>2, <2>3 DEF Calls
  <2> QED
    BY <1>2, <1>3, <1>6, <2>4 DEF Advance
<1> QED
  BY <1>5, <1>6

LEMMA WriteBlockKeeps ==
  ASSUME IInv, NEW k \in 1..MaxCount, WriteBlock(k)
  PROVE  IInv'
<1>0. /\ TypeOK /\ Resting /\ Writing /\ Reading
      /\ writer.at = "loop" /\ "writer" \in open /\ writer.ret = "none"
      /\ k <= writer.count /\ Len(pipe) + k <= Capacity /\ Advance(k) /\ sent' = sent + k
      /\ open' = open /\ reader' = reader /\ given' = given /\ got' = got /\ failed' = failed
  BY DEF IInv, WriteBlock, Resting
<1>1. /\ pipe' = pipe \o Bytes(Past + 1, k)
      /\ writer' \in Calls /\ writer'.count = writer.count - k
      /\ writer'.buffer = Bytes(Past + k + 1, writer.count - k)
      /\ writer'.at = (IF k = writer.count THEN "done" ELSE "loop")
      /\ writer'.ret = (IF k = writer.count THEN "full" ELSE "none")
  BY <1>0, AdvanceEffect
<1>2. /\ k \in Nat /\ writer.count \in 0..given /\ given \in Nat /\ sent \in Nat /\ sent <= Past
      /\ writer.count \in Nat /\ writer.count <= MaxCount /\ Len(pipe) \in Nat
  <2>1. k \in Nat
    BY Sizes
  <2>2. writer.count \in 0..given /\ sent <= Past
    BY <1>0 DEF Writing
  <2> QED
    BY <1>0, <2>1, <2>2, Parts
<1>3. /\ Past \in Nat /\ Past' = Past + k /\ Past + 1 \in Nat /\ Past + k + 1 \in Nat
      /\ writer.count - k \in Nat /\ Past + 1 + k - 1 <= given
  <2>1. Past = given - writer.count /\ Past' = given - (writer.count - k)
    BY <1>0, <1>1 DEF Past
  <2>2. k <= writer.count
    BY <1>0
  <2>3. writer.count - k \in Nat /\ given - writer.count \in Nat
    BY <1>2, <2>2
  <2>4. given - (writer.count - k) = (given - writer.count) + k
    BY <1>2
  <2>5. (given - writer.count) + 1 + k - 1 <= given
    BY <1>2, <2>2
  <2>6. Past' = Past + k
    BY <2>1, <2>4
  <2>7. Past \in Nat /\ Past + 1 \in Nat /\ Past + k + 1 \in Nat
    <3>1. Past \in Nat
      BY <2>1, <2>3
    <3>2. k \in Nat
      BY <1>2
    <3> QED
      BY <3>1, <3>2
  <2>8. Past + 1 + k - 1 <= given
    BY <2>1, <2>5
  <2> QED
    BY <2>3, <2>6, <2>7, <2>8
<1>4. /\ Bytes(Past + 1, k) \in Seq((Past + 1)..(Past + 1 + k - 1)) /\ Len(Bytes(Past + 1, k)) = k
      /\ Increasing(Bytes(Past + 1, k))
  BY <1>2, <1>3, BytesType
<1>5. Bytes(Past + 1, k) \in Seq(1..Total) /\ Bytes(Past + 1, k) \in Seq(Nat)
  <2>1. (Past + 1)..(Past + 1 + k - 1) \subseteq 1..Total
    BY <1>0, <1>2, <1>3, Sizes DEF TypeOK
  <2>2. (Past + 1)..(Past + 1 + k - 1) \subseteq Nat
    BY <1>3
  <2> QED
    BY <1>4, <2>1, <2>2, SeqMonotonic
<1>6. Stream' = Stream \o Bytes(Past + 1, k)
  <2>1. got \o reader.buffer \in Seq(Nat) /\ pipe \in Seq(Nat)
    BY <1>0, Parts, ConcatProperties
  <2>2. ((got \o reader.buffer) \o pipe) \o Bytes(Past + 1, k)
        = (got \o reader.buffer) \o (pipe \o Bytes(Past + 1, k))
    BY <1>5, <2>1, Reassociate
  <2> QED
    BY <1>0, <1>1, <2>2 DEF Stream
<1>7. TypeOK'
  <2>1. pipe' \in Seq(1..Total) /\ Len(pipe') <= Capacity
    <3>1. pipe \in Seq(1..Total)
      BY <1>0, Parts
    <3>2. pipe \o Bytes(Past + 1, k) \in Seq(1..Total)
          /\ Len(pipe \o Bytes(Past + 1, k)) = Len(pipe) + k
      BY <1>4, <1>5, <3>1, ConcatProperties
    <3>3. Len(pipe) + k <= Capacity
      BY <1>0
    <3> QED
      BY <1>1, <3>2, <3>3
  <2>2. Len(writer'.buffer) = writer'.count
    BY <1>1, <1>3, BytesType
  <2>3. sent' \in 0..given'
    BY <1>0, <1>2, <1>3
  <2> QED
    BY <1>0, <1>1, <2>1, <2>2, <2>3 DEF TypeOK
<1>8. Resting'
  <2>1. k = writer.count => writer'.count = 0 /\ writer'.buffer = <<>>
    BY <1>1, <1>2, <1>3, NoBytes
  <2> QED
    BY <1>0, <1>1, <2>1 DEF Resting
<1>9. Writing'
  <2>1. sent' <= Past' /\ writer'.count \in 0..given' /\ writer'.count <= MaxCount
    BY <1>0, <1>1, <1>2, <1>3, Sizes
  <2>2. writer'.buffer = Bytes(Past' + 1, writer'.count)
    BY <1>1, <1>3
  <2>3. failed' = {} /\ "writer" \in open' => sent' = Past'
    BY <1>0, <1>3 DEF Writing
  <2> QED
    BY <2>1, <2>2, <2>3 DEF Writing
<1>10. Reading'
  <2>1. Stream \in Seq(Nat) /\ Len(Stream) \in Nat
    BY <1>0, Parts
  <2>2. \A j \in DOMAIN Stream : Stream[j] \in Nat /\ Stream[j] <= Past
    BY <1>0, <2>1 DEF Reading
  <2>3. \A j \in DOMAIN Bytes(Past + 1, k) : Bytes(Past + 1, k)[j] \in (Past + 1)..(Past + k)
    BY <1>2, <1>3, <1>4
  <2>4. \A i \in DOMAIN Stream, j \in DOMAIN Bytes(Past + 1, k) : Stream[i] < Bytes(Past + 1, k)[j]
    BY <1>3, <2>2, <2>3
  <2>5. Increasing(Stream')
    BY <1>0, <1>4, <1>5, <1>6, <2>1, <2>4, IncreasingParts DEF Reading
  <2>6. ASSUME NEW j \in DOMAIN Stream' PROVE Stream'[j] <= Past'
    <3>1. CASE j <= Len(Stream)
      <4>1. j \in DOMAIN Stream /\ Stream'[j] = Stream[j]
        BY <1>4, <1>5, <1>6, <2>1, <2>6, <3>1
      <4> QED
        BY <1>2, <1>3, <2>2, <4>1
    <3>2. CASE ~(j <= Len(Stream))
      <4>1. j - Len(Stream) \in DOMAIN Bytes(Past + 1, k) /\ Stream'[j] = Bytes(Past + 1, k)[j - Len(Stream)]
        BY <1>4, <1>5, <1>6, <2>1, <2>6, <3>2
      <4> QED
        BY <1>3, <2>3, <4>1
    <3> QED
      BY <3>1, <3>2
  <2>7. ASSUME failed = {}, "reader" \in open PROVE Stream' = Bytes(1, sent')
    <3>1. Stream = Bytes(1, sent) /\ sent = Past
      BY <1>0, <2>7 DEF Reading, Writing
    <3>2. sent \in 0..(sent + k) /\ sent + k \in Nat /\ (sent + k) - sent = k
      BY <1>2
    <3>3. Bytes(1, sent) \o Bytes(1 + sent, (sent + k) - sent) = Bytes(1, sent + k)
      BY <3>2, BytesParts
    <3>4. 1 + sent = Past + 1
      BY <1>3, <3>1
    <3> QED
      BY <1>0, <1>6, <3>1, <3>2, <3>3, <3>4
  <2> QED
    BY <1>0, <2>5, <2>6, <2>7 DEF Reading
<1> QED
  BY <1>7, <1>8, <1>9, <1>10 DEF IInv

LEMMA WriteErrorKeeps ==
  ASSUME IInv, WriteError
  PROVE  IInv'
<1>0. /\ TypeOK /\ Resting /\ Writing /\ Reading /\ writer' = Done("error")
      /\ failed' = failed \cup {"writer"} /\ pipe' = pipe /\ open' = open /\ reader' = reader
      /\ given' = given /\ sent' = sent /\ got' = got
  BY DEF IInv, WriteError
<1>1. /\ writer' \in Calls /\ writer'.at = "done" /\ writer'.count = 0 /\ writer'.buffer = <<>>
      /\ writer'.ret = "error"
  BY <1>0, DoneEffect
<1>2. /\ writer.count \in 0..given /\ given \in Nat /\ sent \in Nat /\ sent <= Past
  BY <1>0, Parts DEF Writing
<1>3. Past \in Nat /\ Past' = given /\ Past <= Past' /\ Stream' = Stream
  BY <1>0, <1>1, <1>2 DEF Past, Stream
<1>4. TypeOK'
  BY <1>0, <1>1 DEF TypeOK, Ends
<1>5. Resting'
  BY <1>0, <1>1 DEF Resting
<1>6. Writing'
  BY <1>0, <1>1, <1>2, <1>3, NoBytes, Sizes DEF Writing
<1>7. Reading'
  <2>1. \A j \in DOMAIN Stream : Stream[j] \in Nat /\ Stream[j] <= Past
    BY <1>0, Parts DEF Reading
  <2>2. \A j \in DOMAIN Stream' : Stream'[j] <= Past'
    BY <1>2, <1>3, <2>1
  <2>3. Increasing(Stream')
    BY <1>0, <1>3 DEF Reading
  <2> QED
    BY <1>0, <2>2, <2>3 DEF Reading
<1> QED
  BY <1>4, <1>5, <1>6, <1>7 DEF IInv

LEMMA CloseWriterKeeps ==
  ASSUME IInv, CloseWriter
  PROVE  IInv'
<1>0. /\ TypeOK /\ Resting /\ Writing /\ Reading /\ writer' = NoCall
      /\ open' = open \ {"writer"} /\ pipe' = pipe /\ failed' = failed /\ reader' = reader
      /\ given' = given /\ sent' = sent /\ got' = got
  BY DEF IInv, CloseWriter
<1>1. /\ writer' \in Calls /\ writer'.at = "done" /\ writer'.count = 0 /\ writer'.buffer = <<>>
      /\ writer'.ret = "none"
  BY <1>0, DoneEffect
<1>2. /\ writer.count \in 0..given /\ given \in Nat /\ sent \in Nat /\ sent <= Past
  BY <1>0, Parts DEF Writing
<1>3. Past \in Nat /\ Past' = given /\ Past <= Past' /\ Stream' = Stream
  BY <1>0, <1>1, <1>2 DEF Past, Stream
<1>4. TypeOK'
  BY <1>0, <1>1 DEF TypeOK
<1>5. Resting'
  BY <1>0, <1>1 DEF Resting
<1>6. Writing'
  BY <1>0, <1>1, <1>2, <1>3, NoBytes, Sizes DEF Writing
<1>7. Reading'
  <2>1. \A j \in DOMAIN Stream : Stream[j] \in Nat /\ Stream[j] <= Past
    BY <1>0, Parts DEF Reading
  <2>2. \A j \in DOMAIN Stream' : Stream'[j] <= Past'
    BY <1>2, <1>3, <2>1
  <2>3. Increasing(Stream') /\ (failed = {} /\ "reader" \in open => Stream' = Bytes(1, sent))
    BY <1>0, <1>3 DEF Reading
  <2> QED
    BY <1>0, <2>2, <2>3 DEF Reading
<1> QED
  BY <1>4, <1>5, <1>6, <1>7 DEF IInv

------------------------------------------------------------------------------
(* The reader's steps leave the writer's books alone.                        *)
LEMMA WritingStays ==
  ASSUME Writing, UNCHANGED <<writer, given, sent>>, failed \subseteq failed', open' \subseteq open
  PROVE  Writing' /\ Past' = Past
  BY DEF Writing, Past

LEMMA ReadKeeps ==
  ASSUME IInv, NEW n \in 0..MaxCount, Read(n)
  PROVE  IInv'
<1>0. /\ TypeOK /\ Resting /\ Writing /\ Reading /\ reader.at = "done" /\ "reader" \in open
      /\ pipe' = pipe /\ open' = open /\ writer' = writer /\ given' = given /\ sent' = sent
      /\ got' = got /\ failed' = failed
  BY DEF IInv, Read
<1>1. /\ reader' \in Calls /\ reader'.buffer = <<>> /\ reader'.count = n
      /\ reader'.at = (IF n = 0 THEN "done" ELSE "loop")
      /\ reader'.ret = (IF n = 0 THEN "full" ELSE "none")
  <2>1. CASE n = 0
    BY <2>1, DoneEffect DEF Read
  <2>2. CASE n # 0
    <3>1. reader' = [at |-> "loop", count |-> n, buffer |-> <<>>, ret |-> "none"]
      BY <2>2 DEF Read
    <3>2. <<>> \in Seq(1..Total)
      BY EmptySeq
    <3> QED
      BY <2>2, <3>1, <3>2 DEF Calls
  <2> QED
    BY <2>1, <2>2
<1>2. reader.buffer = <<>>
  BY <1>0 DEF Resting
<1>3. Writing' /\ Past' = Past
  BY <1>0, WritingStays
<1>4. Stream' = Stream
  BY <1>0, <1>1, <1>2 DEF Stream
<1>5. Len(reader'.buffer) + reader'.count <= MaxCount
  BY <1>1, Sizes
<1>6. TypeOK'
  BY <1>0, <1>1, <1>5 DEF TypeOK
<1>7. Resting'
  BY <1>0, <1>1, Sizes DEF Resting
<1>8. Reading'
  BY <1>0, <1>3, <1>4, ReadingStays
<1> QED
  BY <1>3, <1>6, <1>7, <1>8 DEF IInv

LEMMA ReadBlockKeeps ==
  ASSUME IInv, NEW k \in 1..MaxCount, ReadBlock(k)
  PROVE  IInv'
<1> DEFINE first == SubSeq(pipe, 1, k)
           rest == From(pipe, k + 1)
<1>0. /\ TypeOK /\ Resting /\ Writing /\ Reading /\ reader.at = "loop" /\ "reader" \in open
      /\ k <= reader.count /\ k <= Len(pipe) /\ pipe' = rest
      /\ open' = open /\ writer' = writer /\ given' = given /\ sent' = sent /\ failed' = failed
      /\ \/ k = reader.count /\ reader' = Done("full") /\ got' = got \o (reader.buffer \o first)
         \/ /\ k < reader.count /\ got' = got
            /\ reader' = [reader EXCEPT !.count = @ - k, !.buffer = reader.buffer \o first]
  BY DEF IInv, Resting, ReadBlock
<1>1. /\ pipe \in Seq(1..Total) /\ got \in Seq(1..Total) /\ reader.buffer \in Seq(1..Total)
      /\ pipe \in Seq(Nat) /\ got \in Seq(Nat) /\ reader.buffer \in Seq(Nat)
      /\ reader.count \in Nat /\ reader.count <= MaxCount /\ reader \in Calls /\ k \in Nat
      /\ Len(reader.buffer) + reader.count <= MaxCount /\ Len(pipe) <= Capacity
  BY <1>0, Parts, Sizes DEF TypeOK
<1>2. k \in 0..Len(pipe)
  BY <1>0, <1>1
<1>3. /\ first \in Seq(1..Total) /\ rest \in Seq(1..Total) /\ Len(first) = k /\ Len(rest) = Len(pipe) - k
      /\ first \o rest = pipe
  BY <1>1, <1>2, Cut
<1>4. first \in Seq(Nat) /\ rest \in Seq(Nat)
  BY <1>1, <1>2, Cut
<1> HIDE DEF first, rest
<1>5. /\ reader.buffer \o first \in Seq(1..Total) /\ Len(reader.buffer \o first) = Len(reader.buffer) + k
      /\ reader.buffer \o first \in Seq(Nat) /\ got \o reader.buffer \in Seq(Nat)
  BY <1>1, <1>3, <1>4, ConcatProperties
<1>6. got \o (reader.buffer \o first) \in Seq(1..Total)
  BY <1>1, <1>5, ConcatProperties
<1>7. /\ reader' \in Calls /\ got' \in Seq(1..Total) /\ got' \o reader'.buffer = got \o (reader.buffer \o first)
      /\ Len(reader'.buffer) + reader'.count <= MaxCount
      /\ reader'.at = "done" => reader'.buffer = <<>> /\ reader'.count = 0
      /\ reader'.at = "loop" => reader'.ret = "none"
      /\ reader'.ret # "short"
  <2>1. CASE k = reader.count
    <3>0. ~(k < reader.count)
      BY <1>1, <2>1
    <3>1. /\ reader' = Done("full") /\ got' = got \o (reader.buffer \o first)
      BY <1>0, <3>0
    <3>2. got' \o <<>> = got'
      BY <1>6, <3>1, ConcatEmptySeq
    <3>3. /\ reader' \in Calls /\ reader'.at = "done" /\ reader'.count = 0
          /\ reader'.buffer = <<>> /\ reader'.ret = "full"
      BY <3>1, DoneEffect
    <3>4. Len(reader'.buffer) + reader'.count <= MaxCount
      BY <3>3, Sizes
    <3> QED
      BY <1>6, <3>1, <3>2, <3>3, <3>4
  <2>2. CASE k # reader.count
    <3>1. /\ reader' = [reader EXCEPT !.count = @ - k, !.buffer = reader.buffer \o first] /\ got' = got
      BY <1>0, <2>2
    <3>2. reader.count - k \in 0..MaxCount /\ (Len(reader.buffer) + k) + (reader.count - k) <= MaxCount
      <4>1. k <= reader.count
        BY <1>0
      <4>2. /\ Len(reader.buffer) \in Nat /\ k \in Nat /\ reader.count \in 0..MaxCount
            /\ Len(reader.buffer) + reader.count <= MaxCount
        BY <1>1
      <4>3. reader.count - k \in 0..MaxCount
        BY <4>1, <4>2, Sizes
      <4>4. (Len(reader.buffer) + k) + (reader.count - k) = Len(reader.buffer) + reader.count
        BY <4>2, Sizes
      <4> QED
        BY <4>2, <4>3, <4>4
    <3>3. /\ reader' \in Calls /\ reader'.count = reader.count - k /\ reader'.at = reader.at
          /\ reader'.buffer = reader.buffer \o first /\ reader'.ret = reader.ret
      BY <1>1, <1>5, <3>1, <3>2 DEF Calls
    <3> QED
      BY <1>0, <1>1, <1>5, <3>1, <3>2, <3>3 DEF Resting
  <2> QED
    BY <2>1, <2>2
<1>8. Stream' = Stream
  <2>1. got \o (reader.buffer \o first) = (got \o reader.buffer) \o first
    BY <1>1, <1>4, Reassociate
  <2>2. ((got \o reader.buffer) \o first) \o rest = (got \o reader.buffer) \o (first \o rest)
    <3>1. got \o reader.buffer \in Seq(Nat)
      BY <1>1
    <3> QED
      BY <1>4, <3>1, Reassociate
  <2> QED
    BY <1>0, <1>3, <1>7, <2>1, <2>2 DEF Stream
<1>9. Writing' /\ Past' = Past
  BY <1>0, WritingStays
<1>10. TypeOK'
  <2>1. Len(pipe') <= Capacity
    BY <1>0, <1>1, <1>3, Sizes
  <2> QED
    BY <1>0, <1>3, <1>7, <2>1 DEF TypeOK
<1>11. Resting'
  BY <1>0, <1>7 DEF Resting
<1>12. Reading'
  BY <1>0, <1>8, <1>9, ReadingStays
<1> QED
  BY <1>9, <1>10, <1>11, <1>12 DEF IInv

LEMMA ReadEndKeeps ==
  ASSUME IInv, ReadEnd
  PROVE  IInv'
<1>0. /\ TypeOK /\ Resting /\ Writing /\ Reading /\ pipe = <<>> /\ "writer" \notin open
      /\ reader' = Done("short") /\ got' = got \o reader.buffer
      /\ pipe' = pipe /\ open' = open /\ writer' = writer /\ given' = given /\ sent' = sent /\ failed' = failed
  BY DEF IInv, ReadEnd
<1>1. /\ reader' \in Calls /\ reader'.at = "done" /\ reader'.count = 0 /\ reader'.buffer = <<>>
      /\ reader'.ret = "short"
  BY <1>0, DoneEffect
<1>2. got' \in Seq(1..Total)
  BY <1>0, Parts, ConcatProperties
<1>3. Stream' = Stream
  <2>1. got' \o <<>> = got'
    BY <1>2, ConcatEmptySeq
  <2> QED
    BY <1>0, <1>1, <2>1 DEF Stream
<1>4. Writing' /\ Past' = Past
  BY <1>0, WritingStays
<1>5. TypeOK'
  BY <1>0, <1>1, <1>2, Sizes DEF TypeOK
<1>6. Resting'
  BY <1>0, <1>1 DEF Resting
<1>7. Reading'
  BY <1>0, <1>3, <1>4, ReadingStays
<1> QED
  BY <1>4, <1>5, <1>6, <1>7 DEF IInv

(* The reader's call is given up, and the bytes it had with it.              *)
LEMMA ReadingLoses ==
  ASSUME TypeOK, Writing, Reading, reader'.buffer = <<>>, UNCHANGED <<got, pipe, sent>>, Past' = Past,
         failed' # {} \/ "reader" \notin open'
  PROVE  Reading'
<1>1. /\ got \in Seq(Nat) /\ reader.buffer \in Seq(Nat) /\ pipe \in Seq(Nat) /\ Past \in Nat
  <2>1. Past \in Nat
    BY Parts DEF Writing, Past
  <2> QED
    BY <2>1, Parts
<1>2. Stream' = got \o pipe
  <2>1. got \o <<>> = got
    BY <1>1, ConcatEmptySeq
  <2> QED
    BY <2>1 DEF Stream
<1>3. /\ Increasing(got \o pipe)
      /\ \A j \in DOMAIN (got \o pipe) : (got \o pipe)[j] <= Past
  BY <1>1, LosesMiddle DEF Reading, Stream
<1> QED
  BY <1>2, <1>3 DEF Reading

LEMMA ReadErrorKeeps ==
  ASSUME IInv, ReadError
  PROVE  IInv'
<1>0. /\ TypeOK /\ Resting /\ Writing /\ Reading /\ reader' = Done("error")
      /\ failed' = failed \cup {"reader"} /\ pipe' = pipe /\ open' = open /\ writer' = writer
      /\ given' = given /\ sent' = sent /\ got' = got
  BY DEF IInv, ReadError
<1>1. /\ reader' \in Calls /\ reader'.at = "done" /\ reader'.count = 0 /\ reader'.buffer = <<>>
      /\ reader'.ret = "error"
  BY <1>0, DoneEffect
<1>2. Writing' /\ Past' = Past
  BY <1>0, WritingStays
<1>3. TypeOK'
  BY <1>0, <1>1, Sizes DEF TypeOK, Ends
<1>4. Resting'
  BY <1>0, <1>1 DEF Resting
<1>5. failed' # {}
  BY <1>0
<1>6. Reading'
  BY <1>0, <1>1, <1>2, <1>5, ReadingLoses
<1> QED
  BY <1>2, <1>3, <1>4, <1>6 DEF IInv

LEMMA CloseReaderKeeps ==
  ASSUME IInv, CloseReader
  PROVE  IInv'
<1>0. /\ TypeOK /\ Resting /\ Writing /\ Reading /\ reader' = NoCall
      /\ open' = open \ {"reader"} /\ pipe' = pipe /\ failed' = failed /\ writer' = writer
      /\ given' = given /\ sent' = sent /\ got' = got
  BY DEF IInv, CloseReader
<1>1. /\ reader' \in Calls /\ reader'.at = "done" /\ reader'.count = 0 /\ reader'.buffer = <<>>
      /\ reader'.ret = "none"
  BY <1>0, DoneEffect
<1>2. Writing' /\ Past' = Past
  BY <1>0, WritingStays
<1>3. TypeOK'
  BY <1>0, <1>1, Sizes DEF TypeOK
<1>4. Resting'
  BY <1>0, <1>1 DEF Resting
<1>5. Reading'
  BY <1>0, <1>1, <1>2, ReadingLoses
<1> QED
  BY <1>2, <1>3, <1>4, <1>5 DEF IInv

------------------------------------------------------------------------------
LEMMA InvNext == IInv /\ [Next]_vars => IInv'
<1> SUFFICES ASSUME IInv, [Next]_vars PROVE IInv'
  OBVIOUS
<1>1. ASSUME NEW n \in 0..MaxCount, Write(n) \/ Read(n) PROVE IInv'
  BY <1>1, WriteKeeps, ReadKeeps
<1>2. ASSUME NEW k \in 1..MaxCount, WriteBlock(k) \/ ReadBlock(k) PROVE IInv'
  BY <1>2, WriteBlockKeeps, ReadBlockKeeps
<1>3. CASE UNCHANGED vars
  <2>1. Past' = Past /\ Stream' = Stream
    BY <1>3 DEF vars, Past, Stream
  <2>2. TypeOK' /\ Resting' /\ Writing'
    BY <1>3, <2>1 DEF vars, IInv, TypeOK, Resting, Writing
  <2>3. Reading'
    BY <1>3, <2>1, ReadingStays DEF IInv, vars
  <2> QED
    BY <2>2, <2>3 DEF IInv
<1> QED
  BY <1>1, <1>2, <1>3, ReadEndKeeps, WriteErrorKeeps, ReadErrorKeeps, CloseWriterKeeps, CloseReaderKeeps DEF Next

LEMMA Invariance == Spec => []IInv
  BY InvInit, InvNext, PTL DEF Spec

(* Every variable keeps its type, and the buffers their sizes, for calls of  *)
(* any size over a pipe of any capacity.                                     *)
THEOREM TypeCorrect == Spec => []TypeOK
<1>1. IInv => TypeOK
  BY DEF IInv
<1> QED
  BY <1>1, Invariance, PTL

(* What the reader has got, is getting and can still get is what the writer  *)
(* sent, once and in order, and no call claims more than was done.           *)
THEOREM BytesDelivered == Spec => []Delivered
<1>1. IInv => Delivered
  <2> SUFFICES ASSUME IInv PROVE Delivered
    OBVIOUS
  <2>1. /\ TypeOK /\ Resting /\ Writing /\ Reading
    BY DEF IInv
  <2>2. ASSUME failed = {}, writer.ret = "full" PROVE sent = given
    <3>1. "writer" \in open /\ writer.count = 0
      BY <2>1, <2>2, Parts DEF Resting
    <3>2. sent = given - 0
      BY <2>1, <2>2, <3>1 DEF Writing, Past
    <3> QED
      BY <2>1, <3>2, Parts
  <2> QED
    BY <2>1, <2>2 DEF Delivered, Resting, Reading, Stream
<1> QED
  BY <1>1, Invariance, PTL

------------------------------------------------------------------------------
(* LoginDefs.                                                                *)

Prefixes == {"$y$", "$6$", "$5$", "$1$", "$2b$"}

HashTyped ==
  /\ file \in [1..NoLines -> Lines] /\ prefix \in Prefixes \cup {"none"}
  /\ at \in {"idle", "rounds", "salt"}

(* A call has a method before it looks for the cost, and no setting yet.     *)
Underway == at # "idle" => prefix \in Prefixes /\ setting = None

ShaCost(n) == n = 0 \/ (1000 <= n /\ n <= 9999999)

(* What was looked up fits the method, and is the value found if that does.  *)
Ready ==
  at = "salt" =>
    /\ prefix \in {"$5$", "$6$"} => ShaCost(rounds)
    /\ prefix = "$2b$" => rounds \in 4..31
    /\ \A v \in found : v.long /\ v.number # 0 /\ prefix \in {"$5$", "$6$", "$2b$"}
                          /\ Accepts(prefix, v.number) => rounds = v.number

HashInv == HashTyped /\ Underway /\ Ready /\ ValidButForYescrypt /\ CostIsUsed

(* What crypt accepts, method by method.                                     *)
LEMMA AcceptedCosts ==
  ASSUME NEW n
  PROVE  /\ \A p \in {"$5$", "$6$"} : Accepts(p, n) <=> ShaCost(n)
         /\ Accepts("$2b$", n) <=> n \in 4..31
         /\ Accepts("$1$", n) <=> n = 0
         /\ ~Accepts("$y$", 0)
  BY SMT DEF Accepts, ShaCost

(* The bounds of the code, on integers of any size.                          *)
LEMMA ShaFits ==
  ASSUME NEW n \in Int
  PROVE  ShaCost(ShaRounds(n)) /\ (n # 0 /\ ShaCost(n) => ShaRounds(n) = n)
  BY SMT DEF ShaRounds, ShaCost, INT_MAX

LEMMA ClampFits ==
  ASSUME NEW n \in Int
  PROVE  /\ Clamp(n, 4, 31) \in 4..31
         /\ n \in 4..31 => Clamp(n, 4, 31) = n
  BY DEF Clamp

(* A key has one value at most: that of the first line that names it.        *)
LEMMA OneValue ==
  ASSUME HashTyped, NEW key
  PROVE  /\ SearchKey(key) \subseteq Values
         /\ \A v, w \in SearchKey(key) : v = w
<1> DEFINE First == {j \in Naming(key) : \A i \in Naming(key) : j <= i}
<1>0. NoLines \in Nat /\ \A l \in Lines : l.value \in Values
  BY LinesAssumption
<1>1. DOMAIN file = 1..NoLines /\ Naming(key) \subseteq 1..NoLines /\ NoLines \in Nat
  BY <1>0 DEF HashTyped, Naming
<1>2. \A j, k \in First : j = k
  BY <1>1
<1>3. \A k \in 1..NoLines : file[k].value \in Values
  BY <1>0 DEF HashTyped
<1>4. SearchKey(key) = {file[k].value : k \in First}
  BY DEF SearchKey
<1>5. First \subseteq 1..NoLines
  BY <1>1
<1> HIDE DEF First
<1> QED
  BY <1>2, <1>3, <1>4, <1>5

(* The number of that value where it is one, else the fallback.              *)
LEMMA LongOf ==
  ASSUME HashTyped, NEW key, NEW fallback \in Int
  PROVE  /\ SearchLong(key, fallback) \in Int
         /\ \A v \in SearchKey(key) : v.long => SearchLong(key, fallback) = v.number
<1>1. \A v \in Values : v.number \in Int
  BY DEF Values
<1>2. ASSUME NEW v \in SearchKey(key), v.long PROVE SearchLong(key, fallback) = v.number
  <2>1. (CHOOSE w \in SearchKey(key) : TRUE) = v
    BY OneValue
  <2> QED
    BY <1>2, <2>1 DEF SearchLong
<1>3. CASE \E v \in SearchKey(key) : v.long
  BY <1>1, <1>2, <1>3, OneValue
<1>4. CASE ~ \E v \in SearchKey(key) : v.long
  BY <1>4 DEF SearchLong
<1> QED
  BY <1>2, <1>3, <1>4

LEMMA PrefixOf == \A m \in DOMAIN Prefix : Prefix[m] \in Prefixes
  BY DEF Prefix, Prefixes

LEMMA HashInitially == HashInit => HashInv
<1> SUFFICES ASSUME HashInit PROVE HashInv
  OBVIOUS
<1>1. HashTyped
  BY DEF HashInit, HashTyped
<1> QED
  BY <1>1 DEF HashInit, HashInv, Underway, Ready, ValidButForYescrypt, CostIsUsed

LEMMA RewriteKeeps ==
  ASSUME HashInv, NEW k \in 1..NoLines, NEW l \in Lines, Rewrite(k, l)
  PROVE  HashInv'
  BY DEF Rewrite, HashInv, HashTyped, Underway, Ready, ValidButForYescrypt, CostIsUsed

LEMMA ReadMethodKeeps ==
  ASSUME HashInv, ReadMethod
  PROVE  HashInv'
<1>1. /\ HashTyped /\ at' = "rounds" /\ setting' = None /\ file' = file
      /\ prefix' = IF \E v \in SearchKey("ENCRYPT_METHOD") : v.text \in DOMAIN Prefix
                   THEN Prefix[(CHOOSE v \in SearchKey("ENCRYPT_METHOD") : TRUE).text]
                   ELSE IF prefix = "none" THEN "$y$" ELSE prefix
  BY DEF HashInv, ReadMethod
<1>2. prefix' \in Prefixes
  <2>1. CASE \E v \in SearchKey("ENCRYPT_METHOD") : v.text \in DOMAIN Prefix
    <3>1. PICK v \in SearchKey("ENCRYPT_METHOD") : v.text \in DOMAIN Prefix
      BY <2>1
    <3>2. (CHOOSE w \in SearchKey("ENCRYPT_METHOD") : TRUE) = v
      BY <1>1, OneValue
    <3> QED
      BY <1>1, <2>1, <3>1, <3>2, PrefixOf
  <2>2. CASE ~ \E v \in SearchKey("ENCRYPT_METHOD") : v.text \in DOMAIN Prefix
    BY <1>1, <2>2 DEF HashTyped, Prefixes
  <2> QED
    BY <2>1, <2>2
<1> QED
  BY <1>1, <1>2 DEF HashInv, HashTyped, Underway, Ready, ValidButForYescrypt, CostIsUsed

LEMMA ReadRoundsKeeps ==
  ASSUME HashInv, ReadRounds
  PROVE  HashInv'
<1> DEFINE key == CostKey(prefix)
<1>1. /\ HashTyped /\ at = "rounds" /\ at' = "salt" /\ prefix \in Prefixes /\ setting = None
      /\ file' = file /\ prefix' = prefix /\ setting' = setting /\ found' = SearchKey(key)
  BY DEF HashInv, Underway, ReadRounds
<1>2. ASSUME prefix \in {"$5$", "$6$"} PROVE rounds' = ShaRounds(SearchLong(key, 0))
  BY <1>2 DEF ReadRounds
<1>3. ASSUME prefix = "$2b$" PROVE rounds' = Clamp(SearchLong(key, 5), 4, 31)
  BY <1>3 DEF ReadRounds
<1> HIDE DEF key
<1>4. Ready'
  <2>1. ASSUME prefix \in {"$5$", "$6$"}
        PROVE  /\ ShaCost(rounds')
               /\ \A v \in found' : v.long /\ v.number # 0 /\ Accepts(prefix, v.number) => rounds' = v.number
    <3>1. SearchLong(key, 0) \in Int /\ \A v \in SearchKey(key) : v.long => SearchLong(key, 0) = v.number
      BY <1>1, LongOf
    <3> QED
      BY <1>1, <1>2, <2>1, <3>1, ShaFits, AcceptedCosts
  <2>2. ASSUME prefix = "$2b$"
        PROVE  /\ rounds' \in 4..31
               /\ \A v \in found' : v.long /\ Accepts(prefix, v.number) => rounds' = v.number
    <3>1. SearchLong(key, 5) \in Int /\ \A v \in SearchKey(key) : v.long => SearchLong(key, 5) = v.number
      BY <1>1, LongOf
    <3> QED
      BY <1>1, <1>3, <2>2, <3>1, ClampFits, AcceptedCosts
  <2> QED
    BY <1>1, <2>1, <2>2 DEF Ready
<1> QED
  BY <1>1, <1>4 DEF HashInv, HashTyped, Underway, ValidButForYescrypt, CostIsUsed

LEMMA MakeSettingKeeps ==
  ASSUME HashInv, MakeSetting
  PROVE  HashInv'
<1>1. /\ HashTyped /\ Ready /\ at = "salt" /\ prefix \in Prefixes /\ at' = "idle"
      /\ UNCHANGED <<file, prefix, rounds, found>> /\ setting'.prefix = prefix
      /\ setting'.cost = IF prefix \in {"$5$", "$6$"} THEN rounds
                         ELSE IF prefix = "$2b$" THEN (IF rounds = 0 THEN 12 ELSE rounds) ELSE 0
  BY DEF HashInv, Underway, MakeSetting
<1>2. ValidButForYescrypt'
  <2>1. CASE prefix \in {"$5$", "$6$"}
    BY <1>1, <2>1, AcceptedCosts DEF Ready, ValidButForYescrypt
  <2>2. CASE prefix = "$2b$"
    BY <1>1, <2>2, AcceptedCosts DEF Ready, ValidButForYescrypt
  <2>3. CASE prefix = "$1$"
    BY <1>1, <2>3, AcceptedCosts DEF ValidButForYescrypt
  <2>4. CASE prefix = "$y$"
    BY <1>1, <2>4, AcceptedCosts DEF ValidButForYescrypt
  <2> QED
    BY <1>1, <2>1, <2>2, <2>3, <2>4 DEF Prefixes
<1>3. CostIsUsed'
  <2> SUFFICES ASSUME NEW v \in found, prefix \in {"$5$", "$6$", "$2b$"},
                      v.long, v.number # 0, Accepts(prefix, v.number)
               PROVE  setting'.cost = v.number
    BY <1>1 DEF CostIsUsed
  <2>1. rounds = v.number
    BY <1>1 DEF Ready
  <2> QED
    BY <1>1, <2>1
<1> QED
  BY <1>1, <1>2, <1>3 DEF HashInv, HashTyped, Underway, Ready

LEMMA NoRandomKeeps ==
  ASSUME HashInv, NoRandom
  PROVE  HashInv'
  BY DEF NoRandom, HashInv, HashTyped, Underway, Ready, ValidButForYescrypt, CostIsUsed

LEMMA HashInvariance == HashSpec => []HashInv
<1>1. HashInv /\ [HashNext]_hashVars => HashInv'
  <2> SUFFICES ASSUME HashInv, [HashNext]_hashVars PROVE HashInv'
    OBVIOUS
  <2>1. CASE UNCHANGED hashVars
    BY <2>1 DEF hashVars, HashInv, HashTyped, Underway, Ready, ValidButForYescrypt, CostIsUsed
  <2> QED
    BY <2>1, RewriteKeeps, ReadMethodKeeps, ReadRoundsKeeps, MakeSettingKeeps, NoRandomKeeps DEF HashNext
<1> QED
  BY <1>1, HashInitially, PTL DEF HashSpec

(* Whatever login.defs holds and however it changes between the two reads of *)
(* a call and between calls (441-486), crypt is given a cost its method      *)
(* accepts, except that it never gets the parameters of YESCRYPT.            *)
THEOREM SettingValid == HashSpec => []ValidButForYescrypt
<1>1. HashInv => ValidButForYescrypt
  BY DEF HashInv
<1> QED
  BY <1>1, HashInvariance, PTL

(* A number that is in the method's range when it is read is the cost of the *)
(* setting, the ends of the range included (473-483).                        *)
THEOREM CostUsed == HashSpec => []CostIsUsed
<1>1. HashInv => CostIsUsed
  BY DEF HashInv
<1> QED
  BY <1>1, HashInvariance, PTL
=============================================================================
