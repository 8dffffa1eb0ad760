----------------------------- MODULE DBusMessage -----------------------------
(* The messages of dbus-stub/dbus.c, the one part of the stub that keeps     *)
(* state: messages are made, copied, counted by reference and carry strings  *)
(* of their own. dbus_threads_init_default answers TRUE (1417) and nothing   *)
(* takes a lock: between the free and the store of a setter, and between the *)
(* load of a pointer and the reading of its string, another thread may call, *)
(* and `refcount++` is a plain load and store.                               *)
(*                                                                           *)
(* Blocks are the addresses malloc has for strings. What they hold does not  *)
(* matter, only whether they are allocated. The fields behave alike: Fields  *)
(* names some of them. Serials and flags are numbers in the message, set and *)
(* read in place, and left out. A message's address may be used again once   *)
(* it is freed. A call whose calloc fails changes nothing, and is left out.  *)
EXTENDS Integers, FiniteSets

CONSTANTS
  Threads, Ids,    \* threads of the application, addresses of messages
  Fields, Blocks,  \* fields with a string, addresses of strings
  NULL, Outside,   \* Outside: a string of the caller's own
  MaxRefs          \* bound: references one thread holds on one message

ASSUME MessageAssumption ==
  /\ NULL \notin Blocks \cup Ids \cup Fields /\ Outside \notin Blocks /\ NULL # Outside
  /\ MaxRefs \in Nat

VARIABLES
  msg,     \* the messages: see Messages
  heap,    \* the blocks that are allocated
  held,    \* history: the references each thread has on each message
  given,   \* history: the pointers getters have returned
  pc,      \* the call each thread is in: see Calls
  harm,    \* freed memory was used or freed
  raced,   \* history: two threads counted one message at the same time
  clashed  \* history: the rule about strings was broken, see Clashing

vars == <<msg, heap, held, given, pc, harm, raced, clashed>>

Messages == [live : BOOLEAN, refcount : Int, ptr : [Fields -> Blocks \cup {NULL}]]

Calls == [at : {"idle", "ref", "unref", "build", "set", "read"}, id : Ids \cup {NULL}, count : Int,
          field : Fields \cup {NULL}, src : Blocks \cup {NULL, Outside}, from : Ids \cup {NULL},
          left : SUBSET Fields]

Call(at, i, count, f, src, from, left) ==
  [at |-> at, id |-> i, count |-> count, field |-> f, src |-> src, from |-> from, left |-> left]

Idle == Call("idle", NULL, 0, NULL, NULL, NULL, {})
(* ref or unref has loaded the count of message i.                           *)
Counter(op, i, count) == Call(op, i, count, NULL, NULL, NULL, {})
(* The old string of field f is freed, src not yet copied. In a constructor  *)
(* or a copy of message from, the fields in left are still to fill.          *)
Setter(i, f, src, from, left) == Call("set", i, 0, f, src, from, left)
Builder(i, from, left) == Call("build", i, 0, NULL, NULL, from, left)
(* A string is being read.                                                   *)
Reader(src) == Call("read", NULL, 0, NULL, src, NULL, {})

NoStrings == [f \in Fields |-> NULL]

Init ==
  /\ msg = [i \in Ids |-> [live |-> FALSE, refcount |-> 0, ptr |-> NoStrings]]
  /\ heap = {} /\ given = {}
  /\ held = [t \in Threads |-> [i \in Ids |-> 0]]
  /\ pc = [t \in Threads |-> Idle]
  /\ harm = FALSE /\ raced = FALSE /\ clashed = FALSE

(* A thread calls with a message it has a reference on.                      *)
Enters(t, i) == pc[t] = Idle /\ held[t][i] > 0 /\ ~harm

(* A pointer that was neither NULL nor allocated would be freed or read.     *)
Dangles(p) == p \in Blocks \ heap

(* The strings an application has: none, its own, what a getter returned.    *)
Sources == {NULL, Outside} \cup given

------------------------------------------------------------------------------
(* The rule about strings: nobody else sets the field a thread is setting,   *)
(* and a pointer a thread is using or copying is, until it is done, that of  *)
(* a field which nobody is setting, of a message the thread refers to.       *)
Setting(t, i, f) == pc[t].at = "set" /\ pc[t].id = i /\ pc[t].field = f
Settled(i, f) == \A t \in Threads : ~Setting(t, i, f)
Current(t, p) == \E i \in Ids, f \in Fields : held[t][i] > 0 /\ msg[i].ptr[f] = p /\ Settled(i, f)

Clashing == \E t \in Threads :
  \/ pc[t].src \in Blocks /\ ~Current(t, pc[t].src)
  \/ pc[t].at = "set" /\ \E u \in Threads \ {t} : Setting(u, pc[t].id, pc[t].field)

Notes == clashed' = (clashed \/ Clashing')

------------------------------------------------------------------------------
(* msg_alloc: the caller has the one reference. The strings of a constructor *)
(* or a copy are filled in one after the other.                              *)
Make(t, i, from, left) ==
  /\ ~msg[i].live
  /\ msg' = [msg EXCEPT ![i] = [live |-> TRUE, refcount |-> 1, ptr |-> NoStrings]]
  /\ held' = [held EXCEPT ![t][i] = held[t][i] + 1]
  /\ pc' = [pc EXCEPT ![t] = IF left = {} THEN Idle
                             ELSE Builder(i, from, left)]
  /\ UNCHANGED <<heap, given, raced>>

(* dbus_message_new, new_method_call, new_signal, with the strings in left.  *)
New(t, i, left) ==
  /\ pc[t] = Idle /\ ~harm
  /\ Make(t, i, NULL, left)
  /\ UNCHANGED harm
  /\ Notes

(* new_method_return and new_error read the call they answer.                *)
NewReply(t, call, i, left) ==
  /\ Enters(t, call)
  /\ Make(t, i, NULL, left)
  /\ harm' = ~msg[call].live
  /\ Notes

Copy(t, i, c) ==
  /\ Enters(t, i)
  /\ Make(t, c, i, Fields)
  /\ harm' = ~msg[i].live
  /\ Notes

(* The next string of the message: one the caller gave, or the pointer the   *)
(* message that is copied has by now.                                        *)
Fill(t, f, src) ==
  LET from == pc[t].from IN
  /\ pc[t].at = "build" /\ f \in pc[t].left /\ ~harm
  /\ IF from = NULL THEN src \in Sources ELSE src = msg[from].ptr[f]
  /\ pc' = [pc EXCEPT ![t] = Setter(pc[t].id, f, src, from, pc[t].left \ {f})]
  /\ harm' = (from # NULL /\ ~msg[from].live)
  /\ UNCHANGED <<msg, heap, held, given, raced>>
  /\ Notes

------------------------------------------------------------------------------
(* Mutant: the old string is not freed where the new one is NULL.            *)
KeepsOld(old, src) == IF src = NULL THEN heap ELSE heap \ {old}

Release(old, src) == heap \ {old}

(* msg_set_str: the old string is freed (692), and the field keeps pointing  *)
(* to it until the new one is copied and stored (693).                       *)
SetStr(t, i, f, src) ==
  /\ Enters(t, i) /\ src \in Sources
  /\ heap' = Release(msg[i].ptr[f], src)
  /\ pc' = [pc EXCEPT ![t] = Setter(i, f, src, NULL, {})]
  /\ harm' = (~msg[i].live \/ Dangles(msg[i].ptr[f]))
  /\ UNCHANGED <<msg, held, given, raced>>
  /\ Notes

(* Mutant: nothing is stored where xstrdup failed.                           *)
KeepsPointer(old, new) == IF new = NULL THEN old ELSE new

Stored(old, new) == new

(* xstrdup, and the store: NULL for NULL, NULL too where malloc fails, and   *)
(* nobody looks. A constructor goes on to its next string.                   *)
Store(t) ==
  LET i == pc[t].id
      f == pc[t].field
  IN
  /\ pc[t].at = "set" /\ ~harm
  /\ \E new \in {NULL} \cup (IF pc[t].src = NULL THEN {} ELSE Blocks \ heap) :
       /\ heap' = heap \cup ({new} \ {NULL})
       /\ msg' = [msg EXCEPT ![i].ptr[f] = Stored(msg[i].ptr[f], new)]
  /\ pc' = [pc EXCEPT ![t] = IF pc[t].left = {} THEN Idle
                             ELSE Builder(i, pc[t].from, pc[t].left)]
  /\ harm' = (~msg[i].live \/ Dangles(pc[t].src))
  /\ UNCHANGED <<held, given, raced>>
  /\ Notes

------------------------------------------------------------------------------
(* The getters, which return the pointer, and the calls that set or read a   *)
(* number, which return none.                                                *)
Get(t, i, p) ==
  /\ Enters(t, i) /\ p \in {NULL} \cup {msg[i].ptr[f] : f \in Fields}
  /\ given' = given \cup ({p} \ {NULL})
  /\ harm' = ~msg[i].live
  /\ UNCHANGED <<msg, heap, held, pc, raced>>
  /\ Notes

(* The has_ and is_ functions load the pointer they test, and compare what   *)
(* what it points to. Where the compiler loads it twice the second may be    *)
(* another, but only after a set in between, which breaks the rule as it is. *)
(* (has_signature compares an empty string or NULL: nothing sets one.)       *)
Compare(t, i, f) ==
  /\ Enters(t, i) /\ msg[i].ptr[f] # NULL
  /\ pc' = [pc EXCEPT ![t] = Reader(msg[i].ptr[f])]
  /\ harm' = ~msg[i].live
  /\ UNCHANGED <<msg, heap, held, given, raced>>
  /\ Notes

(* The application reads, or has compared, what a getter returned.           *)
Use(t, p) ==
  /\ pc[t] = Idle /\ p \in given /\ ~harm
  /\ pc' = [pc EXCEPT ![t] = Reader(p)]
  /\ UNCHANGED <<msg, heap, held, given, harm, raced>>
  /\ Notes

EndRead(t) ==
  /\ pc[t].at = "read" /\ ~harm
  /\ harm' = Dangles(pc[t].src)
  /\ pc' = [pc EXCEPT ![t] = Idle]
  /\ UNCHANGED <<msg, heap, held, given, raced>>
  /\ Notes

------------------------------------------------------------------------------
(* dbus_message_ref and dbus_message_unref. A thread that calls unref gives  *)
(* its reference up.                                                         *)
Counts(t) == pc[t].at \in {"ref", "unref"}
Counting(t, i) == \E u \in Threads \ {t} : Counts(u) /\ pc[u].id = i

Load(t, i, op) ==
  /\ Enters(t, i)
  /\ op = "ref" => held[t][i] < MaxRefs
  /\ pc' = [pc EXCEPT ![t] = Counter(op, i, msg[i].refcount)]
  /\ held' = IF op = "unref" THEN [held EXCEPT ![t][i] = held[t][i] - 1] ELSE held
  /\ harm' = ~msg[i].live
  /\ raced' = (raced \/ Counting(t, i))
  /\ UNCHANGED <<msg, heap, given>>
  /\ Notes

StoreRef(t) ==
  LET i == pc[t].id IN
  /\ pc[t].at = "ref" /\ ~harm
  /\ msg' = [msg EXCEPT ![i].refcount = pc[t].count + 1]
  /\ held' = [held EXCEPT ![t][i] = held[t][i] + 1]
  /\ pc' = [pc EXCEPT ![t] = Idle]
  /\ harm' = ~msg[i].live
  /\ UNCHANGED <<heap, given, raced>>
  /\ Notes

(* Mutant: freed when the last but one reference goes.                       *)
FreesEarly(count) == count <= 1

LastReference(count) == count <= 0

(* msg_free where no reference is left.                                      *)
StoreUnref(t) ==
  LET i == pc[t].id
      count == pc[t].count - 1
  IN
  /\ pc[t].at = "unref" /\ ~harm
  /\ \/ /\ ~LastReference(count)
        /\ msg' = [msg EXCEPT ![i].refcount = count]
        /\ harm' = ~msg[i].live
        /\ UNCHANGED heap
     \/ /\ LastReference(count)
        /\ msg' = [msg EXCEPT ![i] = [live |-> FALSE, refcount |-> count, ptr |-> NoStrings]]
        /\ heap' = heap \ {msg[i].ptr[f] : f \in Fields}
        /\ harm' = (~msg[i].live \/ \E f \in Fields : Dangles(msg[i].ptr[f]))
  /\ pc' = [pc EXCEPT ![t] = Idle]
  /\ UNCHANGED <<held, given, raced>>
  /\ Notes

(* The application hands one of its references to another thread.            *)
Give(t, u, i) ==
  /\ Enters(t, i) /\ t # u /\ held[u][i] < MaxRefs
  /\ held' = [held EXCEPT ![t][i] = held[t][i] - 1, ![u][i] = held[u][i] + 1]
  /\ UNCHANGED <<msg, heap, given, pc, harm, raced>>
  /\ Notes

------------------------------------------------------------------------------
Next == \E t \in Threads :
  \/ \E i \in Ids, left \in SUBSET Fields : New(t, i, left)
  \/ \E call, i \in Ids, left \in SUBSET Fields : NewReply(t, call, i, left)
  \/ \E i, c \in Ids : Copy(t, i, c)
  \/ \E f \in Fields, src \in Blocks \cup {NULL, Outside} : Fill(t, f, src)
  \/ \E i \in Ids, f \in Fields, src \in Sources : SetStr(t, i, f, src)
  \/ Store(t)
  \/ \E i \in Ids, p \in Blocks \cup {NULL} : Get(t, i, p)
  \/ \E i \in Ids, f \in Fields : Compare(t, i, f)
  \/ \E p \in given : Use(t, p)
  \/ EndRead(t)
  \/ \E i \in Ids, op \in {"ref", "unref"} : Load(t, i, op)
  \/ StoreRef(t) \/ StoreUnref(t)
  \/ \E u \in Threads, i \in Ids : Give(t, u, i)

Spec == Init /\ [][Next]_vars

------------------------------------------------------------------------------
(* The references on a message: those each thread holds, numbered from 1,    *)
(* and as number 0 the one it is giving up.                                  *)
Releasing(t, i) == pc[t].at = "unref" /\ pc[t].id = i
NumbersOf(t, i) == (IF Releasing(t, i) THEN 0 ELSE 1) .. held[t][i]
References(i) == UNION {{t} \X NumbersOf(t, i) : t \in Threads}

(* Unless two threads count a message at the same time, its count is the     *)
(* number of references that are held or being given up, and the message is  *)
(* there exactly while there is one: none is freed under a holder, none is   *)
(* left when its last reference goes (676-685).                              *)
CountIsExact == raced \/ harm \/ \A i \in Ids :
  /\ msg[i].live => msg[i].refcount = Cardinality(References(i))
  /\ msg[i].live <=> References(i) # {}

(* The strings of a message, but for the fields that are being set.         *)
Owned(i) == {msg[i].ptr[f] : f \in {g \in Fields : Settled(i, g)}} \ {NULL}

(* A string has one owner while the callers keep the rules: the blocks that  *)
(* are allocated are those of the fields nobody is setting, each from one    *)
(* field of one message, copies too (656-674); and none leaks, between the   *)
(* free and the store of a setter (692-693) and in msg_free (597-606).       *)
StringsHaveOneOwner == raced \/ clashed \/ harm \/
  /\ heap = UNION {Owned(i) : i \in Ids}
  /\ \A i, j \in Ids, f, g \in Fields :
       /\ Settled(i, f) /\ Settled(j, g)
       /\ msg[i].ptr[f] # NULL /\ msg[i].ptr[f] = msg[j].ptr[g]
       => i = j /\ f = g

(* Freed memory is only reached after a rule was broken: counting one        *)
(* message in two threads at once (678, 683), or the rule about strings      *)
(* (Clashing), which a field set from its own string breaks as well as a     *)
(* pointer kept across a set and a copy beside a set (662-672, 691-694).     *)
SafeByTheRules == harm => raced \/ clashed
=============================================================================
