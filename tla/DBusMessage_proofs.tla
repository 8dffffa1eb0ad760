--------------------------- MODULE DBusMessage_proofs ---------------------------
(* Proofs about DBusMessage for any threads, messages, fields and blocks:    *)
(* the three invariants of its run, from one inductive invariant.            *)
EXTENDS DBusMessage, FiniteSetTheorems, TLAPS

(* What the record of a thread's call holds in each call.                    *)
Shaped(c) ==
  /\ c.at = "idle" => c = Idle
  /\ c.at \in {"ref", "unref", "build", "set"} => c.id \in Ids
  /\ c.at = "set" => c.field \in Fields \ c.left
  /\ c.at \notin {"set", "read"} => c.src = NULL
  /\ c.left # {} => c.at \in {"build", "set"}

ShapedCalls == {c \in Calls : Shaped(c)}

Typed ==
  /\ msg \in [Ids -> Messages] /\ heap \subseteq Blocks /\ given \subseteq Blocks
  /\ held \in [Threads -> [Ids -> Nat]] /\ pc \in [Threads -> ShapedCalls]
  /\ harm \in BOOLEAN /\ raced \in BOOLEAN /\ clashed \in BOOLEAN

(* A thread in the middle of counting has the count the message has, and a   *)
(* reference to keep it alive, where nobody else counts there.               *)
Alone(t) ==
  Counts(t) => /\ pc[t].count = msg[pc[t].id].refcount
               /\ pc[t].at = "ref" => held[t][pc[t].id] > 0
               /\ \A u \in Threads \ {t} : Counts(u) => pc[u].id # pc[t].id

Counted(i) ==
  /\ IsFiniteSet(References(i))
  /\ msg[i].live => msg[i].refcount = Cardinality(References(i))
  /\ msg[i].live <=> References(i) # {}

CountsAgree == (\A t \in Threads : Alone(t)) /\ (\A i \in Ids : Counted(i))

(* A thread that sets or copies refers to the messages it is at. One that is *)
(* still being made is its maker's alone, and empty where it is not filled.  *)
Private(t) ==
  /\ \A u \in Threads \ {t} : held[u][pc[t].id] = 0
  /\ \A f \in pc[t].left : msg[pc[t].id].ptr[f] = NULL

Refers(t) ==
  pc[t].at \in {"build", "set"} =>
    /\ held[t][pc[t].id] > 0
    /\ pc[t].from # NULL => held[t][pc[t].from] > 0
    /\ pc[t].left # {} => Private(t)

(* The strings, and the fields that nobody is setting.                       *)
Allocated == \A i \in Ids, f \in Fields :
  Settled(i, f) /\ msg[i].ptr[f] # NULL => msg[i].ptr[f] \in heap
Reachable == \A b \in heap : \E i \in Ids, f \in Fields : Settled(i, f) /\ msg[i].ptr[f] = b
OneEach == \A i, j \in Ids, f, g \in Fields :
  Settled(i, f) /\ Settled(j, g) /\ msg[i].ptr[f] # NULL /\ msg[i].ptr[f] = msg[j].ptr[g]
    => i = j /\ f = g
Emptied == \A i \in Ids, f \in Fields : ~msg[i].live => msg[i].ptr[f] = NULL
Owners == Allocated /\ Reachable /\ OneEach /\ Emptied

StringsAgree == (\A t \in Threads : Refers(t)) /\ Owners

Calm == ~raced /\ ~harm
Ruled == Calm /\ ~clashed

IInv ==
  /\ Typed
  /\ Calm => CountsAgree
  /\ Ruled => StringsAgree
  /\ ~clashed => ~Clashing
  /\ SafeByTheRules

------------------------------------------------------------------------------
LEMMA Apart ==
  /\ NULL \notin Blocks /\ NULL \notin Ids /\ NULL \notin Fields
  /\ Outside \notin Blocks /\ NULL # Outside
  BY MessageAssumption

LEMMA Parts ==
  ASSUME Typed, NEW i \in Ids
  PROVE  /\ msg[i] \in Messages /\ msg[i].live \in BOOLEAN /\ msg[i].refcount \in Int
         /\ msg[i].ptr \in [Fields -> Blocks \cup {NULL}]
         /\ \A f \in Fields : msg[i].ptr[f] \in Blocks \cup {NULL}
         /\ \A t \in Threads : held[t][i] \in Nat
<1>1. msg[i] \in Messages /\ \A t \in Threads : held[t][i] \in Nat
  BY DEF Typed
<1> QED
  BY <1>1 DEF Messages

(* What a thread's call holds.                                               *)
LEMMA Where ==
  ASSUME Typed, NEW t \in Threads
  PROVE  /\ pc[t] \in Calls /\ Shaped(pc[t])
         /\ pc[t].at \in {"idle", "ref", "unref", "build", "set", "read"}
         /\ pc[t].id \in Ids \cup {NULL} /\ pc[t].count \in Int
         /\ pc[t].field \in Fields \cup {NULL} /\ pc[t].src \in Blocks \cup {NULL, Outside}
         /\ pc[t].from \in Ids \cup {NULL} /\ pc[t].left \in SUBSET Fields
<1>1. pc[t] \in Calls /\ Shaped(pc[t])
  BY DEF Typed, ShapedCalls
<1> QED
  BY <1>1 DEF Calls

LEMMA IdleIsShaped ==
  /\ Idle \in ShapedCalls
  /\ Idle.at = "idle" /\ Idle.id = NULL /\ Idle.src = NULL /\ Idle.from = NULL /\ Idle.left = {}
  BY DEF Idle, Call, Calls, ShapedCalls, Shaped

LEMMA BuilderIsShaped ==
  ASSUME NEW i \in Ids, NEW from \in Ids \cup {NULL}, NEW left \in SUBSET Fields
  PROVE  /\ Builder(i, from, left) \in ShapedCalls
         /\ Builder(i, from, left).at = "build" /\ Builder(i, from, left).id = i
         /\ Builder(i, from, left).src = NULL /\ Builder(i, from, left).from = from
         /\ Builder(i, from, left).left = left
  BY DEF Builder, Call, Calls, ShapedCalls, Shaped, Idle

LEMMA SetterIsShaped ==
  ASSUME NEW i \in Ids, NEW f \in Fields, NEW src \in Blocks \cup {NULL, Outside},
         NEW from \in Ids \cup {NULL}, NEW left \in SUBSET Fields, f \notin left
  PROVE  /\ Setter(i, f, src, from, left) \in ShapedCalls
         /\ Setter(i, f, src, from, left).at = "set" /\ Setter(i, f, src, from, left).id = i
         /\ Setter(i, f, src, from, left).field = f /\ Setter(i, f, src, from, left).src = src
         /\ Setter(i, f, src, from, left).from = from /\ Setter(i, f, src, from, left).left = left
  BY DEF Setter, Call, Calls, ShapedCalls, Shaped, Idle

LEMMA ReaderIsShaped ==
  ASSUME NEW src \in Blocks \cup {NULL, Outside}
  PROVE  /\ Reader(src) \in ShapedCalls /\ Reader(src).at = "read" /\ Reader(src).src = src
         /\ Reader(src).left = {}
  BY DEF Reader, Call, Calls, ShapedCalls, Shaped, Idle

LEMMA CounterIsShaped ==
  ASSUME NEW op \in {"ref", "unref"}, NEW i \in Ids, NEW count \in Int
  PROVE  /\ Counter(op, i, count) \in ShapedCalls /\ Counter(op, i, count).at = op
         /\ Counter(op, i, count).id = i /\ Counter(op, i, count).count = count
         /\ Counter(op, i, count).src = NULL /\ Counter(op, i, count).left = {}
  BY DEF Counter, Call, Calls, ShapedCalls, Shaped, Idle

(* A step of one thread changes its call alone.                              *)
LEMMA CallChanges ==
  ASSUME Typed, NEW t \in Threads, NEW c \in ShapedCalls, pc' = [pc EXCEPT ![t] = c]
  PROVE  /\ pc' \in [Threads -> ShapedCalls] /\ pc'[t] = c
         /\ \A u \in Threads \ {t} : pc'[u] = pc[u]
  BY DEF Typed

LEMMA NoStringsThere ==
  NoStrings \in [Fields -> Blocks \cup {NULL}] /\ \A f \in Fields : NoStrings[f] = NULL
  BY DEF NoStrings

(* What each action does to the state, field by field.                       *)
LEMMA MakeEffect ==
  ASSUME Typed, NEW t \in Threads, NEW i \in Ids, NEW from \in Ids \cup {NULL}, NEW left \in SUBSET Fields,
         Make(t, i, from, left)
  PROVE  /\ msg' \in [Ids -> Messages] /\ held' \in [Threads -> [Ids -> Nat]] /\ pc' \in [Threads -> ShapedCalls]
         /\ heap' = heap /\ given' = given /\ raced' = raced
         /\ ~msg[i].live /\ msg'[i].live = TRUE /\ msg'[i].refcount = 1
         /\ \A f \in Fields : msg'[i].ptr[f] = NULL
         /\ \A j \in Ids \ {i} : msg'[j] = msg[j]
         /\ held'[t][i] = held[t][i] + 1
         /\ \A u \in Threads, j \in Ids : u # t \/ j # i => held'[u][j] = held[u][j]
         /\ \A u \in Threads \ {t} : pc'[u] = pc[u]
         /\ pc'[t].src = NULL /\ pc'[t].at \in {"idle", "build"}
         /\ pc'[t].at = "build" => pc'[t].id = i /\ pc'[t].from = from /\ pc'[t].left = left
<1>1. /\ msg' = [msg EXCEPT ![i] = [live |-> TRUE, refcount |-> 1, ptr |-> NoStrings]]
      /\ held' = [held EXCEPT ![t][i] = held[t][i] + 1]
      /\ ~msg[i].live /\ heap' = heap /\ given' = given /\ raced' = raced
  BY DEF Make
<1>2. [live |-> TRUE, refcount |-> 1, ptr |-> NoStrings] \in Messages
  BY NoStringsThere DEF Messages
<1>3. /\ msg' \in [Ids -> Messages] /\ msg'[i] = [live |-> TRUE, refcount |-> 1, ptr |-> NoStrings]
      /\ \A j \in Ids \ {i} : msg'[j] = msg[j]
  BY <1>1, <1>2 DEF Typed
<1>4. /\ held' \in [Threads -> [Ids -> Nat]] /\ held'[t][i] = held[t][i] + 1
      /\ \A u \in Threads, j \in Ids : u # t \/ j # i => held'[u][j] = held[u][j]
  BY <1>1 DEF Typed
<1>5. PICK c : c = IF left = {} THEN Idle ELSE Builder(i, from, left)
  OBVIOUS
<1>6. c \in ShapedCalls /\ c.src = NULL /\ c.at \in {"idle", "build"}
  BY <1>5, IdleIsShaped, BuilderIsShaped
<1>7. c.at = "build" => c.id = i /\ c.from = from /\ c.left = left
  BY <1>5, IdleIsShaped, BuilderIsShaped
<1>8. pc' = [pc EXCEPT ![t] = c]
  BY <1>5 DEF Make
<1>9. pc' \in [Threads -> ShapedCalls] /\ pc'[t] = c /\ \A u \in Threads \ {t} : pc'[u] = pc[u]
  BY <1>6, <1>8, CallChanges
<1>10. msg'[i].live = TRUE /\ msg'[i].refcount = 1 /\ \A f \in Fields : msg'[i].ptr[f] = NULL
  BY <1>3, NoStringsThere
<1> QED
  BY <1>1, <1>3, <1>4, <1>9, <1>10, <1>6, <1>7

LEMMA SourcesAreStrings ==
  ASSUME Typed, NEW src \in Sources
  PROVE  src \in Blocks \cup {NULL, Outside}
  BY DEF Typed, Sources

LEMMA FillEffect ==
  ASSUME Typed, NEW t \in Threads, NEW f \in Fields, NEW src \in Blocks \cup {NULL, Outside}, Fill(t, f, src)
  PROVE  /\ pc[t].at = "build" /\ f \in pc[t].left /\ pc[t].id \in Ids
         /\ pc' \in [Threads -> ShapedCalls]
         /\ \A u \in Threads \ {t} : pc'[u] = pc[u]
         /\ pc'[t].at = "set" /\ pc'[t].id = pc[t].id /\ pc'[t].field = f
         /\ pc'[t].src = src /\ pc'[t].from = pc[t].from /\ pc'[t].left = pc[t].left \ {f}
         /\ harm' = (pc[t].from # NULL /\ ~msg[pc[t].from].live)
         /\ msg' = msg /\ heap' = heap /\ held' = held /\ given' = given /\ raced' = raced
<1>1. PICK i, from, left : i = pc[t].id /\ from = pc[t].from /\ left = pc[t].left \ {f}
  OBVIOUS
<1>2. /\ pc[t].at = "build" /\ f \in pc[t].left
      /\ pc' = [pc EXCEPT ![t] = Setter(i, f, src, from, left)]
      /\ harm' = (pc[t].from # NULL /\ ~msg[pc[t].from].live)
      /\ msg' = msg /\ heap' = heap /\ held' = held /\ given' = given /\ raced' = raced
  BY <1>1 DEF Fill
<1>3. i \in Ids /\ from \in Ids \cup {NULL} /\ left \in SUBSET Fields /\ f \notin left
  BY <1>1, <1>2, Where DEF Shaped
<1>4. PICK c : c = Setter(i, f, src, from, left)
  OBVIOUS
<1>5. /\ c \in ShapedCalls /\ c.at = "set" /\ c.id = i /\ c.field = f /\ c.src = src
      /\ c.from = from /\ c.left = left
  BY <1>3, <1>4, SetterIsShaped
<1>6. pc' \in [Threads -> ShapedCalls] /\ pc'[t] = c /\ \A u \in Threads \ {t} : pc'[u] = pc[u]
  BY <1>2, <1>4, <1>5, CallChanges
<1> QED
  BY <1>1, <1>2, <1>3, <1>5, <1>6

LEMMA SetStrEffect ==
  ASSUME Typed, NEW t \in Threads, NEW i \in Ids, NEW f \in Fields, NEW src \in Sources, SetStr(t, i, f, src)
  PROVE  /\ pc[t].at = "idle" /\ held[t][i] > 0 /\ ~harm
         /\ pc' \in [Threads -> ShapedCalls]
         /\ \A u \in Threads \ {t} : pc'[u] = pc[u]
         /\ pc'[t].at = "set" /\ pc'[t].id = i /\ pc'[t].field = f
         /\ pc'[t].from = NULL /\ pc'[t].left = {}
         /\ heap' = heap \ {msg[i].ptr[f]}
         /\ harm' = (~msg[i].live \/ Dangles(msg[i].ptr[f]))
         /\ msg' = msg /\ held' = held /\ given' = given /\ raced' = raced
<1>1. /\ pc[t] = Idle /\ held[t][i] > 0 /\ ~harm
      /\ heap' = heap \ {msg[i].ptr[f]}
      /\ pc' = [pc EXCEPT ![t] = Setter(i, f, src, NULL, {})]
      /\ harm' = (~msg[i].live \/ Dangles(msg[i].ptr[f]))
      /\ msg' = msg /\ held' = held /\ given' = given /\ raced' = raced
  BY DEF SetStr, Enters, Release
<1>2. PICK c, from, left : c = Setter(i, f, src, from, left) /\ from = NULL /\ left = {}
  OBVIOUS
<1>3. src \in Blocks \cup {NULL, Outside} /\ from \in Ids \cup {NULL} /\ left \in SUBSET Fields /\ f \notin left
  BY <1>2, SourcesAreStrings
<1>4. c \in ShapedCalls /\ c.at = "set" /\ c.id = i /\ c.field = f /\ c.from = NULL /\ c.left = {}
  BY <1>2, <1>3, SetterIsShaped
<1>5. pc' \in [Threads -> ShapedCalls] /\ pc'[t] = c /\ \A u \in Threads \ {t} : pc'[u] = pc[u]
  BY <1>1, <1>2, <1>4, CallChanges
<1> QED
  BY <1>1, <1>4, <1>5, IdleIsShaped

LEMMA StoreEffect ==
  ASSUME Typed, NEW t \in Threads, Store(t)
  PROVE  /\ pc[t].at = "set" /\ pc[t].id \in Ids /\ pc[t].field \in Fields
         /\ pc[t].field \notin pc[t].left
         /\ pc' \in [Threads -> ShapedCalls]
         /\ \A u \in Threads \ {t} : pc'[u] = pc[u]
         /\ pc'[t].src = NULL /\ pc'[t].at \in {"idle", "build"}
         /\ pc'[t].at = "build" => pc'[t].id = pc[t].id /\ pc'[t].from = pc[t].from /\ pc'[t].left = pc[t].left
         /\ \E new \in Blocks \cup {NULL} :
              /\ new \notin heap /\ heap' = heap \cup ({new} \ {NULL})
              /\ msg'[pc[t].id].ptr[pc[t].field] = new
         /\ msg' \in [Ids -> Messages]
         /\ \A j \in Ids : msg'[j].live = msg[j].live /\ msg'[j].refcount = msg[j].refcount
         /\ \A j \in Ids, g \in Fields : j # pc[t].id \/ g # pc[t].field => msg'[j].ptr[g] = msg[j].ptr[g]
         /\ harm' = (~msg[pc[t].id].live \/ Dangles(pc[t].src))
         /\ held' = held /\ given' = given /\ raced' = raced
<1>1. PICK i, f, from, left : i = pc[t].id /\ f = pc[t].field /\ from = pc[t].from /\ left = pc[t].left
  OBVIOUS
<1>2. PICK new \in {NULL} \cup (IF pc[t].src = NULL THEN {} ELSE Blocks \ heap) :
        /\ heap' = heap \cup ({new} \ {NULL})
        /\ msg' = [msg EXCEPT ![i].ptr[f] = new]
  BY <1>1 DEF Store, Stored
<1>3. /\ pc[t].at = "set"
      /\ pc' = [pc EXCEPT ![t] = IF left = {} THEN Idle ELSE Builder(i, from, left)]
      /\ harm' = (~msg[pc[t].id].live \/ Dangles(pc[t].src))
      /\ held' = held /\ given' = given /\ raced' = raced
  BY <1>1 DEF Store
<1>4. i \in Ids /\ f \in Fields /\ from \in Ids \cup {NULL} /\ left \in SUBSET Fields
  BY <1>1, <1>3, Where DEF Shaped
<1>5. f \notin left
  BY <1>1, <1>3, Where DEF Shaped
<1>6. PICK c : c = IF left = {} THEN Idle ELSE Builder(i, from, left)
  OBVIOUS
<1>7. c \in ShapedCalls /\ c.src = NULL /\ c.at \in {"idle", "build"}
  BY <1>4, <1>6, IdleIsShaped, BuilderIsShaped
<1>8. c.at = "build" => c.id = i /\ c.from = from /\ c.left = left
  BY <1>4, <1>6, IdleIsShaped, BuilderIsShaped
<1>9. pc' = [pc EXCEPT ![t] = c]
  BY <1>3, <1>6
<1>10. pc' \in [Threads -> ShapedCalls] /\ pc'[t] = c /\ \A u \in Threads \ {t} : pc'[u] = pc[u]
  BY <1>7, <1>9, CallChanges
<1>11. new \in Blocks \cup {NULL} /\ new \notin heap
  BY Apart DEF Typed
<1>12. /\ msg' \in [Ids -> Messages] /\ msg'[i].ptr[f] = new
       /\ \A j \in Ids : msg'[j].live = msg[j].live /\ msg'[j].refcount = msg[j].refcount
       /\ \A j \in Ids, g \in Fields : j # i \/ g # f => msg'[j].ptr[g] = msg[j].ptr[g]
  <2>1. PICK m : m = [msg[i] EXCEPT !.ptr = [msg[i].ptr EXCEPT ![f] = new]]
    OBVIOUS
  <2>2. /\ m \in Messages /\ m.live = msg[i].live /\ m.refcount = msg[i].refcount
        /\ m.ptr = [msg[i].ptr EXCEPT ![f] = new]
    BY <1>4, <1>11, <2>1, Parts DEF Messages
  <2>3. m.ptr[f] = new /\ \A g \in Fields \ {f} : m.ptr[g] = msg[i].ptr[g]
    BY <1>4, <2>2, Parts
  <2>4. msg' = [msg EXCEPT ![i] = m]
    BY <1>2, <2>1
  <2>5. msg' \in [Ids -> Messages] /\ msg'[i] = m /\ \A j \in Ids \ {i} : msg'[j] = msg[j]
    BY <1>4, <2>2, <2>4 DEF Typed
  <2> QED
    BY <2>2, <2>3, <2>5
<1> QED
  BY <1>1, <1>2, <1>3, <1>4, <1>7, <1>8, <1>10, <1>11, <1>12, <1>5

(* The calls that read: only where the thread is and what it knows changes.  *)
ReadStep(t) ==
  \/ \E i \in Ids, p \in Blocks \cup {NULL} : Get(t, i, p)
  \/ \E i \in Ids, f \in Fields : Compare(t, i, f)
  \/ \E p \in given : Use(t, p)
  \/ EndRead(t)

LEMMA ReadEffect ==
  ASSUME Typed, NEW t \in Threads, ReadStep(t)
  PROVE  /\ pc[t].at \in {"idle", "read"} /\ ~harm
         /\ pc' \in [Threads -> ShapedCalls] /\ given' \subseteq Blocks
         /\ \A u \in Threads \ {t} : pc'[u] = pc[u]
         /\ pc'[t].at \in {"idle", "read"} /\ harm' \in BOOLEAN
         /\ \/ \E i \in Ids : held[t][i] > 0 /\ harm' = ~msg[i].live
            \/ harm' = harm
            \/ harm' = Dangles(pc[t].src)
         /\ msg' = msg /\ heap' = heap /\ held' = held /\ raced' = raced
<1>1. CASE \E i \in Ids, p \in Blocks \cup {NULL} : Get(t, i, p)
  <2>1. PICK i \in Ids, p \in Blocks \cup {NULL} : Get(t, i, p)
    BY <1>1
  <2>2. /\ pc[t] = Idle /\ ~harm /\ held[t][i] > 0 /\ harm' = ~msg[i].live /\ pc' = pc
        /\ given' = given \cup ({p} \ {NULL})
        /\ msg' = msg /\ heap' = heap /\ held' = held /\ raced' = raced
    BY <2>1 DEF Get, Enters
  <2>3. pc' \in [Threads -> ShapedCalls] /\ given' \subseteq Blocks
    BY <2>2 DEF Typed
  <2> QED
    BY <2>2, <2>3, IdleIsShaped
<1>2. CASE \E i \in Ids, f \in Fields : Compare(t, i, f)
  <2>1. PICK i \in Ids, f \in Fields : Compare(t, i, f)
    BY <1>2
  <2>2. PICK c : c = Reader(msg[i].ptr[f])
    OBVIOUS
  <2>3. /\ pc[t] = Idle /\ ~harm /\ held[t][i] > 0 /\ harm' = ~msg[i].live
        /\ pc' = [pc EXCEPT ![t] = c]
        /\ msg' = msg /\ heap' = heap /\ held' = held /\ given' = given /\ raced' = raced
    BY <2>1, <2>2 DEF Compare, Enters
  <2>4. msg[i].ptr[f] \in Blocks \cup {NULL, Outside}
    BY Parts
  <2>5. c \in ShapedCalls /\ c.at = "read"
    BY <2>2, <2>4, ReaderIsShaped
  <2>6. pc' \in [Threads -> ShapedCalls] /\ pc'[t] = c /\ \A u \in Threads \ {t} : pc'[u] = pc[u]
    BY <2>3, <2>5, CallChanges
  <2>7. given' \subseteq Blocks
    BY <2>3 DEF Typed
  <2> QED
    BY <2>3, <2>5, <2>6, <2>7, IdleIsShaped
<1>3. CASE \E p \in given : Use(t, p)
  <2>1. PICK p \in given : Use(t, p)
    BY <1>3
  <2>2. PICK c : c = Reader(p)
    OBVIOUS
  <2>3. /\ pc[t] = Idle /\ ~harm /\ harm' = harm /\ pc' = [pc EXCEPT ![t] = c]
        /\ msg' = msg /\ heap' = heap /\ held' = held /\ given' = given /\ raced' = raced
    BY <2>1, <2>2 DEF Use
  <2>4. p \in Blocks \cup {NULL, Outside} /\ given' \subseteq Blocks
    BY <2>3 DEF Typed
  <2>5. c \in ShapedCalls /\ c.at = "read"
    BY <2>2, <2>4, ReaderIsShaped
  <2>6. pc' \in [Threads -> ShapedCalls] /\ pc'[t] = c /\ \A u \in Threads \ {t} : pc'[u] = pc[u]
    BY <2>3, <2>5, CallChanges
  <2> QED
    BY <2>3, <2>4, <2>5, <2>6, IdleIsShaped DEF Typed
<1>4. CASE EndRead(t)
  <2>1. /\ pc[t].at = "read" /\ ~harm /\ harm' = Dangles(pc[t].src) /\ pc' = [pc EXCEPT ![t] = Idle]
        /\ msg' = msg /\ heap' = heap /\ held' = held /\ given' = given /\ raced' = raced
    BY <1>4 DEF EndRead
  <2>2. pc' \in [Threads -> ShapedCalls] /\ pc'[t] = Idle /\ \A u \in Threads \ {t} : pc'[u] = pc[u]
    BY <2>1, IdleIsShaped, CallChanges
  <2>3. given' \subseteq Blocks /\ harm' \in BOOLEAN
    BY <2>1 DEF Typed, Dangles
  <2> QED
    BY <2>1, <2>2, <2>3, IdleIsShaped
<1> QED
  BY <1>1, <1>2, <1>3, <1>4 DEF ReadStep

LEMMA LoadEffect ==
  ASSUME Typed, NEW t \in Threads, NEW i \in Ids, NEW op \in {"ref", "unref"}, Load(t, i, op)
  PROVE  /\ pc[t].at = "idle" /\ held[t][i] > 0 /\ ~harm
         /\ pc' \in [Threads -> ShapedCalls]
         /\ \A u \in Threads \ {t} : pc'[u] = pc[u]
         /\ pc'[t].at = op /\ pc'[t].id = i /\ pc'[t].count = msg[i].refcount
         /\ held' \in [Threads -> [Ids -> Nat]]
         /\ held'[t][i] = IF op = "unref" THEN held[t][i] - 1 ELSE held[t][i]
         /\ \A u \in Threads, j \in Ids : u # t \/ j # i => held'[u][j] = held[u][j]
         /\ harm' = ~msg[i].live /\ raced' = (raced \/ Counting(t, i)) /\ raced' \in BOOLEAN
         /\ msg' = msg /\ heap' = heap /\ given' = given
<1>1. /\ pc[t] = Idle /\ held[t][i] > 0 /\ ~harm
      /\ pc' = [pc EXCEPT ![t] = Counter(op, i, msg[i].refcount)]
      /\ held' = (IF op = "unref" THEN [held EXCEPT ![t][i] = held[t][i] - 1] ELSE held)
      /\ harm' = ~msg[i].live /\ raced' = (raced \/ Counting(t, i))
      /\ msg' = msg /\ heap' = heap /\ given' = given
  BY DEF Load, Enters
<1>2. PICK c : c = Counter(op, i, msg[i].refcount)
  OBVIOUS
<1>3. c \in ShapedCalls /\ c.at = op /\ c.id = i /\ c.count = msg[i].refcount
  BY <1>2, Parts, CounterIsShaped
<1>4. pc' \in [Threads -> ShapedCalls] /\ pc'[t] = c /\ \A u \in Threads \ {t} : pc'[u] = pc[u]
  BY <1>1, <1>2, <1>3, CallChanges
<1>5. held[t][i] \in Nat /\ held[t][i] - 1 \in Nat
  BY <1>1, Parts
<1>6. /\ held' \in [Threads -> [Ids -> Nat]]
      /\ held'[t][i] = IF op = "unref" THEN held[t][i] - 1 ELSE held[t][i]
      /\ \A u \in Threads, j \in Ids : u # t \/ j # i => held'[u][j] = held[u][j]
  BY <1>1, <1>5 DEF Typed
<1>7. raced' \in BOOLEAN
  BY <1>1 DEF Counting
<1> QED
  BY <1>1, <1>3, <1>4, <1>6, <1>7, IdleIsShaped

LEMMA StoreRefEffect ==
  ASSUME Typed, NEW t \in Threads, StoreRef(t)
  PROVE  /\ pc[t].at = "ref" /\ pc[t].id \in Ids /\ ~harm
         /\ pc' \in [Threads -> ShapedCalls] /\ pc'[t] = Idle
         /\ \A u \in Threads \ {t} : pc'[u] = pc[u]
         /\ msg' \in [Ids -> Messages] /\ msg'[pc[t].id].refcount = pc[t].count + 1
         /\ \A j \in Ids : msg'[j].live = msg[j].live /\ msg'[j].ptr = msg[j].ptr
         /\ \A j \in Ids \ {pc[t].id} : msg'[j] = msg[j]
         /\ held' \in [Threads -> [Ids -> Nat]] /\ held'[t][pc[t].id] = held[t][pc[t].id] + 1
         /\ \A u \in Threads, j \in Ids : u # t \/ j # pc[t].id => held'[u][j] = held[u][j]
         /\ harm' = ~msg[pc[t].id].live
         /\ heap' = heap /\ given' = given /\ raced' = raced
<1>1. PICK i, count : i = pc[t].id /\ count = pc[t].count
  OBVIOUS
<1>2. /\ pc[t].at = "ref" /\ ~harm /\ harm' = ~msg[i].live
      /\ msg' = [msg EXCEPT ![i].refcount = count + 1]
      /\ held' = [held EXCEPT ![t][i] = held[t][i] + 1]
      /\ pc' = [pc EXCEPT ![t] = Idle]
      /\ heap' = heap /\ given' = given /\ raced' = raced
  BY <1>1 DEF StoreRef
<1>3. i \in Ids /\ count \in Int /\ count + 1 \in Int
  BY <1>1, <1>2, Where DEF Shaped
<1>4. held[t][i] \in Nat /\ held[t][i] + 1 \in Nat
  BY <1>3, Parts
<1>5. /\ msg' \in [Ids -> Messages] /\ msg'[i].refcount = count + 1
      /\ \A j \in Ids : msg'[j].live = msg[j].live /\ msg'[j].ptr = msg[j].ptr
      /\ \A j \in Ids \ {i} : msg'[j] = msg[j]
  BY <1>2, <1>3 DEF Typed, Messages
<1>6. /\ held' \in [Threads -> [Ids -> Nat]] /\ held'[t][i] = held[t][i] + 1
      /\ \A u \in Threads, j \in Ids : u # t \/ j # i => held'[u][j] = held[u][j]
  BY <1>2, <1>3, <1>4 DEF Typed
<1>7. pc' \in [Threads -> ShapedCalls] /\ pc'[t] = Idle /\ \A u \in Threads \ {t} : pc'[u] = pc[u]
  BY <1>2, IdleIsShaped, CallChanges
<1> QED
  BY <1>1, <1>2, <1>3, <1>5, <1>6, <1>7

(* unref has two ends: others still refer to the message, or it is freed.    *)
LEMMA StoreUnrefEffect ==
  ASSUME Typed, NEW t \in Threads, StoreUnref(t)
  PROVE  /\ pc[t].at = "unref" /\ pc[t].id \in Ids /\ ~harm
         /\ pc' \in [Threads -> ShapedCalls] /\ pc'[t] = Idle
         /\ \A u \in Threads \ {t} : pc'[u] = pc[u]
         /\ msg' \in [Ids -> Messages] /\ msg'[pc[t].id].refcount = pc[t].count - 1
         /\ \A j \in Ids \ {pc[t].id} : msg'[j] = msg[j]
         /\ held' = held /\ given' = given /\ raced' = raced
         /\ \/ /\ ~LastReference(pc[t].count - 1) /\ harm' = ~msg[pc[t].id].live /\ heap' = heap
               /\ msg'[pc[t].id].live = msg[pc[t].id].live /\ msg'[pc[t].id].ptr = msg[pc[t].id].ptr
            \/ /\ LastReference(pc[t].count - 1)
               /\ harm' = (~msg[pc[t].id].live \/ \E f \in Fields : Dangles(msg[pc[t].id].ptr[f]))
               /\ heap' = heap \ {msg[pc[t].id].ptr[f] : f \in Fields}
               /\ msg'[pc[t].id].live = FALSE /\ \A f \in Fields : msg'[pc[t].id].ptr[f] = NULL
<1>1. PICK i, count : i = pc[t].id /\ count = pc[t].count - 1
  OBVIOUS
<1>2. /\ pc[t].at = "unref" /\ ~harm /\ pc' = [pc EXCEPT ![t] = Idle]
      /\ held' = held /\ given' = given /\ raced' = raced
  BY DEF StoreUnref
<1>3. i \in Ids /\ count \in Int
  BY <1>1, <1>2, Where DEF Shaped
<1>4. pc' \in [Threads -> ShapedCalls] /\ pc'[t] = Idle /\ \A u \in Threads \ {t} : pc'[u] = pc[u]
  BY <1>2, IdleIsShaped, CallChanges
<1>5. \/ /\ ~LastReference(count) /\ harm' = ~msg[i].live /\ heap' = heap
         /\ msg' = [msg EXCEPT ![i].refcount = count]
      \/ /\ LastReference(count)
         /\ harm' = (~msg[i].live \/ \E f \in Fields : Dangles(msg[i].ptr[f]))
         /\ heap' = heap \ {msg[i].ptr[f] : f \in Fields}
         /\ msg' = [msg EXCEPT ![i] = [live |-> FALSE, refcount |-> count, ptr |-> NoStrings]]
  BY <1>1 DEF StoreUnref
<1>6. CASE ~LastReference(count)
  <2>1. harm' = ~msg[i].live /\ heap' = heap /\ msg' = [msg EXCEPT ![i].refcount = count]
    BY <1>5, <1>6
  <2>2. /\ msg' \in [Ids -> Messages] /\ msg'[i].refcount = count
        /\ msg'[i].live = msg[i].live /\ msg'[i].ptr = msg[i].ptr
        /\ \A j \in Ids \ {i} : msg'[j] = msg[j]
    BY <1>3, <2>1 DEF Typed, Messages
  <2> QED
    BY <1>1, <1>2, <1>3, <1>4, <1>6, <2>1, <2>2
<1>7. CASE LastReference(count)
  <2>1. PICK m : m = [live |-> FALSE, refcount |-> count, ptr |-> NoStrings]
    OBVIOUS
  <2>2. /\ harm' = (~msg[i].live \/ \E f \in Fields : Dangles(msg[i].ptr[f]))
        /\ heap' = heap \ {msg[i].ptr[f] : f \in Fields}
        /\ msg' = [msg EXCEPT ![i] = m]
    BY <1>5, <1>7, <2>1
  <2>3. m \in Messages /\ m.live = FALSE /\ m.refcount = count /\ \A f \in Fields : m.ptr[f] = NULL
    BY <1>3, <2>1, NoStringsThere DEF Messages
  <2>4. msg' \in [Ids -> Messages] /\ msg'[i] = m /\ \A j \in Ids \ {i} : msg'[j] = msg[j]
    BY <1>3, <2>2, <2>3 DEF Typed
  <2> QED
    BY <1>1, <1>2, <1>3, <1>4, <1>7, <2>2, <2>3, <2>4
<1> QED
  BY <1>6, <1>7

LEMMA GiveEffect ==
  ASSUME Typed, NEW t \in Threads, NEW u \in Threads, NEW i \in Ids, Give(t, u, i)
  PROVE  /\ t # u /\ pc[t].at = "idle" /\ held[t][i] > 0
         /\ held' \in [Threads -> [Ids -> Nat]]
         /\ held'[t][i] = held[t][i] - 1 /\ held'[u][i] = held[u][i] + 1
         /\ \A v \in Threads, j \in Ids : v \notin {t, u} \/ j # i => held'[v][j] = held[v][j]
         /\ msg' = msg /\ heap' = heap /\ given' = given /\ pc' = pc /\ harm' = harm /\ raced' = raced
<1>1. /\ t # u /\ pc[t] = Idle /\ held[t][i] > 0
      /\ held' = [held EXCEPT ![t][i] = held[t][i] - 1, ![u][i] = held[u][i] + 1]
      /\ msg' = msg /\ heap' = heap /\ given' = given /\ pc' = pc /\ harm' = harm /\ raced' = raced
  BY DEF Give, Enters
<1>2. held[t][i] \in Nat /\ held[u][i] \in Nat /\ held[t][i] - 1 \in Nat /\ held[u][i] + 1 \in Nat
  BY <1>1, Parts
<1>3. /\ held' \in [Threads -> [Ids -> Nat]]
      /\ held'[t][i] = held[t][i] - 1 /\ held'[u][i] = held[u][i] + 1
      /\ \A v \in Threads, j \in Ids : v \notin {t, u} \/ j # i => held'[v][j] = held[v][j]
  BY <1>1, <1>2 DEF Typed
<1> QED
  BY <1>1, <1>3, IdleIsShaped

(* The message that New, NewReply and Copy make, and what they look at.      *)
MakeStep(t) ==
  \/ \E i \in Ids, left \in SUBSET Fields : New(t, i, left)
  \/ \E call, i \in Ids, left \in SUBSET Fields : NewReply(t, call, i, left)
  \/ \E i, c \in Ids : Copy(t, i, c)

LEMMA MakeStepEffect ==
  ASSUME Typed, NEW t \in Threads, MakeStep(t)
  PROVE  /\ pc[t].at = "idle" /\ ~harm /\ harm' \in BOOLEAN
         /\ harm' = FALSE \/ \E j \in Ids : held[t][j] > 0 /\ harm' = ~msg[j].live
         /\ \E i \in Ids, from \in Ids \cup {NULL}, left \in SUBSET Fields :
              Make(t, i, from, left) /\ (from # NULL => held[t][from] > 0)
<1>1. ASSUME NEW i \in Ids, NEW left \in SUBSET Fields, New(t, i, left) PROVE Make(t, i, NULL, left)
  BY <1>1 DEF New
<1>2. ASSUME NEW call \in Ids, NEW i \in Ids, NEW left \in SUBSET Fields, NewReply(t, call, i, left)
      PROVE  Make(t, i, NULL, left) /\ held[t][call] > 0 /\ harm' = ~msg[call].live
  BY <1>2 DEF NewReply, Enters
<1>3. ASSUME NEW i \in Ids, NEW c \in Ids, Copy(t, i, c)
      PROVE  Make(t, c, i, Fields) /\ held[t][i] > 0 /\ harm' = ~msg[i].live
  BY <1>3 DEF Copy, Enters
<1>4. pc[t] = Idle /\ ~harm
  BY DEF MakeStep, New, NewReply, Copy, Enters
<1>5. harm' = FALSE \/ \E j \in Ids : held[t][j] > 0 /\ harm' = ~msg[j].live
  BY <1>2, <1>3, <1>4 DEF MakeStep, New, Typed
<1>6. \E i \in Ids, from \in Ids \cup {NULL}, left \in SUBSET Fields :
        Make(t, i, from, left) /\ (from # NULL => held[t][from] > 0)
  <2>1. CASE \E i \in Ids, left \in SUBSET Fields : New(t, i, left)
    BY <1>1, <2>1
  <2>2. CASE \E call, i \in Ids, left \in SUBSET Fields : NewReply(t, call, i, left)
    BY <1>2, <2>2
  <2>3. CASE \E i, c \in Ids : Copy(t, i, c)
    <3>1. PICK i \in Ids, c \in Ids : Copy(t, i, c)
      BY <2>3
    <3>2. Make(t, c, i, Fields) /\ held[t][i] > 0 /\ Fields \in SUBSET Fields /\ i \in Ids \cup {NULL}
      BY <1>3, <3>1
    <3> QED
      BY <3>2
  <2> QED
    BY <2>1, <2>2, <2>3 DEF MakeStep
<1>7. harm' \in BOOLEAN
  BY <1>5
<1> QED
  BY <1>4, <1>5, <1>6, <1>7, IdleIsShaped

------------------------------------------------------------------------------
(* The actions, grouped as the proofs take them.                             *)
LEMMA Cases ==
  ASSUME Next
  PROVE  /\ Notes
         /\ \E t \in Threads :
              \/ MakeStep(t) \/ ReadStep(t) \/ Store(t) \/ StoreRef(t) \/ StoreUnref(t)
              \/ \E f \in Fields, src \in Blocks \cup {NULL, Outside} : Fill(t, f, src)
              \/ \E i \in Ids, f \in Fields, src \in Sources : SetStr(t, i, f, src)
              \/ \E i \in Ids, op \in {"ref", "unref"} : Load(t, i, op)
              \/ \E u \in Threads, i \in Ids : Give(t, u, i)
<1>1. PICK t \in Threads :
        \/ MakeStep(t) \/ ReadStep(t) \/ Store(t) \/ StoreRef(t) \/ StoreUnref(t)
        \/ \E f \in Fields, src \in Blocks \cup {NULL, Outside} : Fill(t, f, src)
        \/ \E i \in Ids, f \in Fields, src \in Sources : SetStr(t, i, f, src)
        \/ \E i \in Ids, op \in {"ref", "unref"} : Load(t, i, op)
        \/ \E u \in Threads, i \in Ids : Give(t, u, i)
  BY DEF Next, MakeStep, ReadStep
<1>2. MakeStep(t) => Notes
  BY DEF MakeStep, New, NewReply, Copy
<1>3. ReadStep(t) => Notes
  BY DEF ReadStep, Get, Compare, Use, EndRead
<1>4. Store(t) \/ StoreRef(t) \/ StoreUnref(t) => Notes
  BY DEF Store, StoreRef, StoreUnref
<1>5. (\E f \in Fields, src \in Blocks \cup {NULL, Outside} : Fill(t, f, src)) => Notes
  BY DEF Fill
<1>6. (\E i \in Ids, f \in Fields, src \in Sources : SetStr(t, i, f, src)) => Notes
  BY DEF SetStr
<1>7. (\E i \in Ids, op \in {"ref", "unref"} : Load(t, i, op)) => Notes
  BY DEF Load
<1>8. (\E u \in Threads, i \in Ids : Give(t, u, i)) => Notes
  BY DEF Give
<1> QED
  BY <1>1, <1>2, <1>3, <1>4, <1>5, <1>6, <1>7, <1>8

LEMMA TypedStep ==
  ASSUME Typed, Next
  PROVE  Typed'
<1>1. PICK t \in Threads :
        \/ MakeStep(t) \/ ReadStep(t) \/ Store(t) \/ StoreRef(t) \/ StoreUnref(t)
        \/ \E f \in Fields, src \in Blocks \cup {NULL, Outside} : Fill(t, f, src)
        \/ \E i \in Ids, f \in Fields, src \in Sources : SetStr(t, i, f, src)
        \/ \E i \in Ids, op \in {"ref", "unref"} : Load(t, i, op)
        \/ \E u \in Threads, i \in Ids : Give(t, u, i)
  BY Cases
<1>2. clashed' \in BOOLEAN
  <2>1. clashed' = (clashed \/ Clashing')
    BY Cases DEF Notes
  <2> QED
    BY <2>1
<1>3. CASE MakeStep(t)
  <2>1. PICK i \in Ids, from \in Ids \cup {NULL}, left \in SUBSET Fields : Make(t, i, from, left)
    BY <1>3, MakeStepEffect
  <2> QED
    BY <1>2, <1>3, <2>1, MakeStepEffect, MakeEffect DEF Typed
<1>4. CASE ReadStep(t)
  BY <1>2, <1>4, ReadEffect DEF Typed
<1>5. CASE Store(t)
  <2>1. harm' \in BOOLEAN
    BY <1>5, StoreEffect DEF Dangles
  <2> QED
    BY <1>2, <1>5, <2>1, StoreEffect DEF Typed
<1>6. CASE StoreRef(t)
  <2>1. harm' \in BOOLEAN
    BY <1>6, StoreRefEffect
  <2> QED
    BY <1>2, <1>6, <2>1, StoreRefEffect DEF Typed
<1>7. CASE StoreUnref(t)
  <2>1. harm' \in BOOLEAN
    BY <1>7, StoreUnrefEffect DEF Dangles
  <2> QED
    BY <1>2, <1>7, <2>1, StoreUnrefEffect DEF Typed
<1>8. CASE \E f \in Fields, src \in Blocks \cup {NULL, Outside} : Fill(t, f, src)
  <2>1. harm' \in BOOLEAN
    BY <1>8, FillEffect
  <2> QED
    BY <1>2, <1>8, <2>1, FillEffect DEF Typed
<1>9. CASE \E i \in Ids, f \in Fields, src \in Sources : SetStr(t, i, f, src)
  <2>1. harm' \in BOOLEAN
    BY <1>9, SetStrEffect DEF Dangles
  <2> QED
    BY <1>2, <1>9, <2>1, SetStrEffect DEF Typed
<1>10. CASE \E i \in Ids, op \in {"ref", "unref"} : Load(t, i, op)
  <2>1. harm' \in BOOLEAN
    BY <1>10, LoadEffect
  <2> QED
    BY <1>2, <1>10, <2>1, LoadEffect DEF Typed
<1>11. CASE \E u \in Threads, i \in Ids : Give(t, u, i)
  BY <1>2, <1>11, GiveEffect DEF Typed
<1> QED
  BY <1>1, <1>3, <1>4, <1>5, <1>6, <1>7, <1>8, <1>9, <1>10, <1>11

------------------------------------------------------------------------------
(* The set of references, where the numbers of one thread change.            *)
LEMMA SameReferences ==
  ASSUME NEW i, \A t \in Threads : NumbersOf(t, i)' = NumbersOf(t, i)
  PROVE  References(i)' = References(i)
  BY DEF References

LEMMA InReferences ==
  ASSUME NEW i, NEW t \in Threads, NEW n
  PROVE  <<t, n>> \in References(i) <=> n \in NumbersOf(t, i)
  BY DEF References

LEMMA OneGained ==
  ASSUME NEW i, NEW t \in Threads, NEW n, n \notin NumbersOf(t, i),
         NumbersOf(t, i)' = NumbersOf(t, i) \cup {n},
         \A u \in Threads \ {t} : NumbersOf(u, i)' = NumbersOf(u, i)
  PROVE  /\ References(i)' = References(i) \cup {<<t, n>>}
         /\ <<t, n>> \notin References(i)
<1>1. \A r : r \in References(i)' <=> \E u \in Threads : \E k \in NumbersOf(u, i)' : r = <<u, k>>
  BY DEF References
<1>2. \A r : r \in References(i) <=> \E u \in Threads : \E k \in NumbersOf(u, i) : r = <<u, k>>
  BY DEF References
<1> QED
  BY <1>1, <1>2

LEMMA OneDropped ==
  ASSUME NEW i, NEW t \in Threads, NEW n, n \in NumbersOf(t, i),
         NumbersOf(t, i)' = NumbersOf(t, i) \ {n},
         \A u \in Threads \ {t} : NumbersOf(u, i)' = NumbersOf(u, i)
  PROVE  /\ References(i)' = References(i) \ {<<t, n>>}
         /\ <<t, n>> \in References(i)
<1>1. \A r : r \in References(i)' <=> \E u \in Threads : \E k \in NumbersOf(u, i)' : r = <<u, k>>
  BY DEF References
<1>2. \A r : r \in References(i) <=> \E u \in Threads : \E k \in NumbersOf(u, i) : r = <<u, k>>
  BY DEF References
<1> QED
  BY <1>1, <1>2

(* A reference that changes hands, or is about to be given up.               *)
LEMMA OneMoved ==
  ASSUME NEW S, NEW T, IsFiniteSet(S), NEW x \in S, NEW y, y \notin S, T = (S \ {x}) \cup {y}
  PROVE  IsFiniteSet(T) /\ Cardinality(T) = Cardinality(S) /\ T # {} /\ S # {}
<1>1. IsFiniteSet(S \ {x}) /\ Cardinality(S \ {x}) = Cardinality(S) - 1
  BY FS_RemoveElement
<1>2. IsFiniteSet(T) /\ Cardinality(T) = (Cardinality(S) - 1) + 1
  BY <1>1, FS_AddElement
<1>3. Cardinality(S) \in Nat
  BY FS_CardinalityType
<1> QED
  BY <1>2, <1>3

(* A message whose count and references stay keeps its books.                *)
LEMMA CountStays ==
  ASSUME NEW i, Counted(i), msg'[i].live = msg[i].live, msg'[i].refcount = msg[i].refcount,
         \A t \in Threads : NumbersOf(t, i)' = NumbersOf(t, i)
  PROVE  Counted(i)'
  BY SameReferences DEF Counted

------------------------------------------------------------------------------
(* One reference goes and another comes, of one thread or of two.            *)
LEMMA Replaced ==
  ASSUME NEW i, NEW t \in Threads, NEW u \in Threads, NEW m, NEW n,
         m \in NumbersOf(t, i), n \notin NumbersOf(u, i),
         \A v \in Threads : NumbersOf(v, i)' = (IF v = t THEN NumbersOf(v, i) \ {m} ELSE NumbersOf(v, i))
                                               \cup (IF v = u THEN {n} ELSE {})
  PROVE  /\ References(i)' = (References(i) \ {<<t, m>>}) \cup {<<u, n>>}
         /\ <<t, m>> \in References(i) /\ <<u, n>> \notin References(i)
<1>1. \A r : r \in References(i)' <=> \E v \in Threads : \E k \in NumbersOf(v, i)' : r = <<v, k>>
  BY DEF References
<1>2. \A r : r \in References(i) <=> \E v \in Threads : \E k \in NumbersOf(v, i) : r = <<v, k>>
  BY DEF References
<1>3. \A v \in Threads : \A k : k \in NumbersOf(v, i)' <=>
         (k \in NumbersOf(v, i) /\ ~(v = t /\ k = m)) \/ (v = u /\ k = n)
  OBVIOUS
<1>4. <<t, m>> \in References(i) /\ <<u, n>> \notin References(i)
  BY <1>2
<1>5. \A r : r \in References(i)' <=> (r \in References(i) /\ r # <<t, m>>) \/ r = <<u, n>>
  BY <1>1, <1>2, <1>3
<1> QED
  BY <1>4, <1>5

LEMMA CountMoves ==
  ASSUME NEW i, Counted(i), msg'[i].live = msg[i].live, msg'[i].refcount = msg[i].refcount,
         NEW x \in References(i), NEW y, y \notin References(i),
         References(i)' = (References(i) \ {x}) \cup {y}
  PROVE  Counted(i)'
<1>1. IsFiniteSet(References(i))
  BY DEF Counted
<1>2. /\ IsFiniteSet(References(i)') /\ Cardinality(References(i)') = Cardinality(References(i))
      /\ References(i)' # {} /\ References(i) # {}
  BY <1>1, OneMoved
<1> QED
  BY <1>2 DEF Counted

LEMMA CountGrows ==
  ASSUME NEW i, Counted(i), msg'[i].live = msg[i].live, msg[i].live, msg'[i].refcount = msg[i].refcount + 1,
         NEW y, y \notin References(i), References(i)' = References(i) \cup {y}
  PROVE  Counted(i)'
<1>1. IsFiniteSet(References(i)) /\ msg[i].refcount = Cardinality(References(i))
  BY DEF Counted
<1>2. IsFiniteSet(References(i)') /\ Cardinality(References(i)') = Cardinality(References(i)) + 1
  BY <1>1, FS_AddElement
<1> QED
  BY <1>1, <1>2 DEF Counted

(* The message is freed exactly when its last reference goes.                *)
LEMMA CountShrinks ==
  ASSUME NEW i, Counted(i), msg[i].live, NEW x \in References(i), References(i)' = References(i) \ {x},
         msg'[i].refcount = msg[i].refcount - 1, msg'[i].live \in BOOLEAN,
         msg'[i].live <=> ~LastReference(msg'[i].refcount)
  PROVE  Counted(i)'
<1>1. IsFiniteSet(References(i)) /\ msg[i].refcount = Cardinality(References(i))
  BY DEF Counted
<1>2. IsFiniteSet(References(i)') /\ Cardinality(References(i)') = Cardinality(References(i)) - 1
  BY <1>1, FS_RemoveElement
<1>3. /\ Cardinality(References(i)') \in Nat
      /\ Cardinality(References(i)') = 0 <=> References(i)' = {}
  BY <1>2, FS_CardinalityType, FS_EmptySet
<1>4. msg'[i].refcount = Cardinality(References(i)')
  BY <1>1, <1>2
<1>5. LastReference(msg'[i].refcount) <=> References(i)' = {}
  BY <1>3, <1>4 DEF LastReference
<1> QED
  BY <1>2, <1>4, <1>5 DEF Counted

(* Whoever has a reference, or gives one up, has a message.                  *)
LEMMA HolderIsServed ==
  ASSUME Typed, CountsAgree, NEW t \in Threads, NEW i \in Ids, held[t][i] > 0
  PROVE  msg[i].live
<1>1. held[t][i] \in NumbersOf(t, i)
  BY Parts DEF NumbersOf
<1>2. References(i) # {}
  BY <1>1, InReferences
<1> QED
  BY <1>2 DEF CountsAgree, Counted

(* What a thread in the middle of counting knows.                            *)
LEMMA CounterKnows ==
  ASSUME Typed, CountsAgree, NEW t \in Threads, Counts(t)
  PROVE  /\ pc[t].id \in Ids /\ msg[pc[t].id].live
         /\ pc[t].count = msg[pc[t].id].refcount
         /\ \A u \in Threads \ {t} : Counts(u) => pc[u].id \in Ids \ {pc[t].id}
<1>1. \A u \in Threads : Counts(u) => pc[u].id \in Ids
  BY Where DEF Counts, Shaped
<1>2. CASE pc[t].at = "ref"
  BY <1>1, <1>2, HolderIsServed DEF CountsAgree, Alone
<1>3. CASE pc[t].at = "unref"
  <2>1. 0 \in NumbersOf(t, pc[t].id)
    BY <1>1, <1>3, Parts DEF NumbersOf, Releasing
  <2>2. References(pc[t].id) # {}
    BY <2>1, InReferences
  <2> QED
    BY <1>1, <2>2 DEF CountsAgree, Counted, Alone
<1> QED
  BY <1>1, <1>2, <1>3 DEF Counts, CountsAgree, Alone

(* A step that neither counts nor moves a reference.                         *)
LEMMA CountsStay ==
  ASSUME Typed, CountsAgree, NEW t \in Threads, ~Counts(t), pc'[t].at \notin {"ref", "unref"},
         \A u \in Threads \ {t} : pc'[u] = pc[u],
         \A j \in Ids : msg'[j].live = msg[j].live /\ msg'[j].refcount = msg[j].refcount,
         held' = held
  PROVE  CountsAgree'
<1>1. \A u \in Threads : Counts(u)' <=> Counts(u)
  BY DEF Counts
<1>2. \A u \in Threads : Counts(u) => pc'[u] = pc[u] /\ pc[u].id \in Ids
  BY Where DEF Counts, Shaped
<1>3. ASSUME NEW u \in Threads PROVE Alone(u)'
  <2>1. Alone(u)
    BY DEF CountsAgree
  <2> QED
    BY <1>1, <1>2, <2>1 DEF Alone
<1>4. ASSUME NEW j \in Ids PROVE Counted(j)'
  <2>1. \A u \in Threads : Releasing(u, j)' <=> Releasing(u, j)
    BY DEF Releasing, Counts
  <2>2. \A u \in Threads : NumbersOf(u, j)' = NumbersOf(u, j)
    BY <2>1 DEF NumbersOf
  <2> QED
    BY <2>2, CountStays DEF CountsAgree
<1> QED
  BY <1>3, <1>4 DEF CountsAgree

(* A new message has its one reference: nobody has one left on what was      *)
(* there before.                                                             *)
LEMMA MakeCounts ==
  ASSUME Typed, CountsAgree, NEW t \in Threads, pc[t].at = "idle", NEW i \in Ids,
         NEW from \in Ids \cup {NULL}, NEW left \in SUBSET Fields, Make(t, i, from, left)
  PROVE  CountsAgree'
<1>1. /\ ~msg[i].live /\ msg'[i].live = TRUE /\ msg'[i].refcount = 1
      /\ \A j \in Ids \ {i} : msg'[j] = msg[j]
      /\ held'[t][i] = held[t][i] + 1
      /\ \A u \in Threads, j \in Ids : u # t \/ j # i => held'[u][j] = held[u][j]
      /\ \A u \in Threads \ {t} : pc'[u] = pc[u]
      /\ pc'[t].at \in {"idle", "build"}
  <2>1. ~msg[i].live /\ msg'[i].live = TRUE /\ msg'[i].refcount = 1 /\ pc'[t].at \in {"idle", "build"}
    BY MakeEffect
  <2>2. \A j \in Ids \ {i} : msg'[j] = msg[j]
    BY DEF Make, Typed
  <2>3. /\ held'[t][i] = held[t][i] + 1
        /\ \A u \in Threads, j \in Ids : u # t \/ j # i => held'[u][j] = held[u][j]
    BY DEF Make, Typed
  <2>4. \A u \in Threads \ {t} : pc'[u] = pc[u]
    BY DEF Make, Typed
  <2> QED
    BY <2>1, <2>2, <2>3, <2>4
<1>2. ASSUME NEW u \in Threads
      PROVE  /\ Counts(u)' <=> Counts(u)
             /\ Counts(u) => pc'[u] = pc[u] /\ pc[u].id \in Ids \ {i} /\ u # t
  <2>1. ~Counts(t) /\ ~Counts(t)'
    BY <1>1 DEF Counts
  <2>2. u # t => pc'[u] = pc[u] /\ (Counts(u)' <=> Counts(u))
    BY <1>1 DEF Counts
  <2>3. Counts(u) => pc[u].id \in Ids \ {i}
    BY <1>1, CounterKnows
  <2> QED
    BY <2>1, <2>2, <2>3
<1>3. ASSUME NEW u \in Threads PROVE Alone(u)'
  <2>1. Alone(u)
    BY DEF CountsAgree
  <2> QED
    BY <1>1, <1>2, <2>1 DEF Alone
<1>4. \A u \in Threads, j \in Ids : Releasing(u, j)' <=> Releasing(u, j)
  BY <1>1 DEF Releasing
<1>5. ASSUME NEW j \in Ids \ {i} PROVE Counted(j)'
  <2>1. \A u \in Threads : NumbersOf(u, j)' = NumbersOf(u, j)
    BY <1>1, <1>4 DEF NumbersOf
  <2> QED
    BY <1>1, <2>1, CountStays DEF CountsAgree
<1>6. Counted(i)'
  <2>1. References(i) = {}
    BY <1>1 DEF CountsAgree, Counted
  <2>2. ~Releasing(t, i) /\ held[t][i] \in Nat
    BY Parts DEF Releasing
  <2>3. held[t][i] = 0
    <3>1. ~(held[t][i] \in NumbersOf(t, i))
      BY <2>1, InReferences
    <3> QED
      BY <2>2, <3>1 DEF NumbersOf
  <2>4. PICK n : n \notin NumbersOf(t, i) /\ NumbersOf(t, i)' = NumbersOf(t, i) \cup {n}
    <3>1. NumbersOf(t, i) = 1..0 /\ NumbersOf(t, i)' = 1..1
      BY <1>1, <1>4, <2>2, <2>3 DEF NumbersOf
    <3>2. 1 \notin NumbersOf(t, i) /\ NumbersOf(t, i)' = NumbersOf(t, i) \cup {1}
      BY <3>1
    <3> QED
      BY <3>2
  <2>5. \A u \in Threads \ {t} : NumbersOf(u, i)' = NumbersOf(u, i)
    BY <1>1, <1>4 DEF NumbersOf
  <2>6. References(i)' = References(i) \cup {<<t, n>>}
    BY <2>4, <2>5, OneGained
  <2>7. References(i)' = {<<t, n>>}
    BY <2>1, <2>6
  <2>8. IsFiniteSet({<<t, n>>}) /\ Cardinality({<<t, n>>}) = 1 /\ {<<t, n>>} # {}
    BY FS_Singleton
  <2> QED
    BY <1>1, <2>7, <2>8 DEF Counted
<1> QED
  BY <1>3, <1>5, <1>6 DEF CountsAgree

LEMMA LoadCounts ==
  ASSUME Typed, CountsAgree, NEW t \in Threads, NEW i \in Ids, NEW op \in {"ref", "unref"}, Load(t, i, op),
         ~raced'
  PROVE  CountsAgree'
<1>1. /\ pc[t].at = "idle" /\ held[t][i] > 0
      /\ \A u \in Threads \ {t} : pc'[u] = pc[u]
      /\ pc'[t].at = op /\ pc'[t].id = i /\ pc'[t].count = msg[i].refcount
      /\ held'[t][i] = IF op = "unref" THEN held[t][i] - 1 ELSE held[t][i]
      /\ \A u \in Threads, j \in Ids : u # t \/ j # i => held'[u][j] = held[u][j]
      /\ ~Counting(t, i) /\ msg' = msg
  BY LoadEffect
<1>2. held[t][i] \in Nat
  BY Parts
<1>3. \A u \in Threads \ {t} : Counts(u) => pc[u].id \in Ids \ {i}
  BY <1>1, Where DEF Counts, Counting, Shaped
<1>4. Counts(t)' /\ \A u \in Threads \ {t} : Counts(u)' <=> Counts(u)
  BY <1>1 DEF Counts
<1>5. ASSUME NEW u \in Threads PROVE Alone(u)'
  <2>1. CASE u = t
    BY <1>1, <1>2, <1>3, <1>4, <2>1 DEF Alone
  <2>2. CASE u # t
    <3>1. Counts(u) => held'[u][pc[u].id] = held[u][pc[u].id]
      BY <1>1, <1>3, <2>2
    <3> QED
      BY <1>1, <1>3, <1>4, <2>2, <3>1 DEF CountsAgree, Alone
  <2> QED
    BY <2>1, <2>2
<1>6. \A u \in Threads \ {t}, j \in Ids : NumbersOf(u, j)' = NumbersOf(u, j)
  BY <1>1 DEF NumbersOf, Releasing
<1>7. \A j \in Ids : ~Releasing(t, j) /\ (Releasing(t, j)' <=> op = "unref" /\ j = i)
  BY <1>1 DEF Releasing
<1>8. ASSUME NEW j \in Ids, j # i \/ op = "ref" PROVE Counted(j)'
  <2>1. NumbersOf(t, j)' = NumbersOf(t, j)
    BY <1>1, <1>7, <1>8 DEF NumbersOf
  <2> QED
    BY <1>1, <1>6, <2>1, CountStays DEF CountsAgree
<1>9. ASSUME op = "unref" PROVE Counted(i)'
  <2>1. PICK m, n : m \in NumbersOf(t, i) /\ n \notin NumbersOf(t, i)
                    /\ NumbersOf(t, i)' = (NumbersOf(t, i) \ {m}) \cup {n}
    <3>1. NumbersOf(t, i) = 1..held[t][i] /\ NumbersOf(t, i)' = 0..(held[t][i] - 1)
      BY <1>1, <1>7, <1>9 DEF NumbersOf
    <3>2. /\ held[t][i] \in NumbersOf(t, i) /\ 0 \notin NumbersOf(t, i)
          /\ NumbersOf(t, i)' = (NumbersOf(t, i) \ {held[t][i]}) \cup {0}
      BY <1>1, <1>2, <3>1
    <3> QED
      BY <3>2
  <2>2. \A v \in Threads : NumbersOf(v, i)' = (IF v = t THEN NumbersOf(v, i) \ {m} ELSE NumbersOf(v, i))
                                              \cup (IF v = t THEN {n} ELSE {})
    BY <1>6, <2>1
  <2>3. /\ References(i)' = (References(i) \ {<<t, m>>}) \cup {<<t, n>>}
        /\ <<t, m>> \in References(i) /\ <<t, n>> \notin References(i)
    BY <2>1, <2>2, Replaced
  <2> QED
    BY <1>1, <2>3, CountMoves DEF CountsAgree
<1> QED
  BY <1>5, <1>8, <1>9 DEF CountsAgree

LEMMA StoreRefCounts ==
  ASSUME Typed, CountsAgree, NEW t \in Threads, StoreRef(t)
  PROVE  CountsAgree'
<1>1. PICK i : i = pc[t].id
  OBVIOUS
<1>2. /\ pc[t].at = "ref" /\ pc'[t] = Idle /\ \A u \in Threads \ {t} : pc'[u] = pc[u]
      /\ msg'[i].refcount = pc[t].count + 1
      /\ \A j \in Ids : msg'[j].live = msg[j].live
      /\ \A j \in Ids \ {i} : msg'[j] = msg[j]
      /\ held'[t][i] = held[t][i] + 1
      /\ \A u \in Threads, j \in Ids : u # t \/ j # i => held'[u][j] = held[u][j]
  BY <1>1, StoreRefEffect
<1>3. Counts(t)
  BY <1>2 DEF Counts
<1>4. /\ i \in Ids /\ msg[i].live /\ pc[t].count = msg[i].refcount
      /\ \A u \in Threads \ {t} : Counts(u) => pc[u].id \in Ids \ {i}
  BY <1>1, <1>3, CounterKnows
<1>5. held[t][i] \in Nat
  BY <1>4, Parts
<1>6. ~Counts(t)' /\ \A u \in Threads \ {t} : Counts(u)' <=> Counts(u)
  BY <1>2, IdleIsShaped DEF Counts
<1>7. ASSUME NEW u \in Threads PROVE Alone(u)'
  <2>1. CASE u = t
    BY <1>6, <2>1 DEF Alone
  <2>2. CASE u # t
    <3>1. Counts(u) => held'[u][pc[u].id] = held[u][pc[u].id] /\ msg'[pc[u].id] = msg[pc[u].id]
      BY <1>2, <1>4, <2>2
    <3> QED
      BY <1>2, <1>4, <1>6, <2>2, <3>1 DEF CountsAgree, Alone
  <2> QED
    BY <2>1, <2>2
<1>8. \A u \in Threads \ {t}, j \in Ids : NumbersOf(u, j)' = NumbersOf(u, j)
  BY <1>2 DEF NumbersOf, Releasing
<1>9. \A j \in Ids : ~Releasing(t, j) /\ ~Releasing(t, j)'
  BY <1>2, IdleIsShaped DEF Releasing
<1>10. ASSUME NEW j \in Ids, j # i PROVE Counted(j)'
  <2>1. NumbersOf(t, j)' = NumbersOf(t, j)
    BY <1>2, <1>9, <1>10 DEF NumbersOf
  <2> QED
    BY <1>2, <1>8, <1>10, <2>1, CountStays DEF CountsAgree
<1>11. Counted(i)'
  <2>1. PICK n : n \notin NumbersOf(t, i) /\ NumbersOf(t, i)' = NumbersOf(t, i) \cup {n}
    <3>1. NumbersOf(t, i) = 1..held[t][i] /\ NumbersOf(t, i)' = 1..(held[t][i] + 1)
      BY <1>2, <1>4, <1>9 DEF NumbersOf
    <3>2. /\ held[t][i] + 1 \notin NumbersOf(t, i)
          /\ NumbersOf(t, i)' = NumbersOf(t, i) \cup {held[t][i] + 1}
      BY <1>5, <3>1
    <3> QED
      BY <3>2
  <2>2. References(i)' = References(i) \cup {<<t, n>>} /\ <<t, n>> \notin References(i)
    BY <1>4, <1>8, <2>1, OneGained
  <2> QED
    BY <1>2, <1>4, <2>2, CountGrows DEF CountsAgree
<1> QED
  BY <1>7, <1>10, <1>11 DEF CountsAgree

LEMMA StoreUnrefCounts ==
  ASSUME Typed, CountsAgree, NEW t \in Threads, StoreUnref(t)
  PROVE  CountsAgree'
<1>1. PICK i, count : i = pc[t].id /\ count = pc[t].count - 1
  OBVIOUS
<1>2. /\ pc[t].at = "unref" /\ pc'[t] = Idle /\ \A u \in Threads \ {t} : pc'[u] = pc[u]
      /\ msg'[i].refcount = count
      /\ \A j \in Ids \ {i} : msg'[j] = msg[j]
      /\ held' = held
      /\ \/ ~LastReference(count) /\ msg'[i].live = msg[i].live
         \/ LastReference(count) /\ msg'[i].live = FALSE
  BY <1>1, StoreUnrefEffect
<1>3. Counts(t)
  BY <1>2 DEF Counts
<1>4. /\ i \in Ids /\ msg[i].live /\ pc[t].count = msg[i].refcount
      /\ \A u \in Threads \ {t} : Counts(u) => pc[u].id \in Ids \ {i}
  BY <1>1, <1>3, CounterKnows
<1>5. held[t][i] \in Nat /\ msg[i].live \in BOOLEAN
  BY <1>4, Parts
<1>6. ~Counts(t)' /\ \A u \in Threads \ {t} : Counts(u)' <=> Counts(u)
  BY <1>2, IdleIsShaped DEF Counts
<1>7. ASSUME NEW u \in Threads PROVE Alone(u)'
  <2>1. CASE u = t
    BY <1>6, <2>1 DEF Alone
  <2>2. CASE u # t
    <3>1. Counts(u) => msg'[pc[u].id] = msg[pc[u].id]
      BY <1>2, <1>4, <2>2
    <3> QED
      BY <1>2, <1>4, <1>6, <2>2, <3>1 DEF CountsAgree, Alone
  <2> QED
    BY <2>1, <2>2
<1>8. \A u \in Threads \ {t}, j \in Ids : NumbersOf(u, j)' = NumbersOf(u, j)
  BY <1>2 DEF NumbersOf, Releasing
<1>9. \A j \in Ids : (Releasing(t, j) <=> j = i) /\ ~Releasing(t, j)'
  BY <1>1, <1>2, IdleIsShaped DEF Releasing
<1>10. ASSUME NEW j \in Ids, j # i PROVE Counted(j)'
  <2>1. NumbersOf(t, j)' = NumbersOf(t, j)
    BY <1>2, <1>9, <1>10 DEF NumbersOf
  <2> QED
    BY <1>2, <1>8, <1>10, <2>1, CountStays DEF CountsAgree
<1>11. Counted(i)'
  <2>1. PICK n : n \in NumbersOf(t, i) /\ NumbersOf(t, i)' = NumbersOf(t, i) \ {n}
    <3>1. NumbersOf(t, i) = 0..held[t][i] /\ NumbersOf(t, i)' = 1..held[t][i]
      BY <1>2, <1>4, <1>9 DEF NumbersOf
    <3>2. 0 \in NumbersOf(t, i) /\ NumbersOf(t, i)' = NumbersOf(t, i) \ {0}
      BY <1>5, <3>1
    <3> QED
      BY <3>2
  <2>2. References(i)' = References(i) \ {<<t, n>>} /\ <<t, n>> \in References(i)
    BY <1>4, <1>8, <2>1, OneDropped
  <2>3. msg'[i].refcount = msg[i].refcount - 1 /\ msg'[i].live \in BOOLEAN
        /\ (msg'[i].live <=> ~LastReference(msg'[i].refcount))
    BY <1>1, <1>2, <1>4, <1>5
  <2> QED
    BY <1>4, <2>2, <2>3, CountShrinks DEF CountsAgree
<1> QED
  BY <1>7, <1>10, <1>11 DEF CountsAgree

LEMMA GiveCounts ==
  ASSUME Typed, CountsAgree, NEW t \in Threads, NEW u \in Threads, NEW i \in Ids, Give(t, u, i)
  PROVE  CountsAgree'
<1>1. /\ t # u /\ pc[t].at = "idle" /\ held[t][i] > 0
      /\ held'[t][i] = held[t][i] - 1 /\ held'[u][i] = held[u][i] + 1
      /\ \A v \in Threads, j \in Ids : v \notin {t, u} \/ j # i => held'[v][j] = held[v][j]
      /\ msg' = msg /\ pc' = pc
  BY GiveEffect
<1>2. held[t][i] \in Nat /\ held[u][i] \in Nat
  BY Parts
<1>3. \A v \in Threads : Counts(v)' <=> Counts(v)
  BY <1>1 DEF Counts
<1>4. ASSUME NEW v \in Threads PROVE Alone(v)'
  <2>1. CASE v = t
    BY <1>1, <1>3, <2>1 DEF Alone, Counts
  <2>2. CASE v # t
    <3>1. ASSUME Counts(v) PROVE held[v][pc[v].id] > 0 => held'[v][pc[v].id] > 0
      <4>1. pc[v].id \in Ids /\ held[v][pc[v].id] \in Nat
        BY <3>1, Where, Parts DEF Counts, Shaped
      <4>2. held'[v][pc[v].id] \in {held[v][pc[v].id], held[v][pc[v].id] + 1}
        BY <1>1, <2>2, <4>1
      <4> QED
        BY <4>1, <4>2
    <3> QED
      BY <1>1, <1>3, <3>1 DEF CountsAgree, Alone
  <2> QED
    BY <2>1, <2>2
<1>5. \A v \in Threads, j \in Ids : Releasing(v, j)' <=> Releasing(v, j)
  BY <1>1 DEF Releasing
<1>6. \A v \in Threads, j \in Ids : v \notin {t, u} \/ j # i => NumbersOf(v, j)' = NumbersOf(v, j)
  BY <1>1, <1>5 DEF NumbersOf
<1>7. \A j \in Ids \ {i} : Counted(j)'
  BY <1>1, <1>6, CountStays DEF CountsAgree
<1>8. Counted(i)'
  <2>1. PICK m : m \in NumbersOf(t, i) /\ NumbersOf(t, i)' = NumbersOf(t, i) \ {m}
    <3>1. ~Releasing(t, i) /\ ~Releasing(t, i)'
      BY <1>1, <1>5 DEF Releasing
    <3>2. NumbersOf(t, i) = 1..held[t][i] /\ NumbersOf(t, i)' = 1..(held[t][i] - 1)
      BY <1>1, <3>1 DEF NumbersOf
    <3>3. held[t][i] \in NumbersOf(t, i) /\ NumbersOf(t, i)' = NumbersOf(t, i) \ {held[t][i]}
      BY <1>1, <1>2, <3>2
    <3> QED
      BY <3>3
  <2>2. PICK n : n \notin NumbersOf(u, i) /\ NumbersOf(u, i)' = NumbersOf(u, i) \cup {n}
    <3>1. PICK low \in {0, 1} : /\ NumbersOf(u, i) = low..held[u][i]
                                /\ NumbersOf(u, i)' = low..(held[u][i] + 1)
      BY <1>1, <1>5 DEF NumbersOf
    <3>2. /\ held[u][i] + 1 \notin NumbersOf(u, i)
          /\ NumbersOf(u, i)' = NumbersOf(u, i) \cup {held[u][i] + 1}
      BY <1>2, <3>1
    <3> QED
      BY <3>2
  <2>3. \A v \in Threads : NumbersOf(v, i)' = (IF v = t THEN NumbersOf(v, i) \ {m} ELSE NumbersOf(v, i))
                                              \cup (IF v = u THEN {n} ELSE {})
    BY <1>1, <1>6, <2>1, <2>2
  <2>4. /\ References(i)' = (References(i) \ {<<t, m>>}) \cup {<<u, n>>}
        /\ <<t, m>> \in References(i) /\ <<u, n>> \notin References(i)
    BY <2>1, <2>2, <2>3, Replaced
  <2> QED
    BY <1>1, <2>4, CountMoves DEF CountsAgree
<1> QED
  BY <1>4, <1>7, <1>8 DEF CountsAgree

(* Counts and references agree after each step, unless it is a race.         *)
LEMMA CountsStep ==
  ASSUME Typed, CountsAgree, Next, ~raced'
  PROVE  CountsAgree'
<1>1. PICK t \in Threads :
        \/ MakeStep(t) \/ ReadStep(t) \/ Store(t) \/ StoreRef(t) \/ StoreUnref(t)
        \/ \E f \in Fields, src \in Blocks \cup {NULL, Outside} : Fill(t, f, src)
        \/ \E i \in Ids, f \in Fields, src \in Sources : SetStr(t, i, f, src)
        \/ \E i \in Ids, op \in {"ref", "unref"} : Load(t, i, op)
        \/ \E u \in Threads, i \in Ids : Give(t, u, i)
  BY Cases
<1>2. CASE MakeStep(t)
  BY <1>2, MakeStepEffect, MakeCounts
<1>3. CASE ReadStep(t)
  BY <1>3, ReadEffect, CountsStay DEF Counts
<1>4. CASE Store(t)
  BY <1>4, StoreEffect, CountsStay DEF Counts
<1>5. CASE \E f \in Fields, src \in Blocks \cup {NULL, Outside} : Fill(t, f, src)
  BY <1>5, FillEffect, CountsStay DEF Counts
<1>6. CASE \E i \in Ids, f \in Fields, src \in Sources : SetStr(t, i, f, src)
  BY <1>6, SetStrEffect, CountsStay DEF Counts
<1> QED
  BY <1>1, <1>2, <1>3, <1>4, <1>5, <1>6, StoreRefCounts, StoreUnrefCounts, LoadCounts, GiveCounts

------------------------------------------------------------------------------
(* The strings. Who keeps the rules has allocated strings to read, and a     *)
(* field that it sets to itself.                                             *)
LEMMA CurrentIsAllocated ==
  ASSUME Allocated, ~Clashing, NEW t \in Threads, pc[t].src \in Blocks
  PROVE  pc[t].src \in heap
<1>1. PICK i \in Ids, f \in Fields : msg[i].ptr[f] = pc[t].src /\ Settled(i, f)
  BY DEF Clashing, Current
<1>2. msg[i].ptr[f] # NULL
  BY <1>1, Apart
<1> QED
  BY <1>1, <1>2 DEF Allocated

LEMMA OneSetter ==
  ASSUME ~Clashing, NEW t \in Threads, NEW u \in Threads \ {t}, pc[t].at = "set"
  PROVE  ~Setting(u, pc[t].id, pc[t].field)
  BY DEF Clashing

(* A message that is being made is out of the other threads' reach.          *)
LEMMA OutOfReach ==
  ASSUME NEW t \in Threads, Refers(t), pc[t].at \in {"build", "set"}, pc[t].left # {},
         NEW u \in Threads, NEW j, held[u][j] > 0, u # t
  PROVE  j # pc[t].id
  BY DEF Refers, Private

LEMMA OwnersStay ==
  ASSUME Owners, heap' = heap,
         \A j \in Ids, f \in Fields : msg'[j].ptr[f] = msg[j].ptr[f],
         \A j \in Ids : msg[j].live => msg'[j].live,
         \A j \in Ids, f \in Fields : Settled(j, f)' <=> Settled(j, f)
  PROVE  Owners'
<1>1. Allocated'
  BY DEF Owners, Allocated
<1>2. Reachable'
  BY DEF Owners, Reachable
<1>3. OneEach'
  BY DEF Owners, OneEach
<1>4. Emptied'
  BY DEF Owners, Emptied
<1> QED
  BY <1>1, <1>2, <1>3, <1>4 DEF Owners

LEMMA SettledStays ==
  ASSUME NEW t \in Threads, pc[t].at # "set", pc'[t].at # "set", \A u \in Threads \ {t} : pc'[u] = pc[u]
  PROVE  \A j, f : Settled(j, f)' <=> Settled(j, f)
<1>1. \A u \in Threads : \A j, f : Setting(u, j, f)' <=> Setting(u, j, f)
  BY DEF Setting
<1> QED
  BY <1>1 DEF Settled

(* The free of a setter takes its string out, and its field.                 *)
LEMMA SetterFrees ==
  ASSUME Owners, NEW i \in Ids, NEW f \in Fields, Settled(i, f), heap' = heap \ {msg[i].ptr[f]}, msg' = msg,
         NULL \notin heap,
         \A j \in Ids, g \in Fields : Settled(j, g)' <=> Settled(j, g) /\ (j # i \/ g # f)
  PROVE  Owners'
<1>1. Allocated'
  BY DEF Owners, Allocated, OneEach
<1>2. Reachable'
  BY DEF Owners, Reachable
<1>3. OneEach'
  BY DEF Owners, OneEach
<1>4. Emptied'
  BY DEF Owners, Emptied
<1> QED
  BY <1>1, <1>2, <1>3, <1>4 DEF Owners

(* Its store puts a string in that nobody has, and the field.                *)
LEMMA SetterStores ==
  ASSUME Owners, NEW i \in Ids, NEW f \in Fields, NEW new, new \notin heap, heap' = heap \cup ({new} \ {NULL}),
         msg[i].live, \A j \in Ids : msg'[j].live = msg[j].live,
         msg'[i].ptr[f] = new,
         \A j \in Ids, g \in Fields : j # i \/ g # f => msg'[j].ptr[g] = msg[j].ptr[g],
         \A j \in Ids, g \in Fields : Settled(j, g)' <=> Settled(j, g) \/ (j = i /\ g = f),
         ~Settled(i, f)
  PROVE  Owners'
<1>1. Allocated'
  BY DEF Owners, Allocated
<1>2. Reachable'
  <2> SUFFICES ASSUME NEW b \in heap' PROVE \E j \in Ids, g \in Fields : Settled(j, g)' /\ msg'[j].ptr[g] = b
    BY DEF Reachable
  <2>1. CASE b = new
    BY <2>1
  <2>2. CASE b # new
    <3>1. PICK j \in Ids, g \in Fields : Settled(j, g) /\ msg[j].ptr[g] = b
      BY <2>2 DEF Owners, Reachable
    <3> QED
      BY <3>1
  <2> QED
    BY <2>1, <2>2
<1>3. OneEach'
  <2> SUFFICES ASSUME NEW j \in Ids, NEW k \in Ids, NEW g \in Fields, NEW h \in Fields,
                      Settled(j, g)', Settled(k, h)', msg'[j].ptr[g] # NULL, msg'[j].ptr[g] = msg'[k].ptr[h]
               PROVE  j = k /\ g = h
    BY DEF OneEach
  <2>1. CASE (j # i \/ g # f) /\ (k # i \/ h # f)
    BY <2>1 DEF Owners, OneEach
  <2>2. CASE j = i /\ g = f /\ (k # i \/ h # f)
    BY <2>2 DEF Owners, Allocated
  <2>3. CASE (j # i \/ g # f) /\ k = i /\ h = f
    BY <2>3 DEF Owners, Allocated
  <2> QED
    BY <2>1, <2>2, <2>3
<1>4. Emptied'
  BY DEF Owners, Emptied
<1> QED
  BY <1>1, <1>2, <1>3, <1>4 DEF Owners

(* msg_free frees the strings of one message, and nothing else.              *)
LEMMA FreeFrees ==
  ASSUME Owners, NEW i \in Ids, \A f \in Fields : Settled(i, f),
         heap' = heap \ {msg[i].ptr[f] : f \in Fields},
         \A f \in Fields : msg'[i].ptr[f] = NULL,
         \A j \in Ids \ {i} : msg'[j] = msg[j],
         \A j \in Ids, g \in Fields : Settled(j, g)' <=> Settled(j, g)
  PROVE  Owners'
<1>1. Allocated'
  <2> SUFFICES ASSUME NEW j \in Ids, NEW g \in Fields, Settled(j, g)', msg'[j].ptr[g] # NULL
               PROVE  msg'[j].ptr[g] \in heap'
    BY DEF Allocated
  <2>1. j # i /\ msg'[j].ptr[g] = msg[j].ptr[g]
    OBVIOUS
  <2>2. msg[j].ptr[g] \in heap
    BY <2>1 DEF Owners, Allocated
  <2>3. \A f \in Fields : msg[i].ptr[f] # msg[j].ptr[g]
    BY <2>1 DEF Owners, OneEach
  <2> QED
    BY <2>1, <2>2, <2>3
<1>2. Reachable'
  <2> SUFFICES ASSUME NEW b \in heap' PROVE \E j \in Ids, g \in Fields : Settled(j, g)' /\ msg'[j].ptr[g] = b
    BY DEF Reachable
  <2>1. PICK j \in Ids, g \in Fields : Settled(j, g) /\ msg[j].ptr[g] = b
    BY DEF Owners, Reachable
  <2>2. j # i
    BY <2>1
  <2> QED
    BY <2>1, <2>2
<1>3. OneEach'
  BY DEF Owners, OneEach
<1>4. Emptied'
  BY DEF Owners, Emptied
<1> QED
  BY <1>1, <1>2, <1>3, <1>4 DEF Owners

(* What a thread that builds or sets relies on, through others' steps.       *)
LEMMA RefersStays ==
  ASSUME NEW u \in Threads, Refers(u), pc'[u] = pc[u],
         \A j \in Ids : held[u][j] > 0 => held'[u][j] > 0,
         pc[u].at \in {"build", "set"} => pc[u].id \in Ids /\ pc[u].from \in Ids \cup {NULL},
         pc[u].at \in {"build", "set"} /\ pc[u].left # {} =>
           /\ \A v \in Threads \ {u} : held'[v][pc[u].id] = held[v][pc[u].id]
           /\ \A f \in pc[u].left : msg'[pc[u].id].ptr[f] \in {msg[pc[u].id].ptr[f], NULL}
  PROVE  Refers(u)'
  BY DEF Refers, Private

LEMMA MakeStrings ==
  ASSUME Typed, CountsAgree, StringsAgree, NEW t \in Threads, MakeStep(t)
  PROVE  ~harm' /\ StringsAgree'
<1>1. PICK i \in Ids, from \in Ids \cup {NULL}, left \in SUBSET Fields :
        Make(t, i, from, left) /\ (from # NULL => held[t][from] > 0)
  BY MakeStepEffect
<1>2. ~msg[i].live /\ pc[t].at = "idle"
  BY <1>1, MakeStepEffect, MakeEffect
<1>3. /\ msg' \in [Ids -> Messages] /\ msg'[i].live = TRUE /\ \A f \in Fields : msg'[i].ptr[f] = NULL
      /\ pc'[t].at \in {"idle", "build"}
      /\ pc'[t].at = "build" => pc'[t].id = i /\ pc'[t].from = from /\ pc'[t].left = left
  <2>1. msg' \in [Ids -> Messages] /\ msg'[i].live = TRUE
    BY <1>1, MakeEffect
  <2>2. \A f \in Fields : msg'[i].ptr[f] = NULL
    <3>1. msg'[i] = [live |-> TRUE, refcount |-> 1, ptr |-> NoStrings]
      BY <1>1 DEF Make, Typed
    <3> QED
      BY <3>1, NoStringsThere
  <2>3. pc'[t].at \in {"idle", "build"}
    BY <1>1, MakeEffect
  <2>4. pc'[t].at = "build" => pc'[t].id = i /\ pc'[t].from = from /\ pc'[t].left = left
    <3>1. pc'[t] = IF left = {} THEN Idle ELSE Builder(i, from, left)
      BY <1>1 DEF Make, Typed
    <3> QED
      BY <3>1, IdleIsShaped, BuilderIsShaped
  <2> QED
    BY <2>1, <2>2, <2>3, <2>4
<1>4. /\ heap' = heap
      /\ \A j \in Ids \ {i} : msg'[j] = msg[j]
      /\ held'[t][i] = held[t][i] + 1
      /\ \A u \in Threads, j \in Ids : u # t \/ j # i => held'[u][j] = held[u][j]
      /\ \A u \in Threads \ {t} : pc'[u] = pc[u]
  BY <1>1 DEF Make, Typed
<1>5. \A u \in Threads : held[u][i] = 0
  <2>1. \A u \in Threads : ~(held[u][i] > 0) /\ held[u][i] \in Nat
    BY <1>2, HolderIsServed, Parts
  <2> QED
    BY <2>1
<1>6. ~harm'
  BY MakeStepEffect, HolderIsServed
<1>7. Owners'
  <2>1. \A j \in Ids, f \in Fields : msg'[j].ptr[f] = msg[j].ptr[f]
    BY <1>2, <1>3, <1>4 DEF StringsAgree, Owners, Emptied
  <2>2. \A j \in Ids : msg[j].live => msg'[j].live
    BY <1>2, <1>4
  <2>3. \A j, f : Settled(j, f)' <=> Settled(j, f)
    BY <1>2, <1>3, <1>4, SettledStays
  <2> QED
    BY <1>4, <2>1, <2>2, <2>3, OwnersStay DEF StringsAgree
<1>8. ASSUME NEW u \in Threads PROVE Refers(u)'
  <2>1. CASE u = t
    <3>1. ASSUME pc'[t].at = "build" PROVE /\ held'[t][i] > 0
                                           /\ from # NULL => held'[t][from] > 0
                                           /\ left \subseteq Fields
                                           /\ \A v \in Threads \ {t} : held'[v][i] = 0
      BY <1>1, <1>4, <1>5
    <3> QED
      BY <1>3, <2>1, <3>1 DEF Refers, Private
  <2>2. CASE u # t
    <3>1. pc'[u] = pc[u] /\ \A j \in Ids : held[u][j] > 0 => held'[u][j] > 0
      BY <1>4, <2>2
    <3>2. Refers(u)
      BY DEF StringsAgree
    <3>3. pc[u].at \in {"build", "set"} => /\ pc[u].id \in Ids /\ pc[u].from \in Ids \cup {NULL}
                                           /\ pc[u].id # i /\ pc[u].left \subseteq Fields
      BY <1>5, <3>2, Where DEF Shaped, Refers
    <3>4. pc[u].at \in {"build", "set"} =>
            /\ \A v \in Threads : held'[v][pc[u].id] = held[v][pc[u].id]
            /\ msg'[pc[u].id] = msg[pc[u].id]
      BY <1>4, <3>3
    <3> QED
      BY <3>1, <3>2, <3>3, <3>4, RefersStays
  <2> QED
    BY <2>1, <2>2
<1> QED
  BY <1>6, <1>7, <1>8 DEF StringsAgree

LEMMA ReadStrings ==
  ASSUME Typed, CountsAgree, StringsAgree, ~Clashing, ~harm, NEW t \in Threads, ReadStep(t)
  PROVE  ~harm' /\ StringsAgree'
<1>1. /\ pc[t].at \in {"idle", "read"} /\ pc'[t].at \in {"idle", "read"}
      /\ \A u \in Threads \ {t} : pc'[u] = pc[u]
      /\ msg' = msg /\ heap' = heap /\ held' = held
  BY ReadEffect
<1>2. ~harm'
  <2>1. ~Dangles(pc[t].src)
    BY CurrentIsAllocated DEF Dangles, StringsAgree, Owners
  <2> QED
    BY <2>1, ReadEffect, HolderIsServed
<1>3. Owners'
  <2>1. \A j, f : Settled(j, f)' <=> Settled(j, f)
    BY <1>1, SettledStays
  <2> QED
    BY <1>1, <2>1, OwnersStay DEF StringsAgree
<1>4. ASSUME NEW u \in Threads PROVE Refers(u)'
  <2>1. CASE u = t
    BY <1>1, <2>1 DEF Refers
  <2>2. CASE u # t
    BY <1>1, <2>2 DEF StringsAgree, Refers, Private
  <2> QED
    BY <2>1, <2>2
<1> QED
  BY <1>2, <1>3, <1>4 DEF StringsAgree

LEMMA FillStrings ==
  ASSUME Typed, CountsAgree, StringsAgree, NEW t \in Threads, NEW f \in Fields,
         NEW src \in Blocks \cup {NULL, Outside}, Fill(t, f, src)
  PROVE  ~harm' /\ StringsAgree'
<1>1. PICK i : i = pc[t].id
  OBVIOUS
<1>2. /\ pc[t].at = "build" /\ f \in pc[t].left /\ i \in Ids
      /\ \A u \in Threads \ {t} : pc'[u] = pc[u]
      /\ pc'[t].at = "set" /\ pc'[t].id = i /\ pc'[t].field = f
      /\ pc'[t].from = pc[t].from /\ pc'[t].left = pc[t].left \ {f}
      /\ harm' = (pc[t].from # NULL /\ ~msg[pc[t].from].live)
      /\ msg' = msg /\ heap' = heap /\ held' = held
  BY <1>1, FillEffect
<1>3. /\ held[t][i] > 0 /\ (pc[t].from # NULL => held[t][pc[t].from] > 0)
      /\ Private(t)
  BY <1>1, <1>2 DEF StringsAgree, Refers
<1>4. pc[t].from \in Ids \cup {NULL} /\ NULL \notin heap
  BY Where, Apart DEF Typed
<1>5. ~harm'
  BY <1>2, <1>3, <1>4, HolderIsServed
<1>6. Owners'
  <2>1. msg[i].ptr[f] = NULL /\ heap' = heap \ {msg[i].ptr[f]}
    BY <1>1, <1>2, <1>3, <1>4 DEF Private
  <2>2. Settled(i, f)
    <3>1. ~Setting(t, i, f)
      BY <1>2 DEF Setting
    <3>2. ASSUME NEW u \in Threads \ {t} PROVE ~Setting(u, i, f)
      <4>1. held[u][i] = 0
        BY <1>1, <1>3 DEF Private
      <4> QED
        BY <4>1 DEF StringsAgree, Refers, Setting
    <3> QED
      BY <3>1, <3>2 DEF Settled
  <2>3. \A j \in Ids, g \in Fields : Settled(j, g)' <=> Settled(j, g) /\ (j # i \/ g # f)
    <3>1. \A u \in Threads \ {t} : \A j, g : Setting(u, j, g)' <=> Setting(u, j, g)
      BY <1>2 DEF Setting
    <3>2. \A j, g : ~Setting(t, j, g) /\ (Setting(t, j, g)' <=> j = i /\ g = f)
      BY <1>2 DEF Setting
    <3> QED
      BY <3>1, <3>2 DEF Settled
  <2> QED
    BY <1>2, <1>4, <2>1, <2>2, <2>3, SetterFrees DEF StringsAgree
<1>7. ASSUME NEW u \in Threads PROVE Refers(u)'
  <2>1. CASE u = t
    BY <1>1, <1>2, <1>3, <2>1 DEF Refers, Private
  <2>2. CASE u # t
    BY <1>2, <2>2 DEF StringsAgree, Refers, Private
  <2> QED
    BY <2>1, <2>2
<1> QED
  BY <1>5, <1>6, <1>7 DEF StringsAgree

LEMMA SetStrStrings ==
  ASSUME Typed, CountsAgree, StringsAgree, ~Clashing', NEW t \in Threads, NEW i \in Ids, NEW f \in Fields,
         NEW src \in Sources, SetStr(t, i, f, src)
  PROVE  ~harm' /\ StringsAgree'
<1>1. /\ pc[t].at = "idle" /\ held[t][i] > 0
      /\ \A u \in Threads \ {t} : pc'[u] = pc[u]
      /\ pc'[t].at = "set" /\ pc'[t].id = i /\ pc'[t].field = f
      /\ pc'[t].from = NULL /\ pc'[t].left = {}
      /\ heap' = heap \ {msg[i].ptr[f]}
      /\ harm' = (~msg[i].live \/ Dangles(msg[i].ptr[f]))
      /\ msg' = msg /\ held' = held
  BY SetStrEffect
<1>2. \A u \in Threads \ {t} : \A j, g : Setting(u, j, g)' <=> Setting(u, j, g)
  BY <1>1 DEF Setting
<1>3. \A j, g : ~Setting(t, j, g) /\ (Setting(t, j, g)' <=> j = i /\ g = f)
  BY <1>1 DEF Setting
<1>4. Settled(i, f)
  <2>1. ASSUME NEW u \in Threads \ {t} PROVE ~Setting(u, i, f)
    <3>1. ~Setting(u, i, f)'
      BY <1>1 DEF Clashing
    <3> QED
      BY <1>2, <3>1
  <2> QED
    BY <1>3, <2>1 DEF Settled
<1>5. NULL \notin heap /\ msg[i].ptr[f] \in Blocks \cup {NULL}
  BY Apart, Parts DEF Typed
<1>6. ~harm'
  <2>1. msg[i].live
    BY <1>1, HolderIsServed
  <2>2. ~Dangles(msg[i].ptr[f])
    BY <1>4, Apart DEF StringsAgree, Owners, Allocated, Dangles
  <2> QED
    BY <1>1, <2>1, <2>2
<1>7. Owners'
  <2>1. \A j \in Ids, g \in Fields : Settled(j, g)' <=> Settled(j, g) /\ (j # i \/ g # f)
    BY <1>2, <1>3 DEF Settled
  <2> QED
    BY <1>1, <1>4, <1>5, <2>1, SetterFrees DEF StringsAgree
<1>8. ASSUME NEW u \in Threads PROVE Refers(u)'
  <2>1. CASE u = t
    BY <1>1, <2>1 DEF Refers
  <2>2. CASE u # t
    BY <1>1, <2>2 DEF StringsAgree, Refers, Private
  <2> QED
    BY <2>1, <2>2
<1> QED
  BY <1>6, <1>7, <1>8 DEF StringsAgree

LEMMA StoreStrings ==
  ASSUME Typed, CountsAgree, StringsAgree, ~Clashing, NEW t \in Threads, Store(t)
  PROVE  ~harm' /\ StringsAgree'
<1>1. PICK i, f : i = pc[t].id /\ f = pc[t].field
  OBVIOUS
<1>2. /\ pc[t].at = "set" /\ i \in Ids /\ f \in Fields /\ f \notin pc[t].left
      /\ \A u \in Threads \ {t} : pc'[u] = pc[u]
      /\ pc'[t].at \in {"idle", "build"}
      /\ pc'[t].at = "build" => pc'[t].id = i /\ pc'[t].from = pc[t].from /\ pc'[t].left = pc[t].left
      /\ \A j \in Ids : msg'[j].live = msg[j].live
      /\ \A j \in Ids, g \in Fields : j # i \/ g # f => msg'[j].ptr[g] = msg[j].ptr[g]
      /\ harm' = (~msg[i].live \/ Dangles(pc[t].src))
      /\ held' = held
  BY <1>1, StoreEffect
<1>3. PICK new \in Blocks \cup {NULL} : /\ new \notin heap /\ heap' = heap \cup ({new} \ {NULL})
                                        /\ msg'[i].ptr[f] = new
  BY <1>1, StoreEffect
<1>4. Refers(t) /\ held[t][i] > 0 /\ msg[i].live
  <2>1. Refers(t) /\ held[t][i] > 0
    BY <1>1, <1>2 DEF StringsAgree, Refers
  <2> QED
    BY <1>2, <2>1, HolderIsServed
<1>5. ~harm'
  <2>1. ~Dangles(pc[t].src)
    BY CurrentIsAllocated DEF Dangles, StringsAgree, Owners
  <2> QED
    BY <1>2, <1>4, <2>1
<1>6. Owners'
  <2>1. \A u \in Threads \ {t} : \A j, g : Setting(u, j, g)' <=> Setting(u, j, g)
    BY <1>2 DEF Setting
  <2>2. \A j, g : ~Setting(t, j, g)' /\ (Setting(t, j, g) <=> j = i /\ g = f)
    BY <1>1, <1>2 DEF Setting
  <2>3. \A u \in Threads \ {t} : ~Setting(u, i, f)
    BY <1>1, <1>2, OneSetter
  <2>4. ~Settled(i, f)
    BY <2>2 DEF Settled
  <2>5. \A j \in Ids, g \in Fields : Settled(j, g)' <=> Settled(j, g) \/ (j = i /\ g = f)
    BY <2>1, <2>2, <2>3 DEF Settled
  <2> QED
    BY <1>2, <1>3, <1>4, <2>4, <2>5, SetterStores DEF StringsAgree
<1>7. ASSUME NEW u \in Threads PROVE Refers(u)'
  <2>1. CASE u = t
    <3>1. ASSUME pc'[t].at = "build", pc[t].left # {}
          PROVE  /\ \A v \in Threads \ {t} : held'[v][i] = 0
                 /\ \A g \in pc[t].left : msg'[i].ptr[g] = NULL
      <4>1. Private(t) /\ pc[t].left \subseteq Fields
        BY <1>2, <1>4, <3>1, Where DEF Refers
      <4> QED
        BY <1>1, <1>2, <4>1 DEF Private
    <3>2. pc'[t].at = "build" => held'[t][i] > 0 /\ (pc[t].from # NULL => held'[t][pc[t].from] > 0)
      BY <1>1, <1>2, <1>4 DEF Refers
    <3> QED
      BY <1>2, <2>1, <3>1, <3>2 DEF Refers, Private
  <2>2. CASE u # t
    <3>1. Refers(u)
      BY DEF StringsAgree
    <3>2. pc[u].at \in {"build", "set"} => /\ pc[u].id \in Ids /\ pc[u].from \in Ids \cup {NULL}
                                           /\ pc[u].left \subseteq Fields
      BY Where DEF Shaped
    <3>3. pc[u].at \in {"build", "set"} /\ pc[u].left # {} => i # pc[u].id
      BY <1>4, <2>2, <3>1, OutOfReach
    <3>4. pc[u].at \in {"build", "set"} /\ pc[u].left # {} =>
            \A g \in pc[u].left : msg'[pc[u].id].ptr[g] = msg[pc[u].id].ptr[g]
      BY <1>2, <3>2, <3>3
    <3> QED
      BY <1>2, <2>2, <3>1, <3>2, <3>4, RefersStays
  <2> QED
    BY <2>1, <2>2
<1> QED
  BY <1>5, <1>6, <1>7 DEF StringsAgree

LEMMA LoadStrings ==
  ASSUME Typed, CountsAgree, StringsAgree, NEW t \in Threads, NEW i \in Ids, NEW op \in {"ref", "unref"},
         Load(t, i, op)
  PROVE  ~harm' /\ StringsAgree'
<1>1. /\ pc[t].at = "idle" /\ held[t][i] > 0 /\ pc'[t].at = op
      /\ \A u \in Threads \ {t} : pc'[u] = pc[u]
      /\ \A u \in Threads, j \in Ids : u # t \/ j # i => held'[u][j] = held[u][j]
      /\ harm' = ~msg[i].live /\ msg' = msg /\ heap' = heap
  BY LoadEffect
<1>2. ~harm'
  BY <1>1, HolderIsServed
<1>3. Owners'
  <2>1. \A j, f : Settled(j, f)' <=> Settled(j, f)
    BY <1>1, SettledStays
  <2> QED
    BY <1>1, <2>1, OwnersStay DEF StringsAgree
<1>4. ASSUME NEW u \in Threads PROVE Refers(u)'
  <2>1. CASE u = t
    BY <1>1, <2>1 DEF Refers
  <2>2. CASE u # t
    <3>1. Refers(u)
      BY DEF StringsAgree
    <3>2. pc[u].at \in {"build", "set"} => pc[u].id \in Ids /\ pc[u].from \in Ids \cup {NULL}
      BY Where DEF Shaped
    <3>3. pc[u].at \in {"build", "set"} /\ pc[u].left # {} => i # pc[u].id
      BY <1>1, <2>2, <3>1, OutOfReach
    <3> QED
      BY <1>1, <2>2, <3>1, <3>2, <3>3, RefersStays
  <2> QED
    BY <2>1, <2>2
<1> QED
  BY <1>2, <1>3, <1>4 DEF StringsAgree

LEMMA StoreRefStrings ==
  ASSUME Typed, CountsAgree, StringsAgree, NEW t \in Threads, StoreRef(t)
  PROVE  ~harm' /\ StringsAgree'
<1>1. PICK i : i = pc[t].id
  OBVIOUS
<1>2. /\ pc[t].at = "ref" /\ i \in Ids /\ pc'[t] = Idle
      /\ \A u \in Threads \ {t} : pc'[u] = pc[u]
      /\ \A j \in Ids : msg'[j].live = msg[j].live /\ msg'[j].ptr = msg[j].ptr
      /\ held'[t][i] = held[t][i] + 1
      /\ \A u \in Threads, j \in Ids : u # t \/ j # i => held'[u][j] = held[u][j]
      /\ harm' = ~msg[i].live /\ heap' = heap
  BY <1>1, StoreRefEffect
<1>3. msg[i].live /\ held[t][i] > 0
  BY <1>1, <1>2, CounterKnows DEF Counts, CountsAgree, Alone
<1>4. Owners'
  <2>1. \A j, f : Settled(j, f)' <=> Settled(j, f)
    BY <1>2, IdleIsShaped, SettledStays
  <2> QED
    BY <1>2, <2>1, OwnersStay DEF StringsAgree
<1>5. ASSUME NEW u \in Threads PROVE Refers(u)'
  <2>1. CASE u = t
    BY <1>2, <2>1, IdleIsShaped DEF Refers
  <2>2. CASE u # t
    <3>1. Refers(u)
      BY DEF StringsAgree
    <3>2. pc[u].at \in {"build", "set"} => pc[u].id \in Ids /\ pc[u].from \in Ids \cup {NULL}
      BY Where DEF Shaped
    <3>3. pc[u].at \in {"build", "set"} /\ pc[u].left # {} => i # pc[u].id
      BY <1>3, <2>2, <3>1, OutOfReach
    <3> QED
      BY <1>2, <2>2, <3>1, <3>2, <3>3, RefersStays
  <2> QED
    BY <2>1, <2>2
<1> QED
  BY <1>2, <1>3, <1>4, <1>5 DEF StringsAgree

(* Where the last reference goes nobody is left who could be setting a       *)
(* string of the message, so that msg_free has them all.                     *)
LEMMA StoreUnrefStrings ==
  ASSUME Typed, CountsAgree, StringsAgree, CountsAgree', NEW t \in Threads, StoreUnref(t)
  PROVE  ~harm' /\ StringsAgree'
<1>1. PICK i, count : i = pc[t].id /\ count = pc[t].count - 1
  OBVIOUS
<1>2. /\ pc[t].at = "unref" /\ i \in Ids /\ pc'[t] = Idle
      /\ \A u \in Threads \ {t} : pc'[u] = pc[u]
      /\ \A j \in Ids \ {i} : msg'[j] = msg[j]
      /\ held' = held
  BY <1>1, StoreUnrefEffect
<1>3. ~LastReference(count) => /\ harm' = ~msg[i].live /\ heap' = heap
                               /\ msg'[i].live = msg[i].live /\ msg'[i].ptr = msg[i].ptr
  BY <1>1, StoreUnrefEffect
<1>4. ASSUME LastReference(count)
      PROVE  /\ harm' = (~msg[i].live \/ \E f \in Fields : Dangles(msg[i].ptr[f]))
             /\ heap' = heap \ {msg[i].ptr[f] : f \in Fields}
             /\ msg'[i].live = FALSE
             /\ \A f \in Fields : msg'[i].ptr[f] = NULL
  <2>1. /\ harm' = (~msg[i].live \/ \E f \in Fields : Dangles(msg[i].ptr[f]))
        /\ heap' = heap \ {msg[i].ptr[f] : f \in Fields}
        /\ msg' = [msg EXCEPT ![i] = [live |-> FALSE, refcount |-> count, ptr |-> NoStrings]]
    BY <1>1, <1>4 DEF StoreUnref
  <2>2. msg'[i] = [live |-> FALSE, refcount |-> count, ptr |-> NoStrings]
    BY <1>2, <2>1 DEF Typed
  <2>3. msg'[i].live = FALSE /\ msg'[i].ptr = NoStrings
    BY <2>2
  <2> QED
    BY <2>1, <2>3, NoStringsThere
<1>5. msg[i].live
  BY <1>1, <1>2, CounterKnows DEF Counts
<1>6. \A j, f : Settled(j, f)' <=> Settled(j, f)
  BY <1>2, IdleIsShaped, SettledStays
<1>7. ASSUME ~LastReference(count) PROVE ~harm' /\ Owners'
  <2>1. \A j \in Ids, f \in Fields : msg'[j].ptr[f] = msg[j].ptr[f]
    BY <1>2, <1>3, <1>7
  <2>2. \A j \in Ids : msg[j].live => msg'[j].live
    BY <1>2, <1>3, <1>7
  <2>3. Owners'
    BY <1>3, <1>6, <1>7, <2>1, <2>2, OwnersStay DEF StringsAgree
  <2> QED
    BY <1>3, <1>5, <1>7, <2>3
<1>8. ASSUME LastReference(count) PROVE ~harm' /\ Owners'
  <2>1. \A u \in Threads : ~(held[u][i] > 0)
    <3>1. References(i)' = {}
      BY <1>2, <1>4, <1>8 DEF CountsAgree, Counted
    <3>2. ASSUME NEW u \in Threads PROVE ~(held[u][i] > 0)
      <4>1. \A r : r \in References(i)' <=> \E v \in Threads : \E k \in NumbersOf(v, i)' : r = <<v, k>>
        BY DEF References
      <4>2. \A k : k \notin NumbersOf(u, i)'
        BY <3>1, <4>1
      <4>3. held[u][i] \in Nat
        BY <1>2, Parts
      <4> QED
        BY <1>2, <4>2, <4>3 DEF NumbersOf
    <3> QED
      BY <3>2
  <2>2. \A f \in Fields : Settled(i, f)
    BY <2>1 DEF StringsAgree, Refers, Settled, Setting
  <2>3. \A f \in Fields : ~Dangles(msg[i].ptr[f])
    BY <1>2, <2>2, Apart DEF StringsAgree, Owners, Allocated, Dangles
  <2>4. ~harm'
    BY <1>4, <1>5, <1>8, <2>3
  <2>5. Owners'
    BY <1>2, <1>4, <1>6, <1>8, <2>2, FreeFrees DEF StringsAgree
  <2> QED
    BY <2>4, <2>5
<1>9. ASSUME NEW u \in Threads PROVE Refers(u)'
  <2>1. CASE u = t
    BY <1>2, <2>1, IdleIsShaped DEF Refers
  <2>2. CASE u # t
    <3>1. Refers(u)
      BY DEF StringsAgree
    <3>2. pc[u].at \in {"build", "set"} => /\ pc[u].id \in Ids /\ pc[u].from \in Ids \cup {NULL}
                                           /\ pc[u].left \subseteq Fields
      BY Where DEF Shaped
    <3>3. \A j \in Ids, f \in Fields : msg'[j].ptr[f] \in {msg[j].ptr[f], NULL}
      BY <1>2, <1>3, <1>4
    <3> QED
      BY <1>2, <2>2, <3>1, <3>2, <3>3, RefersStays
  <2> QED
    BY <2>1, <2>2
<1> QED
  BY <1>7, <1>8, <1>9 DEF StringsAgree

LEMMA GiveStrings ==
  ASSUME Typed, CountsAgree, StringsAgree, ~harm, NEW t \in Threads, NEW u \in Threads, NEW i \in Ids,
         Give(t, u, i)
  PROVE  ~harm' /\ StringsAgree'
<1>1. /\ t # u /\ pc[t].at = "idle" /\ held[t][i] > 0
      /\ held'[u][i] = held[u][i] + 1
      /\ \A v \in Threads, j \in Ids : v \notin {t, u} \/ j # i => held'[v][j] = held[v][j]
      /\ msg' = msg /\ heap' = heap /\ pc' = pc /\ harm' = harm
  BY GiveEffect
<1>2. Owners'
  <2>1. \A j, f : Settled(j, f)' <=> Settled(j, f)
    BY <1>1 DEF Settled, Setting
  <2> QED
    BY <1>1, <2>1, OwnersStay DEF StringsAgree
<1>3. ASSUME NEW v \in Threads PROVE Refers(v)'
  <2>1. CASE v = t
    BY <1>1, <2>1 DEF Refers
  <2>2. CASE v # t
    <3>1. Refers(v)
      BY DEF StringsAgree
    <3>2. pc[v].at \in {"build", "set"} => pc[v].id \in Ids /\ pc[v].from \in Ids \cup {NULL}
      BY Where DEF Shaped
    <3>3. pc[v].at \in {"build", "set"} /\ pc[v].left # {} => i # pc[v].id
      BY <1>1, <2>2, <3>1, OutOfReach
    <3>4. \A j \in Ids : held[v][j] > 0 => held'[v][j] > 0
      <4>1. \A j \in Ids : held[v][j] \in Nat
        BY Parts
      <4> QED
        BY <1>1, <2>2, <4>1
    <3>5. \A w \in Threads, j \in Ids : j # i => held'[w][j] = held[w][j]
      BY <1>1
    <3> QED
      BY <1>1, <3>1, <3>2, <3>3, <3>4, <3>5, RefersStays
  <2> QED
    BY <2>1, <2>2
<1> QED
  BY <1>1, <1>2, <1>3 DEF StringsAgree

(* A step by the rules does no harm and leaves each string its owner.        *)
LEMMA StringsStep ==
  ASSUME Typed, CountsAgree, StringsAgree, ~Clashing, ~harm, Next, ~raced', ~Clashing'
  PROVE  ~harm' /\ StringsAgree'
<1>1. PICK t \in Threads :
        \/ MakeStep(t) \/ ReadStep(t) \/ Store(t) \/ StoreRef(t) \/ StoreUnref(t)
        \/ \E f \in Fields, src \in Blocks \cup {NULL, Outside} : Fill(t, f, src)
        \/ \E i \in Ids, f \in Fields, src \in Sources : SetStr(t, i, f, src)
        \/ \E i \in Ids, op \in {"ref", "unref"} : Load(t, i, op)
        \/ \E u \in Threads, i \in Ids : Give(t, u, i)
  BY Cases
<1>2. CountsAgree'
  BY CountsStep
<1> QED
  BY <1>1, <1>2, MakeStrings, ReadStrings, StoreStrings, StoreRefStrings, StoreUnrefStrings, FillStrings,
     SetStrStrings, LoadStrings, GiveStrings

------------------------------------------------------------------------------
LEMMA Initially == Init => IInv
<1> SUFFICES ASSUME Init PROVE IInv
  OBVIOUS
<1>1. Typed
  <2>1. [live |-> FALSE, refcount |-> 0, ptr |-> NoStrings] \in Messages
    BY NoStringsThere DEF Messages
  <2>2. msg \in [Ids -> Messages] /\ heap \subseteq Blocks /\ given \subseteq Blocks
    BY <2>1 DEF Init
  <2>3. held \in [Threads -> [Ids -> Nat]] /\ pc \in [Threads -> ShapedCalls]
    BY IdleIsShaped DEF Init
  <2> QED
    BY <2>2, <2>3 DEF Init, Typed
<1>2. \A t \in Threads : pc[t].at = "idle" /\ pc[t].src = NULL
  BY IdleIsShaped DEF Init
<1>3. CountsAgree
  <2>1. \A i \in Ids, t \in Threads : NumbersOf(t, i) = {}
    BY <1>2 DEF Init, NumbersOf, Releasing
  <2>2. \A i \in Ids : References(i) = {}
    BY <2>1 DEF References
  <2>3. \A i \in Ids : Counted(i)
    BY <2>2, FS_EmptySet DEF Counted, Init
  <2> QED
    BY <1>2, <2>3 DEF CountsAgree, Alone, Counts
<1>4. StringsAgree
  <2>1. \A i \in Ids, f \in Fields : msg[i].ptr[f] = NULL
    BY NoStringsThere DEF Init
  <2>2. Owners
    BY <2>1 DEF Owners, Allocated, Reachable, OneEach, Emptied, Init
  <2> QED
    BY <1>2, <2>2 DEF StringsAgree, Refers
<1>5. ~Clashing
  BY <1>2, Apart DEF Clashing
<1> QED
  BY <1>1, <1>3, <1>4, <1>5 DEF IInv, Init, SafeByTheRules

LEMMA StepKeeps == IInv /\ [Next]_vars => IInv'
<1> SUFFICES ASSUME IInv, [Next]_vars PROVE IInv'
  OBVIOUS
<1>1. CASE UNCHANGED vars
  <2>1. Typed' <=> Typed
    BY <1>1 DEF vars, Typed
  <2>2. CountsAgree' <=> CountsAgree
    BY <1>1 DEF vars, CountsAgree, Alone, Counts, Counted, References, NumbersOf, Releasing
  <2>3. StringsAgree' <=> StringsAgree
    BY <1>1 DEF vars, StringsAgree, Refers, Private, Owners, Allocated, Reachable, OneEach, Emptied,
                Settled, Setting
  <2>4. Clashing' <=> Clashing
    BY <1>1 DEF vars, Clashing, Current, Settled, Setting
  <2> QED
    BY <1>1, <2>1, <2>2, <2>3, <2>4 DEF vars, IInv, Calm, Ruled, SafeByTheRules
<1>2. CASE Next
  <2>1. Typed /\ Typed' /\ clashed' = (clashed \/ Clashing')
    BY <1>2, TypedStep, Cases DEF IInv, Notes
  <2>2. ~harm /\ (raced => raced')
    <3>1. PICK t \in Threads :
            \/ MakeStep(t) \/ ReadStep(t) \/ Store(t) \/ StoreRef(t) \/ StoreUnref(t)
            \/ \E f \in Fields, src \in Blocks \cup {NULL, Outside} : Fill(t, f, src)
            \/ \E i \in Ids, f \in Fields, src \in Sources : SetStr(t, i, f, src)
            \/ \E i \in Ids, op \in {"ref", "unref"} : Load(t, i, op)
            \/ \E u \in Threads, i \in Ids : Give(t, u, i)
      BY <1>2, Cases
    <3>2. ~harm
      BY <2>1, <3>1, MakeStepEffect, ReadEffect DEF Store, StoreRef, StoreUnref, Fill, SetStr, Load, Give, Enters
    <3>3. raced => raced'
      BY <2>1, <3>1, MakeStepEffect, ReadEffect DEF Make, Store, StoreRef, StoreUnref, Fill, SetStr, Load, Give
    <3> QED
      BY <3>2, <3>3
  <2>3. ~raced' => CountsAgree'
    BY <1>2, <2>1, <2>2, CountsStep DEF IInv, Calm
  <2>4. ~raced' /\ ~clashed' => ~harm' /\ StringsAgree'
    BY <1>2, <2>1, <2>2, StringsStep DEF IInv, Calm, Ruled
  <2> QED
    BY <2>1, <2>3, <2>4 DEF IInv, Calm, Ruled, SafeByTheRules
<1> QED
  BY <1>1, <1>2

(* The inductive invariant: counts and references agree as long as no two    *)
(* threads count one message at once, fields and allocated strings as long   *)
(* as the rule about strings is kept as well.                                *)
THEOREM Invariance == Spec => []IInv
  BY Initially, StepKeeps, PTL DEF Spec

(* A message's count is the number of its references, and it lives just as   *)
(* long as it has one (676-685), unless two threads count it at once.        *)
THEOREM CountExact == Spec => []CountIsExact
<1>1. IInv => CountIsExact
  BY DEF IInv, CountsAgree, Counted, Calm, CountIsExact
<1> QED
  BY <1>1, Invariance, PTL

(* Each allocated string belongs to one field of one message that nobody is  *)
(* setting, through copies (656-674), the free and the store of a setter     *)
(* (691-694) and msg_free (597-606), while the callers keep the rules.       *)
THEOREM OneOwner == Spec => []StringsHaveOneOwner
<1>1. IInv => StringsHaveOneOwner
  <2> SUFFICES ASSUME Typed, Owners PROVE /\ heap = UNION {Owned(i) : i \in Ids}
                                          /\ OneEach
    BY DEF IInv, Ruled, Calm, StringsAgree, StringsHaveOneOwner, OneEach
  <2>1. \A i \in Ids : \A b : b \in Owned(i) <=> \E f \in Fields : Settled(i, f) /\ b = msg[i].ptr[f] /\ b # NULL
    BY DEF Owned
  <2>2. ASSUME NEW b \in heap PROVE \E i \in Ids : b \in Owned(i)
    <3>1. PICK i \in Ids, f \in Fields : Settled(i, f) /\ msg[i].ptr[f] = b
      BY DEF Owners, Reachable
    <3>2. b # NULL
      BY Apart DEF Typed
    <3> QED
      BY <2>1, <3>1, <3>2
  <2>3. ASSUME NEW i \in Ids, NEW b \in Owned(i) PROVE b \in heap
    BY <2>1 DEF Owners, Allocated
  <2>4. heap = UNION {Owned(i) : i \in Ids}
    BY <2>2, <2>3
  <2> QED
    BY <2>4 DEF Owners
<1> QED
  BY <1>1, Invariance, PTL

(* Freed memory is reached only after a rule was broken: two threads counted *)
(* one message at once, set one field at once, or used a pointer that was    *)
(* not, or not any more, that of a message they refer to.                    *)
THEOREM Safe == Spec => []SafeByTheRules
<1>1. IInv => SafeByTheRules
  BY DEF IInv
<1> QED
  BY <1>1, Invariance, PTL
====
